# Choirworks: a TLA+ verification project

Choirworks runs teams of A2A agents. A user writes to a conversation; an
orchestrator plans a DAG of tasks, dispatches them to remote agents, revises the
plan while they work, lets agents help each other and asks the user when nobody
else can. The repository holds two orchestrators: `src/src/choirworks` (the
product) and `src/src/new_choirworks` (its successor on a workflow engine).
Both are asyncio programs: one thread, and many coroutines that interleave at
every `await`. This is where they are hard to get right and hard to test, and it
is what the modules here are about.

All paths below are relative to the repository; `O/` stands for
`src/choirworks/orchestration/`, `N/` for `src/new_choirworks/`.

## 1. Inventory

| part | state it keeps | operations | interacts with |
|---|---|---|---|
| Plan state (`O/state.py`, `O/transitions.py`) | nodes with status, deps, attempts, helpers; interventions; queued messages; counters of derived nodes, patches, revisions | queries of the scheduler, status changes along a table, `start_new_plan` | everything below reads and writes it |
| Runner (`O/execution/runner.py`, `O/flows/plan.py`) | `node_tasks`, `settle_tasks`, `wake`, the `asyncio.Lock` of the conversation | `run_plan`: schedule, wait, reap, back off, `plan_flow` (wait, complete, repair, fail, stall) | creates node tasks and settlements; started by handlers |
| Node tasks (`O/execution/node_executor.py`, `O/flows/outcome.py`) | the `NodeState` they hold | run a remote task, apply its final status, revise the plan, post the output, spawn an assistance, deliver queued messages | write statuses **without** the lock |
| Settlement (`O/flows/settlement.py`, `O/hitl/assist.py`, `tools/ask_user.py`, `tools/call_subagent.py`) | one task per blocked node | adopt a helper's output, let a subagent decide, spawn a helper, ask the user | lock for the last act only |
| Messages (`O/flows/message.py`, `O/hitl/intervention.py`) | pending interventions | answer, deny, confirm a cancellation, quote, interrupt, new plan, reject, re-emit | hold the lock for the whole turn |
| Patches (`O/planning/patch.py`, `repair.py`, `derived.py`) | budgets | apply a patch with its cascade, ask for confirmations, spawn derived nodes | called by outcome, repair and messages |
| Planner and LLM agents (`O/planning/planner.py`, `core/planner.py`, `core/llm.py`, `core/agents/llm_agent.py`, `tools/create_plan.py`) | attempts, feedback, open artifacts | stream thought, text and tool calls, validate, retry with feedback, install the draft | under the lock of the message |
| A2A executor and sessions (`a2a/executor.py`, `O/session.py`) | the sessions by context | execute, cancel, ensure, evict | create and drop the runtime |
| Remote caller and client (`O/execution/remote_caller.py`, `a2a/client.py`) | `a2a_task_id`, output, the derived status | send, consume a stream, poll, subscribe again, recover | the remote agent; called by node tasks |
| History, rewind, store (`O/history.py`, `O/rewind.py`, `a2a/tasks.py`, `store/`, `api/conversations.py`) | messages, compaction state, stored artifacts, snapshots, rewind markers | record, compact, rebuild, persist, rewind | written by every other part |
| Recovery (`a2a/recovery.py`) | stored tasks and the state row | restore sessions after a restart | marks nodes RECOVER or resets them |
| DAG runtime (`N/orchestrator/*`) | plan, statuses, outputs, running tasks, completions to judge | `apply_plan`, dispatch, collect, judge, add assists, drain, shut down | a workflow of planner, executor, helper, done |
| Agents of the successor (`N/core/a2a`, `N/core/agents`, `N/core/events`, `N/core/sessions`, `N/a2a`) | events, artifact buffers, stored task | tool loop, streaming, aggregation, promotion of an answer, sessions from the store | run by a workflow node, locally or over A2A |
| Workflow engine (`N/core/workflow`) | trigger buffer, pending tasks, node statuses and outputs | validate a graph, seed, schedule, handle completions, join, fail, clean up | runs the orchestrator |
| others | registry, cards, rooms, HTTP views, prompts, provider options, replay, simulation, frontend | | data access, formatting, wiring |

What is hard, by part, and what makes the part correct:

* **Runner.** A node is redispatched while its previous task is in its tail; a
  task that raised is reaped after its node moved on; the lock is free between
  scheduling and `plan_flow`; a cancellation arrives with work in flight.
  Correct: a node starts only on delivered inputs and stays on them, one task
  works on a node, the limit on parallel tasks holds, a turn is reported
  completed only when nothing is unfinished, nothing is left behind, the runner
  comes to rest.
* **Node tasks and patches.** Statuses change without the lock, patches are
  decided on stale statuses. Correct: what is completed, cancelled or
  invalidated stays so; work in flight is never shown as idle.
* **Settlements and messages.** A decision takes an LLM call, during which the
  node, or the whole plan, may change. Correct: a pending question belongs to a
  node that waits for it; every message gets through.
* **DAG runtime.** The planner may answer with any plan: drop and re-add nodes
  that run, wait, are delivered or failed, while several tasks end. Correct:
  tasks and statuses stay in step, nothing delivered runs again, waiting nodes
  can be satisfied, the orchestration ends.
* **Workflow engine.** Several runs end before the loop resumes; a node may be
  triggered while it runs or while the limit holds it back; predecessors of a
  join end in any order. Correct: every trigger is served once and in order, the
  limit holds, a join fires once, and the orchestrator's nodes, which share a
  `DagRuntime` without a lock, never run beside each other.
* **Remote tasks and recovery.** A stream breaks at any chunk, a poll races with
  the completion, a timeout leaves a remote task at work, a restart falls
  between a dispatch and its record. Correct: a delivered node has the whole
  output of the task it names, no open task is lost, an answer is sent once, the
  node comes to rest.
* **History.** The live messages, their stored artifacts and a compaction of both
  are three accounts of one conversation, and a rewind cuts all of them.
  Correct: they agree, and no tool result is separated from its call.
* **Planner and LLM agents.** Attempts are streamed to the user while they may
  still fail. Correct: what is shown is what was said, attempts do not mix, every
  failure is told, only sound plans are launched.
* **Agents of the successor.** An answer reaches its node as local events, as a
  stream of updates or as one snapshot. Correct: the same answer on every way,
  failures raised as failures, every call answered, the stored task rebuilt
  exactly.
* **Sessions.** Two runtimes of one conversation, a runner that outlives its
  session. Not modelled (section 5).

`PROJECT.json` lists all components and, line by line, the hazards with the
properties that cover them.

## 2. Modules

| module | models | used by |
|---|---|---|
| `PlanState` | statuses, transition table, scheduler queries (`state.py`, `transitions.py`), cascade of a patch (`patch.py`) | `Session` |
| `PlanLifecycle` | abstract: the stages a node of a plan goes through, as its clients may rely on them | `Session` |
| `Session` | one conversation: runner, node tasks, settlements, handlers, lock | `SessionMC`, the proofs |
| `SessionMC` | plan shapes for TLC | the `Session*.cfg` |
| `SessionProofs` | invariants and action properties of `Session`, and that it implements `PlanLifecycle`, proved | |
| `RemoteTask`, `RemoteTaskMC` | one node, its remote tasks, timeouts and restarts | `RemoteTask.cfg`, `RemoteTwice.cfg` |
| `RemoteTaskProofs` | the invariants of `RemoteTask`, proved | |
| `History`, `HistoryMC` | what a conversation remembers | `History.cfg`, `HistoryRestart.cfg` |
| `HistoryProofs` | the invariants of `History`, proved | |
| `Planning`, `PlanningMC` | one decision of a language model: plan, tool call or text | `Planning.cfg` |
| `PlanningProofs` | `validate_plan` is exact, and the invariants of `Planning`, proved | |
| `DagRuntime`, `DagRuntimeMC` | the new orchestrator | `Dag.cfg` |
| `DagProofs` | the safety properties of `DagRuntime`, proved | |
| `Workflow`, `WorkflowMC` | the graph engine below it | `Workflow.cfg` |
| `WorkflowProofs` | the invariants of `Workflow`, proved | |
| `AgentStream`, `AgentStreamMC` | an LLM agent of the successor and the node that waits for it | `AgentStream.cfg` |
| `AgentStreamProofs` | the invariants of `AgentStream`, proved | |
| `Filters` | the elements of a sequence, a sequence filtered by a set, sequences one after the other, the greatest of a set | `Planning`, `DagRuntime`, `Workflow`, `History`, `AgentStream` |
| `DataLemmas` | induction over the naturals, recursive functions, and facts about `Filters`, proved | the proofs of those five |

The modules meet at interfaces: what `RemoteTask` does in detail is the final
status a task of `Session` gets; what `Planning` decides is the draft that
`HPlanOk` installs or the failure of `HPlanEnds` or `HPlanRaises`; `AgentStream` details the remote
task that ends in `DagRuntime`; `Workflow` is the engine `DagRuntime` runs on.

### Session

*Granularity.* A step is a stretch of code between two awaits that can really
suspend. `lockq` is the FIFO queue of the `asyncio.Lock`, its head the holder; a
waiter that is cancelled becomes `GONE` and is skipped (`LockSkip`). A handler
holds the lock through its LLM and remote calls, so it is split in a step
before and a step after each call (`HConfirm`/`HConfirmed`,
`HInterrupt`/`HInterrupted`, `HPlan`/`HPlanOk`/`HPlanEnds`/`HPlanRaises`): node
tasks, which do not take the lock to change a status, run in between. `busy` says that the
runner took a free lock and has not suspended since: `async with lock` on a
free lock does not yield.

*State.* `status`, `deps`, `attempt`, `requested` (`assist_requested_by`),
`adopted`, `ask`/`kind` (the pending intervention of a node), `queue`, `derived`,
`patched`, `revisions`, `version` are fields of `OrchestrationState`; `phase` is
`runtime.node_tasks` (where each `execute_node` is), `settle` is
`runtime.settle_tasks`. `obj` tells whether the `NodeState` a task holds is still
the plan's own: `start_new_plan` replaces all of them, and the tasks of the old
plan go on with detached objects. A settlement keeps the id and looks it up
again, which is what `detached` records. `turn` is the last task state reported.

*Actions.* `Runner*`: `run_plan` and the nodes of `plan_flow`; `Task*`:
`execute_node` and `outcome_flow`; `Settle*`: `settlement_flow`; `H*`: one per route
of `message_flow` and per outcome of `handle_intervention_answer`, plus `HCancel`
(`ChoirExecutor.cancel`); `Send`: the user.

*Abstractions.* Agents, texts and outputs are left out; what a remote agent or a
subagent answers is a choice. An output mentions at most one other agent. A
patch adds at most one node (`Patches`) and refers to at most `MaxRefs` nodes.
`attempt` saturates at `MaxAttempts`, all that `can_retry` looks at. The retry
branch of `plan_flow` is not reachable, because the scheduling section has just
retried everything under the same rule; it is there as a part of
`RunnerContinue`. An ill-typed answer behaves as an unknown one. One
`SessionRuntime` serves the conversation: eviction clears `live`, and the next
message finds the same state, as reloaded from the store. The variables describe
the session under its conversation's id. If the planning of a room fails while
tasks run (`HPlanEnds`), the code takes that session out of the dictionary and
empties its registries, but the runner and its tasks go on with a runtime nobody
can reach any more (`O/planning/planner.py:203`); what such a forgotten runner
still does is not modelled, and the theorem that depends on it says so
(`NoTaskLeftBehind`, section 4). `HPlanRaises` is a planning that raises anything
else than `PlanningFailed`, an error of the model's client or of the compaction
before it: the handler ends, the session stays, and so does the empty plan it
began. No node is ever RECOVER here: that status comes from a restart, which is
in `RemoteTask`.

### DagRuntime

The workflow runs one node at a time (`at`), and only remote tasks interleave
with it (`TaskEnds`) or the client's `Cancel`. `rt` is the `DagRuntime` object;
its methods keep their names and are operators from `rt` to `rt`, composed by
the actions in the order of the code: `Executor` collects, aborts on a failure,
or hands a completion to the helper, or dispatches and waits; `ExecutorWaits` is
the code after `_wait_one`; `ExecutorDrains` the loop after an empty plan.
`PlannerPlans(p)` ranges over **every** valid plan over the ids known so far,
and includes `apply_plan`, the first thing the executor does with it.
`obeys`, chosen in `Init`, says whether the planner keeps the rule of its own
instruction ("Keep waiting nodes and their deps intact"); only
`AssistHandedBack` depends on it, and a planner that breaks it has `FreeAssists`
assists instead of `MaxAssists`. A remote task ends with an output or an
exception: `_collect_done` catches `Exception`, and a task that ends with a
`CancelledError` of its own, which it would let through, is left out (only
`shutdown` cancels tasks, and it has taken them out of `running_tasks` by then).
The planner lists nodes in the order of their ids, keeps the agent of an id, and
does not set `assist_for` itself. An output is the list of agents it mentions,
chosen when the helper reads it.

### Workflow

`ls` is the `_LoopState`; as in `DagRuntime`, methods are operators that keep
their names. Only `asyncio.wait` suspends the loop, so `Loop` handles every run
that has ended, in the order of `pending_tasks`, and starts what is ready, in
one step; `LoopFails` is the same up to the first failed run, followed by the
cleanup. The graph is chosen in `Init` among those that `validate_graph` accepts.
`log` records the inputs of the runs a node has started: an input is told by its
source and the number of the run that produced it, which is all that the
delivery of triggers is about. The iterations of the code are functions that
recurse over the prefix handled so far (`_buffer_downstream_triggers`,
`Completed`); the searches of the validation are stated by what they decide.
`Completed` and `_schedule_ready_nodes` give the set of the one state that follows.

`DagRuntime` takes for granted that planner, executor and helper run one at a
time; `OneAtATime` shows it of the engine on `build_workflow`, the graph the
orchestrator declares.

### PlanLifecycle

What the documents and the client rely on, without any scheduling: a node is
absent, waiting, working, asking, failed, delivered or dropped; it begins to work
only on delivered inputs; what is delivered or dropped stays so while its plan
lives; only a new plan empties the board. Any number of nodes may move in one
step, because a patch or a scheduling section moves several. `Session` maps its
statuses to stages (`KeepsLifecycle`), reads `version` as the number of the plan
and `deps` as inputs.

### RemoteTask

One node and all the tasks it starts at its agent. `node` is the `NodeState` in
memory, `row` its stored copy and `saving` the copy a dispatch is writing, so
that a crash (`Crash`, then `recover_session`) may fall between any two of them.
`pc` follows `execute_node`: text, send, stream, poll, subscribe, settle. The
agent is external and owes nothing: it produces pieces, asks, ends, or falls
silent; a stream carries a snapshot and then the changes in order, and may be
cut at any chunk. `InFlight` is `ACTIVE_NODE_STATUSES` and RECOVER, which this
module has and `Session` has not. `cancel_node` is one step here, although it
awaits the remote cancellation between its check and the change of the status
(`O/hitl/intervention.py:240-241`): `Session` has the two steps
(`HConfirm`/`HConfirmed`); that the node ends or is dispatched anew in between,
and what then becomes of its remote task, is not modelled. `left` remembers the open tasks the code has let go of
knowingly. `Worlds` chooses which faults a behaviour may have, so that the
combinations that matter are explored without multiplying all of them.

### History

Messages are numbers with a role, a summary is the set of what it was made from;
so that `RebuildExact` compares the live list with the one replayed from stored
artifacts message by message. A compaction is two steps, with the model's answer
between them; a rewind three, with the writes of the row and of the marker apart.
Four things are coarser than the code. `Persist` is one step for the row and the
snapshot that `emit_event` publishes (`O/session.py:113-115`). `Receive` waits until
nothing is under way in the newest turn, while `ensure_session` and the rebuild run
before the lock is taken (`a2a/executor.py:94-100`): the overlap of two requests is
a hazard of sessions (section 5). In `Recover`, `row # 0` stands for a row that has
a state: the empty one that `POST /conversations` creates counts as none. After a
planning that fails (`PlanEnds`) the session is gone, a runner still at work in it
is not followed, and a compaction whose model fails is left out.
The walk of `iter_all_tasks` from the newest task down is the recursive function
`skip_stack`; what it shows is a set of tasks, since their order is that of their
numbers. A replay puts the artifacts of the visible turns one after the other
(`Flat`). Worlds keep apart what the code does not combine soundly: `Replayable`,
`Pairable` and `Checkpointed` say which events leave which property alone
(section 3 has what happens in the others).

### Planning

One decision, in one of three roles: the planner, an agent that must call a tool,
an agent that writes. A stream brings thought, text and fragments of up to two
calls per chunk; `shown` holds the artifacts as a client has them after every
chunk, `spoken` what the model said. What the fragments add up to is chosen when
the stream ends. `validate_plan` is Kahn's algorithm as written, its loop a
function of the number of rounds, compared with `Sound`, which says what a plan
has to be.

### AgentStream

The tool loop of `LLMAgent`, what it streams, what the task store keeps, and the
node at the other end: in the same process (`local`), over a stream, or by one
task snapshot. Besides the LLM agent there are two external ones: one that
streams two artifacts in any order, one that answers with a single snapshot of a
task in any state, also one that has not ended, or with a bare message; both are
reached over a stream (`ConstantsAssumption`). `run_remote_node` ends when the
stream does and asks for no terminal state: in the worlds with the fault `early`
the stream may end at any time (`RemoteEnds`, `EndsEarly`), and the node is
delivered with what it has. `EndSeen` tells apart an end at which the task's own
was seen. The snapshot of a task just submitted, with which the repository's own
executor opens a stream, is left out: it tells the node nothing. A cancellation comes from the
client of an LLM agent, as long as its task has not ended: what the request
handler does with a later one is outside the repository.

## 3. Runs

`tlc -workers 2 -config X.cfg <MC module>`. Every configuration switches the
deadlock check off, because a conversation and an orchestration do end: the
user need not write again.

| run | shows | bounds |
|---|---|---|
| `SessionPlan` | `DispatchAfterDeps`, `OneTaskPerNode`, `AtWorkIsActive`, `CompletedIsSettled` | chain and pair of 2 nodes, 2 attempts, 1 revision, 1 patched node; 537 000 states |
| `SessionLive` | `RunnerRests`, `MessagesHandled`, fair | plans of 1 node, 1 slot, 1 derived node, 3 messages and up to 3 plans, each while tasks of the one before may run; 20 000 |
| `SessionChat` | `TypeOK`, `QuestionIsWaited`, `NothingLeftBehind`, `SettledIsFinal`, `KeepsLifecycle` | all routes of a message and the cancellation of the session, 2 messages against a chain of 2 nodes, 1 derived node, 1 revision; 208 000 |
| `Dag` | `RunningTracked`, `DepsResolvable`, `NeverRerun`, `AssistHandedBack`, `StallsOnDropped`, `Terminates`, fair | 2 planned ids, 2 assists (1 with a planner that breaks its rule), limit 3, any plan over them; 30 000 |
| `Workflow` | `TriggersInOrder`, `AllServed`, `JoinOnce`, `OneAtATime`, `Terminates`, fair | the orchestrator's graph, a diamond, a fan-in, a loop beside a join, all valid graphs of 2 nodes with up to 4 edges; limit 2, a node chooses a way back at most twice; 189 000 |
| `History` | `RebuildExact`, `ToolPairs`, `NothingForgotten`, `VisibleIsApplied`, `RowIsCheckpoint` | two compactions over 7 messages; 5 tasks with nested rewinds; node tasks that record while a message is handled; open turns resumed in a new session; restarts between turns; retention 2; 935 000 |
| `RemoteTask` | `WholeOutput`, `Followed`, `AnswerOnce`, `ComesToRest`, fair | five worlds of faults, 3 attempts, outputs of up to 3 pieces, 1 question, 1 crash; 802 000 |
| `AgentStream` | `OutputIsAnswer`, `FailureIsRaised`, `CallsAnswered`, `SessionExact`, `Settles`, fair | three ways, up to 3 pieces, 2 calls per response, 4 calls of the model, 2 retries, streams that break or end early; 48 000 |
| `Planning` | `ShownIsSpoken`, `AttemptsSealed`, `FailuresTold`, `ValidationExact` | 3 attempts of 2 chunks; `validate_plan` on 1203 drafts of up to 4 nodes, with duplicate and unknown ids and dependencies, and cycles; 523 000 |

What each property says of the code is in the comment above it. Type correctness
is stated where it is proved, in `Session`; the other modules keep to properties
that relate several pieces of state.

*Why the bounds are enough to be interesting.* Two nodes give every relation of
two tasks (dependent, parallel, redispatched beside its own tail); two attempts
distinguish the last retry from the others; one derived or patched node makes
its budget be reached; two messages race with each other, three let an answer
follow a question of the second plan. In `Dag` two mentions meet a limit that
only one of them fits (`StallsOnDropped` was also run once with 4 planned ids,
561 000 states). In `Workflow` three runs of a node let two triggers of one
source wait at once. In `RemoteTask` two pieces tell a lost piece from a doubled
one; in `History` a second compaction starts from the summary of the first, and
five tasks let a rewind take back a rewind; in `Planning` the last retry differs
from the one before. The bounds that exist for TLC only are `MaxPlan`,
`MaxPatches`, `MaxRefs`, `MaxPlans`, `Msg` and the two tasks per node of `TaskId` in
`Session`, `MaxPlan`, `MaxAssists` and `FreeAssists` in `DagRuntime`, `MaxChunks` in
`Planning`, and the fields of `Worlds`; the others are settings of
the code. A third simultaneous task of one node would need two of its earlier
tasks to be in their tails at once; the guard of `RunnerSchedule` leaves this
out.

*Fairness.* Weak fairness of the runner, of each settlement, each handler and
the lock: the event loop runs what is runnable, and the calls to language
models end by their clients' timeouts. Weak fairness of a node task ends it:
`node_timeout` does. Reports of a remote task that it is submitted are excluded
from what makes it progress. The user is not fair. In `DagRuntime` the workflow
is fair, and every remote task ends (its stream is answered, closed or broken
off). `Terminates` also rests on the bounded set of ids: a planner that invents
new work after every delivery is not stopped by the code. In `Workflow` the loop
and every run of a node are fair; `MaxRuns` bounds how often a node chooses a
conditional way back, and graphs with a cycle of default edges, which need not
end, are left out of the run. In `RemoteTask` the node's own steps, the timeout
(`asyncio.timeout` fires) and the start after a stop are fair, the agent is not.
In `AgentStream` the agent, the other agents and the node are fair: a stream of
the model ends, as its client has a timeout.

### Disagreements between the code and its documents

Three are runs that TLC ends with a counterexample; `PROJECT.json` quotes the
lines.

| run | property | what happens |
|---|---|---|
| `SessionLostAnswer` | `AnswerHasRunner` | The lock is free between scheduling and `plan_flow`. An answer handled there makes its node READY and finds the runner alive; `plan_flow` sees another node waiting for the user and ends the runner. The answered node rests until the user writes again. |
| `RemoteTwice` | `OneTaskPerDispatch` | The id of a remote task is in memory only until the node's next checkpoint. A restart in between resets the node, and the same work is sent again while the first task goes on. |
| `HistoryRestart` | `RebuildExact` | A recovered session rebuilds its messages without those of the task that is recovered. |

Others were met while modelling. The models contain the behaviour unless the
entry says otherwise, and no property claims the opposite:

* An interruption takes a delivered dependency for a blocking one (`O/state.py:372`)
  and also invalidates nodes the interrupted one does not feed
  (`docs/product.md:178`).
* Messages leave the queue before the follow-up is known to fit the budget of
  derived nodes (`O/flows/outcome.py:132`); beyond it they are lost
  (`docs/product.md:177`).
* A patch that wants to invalidate a node that has ended asks for a confirmation
  nothing expires (`O/planning/patch.py:125`); after the plan is complete a new
  message only gets that question back (`docs/product.md:37`).
* A settlement of an abandoned plan finds the node of the same id in the new plan
  and makes it wait for the user (`O/flows/settlement.py:58`). Ids are chosen by
  the planner per plan, and the scripted planner of `sim/` names the first node
  of every plan alike.
* A dropped node of the new orchestrator that ends first fails the whole
  orchestration with "dispatch made no progress"
  (`docs/orchestrator-requirements.md:74-75`); `StallsOnDropped` shows that nothing
  else does. A node that failed out of the plan and is taken in again stays
  FAILED, and the orchestration may end as done with it (line 65 there).
* A remote task that waits for input passes for a delivery if its snapshot says
  so without a message (`N/core/a2a/agent/remote_a2a_agent.py:330` keeps no status
  then, so that `N/orchestrator/executor_node.py:69-71` sees none), although these
  states should raise an explicit error; and so does any stream that ends before
  its task, also one that is cancelled later or fails
  (`N/orchestrator/executor_node.py:94`), although a failed, rejected or cancelled
  node should end the orchestration (`docs/orchestrator-requirements.md:65`).
  `FailureIsRaised` names both exceptions; TLC finds each of them when it is left out.
* Over A2A the first text of an agent becomes the node's output: a text written
  beside a tool call wins over the answer. `OutputIsAnswer` excludes that case.
* An error of the model's client leaves the artifacts of an attempt unsealed
  (`O/planning/planner.py:134` handles `PlanningFailed` only); `AttemptsSealed` names
  the exception.
* What node tasks record while a compaction awaits its summary is missing from
  the live list until it is rebuilt (`O/history.py:171`; the event `overlap` of
  `History`, in no run with compactions). A rewind behind a compaction leaves the compaction state
  in memory, and the next compaction counts from it (`O/history.py:166`; the run
  keeps compactions and rewinds in separate worlds).
* A completed remote task without any output that is only polled, after a
  restart, leaves the node with the output of an earlier attempt; `WholeOutput`
  names the exception.

## 4. Proofs

`SessionProofs` (`tlapm SessionProofs.tla`) proves, for every number of nodes,
messages, plans and every limit:

* `TypeCorrect`: `Spec => []TypeOK`;
* `InductiveInvariant`: `Spec => []IInv`;
* `SettledNodesStay`: `Spec => SettledIsFinal`;
* `DispatchCorrect`: `Spec => []DispatchAfterDeps`;
* `NoTaskLeftBehind`: `Init /\ [][Next /\ ~Forgets]_vars => []NothingLeftBehind`;
* `FirstPlanForgetsNone`: `Spec => [][version <= 1 => ~Forgets]_vars`;
* `CompletedCorrect`: `Spec => []CompletedIsSettled`;
* `Refinement`: `Spec => KeepsLifecycle`, the specification of `PlanLifecycle`
  under the mapping of statuses to stages;
* `OneTaskWorks`: `Spec => [](version <= 1 => OneTaskPerNode)`;
* `WorkIsShown`: `Spec => [](version <= 1 => AtWorkIsActive)`;
* `QuestionsAreWaited`: `Spec => [](version <= 1 => QuestionIsWaited)`.

They assume `ConstantsAssumption` (naturals; at least one attempt and one slot)
and `DraftsAssumption` (a draft is not empty and depends only on itself, which
`validate_plan` guarantees). Acyclicity is not needed.

*The argument.* `TypeOK` is not inductive for what the other theorems need.
`IInv` adds `FreshIds` (ids not yet handed out by the budgets are not in the
plan, so a spawned or added node never overwrites another) and `PlannerAlone`
(while a handler plans, it holds the lock and the plan holds no planned node, so
the draft it installs meets no task's node). With them, every step except
`start_new_plan` keeps the nodes, their dependencies and their settled statuses
(`StepKeeps`), which gives `SettledIsFinal` at once. For `DispatchAfterDeps`: work
begins only in the scheduling section, on nodes whose dependencies are
COMPLETED (`WorkBegins`); COMPLETED is a settled status, so `StepKeeps` preserves
the fact; and a new plan detaches every task, so none is at work
(`NewPlanNoWork`). The lemmas are stated per action and cited by name.

For `NothingLeftBehind` the invariant is `NothingRuns`: wherever `run_plan` is
when none of its tasks should be left (`Quiet`: off, about to start, in `plan_flow`,
in a repair, reporting an end), no task and no settlement is registered; only the
runner starts them, and it comes to `plan_flow` only past a scheduling section
that found nothing in flight. `Forgets` is the one step at which the code does
otherwise: a planning that comes to nothing, in a room whose runner still works,
evicts the session, and what it had started goes on out of reach. The theorem is
about the behaviours without it. In these the eviction at the end of a planning
finds no task and no settlement (`StepTasksEndFirst`), so that nothing is gained by
its emptying the registries. A behaviour can have that step only once a second
plan was made (`FirstPlanForgetsNone`: while the first is planned no runner has
ever started). `RunnerDecides` adds that it decides and reports
under the lock. Then nobody can make a node unfinished between the test of
`all_completed` and the eviction (`PlanAtRest`): tasks and settlements do not
exist, and handlers wait for the lock; this gives `CompletedIsSettled`.

For the refinement, every step that does not start a new plan does one of a few
things to a node it finds (`StatusMove`: nothing, a move along the table, a retry,
a dispatch with its inputs delivered) and gives the nodes it adds inputs that
exist (`StepMoves`); `FoundMoves` turns that into a move between stages. Beyond
`IInv` it needs `QueueOnPlan` (a follow-up depends on a node of the plan) and
`DispatchAfterDeps` (a task may report SUBMITTED for a node that had left its
work).

The last three are statements about the first plan, and the runs that check them
have `MaxPlans = 1`: in a later plan a settlement of an abandoned one may act, by
its id, on a node of the new one (section 3), and they fail. `FirstPlan` is the
inductive invariant: before a plan there is nothing (`Unplanned`); an interruption
that is awaited holds the lock with no question pending (`InterruptAlone`); and in
the plan (`InPlan`) tasks and settlements hold its own nodes, a task raises only
when its node was cancelled, and what is being settled waits for input or was
cancelled and has no question yet (`SettlesWaiting`). Most steps stay in a frame
(`PlanFrame`, `TaskFrame`) that keeps all of it (`FrameKeeps`); a dispatch and the
report of a status are looked at by themselves.

### History

`HistoryProofs` proves, for any number of turns, rewinds, messages and
compactions and any retention:

* `RewindsAreApplied`: `Spec => []VisibleIsApplied`;
* `MemoryIsReplay`: `Spec => [](Replayable(world.events) => RebuildExact)`;
* `NothingIsForgotten`: `Spec => [](Replayable(world.events) => NothingForgotten)`;
* `PairsStayTogether`: `Spec => [](Pairable(world.events) => ToolPairs)`;
* `RowFollowsRewinds`: `Spec => [](Checkpointed(world.events) => RowIsCheckpoint)`.

`world.events` is what may happen in a behaviour, chosen in `Init` and never
changed: the premises name the combinations the code handles, and every one of
them contains the worlds of the run. `RewindsAreApplied` needs none.

*The argument.* The stack of the walk, at each task, holds the turns from there
on down that a rewind above names, the latest on top (`Holds`, `StackHolds` by
induction over the walk), so a task is shown if no rewind above names it or one
before it (`VisibleKept`); this rests on `Marked`, which is inductive: a rewind
names a turn that was visible when it was made. What is replayed is then a
function of the store (`Replay`), and the lemmas say how it changes: not at all
when a turn is opened (`TurnOpened`), by one artifact at its end when the newest
visible turn is written to (`ReplayAdded`). That the session writes to that turn
is `Seated`; that a session loaded again has nothing of its own to replay is
`Rested` and `Resumable`. `Replayed` is the heart: the list is what the replay
gives, the compaction in memory is the last one in it, and that one `Stands` for
a prefix of the raw messages, does not end between a call and its result, and
its count and its summary are of the same prefix. A compaction of a compacted
list keeps this (`CompactedStands`): the count of the new one starts from the old
count, less the summary message in front. `Snapshots` relates the row to the
snapshots of the visible turns, also between the two writes of a rewind.

### AgentStream

`AgentStreamProofs` proves, for any `max_retries` and any worlds (any number of
pieces, calls of a response and calls of the model, any faults):

* `OutputOfAgent`: `Spec => []OutputIsAnswer`;
* `FailureIsReported`: `Spec => []FailureIsRaised`;
* `CallsAreAnswered`: `Spec => []CallsAnswered`;
* `SessionIsExact`: `Spec => []SessionExact`.

They assume `ConstantsAssumption`: the agents other than the LLM agent are reached
over a stream. Nothing is assumed of how a stream ends: `FailureIsRaised` says of a
node that has seen the end of its task that it is delivered only if the task
completed, or waits for input without saying so in a message; of one that has not,
that it is delivered only by a stream that ended early. `OutputIsAnswer` says of the
latter that it has the whole answer or nothing.

*The argument.* None of the four is inductive: each is about the end, and what it
says has to be followed through the pieces that lead there. `IInv` has a part for
each pair of places that have to agree.

* `Kept` (the store and the events): the artifacts have distinct ids, none above
  the one of the current response; each event is the final form of the artifact
  in its place, and there is at most one artifact more, the one being streamed.
  A closing update replaces it (`HeldFinal`), because it has its id; an agent
  that is asked again has none open. `SessionIsExact` is this at the end.
* `Paired` (the events and the calls left): each call of an event is answered in
  the event as many places on, or is the one left that will be (`Matched`,
  kept by `MatchedCalls` and `MatchedAnswer`); a request is made only when none
  is left.
* `Closing`: only the last event is a text without calls, and the agent is then
  done, so the answer is the text of the last event (`AnswerIsSaid`), and for an
  agent that does not explain its calls the text of all artifacts
  (`ArtifactsSay`).
* `Local`, `Streamed` and `Sent` (the events, the wire and the output, one for
  each way): that text is in the output, or exactly the messages that carry it
  are still under way. `Sent` also has the external agent that answers with a
  task.
* `Chunks` and `Collected` (the artifacts in the store, the buffers of
  `RemoteA2aAgent` and the wire, for the agent that streams in pieces): every
  artifact is what the node has buffered of it followed by what the wire still
  brings (`Gathered`), pieces of two artifacts interleaved as they may be. A
  piece appended in the store is appended to the wire (`GatheredMore`); a piece
  taken from the wire goes to the buffer (`GatheredTail`). `Ordered` says that
  nothing of an artifact comes after its last piece, and a piece that is not
  appended only first; so when the last piece of the artifact that is closed first
  arrives, buffer and piece together are the whole of it (`FirstClosed`), and this
  is what is promoted.
* `Noticed` (the state of the task, the wire and the flags of
  `run_remote_node`): what has been noted or is on the wire is a failure or a pause
  of the task, and each of them has been or is, save for a pause without a
  message. With an empty wire this is `FailureIsRaised`; a stream that ends early
  needs the first half only.

### RemoteTask

`RemoteTaskProofs` proves `TasksFollowed` (`Followed`), `OutputIsWhole`
(`WholeOutput`) and `AnswerSentOnce` (`AnswerOnce`) from `ConstantsAssumption`: any
number of attempts, any worlds. `IInv` says what each place of `execute_node`
knows of its task (`Places`, `Outcome`), what the copies of the node in memory, in
the store and under way may say (`Copies`), and, the heart of it, that the chunks
under way, read from where the node stands, add up to the pieces and end in the
state of the task they tell of (`Tells`). `Tells` is kept when the task changes
(the change is appended), when a chunk is consumed, and when a stream is opened
anew with a snapshot; a stream that is cut leaves the node behind its task at
most (`Behind`), until a poll brings the whole of it.

### DagRuntime

`DagProofs` proves `EveryRunIsTracked` (`RunningTracked`), `NothingWaitsInVain`
(`DepsResolvable`), `DeliveredStays` (`NeverRerun`), `HelpIsHandedBack`
(`AssistHandedBack`) and `StallsExplained` (`StallsOnDropped`) from `DagAssumption`:
any number of nodes and assists, any limit, every valid answer of the planner.
The invariant is stated of a runtime `r`, each method of `DagRuntime` is shown to
keep it, and the steps put the methods together. It adds to the properties that
every node of the plan is a known one with a status (`PlanKnown`), that delivered
nodes have their outputs (`HasOutput`), that the completion queue names each node
once (`QueueOver`), and that the nodes not yet run do not wait for each other in a
circle (`NoCircle`). The last, which `validate` gives and `add_assist` keeps, is what
`StallsExplained` rests on: an executor with nothing to run and nothing running
has a node whose dependencies are all delivered.

### Workflow

`WorkflowProofs` proves `NoTriggerLost` (`TriggersInOrder`), `EveryTriggerServed`
(`AllServed`), `JoinsRunOnce` (`JoinOnce`) and `OrchestratorIsSequential`
(`OneAtATime`) from `WorkflowAssumption`: every graph that `validate_graph` accepts,
any limit of concurrency, any routes. The validation of duplicate edges makes the
next nodes of a run distinct (`NextFacts`), so that a completion triggers each of
them once (`Downstream`, by induction over them). `Good` is what every method keeps:
the keys of the buffer are the nodes with triggers, statuses agree with pending
tasks and numbers of runs, `InOrder` and `Barrier` state the delivery of triggers
over the log and the buffer together, which a start does not change
(`StartTriggers`), and in the orchestrator's graph there is one token (`OneToken`).
A batch of completions keeps `Good` by induction (`CompletedKeeps`); the limit, which
is 0 for none or at least 1, lets something start whenever nothing runs
(`StartableFacts`), and so nothing is left behind.

### Planning

`PlanningProofs` proves `ValidatesExactly`: for every draft, of any number of nodes,
`validate_plan` accepts it if and only if it is `Sound`. Kahn's loop ends after as
many rounds as there are nodes; by induction over the rounds the queue holds
nodes whose dependencies were visited (`Walked`), so that a visited node is
grounded, and a draft without circles leaves none unvisited. `ValidationIsExact`
is this theorem for the drafts of a run. `UserSeesWhatIsSaid` (`ShownIsSpoken`),
`ArtifactsAreSealed` (`AttemptsSealed`) and `LaunchedPlansAreSound` (`FailuresTold`)
follow from an invariant that relates the artifacts of the current attempt and
of those before (`Current`, `Later`) to what was said, and the conversation with the
model to the failures told in it (`Asked`, `Told`).

### Induction over data

The library's induction theorems take an operator and cannot be used by the
provers. `DataLemmas` proves induction for a set (`Induction`: a set with 0 and
closed under successor has all naturals) from the well-foundedness of `<`, and each
recursive function is shown to have a solution by it (`PickedDef`, `BufferedDef`,
`AfterDef`; `Recursion` for any function that takes a value through steps). For
this the proved modules state filters as `Those`, a recursive function over a set,
where TLA+ has `SelectSeq` over an operator. `Flat` puts sequences one after the
other; that it respects concatenation (`FlatConcat`) carries over to the texts of
parts (`OfConcat`).

### What the attempts at proofs found

* With two attempts per node a counterexample to `Followed` was out of TLC's
  reach: `SendFails` did not account for the task of an earlier attempt, still
  open, that the send would have continued. A failed send gives that task up as
  well as its own; the action says so now, and the run has three attempts.
* `WholeOutput` needs a second exception: a bare message that answers a retry
  leaves its output to a task that completes without any.
* Over a stream the output of a node is not always the agent's last text: the
  text of a failed status is promoted if nothing was before, and so is a text
  beside calls. `Streamed` excludes both, as `OutputIsAnswer` does.
* A cancellation of an external agent, and another way to reach one, had no
  counterpart in the code: `Cancel` and `ConstantsAssumption` exclude them.
* `OneTaskPerNode`, `AtWorkIsActive` and `QuestionIsWaited` are invariants of the
  first plan only.

### Model-checked only

Liveness (`RunnerRests`, `MessagesHandled`, `Terminates`, `ComesToRest`, `Settles`):
fairness and ENABLED are out of the prover's reach. The three statements that a
run of section 3 refutes (`expect: violation`) have no theorem. The invariants and
the other action properties of every run are proved.

## 5. Not modelled

* Several runtimes of one conversation: `ensure_session` after an eviction creates
  a second one while a runner of the first may live on, `task_id` and the event
  queue are replaced before the lock is held (`O/session.py:93`), a cancellation
  may be swallowed while the runner awaits its wake task
  (`O/execution/runner.py:100`), a planning that fails in a room evicts a session
  with running tasks (`O/planning/planner.py:203`). `Session` has one runtime.
* The generic flow engine of the product: its flows are actions in the order of
  their edges.
* The replay of recorded workflows in the successor: nothing starts one yet.
* Registries, cards, rooms, HTTP views, the JSON of events, prompts, provider
  options, configuration, the simulation harness and the frontend: data access,
  formatting and wiring without state that others rely on.

## 6. What could come next

A module of sessions with runtime identity, composed with `RemoteTask` for
restarts; the refinement of the remote call of `DagRuntime` by `AgentStream`, stated
as such; the replay barrier once a caller exists.
