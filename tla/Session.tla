------------------------------ MODULE Session ------------------------------
(***************************************************************************)
(* One conversation of the orchestrator: a plan, the background runner     *)
(* that schedules it, the node tasks that execute its nodes, the           *)
(* settlement tasks that look for an answer to a blocked node, and the     *)
(* user's messages, all interleaving on one event loop.                    *)
(*                                                                         *)
(* A step is a stretch of code between two awaits that can really suspend. *)
(* Handlers of messages, the two critical sections of the runner, the acts *)
(* of a settlement and a plan revision run under runtime.lock, an          *)
(* asyncio.Lock: lockq is its FIFO queue, its head the holder.  A node     *)
(* task changes the status of its node without the lock.                   *)
(*                                                                         *)
(* Abstractions.  Agents, texts and outputs are left out: what a remote    *)
(* agent or a subagent (LLM) answers is a choice.  An output mentions at   *)
(* most one other agent, and a patch adds at most one node.  attempt       *)
(* saturates at MaxAttempts, which is all can_retry looks at.  One         *)
(* SessionRuntime serves the whole conversation: eviction takes it out of  *)
(* the dictionary (live) and the next message finds the same state, as     *)
(* reloaded from the context store.  An eviction while the runner still    *)
(* runs (a planning that fails with work in flight) ends the runner and    *)
(* its tasks here: what they still do to the forgotten session is not      *)
(* followed.                                                               *)
(***************************************************************************)
EXTENDS PlanState, Sequences

CONSTANTS
  MaxPlan,       \* bound: nodes of a plan draft (ExecutorConfig.max_nodes)
  Drafts,        \* the plans the planner may produce: functions from 1..k to sets of deps
  MaxParallel,   \* ExecutorConfig.max_parallel
  MaxAttempts,   \* ExecutorConfig.max_node_attempts
  MaxDerived,    \* ExecutorConfig.max_derived_nodes
  MaxRevisions,  \* ExecutorConfig.max_revisions
  MaxPatches,    \* bound: nodes added by patches to one plan
  MaxRefs,       \* bound: nodes a patch depends on, and nodes it asks to invalidate
  MaxPlans,      \* bound: plans of the conversation
  Msg,           \* the messages the user sends, a set of naturals
  Kinds          \* the kinds of messages the user sends

PlanId == 1..MaxPlan
NodeId == 1..(MaxPlan + MaxDerived + MaxPatches)
TaskId == NodeId \X {1, 2}   \* bound: two tasks of one node at a time

MsgKinds == {"text", "quote", "interrupt", "empty", "yes", "no", "malformed", "cancel"}

ASSUME ConstantsAssumption ==
  /\ MaxPlan \in Nat /\ MaxDerived \in Nat /\ MaxPatches \in Nat
  /\ MaxParallel \in Nat \ {0} /\ MaxAttempts \in Nat \ {0} /\ MaxRevisions \in Nat
  /\ MaxRefs \in Nat /\ MaxPlans \in Nat
  /\ Msg \subseteq Nat
  /\ Kinds \subseteq MsgKinds

ASSUME DraftsAssumption ==
  \A d \in Drafts : /\ DOMAIN d \subseteq PlanId
                    /\ DOMAIN d # {}
                    /\ \A n \in DOMAIN d : d[n] \subseteq DOMAIN d

VARIABLES
  (* OrchestrationState *)
  version,    \* plan_version, counted from 0
  nodes,      \* the keys of state.nodes
  status,     \* NodeState.status
  deps,       \* NodeState.deps
  attempt,    \* NodeState.attempt
  requested,  \* NodeState.assist_requested_by, 0 for None
  adopted,    \* the helpers some node lists in adopted_helpers
  ask,        \* the number of the pending intervention of a node, 0 for none
  kind,       \* its kind
  asked,      \* interventions created so far (they get fresh ids)
  queue,      \* the nodes with queued messages
  derived,    \* derived_count
  patched,    \* patch_count
  revisions,  \* revision_count
  (* SessionRuntime *)
  lockq,      \* runtime.lock: holder and waiters, first come first served
  runner,     \* where run_plan is
  busy,       \* it took a free lock and has not suspended since
  wake,       \* runtime.wake
  phase,      \* runtime.node_tasks: where each execute_node is
  obj,        \* the NodeState a task holds: the plan's own, or a detached one's status
  settle,     \* runtime.settle_tasks, by node id: where settlement_flow is
  detached,   \* the settlement holds a NodeState of an earlier plan
  live,       \* the session is in SessionManager.sessions
  turn,       \* the task state last reported by the runner, a planning or a cancellation
  (* messages *)
  mstate, mkind, mnode, mask

planVars == <<version, nodes, status, deps, attempt, requested, adopted, ask, kind, asked,
              queue, derived, patched, revisions>>
taskVars == <<phase, obj>>
settleVars == <<settle, detached>>
msgVars  == <<mstate, mkind, mnode, mask>>
vars == <<planVars, lockq, runner, busy, wake, taskVars, settleVars, live, turn, msgVars>>

(***************************************************************************)
(* The lock.                                                               *)
(***************************************************************************)
RUNNER    == <<"runner", 0, 0>>
GONE      == <<"gone", 0, 0>>         \* a waiter that was cancelled
MsgActor(m)    == <<"msg", m, 0>>
SettleActor(n) == <<"settle", n, 0>>
TaskActor(t)   == <<"task", t[1], t[2]>>

Actor == {RUNNER, GONE} \cup {MsgActor(m) : m \in Msg}
           \cup {SettleActor(n) : n \in NodeId} \cup {TaskActor(t) : t \in TaskId}

Holds(a)        == lockq # <<>> /\ Head(lockq) = a
Acquire(a)      == lockq' = Append(lockq, a)
Release         == lockq' = Tail(lockq)

(* asyncio.Lock wakes the next waiter that is not cancelled. *)
LockSkip == Holds(GONE) /\ Release
            /\ UNCHANGED <<planVars, runner, busy, wake, taskVars, settleVars, live, turn, msgVars>>

(***************************************************************************)
(* Interventions.                                                          *)
(***************************************************************************)
pending_interventions == {n \in NodeId : ask[n] # 0}

(* _intervention_stale, for node n under the statuses st *)
Stale(n, st) ==
  \/ n \notin nodes
  \/ kind[n] = "confirm_cancel" /\ st[n] \notin ACTIVE_NODE_STATUSES
  \/ kind[n] = "question" /\ st[n] # INPUT_REQUIRED

(* expire_node_interventions of the nodes S *)
expire(S, st) ==
  ask' = [n \in NodeId |-> IF n \in S /\ ask[n] # 0 /\ Stale(n, st) THEN 0 ELSE ask[n]]

(***************************************************************************)
(* Derived nodes.  spawn_derived_node adds a node when the budget allows,  *)
(* and nothing otherwise.  The k-th one of a step gets the k-th fresh id.  *)
(***************************************************************************)
Fresh(k) == MaxPlan + derived + patched + k

Spawn(k, dp, by) ==
  /\ nodes'     = nodes \cup {Fresh(i) : i \in 1..k}
  /\ deps'      = [n \in NodeId |-> IF \E i \in 1..k : n = Fresh(i)
                                    THEN dp[n - Fresh(0)] ELSE deps[n]]
  /\ requested' = [n \in NodeId |-> IF \E i \in 1..k : n = Fresh(i)
                                    THEN by[n - Fresh(0)] ELSE requested[n]]
  /\ derived'   = derived + k

(* The statuses st, with the k nodes just spawned. *)
Spawned(k, st) == [n \in NodeId |-> IF \E i \in 1..k : n = Fresh(i) THEN PENDING ELSE st[n]]

(* One node, if it is wanted and the budget is not spent. *)
spawn_derived_node(wanted, dp, by, st) ==
  LET k == IF wanted /\ derived < MaxDerived THEN 1 ELSE 0
  IN  Spawn(k, [i \in 1..k |-> dp], [i \in 1..k |-> by]) /\ status' = Spawned(k, st)

(***************************************************************************)
(* The runner: run_plan.                                                   *)
(***************************************************************************)
Finished == {"ok", "raised"}
tasksInFlight == {t \in TaskId : phase[t] # "none"}     \* runtime.node_tasks

(* A task is created unless the runner runs. *)
start_runner == runner' = (IF runner = "off" THEN "start" ELSE runner) /\ UNCHANGED busy

(* The runner asks for the lock of the section it comes to next.  A free   *)
(* lock is taken at once, and the event loop runs nothing else until the   *)
(* runner suspends.                                                        *)
RunnerTo(section, q) == runner' = section /\ lockq' = Append(q, RUNNER) /\ busy' = (q = <<>>)

(* The top of the loop *)
RunnerLoops(q) == RunnerTo("schedule", q) /\ wake' = FALSE

RunnerEnter ==
  /\ runner = "start"
  /\ RunnerLoops(lockq)
  /\ UNCHANGED <<planVars, taskVars, settleVars, live, turn, msgVars>>

(* _has_active_helper *)
HasHelper(n, st, S) == \E h \in nodes : requested[h] = n /\ st[h] \in S

retried == [n \in NodeId |-> IF n \in nodes /\ can_retry(status[n], attempt[n], MaxAttempts)
                             THEN PENDING ELSE status[n]]

to_settle == {n \in input_required_nodes(nodes, status) :
                settle[n] = "none" /\ ask[n] = 0 /\ ~HasHelper(n, retried, UNSETTLED)}

ready_batch ==
  LET ready == ready_nodes(nodes, retried, deps)
      slots == IF Cardinality(tasksInFlight) < MaxParallel
               THEN MaxParallel - Cardinality(tasksInFlight) ELSE 0
  IN  {n \in ready : Cardinality({m \in ready : m < n}) < slots}

(* A node to RECOVER keeps its status and its attempts. *)
dispatched == {n \in ready_batch : retried[n] # RECOVER}

(* The task of a batch: the first of the two that is free. *)
TaskFor(n) == IF phase[<<n, 1>>] = "none" THEN <<n, 1>> ELSE <<n, 2>>

(* Under the lock: retry, spawn settlements, dispatch what is ready. *)
RunnerSchedule ==
  /\ Holds(RUNNER) /\ runner = "schedule"
  /\ \A n \in ready_batch : phase[TaskFor(n)] = "none"
  /\ status'  = [n \in NodeId |-> IF n \in dispatched THEN SUBMITTED ELSE retried[n]]
  /\ attempt' = [n \in NodeId |-> IF n \in dispatched /\ attempt[n] < MaxAttempts
                                  THEN attempt[n] + 1 ELSE attempt[n]]
  /\ phase'   = [t \in TaskId |-> IF t[1] \in ready_batch /\ t = TaskFor(t[1])
                                  THEN "run" ELSE phase[t]]
  /\ settle'  = [n \in NodeId |-> IF n \in to_settle THEN "inspect" ELSE settle[n]]
  /\ IF (\E t \in TaskId : phase'[t] # "none") \/ \E n \in NodeId : settle'[n] # "none"
     THEN runner' = "wait" /\ Release /\ busy' = FALSE
     ELSE RunnerTo("flow", Tail(lockq))
  /\ UNCHANGED <<version, nodes, deps, requested, adopted, ask, kind, asked, queue, derived,
                 patched, revisions, wake, obj, detached, live, turn, msgVars>>

(* asyncio.wait returned: pop what finished, fail the nodes of the tasks   *)
(* that raised.                                                            *)
RunnerReap ==
  /\ runner = "wait"
  /\ \/ wake
     \/ \E t \in TaskId : phase[t] \in Finished
     \/ \E n \in NodeId : settle[n] = "done"
  /\ status' = [n \in NodeId |->
                 IF /\ \E t \in TaskId : t[1] = n /\ phase[t] = "raised" /\ obj[t] = "live"
                    /\ can_transition(status[n], FAILED)
                 THEN FAILED ELSE status[n]]
  /\ phase'  = [t \in TaskId |-> IF phase[t] \in Finished THEN "none" ELSE phase[t]]
  /\ obj'    = [t \in TaskId |-> IF phase[t] \in Finished THEN "live" ELSE obj[t]]
  /\ settle' = [n \in NodeId |-> IF settle[n] = "done" THEN "none" ELSE settle[n]]
  /\ detached' = [n \in NodeId |-> settle[n] # "done" /\ detached[n]]
  /\ IF \E n \in nodes : can_retry(status'[n], attempt[n], MaxAttempts)
     THEN runner' = "backoff" /\ UNCHANGED <<lockq, busy, wake>>
     ELSE RunnerLoops(lockq)
  /\ UNCHANGED <<version, nodes, deps, attempt, requested, adopted, ask, kind, asked, queue, derived,
                 patched, revisions, live, turn, msgVars>>

(* asyncio.sleep(retry_backoff) is over. *)
RunnerBackoff ==
  /\ runner = "backoff"
  /\ RunnerLoops(lockq)
  /\ UNCHANGED <<planVars, taskVars, settleVars, live, turn, msgVars>>

(***************************************************************************)
(* A patch: it adds the nodes A (at most one, given by its dependencies),  *)
(* invalidates what it can of W, and asks the user to confirm the          *)
(* cancellation of the rest.                                               *)
(***************************************************************************)
Refs    == {D \in SUBSET nodes : Cardinality(D) <= MaxRefs}
Patches == {p \in [add : {{}} \cup {{D} : D \in Refs}, invalidate : Refs] :
              p.add # {} => patched < MaxPatches}

apply_patch(p) ==
  LET new   == {Fresh(1) : D \in p.add}
      ns    == nodes \cup new
      dp    == [n \in NodeId |-> IF n \in new THEN UNION p.add ELSE deps[n]]
      added == [n \in NodeId |-> IF n \in new THEN PENDING ELSE status[n]]
      gone  == invalidated_by(ns, added, dp, p.invalidate)
      keep  == {n \in skipped_in_flight(ns, added, p.invalidate) : ask[n] = 0}
  IN  /\ nodes'     = ns
      /\ deps'      = dp
      /\ status'    = [n \in NodeId |-> IF n \in gone THEN INVALIDATED ELSE added[n]]
      /\ patched'   = IF new = {} THEN patched ELSE patched + 1
      /\ revisions' = IF new \cup gone # {} THEN revisions + 1 ELSE revisions
      /\ ask'       = [n \in NodeId |-> IF n \in keep THEN asked + 1 ELSE ask[n]]
      /\ kind'      = [n \in NodeId |-> IF n \in keep THEN "confirm_cancel" ELSE kind[n]]
      /\ asked'     = IF keep # {} THEN asked + 1 ELSE asked
      /\ UNCHANGED <<version, attempt, requested, adopted, queue, derived>>

(***************************************************************************)
(* plan_flow, run under the lock when no task is in flight: the first      *)
(* check that applies decides.                                             *)
(***************************************************************************)
Retryable == \E n \in nodes : can_retry(status[n], attempt[n], MaxAttempts)
Waiting   == input_required_nodes(nodes, status) # {}
Stuck     == /\ ~Retryable /\ ~Waiting /\ ~all_completed(nodes, status)

GoesOn    == /\ has_pending_work(nodes, status)
             /\ ready_nodes(nodes, status, deps) # {} \/ tasksInFlight # {}

PlanFlowStep == Holds(RUNNER) /\ runner = "flow"

(* The final state of the turn is emitted; the lock is still held. *)
Endings == {"input_required", "completed", "failed"}
RunnerEnds(final) ==
  /\ runner' = final /\ turn' = final /\ busy' = FALSE
  /\ UNCHANGED <<planVars, lockq, wake, taskVars, settleVars, live, msgVars>>

RunnerContinue ==        \* _backoff_continue, and _stalled with something left to do
  /\ PlanFlowStep
  /\ Retryable \/ (Stuck /\ failed_nodes(nodes, status) = {} /\ GoesOn)
  /\ RunnerLoops(Tail(lockq))
  /\ UNCHANGED <<planVars, taskVars, settleVars, live, turn, msgVars>>

RunnerExitWait ==        \* _exit_wait
  /\ PlanFlowStep
  /\ ~Retryable /\ Waiting
  /\ RunnerEnds("input_required")

RunnerCompleted ==       \* _emit_completed
  /\ PlanFlowStep
  /\ ~Retryable /\ ~Waiting /\ all_completed(nodes, status)
  /\ RunnerEnds("completed")

RunnerRepairBegin ==     \* _repair: the repair subagent is asked, under the lock
  /\ PlanFlowStep
  /\ Stuck /\ failed_nodes(nodes, status) # {} /\ revisions < MaxRevisions
  /\ runner' = "repair" /\ busy' = FALSE
  /\ UNCHANGED <<planVars, lockq, wake, taskVars, settleVars, live, turn, msgVars>>

RunnerRepairOk(p) ==     \* repair_plan applied a patch, which covers the failed nodes
  /\ Holds(RUNNER) /\ runner = "repair"
  /\ apply_patch([p EXCEPT !.invalidate = @ \cup failed_nodes(nodes, status)])
  /\ RunnerLoops(Tail(lockq))
  /\ UNCHANGED <<taskVars, settleVars, live, turn, msgVars>>

RunnerFailed ==          \* _emit_failed, after a repair that failed or was not allowed, and _stalled
  /\ Holds(RUNNER)
  /\ \/ runner = "repair"
     \/ /\ runner = "flow" /\ Stuck
        /\ \/ failed_nodes(nodes, status) # {} /\ revisions >= MaxRevisions
           \/ failed_nodes(nodes, status) = {} /\ ~GoesOn
  /\ RunnerEnds("failed")

(* The event is out: the session is evicted, the lock released, run_plan   *)
(* returns.  Its finally clause has nothing left to cancel.                *)
RunnerReturns ==
  /\ Holds(RUNNER) /\ runner \in Endings
  /\ runner' = "off" /\ Release
  /\ IF runner = "input_required" THEN UNCHANGED live ELSE live' = FALSE
  /\ UNCHANGED <<planVars, busy, wake, taskVars, settleVars, turn, msgVars>>

(***************************************************************************)
(* A node task: execute_node and outcome_flow.  What the remote agent and  *)
(* the outcome subagent answer is a choice; a status change the table does *)
(* not allow raises InvalidTransition, which ends the task.                *)
(***************************************************************************)
NodeOf(t)  == t[1]
At(t, S)   == ~busy /\ phase[t] \in S
current(t) == IF obj[t] = "live" THEN status[NodeOf(t)] ELSE obj[t]

(* apply_transition on the NodeState the task holds *)
apply_transition(t, to) ==
  IF obj[t] = "live"
  THEN status' = [status EXCEPT ![NodeOf(t)] = to] /\ UNCHANGED obj
  ELSE obj' = [obj EXCEPT ![t] = to] /\ UNCHANGED status

TaskRaises(t) ==
  /\ phase' = [phase EXCEPT ![t] = "raised"]
  /\ UNCHANGED <<status, obj>>

(* The task got the status to of its node: it sets it, or raises. *)
TaskSets(t, to, next) ==
  /\ IF can_transition(current(t), to)
     THEN apply_transition(t, to) /\ phase' = [phase EXCEPT ![t] = next]
     ELSE TaskRaises(t)
  /\ UNCHANGED <<version, nodes, deps, attempt, requested, adopted, ask, kind, asked, queue, derived,
                 patched, revisions, lockq, runner, busy, wake, settleVars, live, turn, msgVars>>

(* consume_chunks: the remote agent reports the task as submitted *)
TaskSubmitted(t) == At(t, {"run"}) /\ current(t) # SUBMITTED /\ TaskSets(t, SUBMITTED, "run")

TaskFails(t)     == At(t, {"run"}) /\ TaskSets(t, FAILED, "tail")   \* failed, rejected, timed out
TaskCanceled(t)  == At(t, {"run"}) /\ TaskSets(t, CANCELED, "tail")
TaskNeedsInfo(t) == At(t, {"run"}) /\ TaskSets(t, INPUT_REQUIRED, "tail") \* and _mark_input_required
TaskDelivers(t)  ==                                                   \* _mark_delivered
  At(t, {"run", "revised"}) /\ TaskSets(t, COMPLETED, "post")

(* _revise: the limit is tested before the lock is requested. *)
TaskReviseBegin(t) ==
  /\ At(t, {"run"}) /\ revisions < MaxRevisions
  /\ phase' = [phase EXCEPT ![t] = "revise"]
  /\ Acquire(TaskActor(t))
  /\ UNCHANGED <<planVars, runner, busy, wake, obj, settleVars, live, turn, msgVars>>

TaskRevise(t, p) ==
  /\ Holds(TaskActor(t)) /\ phase[t] = "revise"
  /\ apply_patch(p)
  /\ phase' = [phase EXCEPT ![t] = "revised"]
  /\ Release
  /\ UNCHANGED <<runner, busy, wake, obj, settleVars, live, turn, msgVars>>

(* What a finished node still has to do: a mention becomes an assist node, *)
(* then the messages queued for the node become one follow-up.  They leave *)
(* the queue even if nothing is left of the budget.                        *)
TaskPost(t, next) ==
  /\ phase' = [phase EXCEPT ![t] = next]
  /\ UNCHANGED <<version, attempt, adopted, ask, kind, asked, patched, revisions, lockq, runner,
                 busy, wake, obj, settleVars, live, turn, msgVars>>

TaskArbitrate(t, mention) ==
  /\ At(t, {"post"}) /\ TaskPost(t, "queued")
  /\ spawn_derived_node(mention, {}, NodeOf(t), status)
  /\ UNCHANGED queue

TaskDeliverQueued(t) ==
  LET n == NodeOf(t)
  IN  /\ At(t, {"queued"}) /\ TaskPost(t, "tail")
      /\ spawn_derived_node(n \in queue, {n}, 0, status)
      /\ queue' = queue \ {n}

(* The tail of execute_node: expire the questions of the node. *)
TaskTail(t) ==
  /\ At(t, {"tail"})
  /\ expire({NodeOf(t)}, status)
  /\ phase' = [phase EXCEPT ![t] = "ok"]
  /\ UNCHANGED <<version, nodes, status, deps, attempt, requested, adopted, kind, asked, queue, derived,
                 patched, revisions, lockq, runner, busy, wake, obj, settleVars, live, turn, msgVars>>

(***************************************************************************)
(* A settlement: settlement_flow for a node that is INPUT_REQUIRED.        *)
(***************************************************************************)
helpers(n) == {h \in nodes : requested[h] = n /\ status[h] = COMPLETED /\ h \notin adopted}

SettleInspect(n) ==
  /\ ~busy /\ settle[n] = "inspect"
  /\ \/ /\ ask[n] # 0 \/ (helpers(n) = {} /\ HasHelper(n, status, UNSETTLED))
        /\ settle' = [settle EXCEPT ![n] = "done"] /\ UNCHANGED lockq
     \/ /\ ask[n] = 0 /\ helpers(n) # {}
        /\ settle' = [settle EXCEPT ![n] = "adopt"] /\ Acquire(SettleActor(n))
     \/ /\ ask[n] = 0 /\ helpers(n) = {} /\ ~HasHelper(n, status, UNSETTLED)
        /\ settle' = [settle EXCEPT ![n] = "decide"] /\ UNCHANGED lockq
  /\ UNCHANGED <<planVars, runner, busy, wake, taskVars, detached, live, turn, msgVars>>

(* _resolve_from_helper, on the node the settlement holds *)
SettleAdopt(n) ==
  /\ Holds(SettleActor(n)) /\ settle[n] = "adopt"
  /\ IF ~detached[n] /\ can_transition(status[n], READY)
     THEN status' = [status EXCEPT ![n] = READY]
     ELSE UNCHANGED status
  /\ IF detached[n] THEN UNCHANGED adopted
     ELSE \E h \in helpers(n) : adopted' = adopted \cup {h}   \* the one _inspect_helpers found
  /\ IF detached[n] \/ can_transition(status[n], READY) THEN expire({n}, status') ELSE UNCHANGED ask
  /\ settle' = [settle EXCEPT ![n] = "done"] /\ Release
  /\ UNCHANGED <<version, nodes, deps, attempt, requested, kind, asked, queue, derived, patched,
                 revisions, runner, busy, wake, taskVars, detached, live, turn, msgVars>>

(* _decide_assistance: the subagent has answered, _act asks for the lock. *)
SettleDecide(n) ==
  /\ ~busy /\ settle[n] = "decide"
  /\ settle' = [settle EXCEPT ![n] = "act"] /\ Acquire(SettleActor(n))
  /\ UNCHANGED <<planVars, runner, busy, wake, taskVars, detached, live, turn, msgVars>>

(* request_human: ask_user looks the node up by its id. *)
ask_user(n) ==
  IF n \in nodes /\ can_transition(status[n], INPUT_REQUIRED)
  THEN /\ status' = [status EXCEPT ![n] = INPUT_REQUIRED]
       /\ ask'    = [ask EXCEPT ![n] = asked + 1]
       /\ kind'   = [kind EXCEPT ![n] = "question"]
       /\ asked'  = asked + 1
  ELSE UNCHANGED <<status, ask, kind, asked>>

(* spawn_assist: another agent, of those not yet in the chain, helps. *)
call_subagent(n) ==
  derived < MaxDerived /\ Spawn(1, <<{}>>, <<n>>) /\ status' = Spawned(1, status)

SettleAct(n) ==
  /\ Holds(SettleActor(n)) /\ settle[n] = "act"
  /\ \/ /\ ask[n] # 0
        /\ UNCHANGED <<nodes, status, deps, requested, ask, kind, asked, derived>>
     \/ /\ ask[n] = 0 /\ call_subagent(n)
        /\ UNCHANGED <<ask, kind, asked>>
     \/ /\ ask[n] = 0 /\ ask_user(n)
        /\ UNCHANGED <<nodes, deps, requested, derived>>
  /\ settle' = [settle EXCEPT ![n] = "done"] /\ Release
  /\ UNCHANGED <<version, attempt, adopted, queue, patched, revisions, runner, busy, wake, taskVars,
                 detached, live, turn, msgVars>>

(***************************************************************************)
(* Messages.  Send is ensure_session and the request for the lock, in the  *)
(* order of arrival; each handler is a route of message_flow, run under    *)
(* the lock.                                                               *)
(***************************************************************************)
Answers == {"yes", "no"}

Send(m, k, n) ==
  /\ ~busy /\ mstate[m] = "new" /\ \A o \in Msg : o < m => mstate[o] # "new"
  /\ n \in nodes \cup {0}
  /\ k \in Answers => n # 0 /\ ask[n] # 0       \* a question the user has seen
  /\ k = "no" => kind[n] = "confirm_cancel"
  /\ k = "quote" => n # 0
  /\ k \notin Answers \cup {"quote"} => n = 0
  /\ IF k = "cancel" /\ ~live                    \* cancel() finds no session
     THEN mstate' = [mstate EXCEPT ![m] = "done"] /\ UNCHANGED <<lockq, live, mkind, mnode, mask>>
     ELSE /\ mstate' = [mstate EXCEPT ![m] = "queued"]
          /\ mkind'  = [mkind EXCEPT ![m] = k]
          /\ mnode'  = [mnode EXCEPT ![m] = n]
          /\ mask'   = [mask EXCEPT ![m] = IF k \in Answers THEN ask[n] ELSE 0]
          /\ live' = TRUE
          /\ Acquire(MsgActor(m))
  /\ turn' = IF k = "cancel" THEN "canceled" ELSE turn
  /\ UNCHANGED <<planVars, runner, busy, wake, taskVars, settleVars>>

(* evict_session, once the state of the turn is out *)
evict_session(final) == live' = FALSE /\ turn' = final

(* node_tasks and settle_tasks are emptied.  A task or a runner that waits *)
(* for the lock is not followed any further.                               *)
cleared ==
  /\ phase' = [t \in TaskId |-> "none"] /\ obj' = [t \in TaskId |-> "live"]
  /\ settle' = [n \in NodeId |-> "none"] /\ detached' = [n \in NodeId |-> FALSE]
  /\ LET rest == Tail(lockq)
     IN  lockq' = [i \in 1..Len(rest) |-> IF rest[i][1] = "msg" THEN rest[i] ELSE GONE]

Handles(m, k) == Holds(MsgActor(m)) /\ mstate[m] = "queued" /\ mkind[m] \in k

(* The handler stops at an await, still holding the lock. *)
Suspends(m, at) == mstate' = [mstate EXCEPT ![m] = at] /\ UNCHANGED <<mkind, mnode, mask>>

Handled(m) ==
  /\ mstate' = [mstate EXCEPT ![m] = "done"]
  /\ mkind'  = [mkind EXCEPT ![m] = "text"]
  /\ mnode'  = [mnode EXCEPT ![m] = 0]
  /\ mask'   = [mask EXCEPT ![m] = 0]

(* The handler ends without a change: a rejected answer, a repeated        *)
(* question, an exception.                                                 *)
EndsIdle(m) ==
  /\ Handled(m) /\ Release
  /\ UNCHANGED <<planVars, runner, busy, wake, taskVars, settleVars, live, turn>>

HMalformed(m) == Handles(m, {"malformed"}) /\ EndsIdle(m)      \* _do_reject

(***************************************************************************)
(* _do_answers and answer_intervention.                                    *)
(***************************************************************************)
Pending(m) == mask[m] # 0 /\ ask[mnode[m]] = mask[m]

HReject(m) == Handles(m, Answers) /\ ~Pending(m) /\ EndsIdle(m)

HExpire(m) ==            \* _expire: the node is gone or no longer waits; the runner is not woken
  /\ Handles(m, Answers) /\ Pending(m) /\ Stale(mnode[m], status)
  /\ ask' = [ask EXCEPT ![mnode[m]] = 0]
  /\ Handled(m) /\ Release
  /\ UNCHANGED <<version, nodes, status, deps, attempt, requested, adopted, kind, asked, queue, derived,
                 patched, revisions, runner, busy, wake, taskVars, settleVars, live, turn>>

(* Mutant: the question stays pending once answered. *)
HAnswerKeeps(m) ==
  LET n == mnode[m]
  IN  /\ Handles(m, Answers) /\ Pending(m) /\ ~Stale(n, status)
      /\ kind[n] = "question" \/ mkind[m] = "no"
      /\ status' = IF kind[n] = "question" THEN [status EXCEPT ![n] = READY] ELSE status
      /\ wake' = TRUE /\ start_runner /\ Release
      /\ Handled(m)
      /\ UNCHANGED <<version, nodes, deps, attempt, requested, adopted, ask, kind, asked, queue,
                     derived, patched, revisions, taskVars, settleVars, live, turn>>

HAnswer(m) ==            \* an answer to a question, or a confirmation denied
  LET n == mnode[m]
  IN  /\ Handles(m, Answers) /\ Pending(m) /\ ~Stale(n, status)
      /\ kind[n] = "question" \/ mkind[m] = "no"
      /\ ask' = [ask EXCEPT ![n] = 0]
      /\ status' = IF kind[n] = "question" THEN [status EXCEPT ![n] = READY] ELSE status
      /\ wake' = TRUE /\ start_runner /\ Release
      /\ Handled(m)
      /\ UNCHANGED <<version, nodes, deps, attempt, requested, adopted, kind, asked, queue, derived,
                     patched, revisions, taskVars, settleVars, live, turn>>

HConfirm(m) ==           \* cancel_node: the remote task is being cancelled
  LET n == mnode[m]
  IN  /\ Handles(m, {"yes"}) /\ Pending(m) /\ ~Stale(n, status) /\ kind[n] = "confirm_cancel"
      /\ ask' = [ask EXCEPT ![n] = 0]
      /\ Suspends(m, "canceling")
      /\ UNCHANGED <<version, nodes, status, deps, attempt, requested, adopted, kind, asked, queue,
                     derived, patched, revisions, lockq, runner, busy, wake, taskVars, settleVars,
                     live, turn>>

(* The node n is CANCELED, and the nodes it blocks become INVALIDATED. *)
canceling(n) ==
  LET st == [status EXCEPT ![n] = CANCELED]
  IN  [k \in NodeId |-> IF k \in blocked_nodes(nodes, st, deps) THEN INVALIDATED ELSE st[k]]

HConfirmed(m) ==
  LET n == mnode[m]
  IN  /\ Holds(MsgActor(m)) /\ mstate[m] = "canceling"
      /\ can_transition(status[n], CANCELED)
      /\ status' = canceling(n)
      /\ expire({k \in NodeId : k = n \/ status'[k] # status[k]}, status')
      /\ wake' = TRUE /\ start_runner /\ Release
      /\ Handled(m)
      /\ UNCHANGED <<version, nodes, deps, attempt, requested, adopted, kind, asked, queue, derived,
                     patched, revisions, taskVars, settleVars, live, turn>>

HCancelRaises(m) ==      \* the node settled while its cancellation was awaited
  /\ Holds(MsgActor(m)) /\ mstate[m] \in {"canceling", "interrupting"}
  /\ ~can_transition(status[mnode[m]], CANCELED)
  /\ EndsIdle(m)

(***************************************************************************)
(* The other routes.  A message meets a pending question, a room where     *)
(* work goes on or is left, or neither.                                    *)
(***************************************************************************)
Chat == {"text", "quote", "interrupt", "empty"}

HReemit(m) == Handles(m, Chat) /\ pending_interventions # {} /\ EndsIdle(m)

Room(m, k) ==            \* _classify_inbound chose "room"
  /\ Handles(m, k) /\ pending_interventions = {}
  /\ runner # "off" \/ has_pending_work(nodes, status)

NoRoom(m, k) ==
  /\ Handles(m, k) /\ pending_interventions = {}
  /\ runner = "off" /\ ~has_pending_work(nodes, status)

(* _finish: the runner is started unless it runs. *)
_finish(m) == start_runner /\ Handled(m) /\ Release

HNoop(m) ==
  /\ Room(m, {"empty"})
  /\ _finish(m)
  /\ UNCHANGED <<planVars, wake, taskVars, settleVars, live, turn>>

HComplete(m) ==
  /\ NoRoom(m, {"empty"})
  /\ evict_session("completed") /\ Handled(m) /\ Release
  /\ UNCHANGED <<planVars, runner, busy, wake, taskVars, settleVars>>

Quotes(m, S) == mkind[m] = "quote" /\ mnode[m] \in nodes /\ status[mnode[m]] \in S
Interrupts(m) == mkind[m] = "interrupt" /\ active_nodes(nodes, status) # {}

(* The node a message goes to when it neither quotes nor interrupts one. *)
targets ==
  LET active  == active_nodes(nodes, status)
      waiting == {n \in nodes : status[n] \in {PENDING, READY}}
  IN  IF active # {} THEN {First(active)}
      ELSE IF waiting # {} THEN {First(waiting)} ELSE {}

HEnqueue(m) ==
  /\ Room(m, {"text", "quote", "interrupt"}) /\ ~Interrupts(m)
  /\ \/ Quotes(m, ACTIVE_NODE_STATUSES) /\ queue' = queue \cup {mnode[m]}
     \/ /\ ~Quotes(m, ACTIVE_NODE_STATUSES \cup {COMPLETED})
        /\ \E n \in targets : queue' = queue \cup {n}
  /\ _finish(m)
  /\ UNCHANGED <<version, nodes, status, deps, attempt, requested, adopted, ask, kind, asked, derived,
                 patched, revisions, wake, taskVars, settleVars, live, turn>>

(* Mutant: the budget of derived nodes is not looked at. *)
followup_unbounded(dp, st) == Spawn(1, <<dp>>, <<0>>) /\ status' = Spawned(1, st)

(* spawn_followup_node, within the budget *)
followup(dp, st) == spawn_derived_node(TRUE, dp, 0, st)

HFollowup(m) ==
  /\ Room(m, {"quote"}) /\ Quotes(m, {COMPLETED})
  /\ followup({mnode[m]}, status)
  /\ _finish(m)
  /\ UNCHANGED <<version, attempt, adopted, ask, kind, asked, queue, patched, revisions, wake,
                 taskVars, settleVars, live, turn>>

HInterrupt(m) ==         \* the remote task of the first active node is being cancelled
  /\ Room(m, {"interrupt"}) /\ Interrupts(m)
  /\ mstate' = [mstate EXCEPT ![m] = "interrupting"]
  /\ mnode'  = [mnode EXCEPT ![m] = First(active_nodes(nodes, status))]
  /\ UNCHANGED <<planVars, lockq, runner, busy, wake, taskVars, settleVars, live, turn, mkind, mask>>

HInterrupted(m) ==
  /\ Holds(MsgActor(m)) /\ mstate[m] = "interrupting"
  /\ can_transition(status[mnode[m]], CANCELED)
  /\ followup({}, canceling(mnode[m]))
  /\ _finish(m)
  /\ UNCHANGED <<version, attempt, adopted, ask, kind, asked, queue, patched, revisions, wake,
                 taskVars, settleVars, live, turn>>

(* start_new_plan: the tasks in flight keep the nodes of the old plan.  A  *)
(* handler that plans although work was left, with no runner to do it,     *)
(* starts the runner whatever comes of the planning.                       *)
Planning == {"planning", "replanning"}

HPlan(m) ==
  /\ \/ NoRoom(m, {"text", "quote", "interrupt"})
     \/ /\ Room(m, {"text", "quote", "interrupt"}) /\ ~Interrupts(m)
        /\ ~Quotes(m, ACTIVE_NODE_STATUSES \cup {COMPLETED}) /\ targets = {}
  /\ version < MaxPlans /\ version' = version + 1
  /\ nodes' = {} /\ adopted' = {} /\ queue' = {}
  /\ status' = [n \in NodeId |-> PENDING]
  /\ deps' = [n \in NodeId |-> {}]
  /\ attempt' = [n \in NodeId |-> 0] /\ requested' = [n \in NodeId |-> 0]
  /\ ask' = [n \in NodeId |-> 0]
  /\ derived' = 0 /\ patched' = 0 /\ revisions' = 0
  /\ obj' = [t \in TaskId |-> IF phase[t] # "none" THEN current(t) ELSE "live"]
  /\ detached' = [n \in NodeId |-> settle[n] # "none"]
  /\ turn' = "working"
  /\ Suspends(m, IF runner = "off" /\ has_pending_work(nodes, status) THEN "replanning" ELSE "planning")
  /\ UNCHANGED <<kind, asked, lockq, runner, busy, wake, phase, settle, live>>

(* Mutant: the early return of a failed planning keeps the lock. *)
HPlanEndsLocked(m, final) ==
  /\ Holds(MsgActor(m)) /\ mstate[m] \in Planning /\ final \in {"failed", "completed"}
  /\ evict_session(final) /\ Handled(m)
  /\ UNCHANGED <<planVars, lockq, runner, busy, wake, taskVars, settleVars>>

(* PlanningFailed, or an empty plan.  The variables describe the session   *)
(* under its conversation's id: evict_session takes it out of the          *)
(* dictionary and empties its registries.  A runner that was still at work *)
(* in the room is not stopped by that, but it and its tasks go on with a   *)
(* runtime that nobody can reach any more, which is not modelled.          *)
HPlanEnds(m, final) ==
  /\ Holds(MsgActor(m)) /\ mstate[m] \in Planning /\ final \in {"failed", "completed"}
  /\ evict_session(final) /\ cleared /\ Handled(m)
  /\ runner' = IF mstate[m] = "replanning" THEN "start" ELSE "off"
  /\ UNCHANGED <<planVars, busy, wake>>

HPlanRaises(m) ==        \* the model fails in the compaction, or refuses the request
  Holds(MsgActor(m)) /\ mstate[m] \in Planning /\ EndsIdle(m)

HPlanOk(m, d) ==         \* create_plan
  /\ Holds(MsgActor(m)) /\ mstate[m] \in Planning
  /\ nodes' = nodes \cup DOMAIN d
  /\ status' = [n \in NodeId |-> IF n \in DOMAIN d THEN PENDING ELSE status[n]]
  /\ deps' = [n \in NodeId |-> IF n \in DOMAIN d THEN d[n] ELSE deps[n]]
  /\ start_runner /\ Handled(m) /\ Release
  /\ UNCHANGED <<version, attempt, requested, adopted, ask, kind, asked, queue, derived, patched,
                 revisions, wake, taskVars, settleVars, live, turn>>

(* Mutant: the node tasks survive the runner that is cancelled. *)
HCancelRunnerOnly(m) ==
  /\ Handles(m, {"cancel"})
  /\ status' = [n \in NodeId |-> IF n \in nodes /\ status[n] \in ACTIVE_NODE_STATUSES \cup {READY}
                                 THEN CANCELED ELSE status[n]]
  /\ runner' = "off" /\ UNCHANGED busy
  /\ settle' = [n \in NodeId |-> "none"] /\ detached' = [n \in NodeId |-> FALSE]
  /\ LET rest == Tail(lockq)
     IN  lockq' = [i \in 1..Len(rest) |-> IF rest[i][1] = "msg" THEN rest[i] ELSE GONE]
  /\ evict_session("canceled") /\ Handled(m)
  /\ UNCHANGED <<version, nodes, deps, attempt, requested, adopted, ask, kind, asked, queue, derived,
                 patched, revisions, wake, taskVars>>

(* cancel(): the runner and everything it started are cancelled. *)
HCancel(m) ==
  /\ Handles(m, {"cancel"})
  /\ status' = [n \in NodeId |-> IF n \in nodes /\ status[n] \in ACTIVE_NODE_STATUSES \cup {READY}
                                 THEN CANCELED ELSE status[n]]
  /\ runner' = "off" /\ UNCHANGED busy
  /\ cleared /\ evict_session("canceled") /\ Handled(m)
  /\ UNCHANGED <<version, nodes, deps, attempt, requested, adopted, ask, kind, asked, queue, derived,
                 patched, revisions, wake>>

(***************************************************************************)
(* The specification.                                                      *)
(***************************************************************************)
Init ==
  /\ version = 0
  /\ nodes = {} /\ adopted = {} /\ queue = {}
  /\ status = [n \in NodeId |-> PENDING] /\ deps = [n \in NodeId |-> {}]
  /\ attempt = [n \in NodeId |-> 0] /\ requested = [n \in NodeId |-> 0]
  /\ ask = [n \in NodeId |-> 0] /\ kind = [n \in NodeId |-> "question"] /\ asked = 0
  /\ derived = 0 /\ patched = 0 /\ revisions = 0
  /\ lockq = <<>> /\ runner = "off" /\ busy = FALSE /\ wake = FALSE
  /\ phase = [t \in TaskId |-> "none"] /\ obj = [t \in TaskId |-> "live"]
  /\ settle = [n \in NodeId |-> "none"] /\ detached = [n \in NodeId |-> FALSE]
  /\ live = FALSE /\ turn = "none"
  /\ mstate = [m \in Msg |-> "new"] /\ mkind = [m \in Msg |-> "text"]
  /\ mnode = [m \in Msg |-> 0] /\ mask = [m \in Msg |-> 0]

Runner ==
  \/ RunnerEnter \/ RunnerSchedule \/ RunnerReap \/ RunnerBackoff \/ RunnerContinue \/ RunnerExitWait
  \/ RunnerCompleted \/ RunnerRepairBegin \/ RunnerFailed \/ RunnerReturns
  \/ \E p \in Patches : RunnerRepairOk(p)

NodeTask(t) ==
  \/ TaskSubmitted(t) \/ TaskFails(t) \/ TaskCanceled(t) \/ TaskNeedsInfo(t) \/ TaskDelivers(t)
  \/ TaskReviseBegin(t) \/ TaskDeliverQueued(t) \/ TaskTail(t)
  \/ \E p \in Patches : TaskRevise(t, p)
  \/ \E mention \in BOOLEAN : TaskArbitrate(t, mention)

Settlement(n) == SettleInspect(n) \/ SettleAdopt(n) \/ SettleDecide(n) \/ SettleAct(n)

Handler(m) ==
  \/ HMalformed(m) \/ HReject(m) \/ HExpire(m) \/ HAnswer(m) \/ HConfirm(m) \/ HConfirmed(m)
  \/ HCancelRaises(m) \/ HReemit(m) \/ HNoop(m) \/ HComplete(m) \/ HEnqueue(m) \/ HFollowup(m)
  \/ HInterrupt(m) \/ HInterrupted(m) \/ HPlan(m) \/ HPlanRaises(m) \/ HCancel(m)
  \/ \E final \in {"failed", "completed"} : HPlanEnds(m, final)
  \/ \E d \in Drafts : HPlanOk(m, d)

User == \E m \in Msg, k \in Kinds, n \in nodes \cup {0} : Send(m, k, n)

Next ==
  \/ User \/ LockSkip \/ Runner
  \/ \E t \in TaskId : NodeTask(t)
  \/ \E n \in NodeId : Settlement(n)
  \/ \E m \in Msg : Handler(m)

(***************************************************************************)
(* The event loop runs whatever is runnable.  A node task ends because of  *)
(* node_timeout; the LLM calls of the planner, the repair and the          *)
(* settlement end, or fail, by their client's own timeout.  The user need  *)
(* not send anything.  A remote task that keeps reporting itself submitted *)
(* is stopped by the timeout, so TaskSubmitted is not what makes a task    *)
(* progress.                                                               *)
(***************************************************************************)
TaskEnds(t) ==
  \/ TaskFails(t) \/ TaskCanceled(t) \/ TaskNeedsInfo(t) \/ TaskDelivers(t)
  \/ TaskDeliverQueued(t) \/ TaskTail(t)
  \/ \E p \in Patches : TaskRevise(t, p)
  \/ \E mention \in BOOLEAN : TaskArbitrate(t, mention)

Fairness ==
  /\ WF_vars(LockSkip) /\ WF_vars(Runner)
  /\ \A t \in TaskId : WF_vars(TaskEnds(t))
  /\ \A n \in NodeId : WF_vars(Settlement(n))
  /\ \A m \in Msg : WF_vars(Handler(m))

Spec == Init /\ [][Next]_vars
FairSpec == Spec /\ Fairness

(***************************************************************************)
(* Properties.                                                             *)
(***************************************************************************)
Phases == {"none", "run", "revise", "revised", "post", "queued", "tail", "ok", "raised"}

(* Every variable has the shape the code gives it. *)
TypeOK ==
  /\ version \in 0..MaxPlans
  /\ nodes \subseteq NodeId /\ adopted \subseteq NodeId /\ queue \subseteq NodeId
  /\ status \in [NodeId -> NodeStatus] /\ deps \in [NodeId -> SUBSET NodeId]
  /\ attempt \in [NodeId -> 0..MaxAttempts] /\ requested \in [NodeId -> NodeId \cup {0}]
  /\ ask \in [NodeId -> Nat] /\ kind \in [NodeId -> {"question", "confirm_cancel"}]
  /\ asked \in Nat
  /\ derived \in 0..MaxDerived /\ patched \in 0..MaxPatches /\ revisions \in Nat
  /\ lockq \in Seq(Actor)
  /\ runner \in {"off", "start", "schedule", "wait", "backoff", "flow", "repair"} \cup Endings
  /\ busy \in BOOLEAN /\ wake \in BOOLEAN
  /\ phase \in [TaskId -> Phases] /\ obj \in [TaskId -> NodeStatus \cup {"live"}]
  /\ settle \in [NodeId -> {"none", "inspect", "decide", "adopt", "act", "done"}]
  /\ detached \in [NodeId -> BOOLEAN]
  /\ live \in BOOLEAN
  /\ turn \in {"none", "working", "input_required", "completed", "failed", "canceled"}
  /\ mstate \in [Msg -> {"new", "queued", "canceling", "interrupting", "planning", "replanning", "done"}]
  /\ mkind \in [Msg -> MsgKinds] /\ mnode \in [Msg -> NodeId \cup {0}] /\ mask \in [Msg -> Nat]

(* A task at work on a node of the current plan *)
AtWork(t) == phase[t] \in {"run", "revise", "revised"} /\ obj[t] = "live"

(* run_plan dispatches a node only when everything it depends on has been  *)
(* delivered, and nothing takes a delivery back while the node is at work: *)
(* no reset, cancellation, revision or retry of a dependency can overlap.  *)
DispatchAfterDeps ==
  \A t \in TaskId : AtWork(t) =>
    \A d \in deps[NodeOf(t)] : d \in nodes /\ status[d] = COMPLETED

(* At most one task works on a node of the plan, although a node can be    *)
(* redispatched (retry, answer) before the task that left it has ended.    *)
OneTaskPerNode == \A t, u \in TaskId : AtWork(t) /\ AtWork(u) /\ NodeOf(t) = NodeOf(u) => t = u

(* A node at work is shown as active, unless the user cancelled it. *)
AtWorkIsActive ==
  \A t \in TaskId : AtWork(t) => status[NodeOf(t)] \in ACTIVE_NODE_STATUSES \cup {CANCELED}

(* A question is pending only for a node that waits for its answer. *)
QuestionIsWaited ==
  \A n \in nodes : ask[n] # 0 /\ kind[n] = "question" => status[n] = INPUT_REQUIRED

(* COMPLETED, CANCELED and INVALIDATED are final: only a new plan, which   *)
(* drops every node, ends them.                                            *)
Settled == {COMPLETED, CANCELED, INVALIDATED}
SettledIsFinal ==
  [][\A n \in nodes : status[n] \in Settled /\ version' = version => status'[n] = status[n]]_vars

(* The runner always comes to rest: retries, helpers, repairs and          *)
(* questions cannot keep it going for ever, nor can it wait for ever.      *)
RunnerRests == runner # "off" ~> runner = "off"

(* Every message is answered: no handler waits for ever for the lock. *)
MessagesHandled == \A m \in Msg : mstate[m] = "queued" ~> mstate[m] = "done"

(* From the check of all_completed to the eviction of the session nothing  *)
(* becomes unfinished: a turn is reported completed only when every node   *)
(* has come to an end and none has failed.                                 *)
CompletedIsSettled ==
  runner = "completed" => \A n \in nodes : status[n] \in Settled

(* When run_plan has returned or was cancelled, none of its tasks is left: *)
(* it comes to its end only without any, and its finally clause cancels    *)
(* those in flight, so that the next runner starts clean.  (After a         *)
(* HPlanEnds with a live runner only the session in the dictionary counts.) *)
NothingLeftBehind ==
  runner \in {"off", "start"} => tasksInFlight = {} /\ \A n \in NodeId : settle[n] = "none"

(***************************************************************************)
(* The stages of PlanLifecycle.  A node to RECOVER has a remote task that  *)
(* goes on.                                                                *)
(***************************************************************************)
stage_of(n) ==
  CASE n \notin nodes -> "absent"
    [] n \in nodes /\ status[n] \in {PENDING, READY} -> "waiting"
    [] n \in nodes /\ status[n] \in ACTIVE_NODE_STATUSES \cup {RECOVER} -> "working"
    [] n \in nodes /\ status[n] = INPUT_REQUIRED -> "asking"
    [] n \in nodes /\ status[n] = FAILED -> "failed"
    [] n \in nodes /\ status[n] = COMPLETED -> "delivered"
    [] OTHER -> "dropped"

Lifecycle == INSTANCE PlanLifecycle
  WITH Node <- NodeId, plan <- version, stage <- [n \in NodeId |-> stage_of(n)],
       inputs <- deps

(* The session keeps the promise of PlanLifecycle: work begins only with   *)
(* every input delivered, only a node at work delivers, what is delivered  *)
(* or dropped stays so until the next plan, and inputs neither change nor  *)
(* dangle.                                                                 *)
KeepsLifecycle == Lifecycle!Spec

(***************************************************************************)
(* What the documentation says and the code does not do.                   *)
(***************************************************************************)

(* While one question waits for the user the other nodes go on: a node     *)
(* that has got its answer is not left without a runner to dispatch it.    *)
AnswerHasRunner ==
  runner = "off" /\ turn = "input_required" => \A n \in nodes : status[n] # READY
=============================================================================
