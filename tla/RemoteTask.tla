----------------------------- MODULE RemoteTask -----------------------------
(***************************************************************************)
(* One node of the plan and the tasks it starts at its remote agent: the   *)
(* dispatch, the stream of the answer, polling and re-subscription, the    *)
(* timeout and the retry, a question and its answer, the cancellation of   *)
(* the node, and the restart of the process in the middle of all this.     *)
(*   orchestration/execution/remote_caller.py, node_executor.py, runner.py,*)
(*   a2a/client.py, a2a/recovery.py, orchestration/hitl/intervention.py    *)
(*                                                                         *)
(* Abstractions.  Session has the rest of the plan; here other nodes only  *)
(* write the context store now and then.  An output is the number of its   *)
(* pieces, few enough to be stored whole (to_dict truncates a long one);   *)
(* rejected is failed and auth_required is input_required, as in           *)
(* _REMOTE_STATE_MAP.  The remote agent is external: it answers a message  *)
(* with a task (or a bare message), streams the changes of the task in     *)
(* order, starting with a snapshot, and refuses to stream a task that has  *)
(* ended.                                                                  *)
(***************************************************************************)
EXTENDS Naturals, Sequences, FiniteSets

CONSTANTS
  MaxAttempts,     \* config.max_node_attempts
  Worlds           \* what may happen in one behaviour, and its bounds

Faults == {"timeout",    \* node_timeout passes
           "broken",     \* a request fails or a stream is cut
           "bare",       \* the agent answers with a message and no task
           "cancel",     \* the user cancels the node
           "others",     \* other nodes persist the state of the plan
           "crash"}      \* the process stops and is started again

ASSUME ConstantsAssumption ==
  /\ MaxAttempts \in Nat
  /\ Worlds \subseteq [faults : SUBSET Faults,
                      pieces : Nat,      \* bound: pieces of an output
                      questions : Nat,   \* bound: questions asked
                      tasks : Nat,       \* bound: remote tasks
                      crashes : Nat]     \* bound: crashes

VARIABLES
  world,     \* the faults of this behaviour, and its bounds
  remote,    \* the tasks of the agent: their states and the pieces made
  node,      \* the NodeState in memory
  row,       \* its copy in the context store
  saving,    \* the copy that the dispatch is writing, or None
  pc,        \* where execute_node is
  mode,      \* its mode: dispatch, continue or recover
  stream,    \* the stream it reads: how it was opened, its task, the chunks under way
  current,   \* the status derived from the stream
  got,       \* pieces in the artifacts list of consume_chunks
  left,      \* open remote tasks the code let go of, by a fault
  counts     \* answers given and sent, questions asked, crashes

vars == <<world, remote, node, row, saving, pc, mode, stream, current, got, left, counts>>

None == [status |-> "none"]

Ended(k)   == remote[k].state \in {"completed", "failed", "canceled"}
settled    == {"completed", "failed", "canceled", "input_required"}
Resting(k) == k \notin {j \in DOMAIN remote : remote[j].state \notin settled}
ACTIVE_NODE_STATUSES == {"submitted", "working"}
InFlight   == ACTIVE_NODE_STATUSES \cup {"recover"}     \* it has a task

Allowed(f) == f \in world.faults

(* ALLOWED_TRANSITIONS, for what a node task does: only an active node may *)
(* change (or be set to the status it has).                                *)
can_transition(to) == node.status \in InFlight \/ node.status = to

can_retry == node.status = "failed" /\ node.attempt < MaxAttempts

NoStream == [via |-> "none", task |-> 0, chunks |-> <<>>]
Snapshot(k) == [kind |-> "task", state |-> remote[k].state, made |-> remote[k].made]
Bare        == [kind |-> "message", state |-> "none", made |-> 1]

(***************************************************************************)
(* The remote agent (external).                                            *)
(***************************************************************************)
Streamed(k, c) ==       \* a change of task k also goes to the stream that follows it
  IF stream.task = k THEN [stream EXCEPT !.chunks = Append(@, c)] ELSE stream

RemoteState(k, s) ==
  /\ remote' = [remote EXCEPT ![k].state = s]
  /\ stream' = Streamed(k, [kind |-> "status", state |-> s, made |-> 0])

Work(k) ==
  /\ remote[k].state = "submitted"
  /\ RemoteState(k, "working")
  /\ UNCHANGED <<world, node, row, saving, pc, mode, current, got, left, counts>>

Produce(k) ==
  /\ remote[k].state = "working" /\ remote[k].made < world.pieces
  /\ remote' = [remote EXCEPT ![k].made = @ + 1]
  /\ stream' = Streamed(k, [kind |-> "artifact", state |-> "none", made |-> 1])
  /\ UNCHANGED <<world, node, row, saving, pc, mode, current, got, left, counts>>

Ask(k) ==
  /\ remote[k].state = "working" /\ counts.asked < world.questions
  /\ RemoteState(k, "input_required")
  /\ counts' = [counts EXCEPT !.asked = @ + 1]
  /\ UNCHANGED <<world, node, row, saving, pc, mode, current, got, left>>

End(k, s) ==
  /\ remote[k].state = "working"
  /\ RemoteState(k, s)
  /\ UNCHANGED <<world, node, row, saving, pc, mode, current, got, left, counts>>

(***************************************************************************)
(* run_plan: the node is due.  execute_node is started and the state       *)
(* written; the copy that is written was taken before the task ran.        *)
(***************************************************************************)
Dispatch ==
  /\ pc = "none" /\ saving = None
  /\ node.status \in {"pending", "ready", "recover"} \/ can_retry
  /\ mode' = CASE node.status = "recover" -> "recover"
               [] node.status = "ready" -> "continue"
               [] OTHER -> "dispatch"
  /\ LET due == [node EXCEPT !.status = IF @ = "recover" THEN @ ELSE "submitted"]
     IN  /\ saving' = due
         /\ node' = [due EXCEPT !.attempt = IF mode' = "recover" THEN @ ELSE @ + 1]
  /\ pc' = IF mode' # "recover" THEN "text" ELSE IF node.a2a = 0 THEN "settle" ELSE "subscribe"
  /\ current' = IF pc' = "settle" THEN "failed" ELSE "working"
  /\ UNCHANGED <<world, remote, row, stream, got, left, counts>>

Save ==
  /\ saving # None
  /\ row' = saving /\ saving' = None
  /\ UNCHANGED <<world, remote, node, pc, mode, stream, current, got, left, counts>>

PersistOthers ==        \* another node task persists the state of the plan
  /\ Allowed("others") /\ pc # "down" /\ saving = None
  /\ row # node /\ row' = node
  /\ UNCHANGED <<world, remote, node, saving, pc, mode, stream, current, got, left, counts>>

(* Mutant: the answer stays with the node. *)
build_node_text_keeps ==
  /\ pc = "text" /\ pc' = IF node.answer THEN "answer" ELSE "send"
  /\ UNCHANGED <<world, remote, node, row, saving, mode, stream, current, got, left, counts>>

(* build_node_text: an answer that waits is taken into the message. *)
build_node_text ==
  /\ pc = "text" /\ pc' = IF node.answer THEN "answer" ELSE "send"
  /\ node' = [node EXCEPT !.answer = FALSE]
  /\ UNCHANGED <<world, remote, row, saving, mode, stream, current, got, left, counts>>

(* stream_remote: a continuation goes to the task that asked. *)
Sent == counts' = [counts EXCEPT !.answered = @ + (IF pc = "answer" THEN 1 ELSE 0)]

SendNew ==
  /\ pc \in {"send", "answer"} /\ (mode = "dispatch" \/ node.a2a = 0)
  /\ Len(remote) < world.tasks
  /\ remote' = Append(remote, [state |-> "submitted", made |-> 0])
  /\ stream' = [via |-> "send", task |-> Len(remote) + 1,
                chunks |-> <<[kind |-> "task", state |-> "submitted", made |-> 0]>>]
  /\ Sent /\ pc' = "stream" /\ got' = 0
  /\ UNCHANGED <<world, node, row, saving, mode, current, left>>

SendOn ==
  /\ pc \in {"send", "answer"} /\ mode = "continue" /\ node.a2a # 0
  /\ remote[node.a2a].state = "input_required"
  /\ remote' = [remote EXCEPT ![node.a2a].state = "working"]
  /\ stream' = [via |-> "send", task |-> node.a2a,
                chunks |-> <<[Snapshot(node.a2a) EXCEPT !.state = "working"]>>]
  /\ Sent /\ pc' = "stream" /\ got' = 0
  /\ UNCHANGED <<world, node, row, saving, mode, current, left>>

SendBare ==
  /\ Allowed("bare") /\ pc \in {"send", "answer"} /\ (mode = "dispatch" \/ node.a2a = 0)
  /\ stream' = [via |-> "send", task |-> 0, chunks |-> <<Bare>>]
  /\ Sent /\ pc' = "stream" /\ got' = 0
  /\ UNCHANGED <<world, remote, node, row, saving, mode, current, left>>

(***************************************************************************)
(* consume_chunks.                                                         *)
(***************************************************************************)
Consume ==
  LET c == Head(stream.chunks)
  IN  /\ pc = "stream" /\ stream.chunks # <<>>
      /\ stream' = [stream EXCEPT !.chunks = Tail(@)]
      /\ got' = IF c.kind = "task" THEN IF c.made > 0 THEN c.made ELSE got ELSE got + c.made
      /\ CASE c.kind = "task" ->
                /\ current' = c.state
                /\ node' = [node EXCEPT !.a2a = stream.task,
                                        !.status = IF c.state = "submitted" THEN c.state ELSE @]
                /\ c.state # "submitted" \/ can_transition("submitted")
           [] c.kind = "status" -> current' = c.state /\ UNCHANGED node
           [] OTHER -> UNCHANGED <<current, node>>
      /\ UNCHANGED <<world, remote, row, saving, pc, mode, left, counts>>

LetGo(S) == left' = left \cup {k \in S \ {0} : ~Ended(k)}

(* A chunk that would make a canceled node submitted: InvalidTransition. *)
ConsumeRaises ==
  /\ pc = "stream" /\ stream.chunks # <<>>
  /\ Head(stream.chunks).kind = "task" /\ Head(stream.chunks).state = "submitted"
  /\ ~can_transition("submitted")
  /\ node' = [node EXCEPT !.a2a = stream.task]
  /\ pc' = IF stream.via = "send" THEN "settle" ELSE "poll"
  /\ LetGo(IF stream.via = "send" THEN {stream.task} ELSE {})
  /\ current' = "working" /\ stream' = NoStream
  /\ UNCHANGED <<world, remote, row, saving, mode, got, counts>>

(* The stream ends, with the task at rest or before; ensure_terminal looks *)
(* whether there is more to wait for.                                      *)
StreamEnds ==
  /\ pc = "stream" /\ stream.chunks = <<>>
  /\ Resting(stream.task) \/ Allowed("broken")
  /\ node' = [node EXCEPT !.output = got]
  /\ pc' = IF current \in settled \/ node.a2a = 0 THEN "settle" ELSE "poll"
  /\ stream' = NoStream
  /\ UNCHANGED <<world, remote, row, saving, mode, current, got, left, counts>>

(* The request or the stream of a message fails: the node does, and with   *)
(* it the task that waits for a continuation is let go of: a retry sends   *)
(* its message without the id.                                             *)
SendFails ==
  /\ Allowed("broken") /\ (pc \in {"send", "answer"} \/ stream.via = "send")
  /\ pc' = "settle" /\ current' = "working" /\ stream' = NoStream
  /\ LetGo({stream.task, node.a2a})
  /\ UNCHANGED <<world, remote, node, row, saving, mode, got, counts>>

(* A continuation is refused by a task that does not wait for it. *)
SendRefused ==
  /\ pc \in {"send", "answer"} /\ mode = "continue" /\ node.a2a # 0
  /\ remote[node.a2a].state # "input_required"
  /\ pc' = "settle" /\ current' = "working"
  /\ LetGo({node.a2a})
  /\ UNCHANGED <<world, remote, node, row, saving, mode, stream, got, counts>>

(* A subscription that fails is followed by the next look at the task.     *)
SubscribeFails ==
  /\ \/ pc = "subscribe" /\ node.a2a # 0 /\ (Allowed("broken") \/ Ended(node.a2a))
     \/ Allowed("broken") /\ stream.via = "subscribe"
  /\ pc' = "poll" /\ current' = "working" /\ stream' = NoStream
  /\ UNCHANGED <<world, remote, node, row, saving, mode, got, left, counts>>

(***************************************************************************)
(* ensure_terminal: look at the task (get_task is None on an error), then  *)
(* subscribe to it.                                                        *)
(***************************************************************************)
get_task(found) == found \/ Allowed("broken")

(* Mutant: the output of a task that ended unseen is not fetched. *)
Poll_stale(found) ==
  /\ pc = "poll" /\ get_task(found) /\ node.a2a # 0
  /\ current' = IF found THEN remote[node.a2a].state ELSE current
  /\ pc' = IF current' \in settled THEN "settle" ELSE "subscribe"
  /\ UNCHANGED <<world, remote, node, row, saving, mode, stream, got, left, counts>>

Poll(found) ==
  /\ pc = "poll" /\ get_task(found) /\ node.a2a # 0
  /\ current' = IF found THEN remote[node.a2a].state ELSE current
  /\ node' = IF found /\ remote[node.a2a].state = "completed" /\ remote[node.a2a].made > 0
             THEN [node EXCEPT !.output = remote[node.a2a].made] ELSE node
  /\ pc' = IF current' \in settled THEN "settle" ELSE "subscribe"
  /\ UNCHANGED <<world, remote, row, saving, mode, stream, got, left, counts>>

PollNothing ==          \* cancel_node has taken the id away
  /\ pc \in {"poll", "subscribe"} /\ node.a2a = 0
  /\ pc' = "settle"
  /\ UNCHANGED <<world, remote, node, row, saving, mode, stream, current, got, left, counts>>

subscribe_task ==
  /\ pc = "subscribe" /\ node.a2a # 0 /\ ~Ended(node.a2a)
  /\ stream' = [via |-> "subscribe", task |-> node.a2a, chunks |-> <<Snapshot(node.a2a)>>]
  /\ pc' = "stream" /\ current' = "working" /\ got' = 0
  /\ UNCHANGED <<world, remote, node, row, saving, mode, left, counts>>

(***************************************************************************)
(* The end of execute_node.                                                *)
(***************************************************************************)
(* Mutant: only a stream that is read can time out. *)
Timeout_in_stream ==
  /\ Allowed("timeout") /\ pc = "stream" /\ current # "working"
  /\ pc' = "settle" /\ current' = "working" /\ stream' = NoStream
  /\ LetGo({stream.task, node.a2a})
  /\ UNCHANGED <<world, remote, node, row, saving, mode, got, counts>>

Timeout ==
  /\ Allowed("timeout") /\ pc \in {"text", "send", "answer", "stream", "poll", "subscribe"}
  /\ pc' = "settle" /\ current' = "working" /\ stream' = NoStream
  /\ LetGo({stream.task, node.a2a})
  /\ UNCHANGED <<world, remote, node, row, saving, mode, got, counts>>

(* The outcome: delivered or, when the output asks for information, the    *)
(* question of a task that has ended; otherwise the status as it is, and   *)
(* failed for anything else.  A change the table forbids raises, and then  *)
(* nothing is persisted.                                                   *)
Settle(ask) ==
  LET to == IF ask THEN "input_required" ELSE IF current \in settled THEN current ELSE "failed"
  IN  /\ pc = "settle" /\ pc' = "none"
      /\ ask => current = "completed" /\ counts.asked < world.questions
      /\ counts' = [counts EXCEPT !.asked = @ + (IF ask THEN 1 ELSE 0)]
      /\ node' = [node EXCEPT !.status = IF can_transition(to) THEN to ELSE @,
                              !.a2a = IF ask THEN 0 ELSE @]
      /\ row' = IF can_transition(to) THEN node' ELSE row
      /\ saving' = IF can_transition(to) THEN None ELSE saving
      /\ current' = "working" /\ got' = 0
      /\ UNCHANGED <<world, remote, mode, stream, left>>

(***************************************************************************)
(* The user: an answer makes the node ready; a cancellation is passed on   *)
(* to the remote task, whose id may not be known yet.                      *)
(***************************************************************************)
Answer ==
  /\ pc = "none" /\ node.status = "input_required"
  /\ node' = [node EXCEPT !.status = "ready", !.answer = TRUE] /\ row' = node'
  /\ counts' = [counts EXCEPT !.given = @ + 1]
  /\ UNCHANGED <<world, remote, saving, pc, mode, stream, current, got, left>>

cancel_task(k) == RemoteState(k, "canceled")

cancel_node(passed) ==
  /\ Allowed("cancel") /\ pc # "down" /\ node.status \in InFlight \cup {"ready", "input_required"}
  /\ node' = [node EXCEPT !.status = "canceled", !.a2a = 0] /\ row' = node' /\ saving' = None
  /\ IF passed /\ node.a2a # 0 /\ ~Ended(node.a2a)
     THEN cancel_task(node.a2a) /\ LetGo({stream.task} \ {node.a2a})
     ELSE UNCHANGED <<remote, stream>> /\ LetGo({stream.task, node.a2a})
  /\ UNCHANGED <<world, pc, mode, current, got, counts>>

(***************************************************************************)
(* The process stops; it is started again and recover_session resets the   *)
(* node from the context store.                                            *)
(***************************************************************************)
Crash ==
  /\ Allowed("crash") /\ pc # "down" /\ counts.crashes < world.crashes
  /\ pc' = "down" /\ saving' = None /\ stream' = NoStream
  /\ node' = row /\ current' = "working" /\ got' = 0
  /\ LetGo(DOMAIN remote \ {row.a2a})
  /\ counts' = [counts EXCEPT !.crashes = @ + 1]
  /\ UNCHANGED <<world, remote, row, mode>>

(* Mutant: an active node is always dispatched again. *)
recover_session_afresh ==
  /\ pc = "down" /\ pc' = "none"
  /\ node' = [row EXCEPT !.status = IF @ \in ACTIVE_NODE_STATUSES THEN "pending" ELSE @]
  /\ row' = node'
  /\ UNCHANGED <<world, remote, saving, mode, stream, current, got, left, counts>>

recover_session ==
  /\ pc = "down" /\ pc' = "none"
  /\ node' = [row EXCEPT !.status =
                IF @ \notin ACTIVE_NODE_STATUSES THEN @ ELSE IF row.a2a # 0 THEN "recover" ELSE "pending"]
  /\ row' = node'
  /\ UNCHANGED <<world, remote, saving, mode, stream, current, got, left, counts>>

(***************************************************************************)
(* The specification.                                                      *)
(***************************************************************************)
Init ==
  /\ world \in Worlds
  /\ remote = <<>> /\ saving = None /\ pc = "none" /\ mode = "dispatch"
  /\ node = [status |-> "pending", attempt |-> 0, a2a |-> 0, answer |-> FALSE, output |-> 0]
  /\ row = node
  /\ stream = NoStream /\ current = "working" /\ got = 0 /\ left = {}
  /\ counts = [given |-> 0, answered |-> 0, asked |-> 0, crashes |-> 0]

Agent(k) ==
  \/ Work(k) \/ Produce(k) \/ Ask(k)
  \/ \E s \in {"completed", "failed"} : End(k, s)

NodeTask ==
  \/ build_node_text \/ SendNew \/ SendOn \/ SendBare
  \/ Consume \/ ConsumeRaises \/ StreamEnds \/ SendRefused
  \/ (\E found \in BOOLEAN : Poll(found)) \/ PollNothing \/ subscribe_task
  \/ \E ask \in BOOLEAN : Settle(ask)

Next ==
  \/ \E k \in DOMAIN remote : Agent(k)
  \/ NodeTask \/ SendFails \/ SubscribeFails \/ Timeout
  \/ Dispatch \/ Save \/ PersistOthers
  \/ Answer \/ (\E passed \in BOOLEAN : cancel_node(passed))
  \/ Crash \/ recover_session

Spec == Init /\ [][Next]_vars

(* The event loop runs every task that is ready, asyncio.timeout fires,    *)
(* and a process that stopped is started again.  The agent owes nothing.   *)
FairSpec ==
  /\ Spec
  /\ WF_vars(Dispatch) /\ WF_vars(Save) /\ WF_vars(NodeTask) /\ WF_vars(recover_session)
  /\ WF_vars(Timeout)

(***************************************************************************)
(* Properties.                                                             *)
(***************************************************************************)
(* A delivered node delivers the whole output of the remote task it names, *)
(* and that task has completed: pieces are neither lost nor doubled when   *)
(* the stream is cut, polled and opened again.  (A task that completes     *)
(* with no output and is only polled, after a restart or after a bare      *)
(* message that answers a retry, leaves the node with the output that an   *)
(* earlier attempt or the message brought.)                                *)
Whole(r) ==
  /\ r.a2a # 0 /\ remote[r.a2a].state = "completed"
  /\ remote[r.a2a].made > 0 \/ (counts.crashes = 0 /\ ~Allowed("bare"))
       => r.output = remote[r.a2a].made

WholeOutput == node.status = "completed" => Whole(node)

(* A remote task that is still open is followed: by the node task, by the  *)
(* id that the node keeps while it waits for an answer, or, while the      *)
(* process is down, by the id in the context store.  The others were let   *)
(* go of by a timeout, a failed stream, a cancellation that did not reach  *)
(* the agent, or a crash before the id was stored.                         *)
Followed ==
  \A k \in DOMAIN remote \ left : ~Ended(k) =>
    IF pc = "down" THEN row.a2a = k ELSE stream.task = k \/ node.a2a = k

(* While the process does not stop, an answer of the user goes into at     *)
(* most one message to an agent.                                           *)
AnswerOnce ==
  counts.crashes = 0 => counts.answered + (IF node.answer \/ pc = "answer" THEN 1 ELSE 0) <= counts.given

(* A dispatched node always comes to rest again, whatever the agent does:  *)
(* the timeout ends every attempt and the attempts end.                    *)
AtRest ==
  /\ pc = "none"
  /\ node.status \in settled /\ ~can_retry

ComesToRest == []<>AtRest

(* One dispatch makes one remote task, and work in progress is not         *)
(* dispatched again after a restart.                                       *)
OneTaskPerDispatch == Cardinality({k \in DOMAIN remote : ~Ended(k)}) <= 1
=============================================================================
