------------------------------ MODULE History ------------------------------
(***************************************************************************)
(* What a conversation remembers: the messages kept for the LLM, their     *)
(* compaction, the artifacts they are replayed from when the session is    *)
(* loaded again, the snapshot of the plan kept with every turn, and the    *)
(* rewind of a conversation to an earlier turn.                            *)
(*   orchestration/history.py, events.py, rewind.py, a2a/tasks.py,         *)
(*   a2a/recovery.py, api/conversations.py                                 *)
(*                                                                         *)
(* Abstractions.  A message is a number with a role; a summary is the set  *)
(* of the messages it was made from.  The number of tokens is left out:    *)
(* whether the threshold is passed is a choice.  A snapshot of the plan is *)
(* the number of messages recorded when it was taken.  The task store      *)
(* keeps tasks in the order of creation and artifacts in the order they    *)
(* were emitted.  A turn writes to the newest task; two open turns that    *)
(* take the task id of the session from each other are not modelled.       *)
(***************************************************************************)
EXTENDS Naturals, Sequences, Filters

CONSTANTS
  Retention,       \* HistoryBuilder._retention
  Worlds           \* what may happen in one behaviour, and its bounds

Events == {"compact",     \* the messages outgrow the context window
           "rewind",      \* the user rewinds the conversation
           "resume",      \* a message goes to an open task of a session not in memory
           "restart",     \* the process stops and is started again
           "reboot",      \* the same, while at most the newest task is open, with nothing recorded
           "overlap"}     \* node tasks record while a message is handled

ASSUME ConstantsAssumption ==
  /\ Retention \in Nat
  /\ Worlds \subseteq [events : SUBSET Events,
                      tasks : Nat,        \* bound: tasks, rewind markers included
                      messages : Nat,     \* bound: messages recorded
                      folds : Nat]        \* bound: compactions

VARIABLES
  world,     \* the events this behaviour may have, and its bounds
  tasks,     \* the task store, oldest first: turns and rewind markers
  row,       \* the snapshot in the context store
  recorded,  \* messages recorded so far
  messages,  \* runtime.messages
  cstate,    \* HistoryBuilder._compaction_state of the conversation
  live,      \* the session is in memory
  running,   \* and its runner runs
  cur,       \* runtime.task_id: the task that artifacts and snapshots go to
  pc,        \* where the handler of a message is
  recent,    \* a compaction in progress: the messages it keeps, and what it makes
  rw,        \* a rewind in progress
  folds      \* compactions so far

sessionVars == <<messages, live, running, cur>>
vars == <<world, tasks, row, recorded, sessionVars, cstate, pc, recent, rw, folds>>

(***************************************************************************)
(* Messages and artifacts.                                                 *)
(***************************************************************************)
Msg(k, r)  == [id |-> k, role |-> r, covers |-> {}]
Summary(S) == [id |-> 0, role |-> "assistant", covers |-> S]
Told(s)    == UNION {s[i].covers \cup ({s[i].id} \ {0}) : i \in DOMAIN s}

NoCompaction     == [count |-> 0, covers |-> {}, set |-> FALSE]
Compaction(c, S) == [count |-> c, covers |-> S, set |-> TRUE]
NoFold           == [kept |-> <<>>, made |-> NoCompaction]

(* An artifact carries messages, or a compaction. *)
MessageArtifact(ms)  == [ms |-> ms, compaction |-> NoCompaction]
CompactionArtifact(c) == [ms |-> <<>>, compaction |-> c]

(* new_task: a turn, or the marker of a rewind before the task b *)
Turn(human) == [before |-> 0, arts |-> <<>>, snap |-> 0, open |-> TRUE, human |-> human]
Marker(b)   == [before |-> b, arts |-> <<>>, snap |-> 0, open |-> FALSE, human |-> FALSE]

(***************************************************************************)
(* iter_all_tasks: the tasks, newest first, without what a rewind hides.   *)
(* A marker opens a range to skip, which ends with the task it names.      *)
(***************************************************************************)
scan(stack, i) ==
  IF tasks[i].before # 0 THEN Append(stack, tasks[i].before)
  ELSE IF stack # <<>> /\ stack[Len(stack)] = i THEN SubSeq(stack, 1, Len(stack) - 1)
  ELSE stack

(* The stack after the n newest tasks. *)
skip_stack ==
  LET f[n \in 0..Len(tasks)] == IF n = 0 THEN <<>> ELSE scan(f[n - 1], Len(tasks) + 1 - n)
  IN  f

(* Mutant: the task a rewind names stays visible. *)
shown_kept(stack, i) == tasks[i].before = 0 /\ stack \in {<<>>, <<i>>}

shown(stack, i) == tasks[i].before = 0 /\ stack = <<>>

(* As a set: their order is that of their numbers. *)
iter_all_tasks == {i \in DOMAIN tasks : shown(skip_stack[Len(tasks) - i], i)}

(***************************************************************************)
(* rebuild: replay the artifacts of the visible tasks but one.             *)
(***************************************************************************)
Artifacts(exclude) ==
  Flat([i \in DOMAIN tasks |-> IF i \in iter_all_tasks \ {exclude} THEN tasks[i].arts ELSE <<>>])

Raw(arts) == Flat([k \in DOMAIN arts |-> arts[k].ms])

Latest(arts) ==
  LET K == {k \in DOMAIN arts : arts[k].compaction.set}
  IN  IF K = {} THEN NoCompaction ELSE arts[Greatest(K)].compaction

rebuilt_raw(exclude)       == Raw(Artifacts(exclude))
latest_compaction(exclude) == Latest(Artifacts(exclude))

rebuild(exclude) ==
  LET raw == rebuilt_raw(exclude)
      c   == latest_compaction(exclude)
  IN  IF c.set THEN <<Summary(c.covers)>> \o SubSeq(raw, c.count + 1, Len(raw)) ELSE raw

(* It sets the compaction state only when it has found one. *)
rebuild_state(exclude) ==
  IF latest_compaction(exclude).set THEN latest_compaction(exclude) ELSE cstate

(***************************************************************************)
(* A message arrives: execute.  It opens a new task or goes to the open    *)
(* task of the session; an empty list of messages is rebuilt.              *)
(***************************************************************************)
Quiet == pc = "idle" /\ rw.at = "none"

Enter(t) ==       \* ensure_session and the rebuild, for the task t
  /\ live' = TRUE /\ cur' = t
  /\ IF messages = <<>> THEN messages' = rebuild(t) /\ cstate' = rebuild_state(t)
                        ELSE UNCHANGED <<messages, cstate>>

Receive(human) ==
  /\ human \/ "rewind" \in world.events      \* only a rewind asks who opened the turn
  /\ Quiet /\ Len(tasks) < world.tasks
  /\ tasks' = Append(tasks, Turn(human))
  /\ Enter(Len(tasks) + 1)
  /\ pc' = "routed"
  /\ UNCHANGED <<world, row, recorded, running, recent, rw, folds>>

Continue ==       \* an answer, or a message that names its task
  /\ Quiet /\ iter_all_tasks # {}
  /\ live \/ "resume" \in world.events
  /\ tasks[Greatest(iter_all_tasks)].open
  /\ Enter(Greatest(iter_all_tasks))
  /\ pc' = "routed"
  /\ UNCHANGED <<world, tasks, row, recorded, running, recent, rw, folds>>

(***************************************************************************)
(* plan_and_launch: compact, then plan.                                    *)
(***************************************************************************)
(* Mutant: the split may fall between a call and its result. *)
split_anywhere(s) == IF Len(s) > Retention THEN Len(s) - Retention ELSE 0

(* Where the old messages end: a result is not kept without its call. *)
split(s) ==
  LET limit == IF Len(s) > Retention THEN Len(s) - Retention ELSE 0
  IN  Greatest({k \in 0..limit : k = 0 \/ k = Len(s) \/ s[k + 1].role # "tool"})

(* Mutant: the summary message is counted as a message of the replay. *)
compacted_too_many(s) ==
  LET old == SubSeq(s, 1, split(s))
  IN  IF cstate.set
      THEN Compaction(cstate.count + Len(old), cstate.covers \cup Told(Tail(old)))
      ELSE Compaction(split(s), Told(old))

(* Mutant: the next summary is made without the previous one. *)
compacted_forgets(s) ==
  LET old == SubSeq(s, 1, split(s))
  IN  IF cstate.set THEN Compaction(cstate.count + Len(old) - 1, Told(Tail(old)))
      ELSE Compaction(split(s), Told(old))

(* The summary of the old messages; the first of them is the previous one. *)
compacted(s) ==
  LET old == SubSeq(s, 1, split(s))
  IN  IF cstate.set
      THEN Compaction(cstate.count + Len(old) - 1, cstate.covers \cup Told(Tail(old)))
      ELSE Compaction(split(s), Told(old))

PlanAsIs ==       \* below the threshold, or nothing to fold
  /\ pc = "routed" /\ pc' = "planning"
  /\ UNCHANGED <<world, tasks, row, recorded, sessionVars, cstate, recent, rw, folds>>

CompactBegin ==   \* the LLM is asked for a summary of the old messages
  /\ pc = "routed" /\ "compact" \in world.events /\ folds < world.folds
  /\ split(messages) > 0
  /\ pc' = "compacting"
  /\ recent' = [kept |-> SubSeq(messages, split(messages) + 1, Len(messages)),
                made |-> compacted(messages)]
  /\ folds' = folds + 1
  /\ UNCHANGED <<world, tasks, row, recorded, sessionVars, cstate, rw>>

CompactEnd ==     \* the list is replaced and the compaction emitted
  /\ pc = "compacting"
  /\ cstate' = recent.made
  /\ messages' = <<Summary(cstate'.covers)>> \o recent.kept
  /\ tasks' = [tasks EXCEPT ![cur].arts = Append(@, CompactionArtifact(cstate'))]
  /\ pc' = "planning" /\ recent' = NoFold
  /\ UNCHANGED <<world, row, recorded, live, running, cur, rw, folds>>

(* record_message, record_decision and _record_tool_exchange: the list and *)
(* an artifact of the current task get the same messages.                  *)
Msgs(roles) == [i \in DOMAIN roles |-> Msg(recorded + i, roles[i])]

Record(roles) ==
  LET ms == Msgs(roles)
  IN  /\ recorded + Len(roles) <= world.messages
      /\ recorded' = recorded + Len(roles)
      /\ messages' = messages \o ms
      /\ tasks' = [tasks EXCEPT ![cur].arts = Append(@, MessageArtifact(ms))]

Planned ==        \* the request is recorded, the plan made, the runner started
  /\ pc = "planning"
  /\ Record(<<"user">>)
  /\ pc' = "idle" /\ running' = TRUE
  /\ UNCHANGED <<world, row, cstate, live, cur, recent, rw, folds>>

Forget == live' = FALSE /\ running' = FALSE /\ messages' = <<>> /\ cur' = 0

(* Planning fails, or the plan is empty: the request is recorded with the  *)
(* error of the call or the decision, and the turn ends.  The snapshot is  *)
(* taken before the error is recorded.                                     *)
PlanEnds(failed) ==
  LET roles == IF failed THEN <<"user", "assistant", "tool">> ELSE <<"user", "assistant">>
      upto  == recorded + (IF failed THEN 1 ELSE 2)
  IN  /\ pc = "planning" /\ pc' = "idle"
      /\ recorded + Len(roles) <= world.messages
      /\ recorded' = recorded + Len(roles)
      /\ row' = upto
      /\ tasks' = [tasks EXCEPT ![cur].open = FALSE, ![cur].snap = upto,
                               ![cur].arts = Append(@, MessageArtifact(Msgs(roles)))]
      /\ Forget
      /\ UNCHANGED <<world, cstate, recent, rw, folds>>

(* A node task or a settlement records a decision or a call. *)
Decide(roles) ==
  /\ running /\ (Quiet \/ "overlap" \in world.events)
  /\ Record(roles)
  /\ UNCHANGED <<world, row, cstate, live, running, cur, pc, recent, rw, folds>>

(* Mutant: the snapshot goes to the turn but not to the context store. *)
Persist_turn_only ==
  /\ running /\ Quiet
  /\ tasks' = [tasks EXCEPT ![cur].snap = recorded]
  /\ UNCHANGED <<world, row, recorded, sessionVars, cstate, pc, recent, rw, folds>>

Persist ==        \* persist: the context store, and the snapshot of the turn
  /\ running /\ Quiet
  /\ row' = recorded /\ tasks' = [tasks EXCEPT ![cur].snap = recorded]
  /\ UNCHANGED <<world, recorded, sessionVars, cstate, pc, recent, rw, folds>>

Pause ==          \* _exit_wait: the runner ends, the task stays open
  /\ running /\ Quiet
  /\ running' = FALSE
  /\ UNCHANGED <<world, tasks, row, recorded, messages, cstate, live, cur, pc, recent, rw, folds>>

Finish ==         \* the turn ends and the session is evicted
  /\ running /\ Quiet
  /\ tasks' = [tasks EXCEPT ![cur].open = FALSE]
  /\ Forget
  /\ UNCHANGED <<world, row, recorded, cstate, pc, recent, rw, folds>>

(***************************************************************************)
(* A restart: what was in memory is lost.  recover_tasks sends a message   *)
(* to the newest open task, and recover_session rebuilds the messages.     *)
(***************************************************************************)
Restart ==
  /\ pc # "down"
  /\ \/ "restart" \in world.events
     \/ "reboot" \in world.events /\ \A i \in DOMAIN tasks : tasks[i].open => i = Len(tasks) /\ tasks[i].arts = <<>>
  /\ Forget
  /\ cstate' = NoCompaction /\ recent' = NoFold /\ rw' = [at |-> "none", before |-> 0, snap |-> 0]
  /\ pc' = "down"
  /\ UNCHANGED <<world, tasks, row, recorded, folds>>

Recover ==
  LET opened == {i \in iter_all_tasks : tasks[i].open /\ (tasks[i].snap # 0 \/ row # 0)}
  IN  /\ pc = "down" /\ pc' = "idle"
      /\ IF opened = {} THEN UNCHANGED <<sessionVars, cstate>>
         ELSE Enter(Greatest(opened)) /\ running' = TRUE
      /\ UNCHANGED <<world, tasks, row, recorded, recent, rw, folds>>

(***************************************************************************)
(* rewind_conversation.  A session whose runner runs is refused.  (A       *)
(* handler that has not started the runner yet is not noticed: a rewind    *)
(* that overlaps with one is not modelled.)                                *)
(***************************************************************************)
(* restore_state: the snapshot of the turn before, 0 for an empty plan. *)
checkpoint(b) ==
  LET earlier == {i \in iter_all_tasks : i < b}
  IN  IF earlier = {} THEN [ok |-> TRUE, snap |-> 0]
      ELSE [ok |-> tasks[Greatest(earlier)].snap # 0, snap |-> tasks[Greatest(earlier)].snap]

RewindBegin(b) ==
  /\ "rewind" \in world.events /\ Quiet /\ ~running /\ Len(tasks) < world.tasks
  /\ b \in iter_all_tasks /\ tasks[b].human
  /\ checkpoint(b).ok                       \* else RewindUnavailable
  /\ rw' = [at |-> "read", before |-> b, snap |-> checkpoint(b).snap]
  /\ UNCHANGED <<world, tasks, row, recorded, sessionVars, cstate, pc, recent, folds>>

RewindWrite ==
  /\ rw.at = "read"
  /\ row' = rw.snap /\ rw' = [rw EXCEPT !.at = "written"]
  /\ UNCHANGED <<world, tasks, recorded, sessionVars, cstate, pc, recent, folds>>

RewindEnd ==      \* the marker is saved and the session evicted
  /\ rw.at = "written"
  /\ tasks' = Append(tasks, Marker(rw.before))
  /\ Forget
  /\ rw' = [at |-> "none", before |-> 0, snap |-> 0]
  /\ UNCHANGED <<world, row, recorded, cstate, pc, recent, folds>>

(***************************************************************************)
(* The specification.                                                      *)
(***************************************************************************)
Init ==
  /\ world \in Worlds
  /\ tasks = <<>> /\ row = 0 /\ recorded = 0 /\ messages = <<>> /\ cstate = NoCompaction
  /\ live = FALSE /\ running = FALSE /\ cur = 0 /\ pc = "idle" /\ recent = NoFold /\ folds = 0
  /\ rw = [at |-> "none", before |-> 0, snap |-> 0]

Next ==
  \/ \E human \in BOOLEAN : Receive(human)
  \/ Continue \/ PlanAsIs \/ CompactBegin \/ CompactEnd \/ Planned
  \/ \E failed \in BOOLEAN : PlanEnds(failed)
  \/ \E roles \in {<<"assistant">>, <<"assistant", "tool">>} : Decide(roles)
  \/ Persist \/ Pause \/ Finish \/ Restart \/ Recover
  \/ \E b \in DOMAIN tasks : RewindBegin(b)
  \/ RewindWrite \/ RewindEnd

Spec == Init /\ [][Next]_vars

(***************************************************************************)
(* Properties.                                                             *)
(***************************************************************************)
(* Replaying the artifacts of the visible turns gives the list of messages *)
(* that is live, so that a session loaded again sees what it saw before:   *)
(* the same messages after the same summary.                               *)
RebuildExact == live => messages = rebuild(0)

(* The result of a call always follows the call: neither a compaction nor  *)
(* a replay that skips the compacted messages separates the two.           *)
ToolPairs ==
  \A i \in DOMAIN messages : messages[i].role = "tool" =>
    i > 1 /\ messages[i - 1].role = "assistant" /\ messages[i - 1].id = messages[i].id - 1

(* Everything recorded in a visible turn is in the list or was summarised, *)
(* and nothing of a turn that was rewound is.                              *)
NothingForgotten ==
  live => Told(messages) = Told(rebuilt_raw(0))

(* The skip stack of iter_all_tasks hides what the rewinds took back: a    *)
(* turn is visible unless a later rewind names it or one before it.        *)
VisibleIsApplied ==
  iter_all_tasks = {i \in DOMAIN tasks :
    /\ tasks[i].before = 0
    /\ \A m \in i + 1..Len(tasks) : tasks[m].before # 0 => i < tasks[m].before}

(* The context store holds the last snapshot of the visible turns: after a *)
(* rewind that of the turn before, and none that belongs to a hidden turn. *)
RowIsCheckpoint ==
  LET kept == {i \in iter_all_tasks : tasks[i].snap # 0}
  IN  rw.at = "none" => row = IF kept = {} THEN 0 ELSE tasks[Greatest(kept)].snap

(***************************************************************************)
(* Which events leave the properties alone.                                *)
(***************************************************************************)
(* The task that is recovered or resumed is left out of the replay (a      *)
(* restart, and a resume after a rewind); a rewind behind a compaction     *)
(* leaves its state; what is recorded beside a compaction is not in the    *)
(* list it makes.                                                          *)
Replayable(E) ==
  /\ "restart" \notin E
  /\ "rewind" \in E => "resume" \notin E
  /\ "compact" \in E => {"rewind", "overlap"} \cap E = {}

(* Pairs are kept whatever happens, as long as nothing is compacted. *)
Pairable(E) == Replayable(E) \/ "compact" \notin E

(* A restart goes on with an open task that need not be the newest, and a  *)
(* rewind that is cut short has changed the row only.                      *)
Checkpointed(E) == "restart" \notin E /\ ~({"rewind", "reboot"} \subseteq E)
=============================================================================
