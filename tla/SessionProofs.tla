--------------------------- MODULE SessionProofs ---------------------------
(***************************************************************************)
(* Proofs about Session, for every value of its constants.  The types are  *)
(* proved first (TypeCorrect); then that every step but start_new_plan     *)
(* keeps the nodes of the plan, their dependencies and the settled         *)
(* statuses (StepKeeps), which needs the inductive invariant IInv: ids     *)
(* handed out are fresh, and the handler that awaits the planner holds the *)
(* lock.  SettledNodesStay and DispatchCorrect follow.                     *)
(***************************************************************************)
EXTENDS Session, TLAPS, WellFoundedInduction, SequenceTheorems

(* The first of a non-empty set of nodes is one of them. *)
LEMMA FirstIn ==
  ASSUME NEW S, S \subseteq NodeId, S # {}
  PROVE  First(S) \in S /\ \A m \in S : First(S) <= m
<1>1. S \subseteq Nat
  BY ConstantsAssumption DEF NodeId
<1> DEFINE Less == {ss \in Nat \X Nat : ss[1] < ss[2]}
<1>2. IsWellFoundedOn(Less, Nat)
  BY NatLessThanWellFounded DEF OpToRel
<1> HIDE DEF Less
<1>3. PICK n \in S : \A m \in S : ~ (<<m, n>> \in Less)
  BY <1>1, <1>2, WFMin, Zenon
<1>4. \A m \in S : n <= m
  <2>1. TAKE m \in S
  <2>2. m \in Nat /\ n \in Nat
    BY <1>1
  <2>3. m < n => <<m, n>> \in Less
    BY <2>2 DEF Less
  <2> QED
    BY <1>3, <2>2, <2>3
<1> QED
  BY <1>4 DEF First

(* cancel() leaves the waiting messages in the queue of the lock, and      *)
(* marks the other waiters as gone.                                        *)
LEMMA CancelledQueue ==
  ASSUME NEW q \in Seq(Actor), NEW r,
         r = [i \in 1..Len(q) |-> IF q[i][1] = "msg" THEN q[i] ELSE GONE]
  PROVE  r \in Seq(Actor)
<1>1. \A i \in 1..Len(q) : q[i] \in Actor
  BY ElementOfSeq
<1>2. GONE \in Actor
  BY DEF Actor
<1>3. r \in [1..Len(q) -> Actor]
  BY <1>1, <1>2
<1>4. Len(q) \in Nat
  BY LenProperties
<1> QED
  BY <1>3, <1>4, SeqDef, Zenon

(* The lock keeps a queue of actors. *)
LEMMA QueueTypes ==
  ASSUME TypeOK
  PROVE  /\ \A a \in Actor : Append(lockq, a) \in Seq(Actor)
         /\ lockq # <<>> => Tail(lockq) \in Seq(Actor)
         /\ lockq # <<>> => \A a \in Actor : Append(Tail(lockq), a) \in Seq(Actor)
BY DEF TypeOK

(* Whoever asks for the lock is an actor. *)
LEMMA ActorTypes ==
  /\ RUNNER \in Actor /\ GONE \in Actor
  /\ \A m \in Msg : MsgActor(m) \in Actor
  /\ \A n \in NodeId : SettleActor(n) \in Actor
  /\ \A t \in TaskId : TaskActor(t) \in Actor
BY DEF Actor

(* Expiring questions leaves numbers of questions. *)
LEMMA ExpireType ==
  ASSUME TypeOK, NEW S, NEW st, expire(S, st)
  PROVE  ask' \in [NodeId -> Nat]
BY DEF TypeOK, expire

(* k nodes are spawned within the budget. *)
LEMMA SpawnTypes ==
  ASSUME TypeOK, NEW k \in Nat, derived + k <= MaxDerived,
         NEW dp, NEW by, Spawn(k, dp, by),
         \A i \in 1..k : dp[i] \subseteq NodeId /\ by[i] \in NodeId \cup {0}
  PROVE  /\ nodes' \subseteq NodeId /\ nodes \subseteq nodes'
         /\ deps' \in [NodeId -> SUBSET NodeId]
         /\ requested' \in [NodeId -> NodeId \cup {0}]
         /\ derived' \in 0..MaxDerived
<1>1. derived \in Nat /\ patched \in 0..MaxPatches /\ MaxPlan \in Nat /\ MaxDerived \in Nat /\ MaxPatches \in Nat
  BY ConstantsAssumption DEF TypeOK
<1>2. \A i \in 1..k : Fresh(i) \in NodeId
  BY <1>1 DEF Fresh, NodeId
<1>3. ASSUME NEW n \in NodeId, NEW i \in 1..k, n = Fresh(i)
      PROVE  n - Fresh(0) = i
  BY <1>1, <1>3 DEF Fresh
<1>4. nodes' \subseteq NodeId /\ nodes \subseteq nodes'
  BY <1>2 DEF Spawn, TypeOK
<1>5. deps' \in [NodeId -> SUBSET NodeId]
  BY <1>3 DEF Spawn, TypeOK
<1>6. requested' \in [NodeId -> NodeId \cup {0}]
  BY <1>3 DEF Spawn, TypeOK
<1>7. derived' \in 0..MaxDerived
  BY <1>1 DEF Spawn
<1> QED
  BY <1>4, <1>5, <1>6, <1>7

(* The statuses with the spawned nodes are statuses. *)
LEMMA SpawnedType ==
  ASSUME NEW st \in [NodeId -> NodeStatus], NEW k
  PROVE  Spawned(k, st) \in [NodeId -> NodeStatus]
BY DEF Spawned, NodeStatus, PENDING

(* apply_patch adds at most one node, within the bound on patches, and     *)
(* leaves every field of the plan with its type.                           *)
LEMMA PatchTypes ==
  ASSUME TypeOK, NEW q, apply_patch(q),
         \A D \in q.add : D \subseteq nodes, q.add # {} => patched < MaxPatches
  PROVE  /\ nodes' \subseteq NodeId
         /\ deps' \in [NodeId -> SUBSET NodeId] /\ status' \in [NodeId -> NodeStatus]
         /\ patched' \in 0..MaxPatches /\ revisions' \in Nat
         /\ ask' \in [NodeId -> Nat] /\ kind' \in [NodeId -> {"question", "confirm_cancel"}]
         /\ asked' \in Nat
         /\ UNCHANGED <<version, attempt, requested, adopted, queue, derived>>
<1> DEFINE new   == {Fresh(1) : D \in q.add}
           ns    == nodes \cup new
           dp    == [n \in NodeId |-> IF n \in new THEN UNION q.add ELSE deps[n]]
           added == [n \in NodeId |-> IF n \in new THEN PENDING ELSE status[n]]
           gone  == invalidated_by(ns, added, dp, q.invalidate)
           keep  == {n \in skipped_in_flight(ns, added, q.invalidate) : ask[n] = 0}
<1>1. /\ derived \in 0..MaxDerived /\ patched \in 0..MaxPatches
      /\ MaxPlan \in Nat /\ MaxDerived \in Nat /\ MaxPatches \in Nat
  BY ConstantsAssumption DEF TypeOK
<1>2. new \subseteq NodeId /\ (new # {} => patched < MaxPatches)
  BY <1>1 DEF Fresh, NodeId
<1>3. UNION q.add \subseteq NodeId
  BY DEF TypeOK
<1>4. /\ nodes' = ns /\ deps' = dp
      /\ status' = [n \in NodeId |-> IF n \in gone THEN INVALIDATED ELSE added[n]]
      /\ patched' = IF new = {} THEN patched ELSE patched + 1
      /\ revisions' = IF new \cup gone # {} THEN revisions + 1 ELSE revisions
      /\ ask' = [n \in NodeId |-> IF n \in keep THEN asked + 1 ELSE ask[n]]
      /\ kind' = [n \in NodeId |-> IF n \in keep THEN "confirm_cancel" ELSE kind[n]]
      /\ asked' = IF keep # {} THEN asked + 1 ELSE asked
      /\ UNCHANGED <<version, attempt, requested, adopted, queue, derived>>
  BY DEF apply_patch
<1> HIDE DEF new, gone, keep
<1>5. nodes' \subseteq NodeId
  BY <1>2, <1>4 DEF TypeOK
<1>6. deps' \in [NodeId -> SUBSET NodeId]
  BY <1>3, <1>4 DEF TypeOK
<1>7. status' \in [NodeId -> NodeStatus]
  BY <1>4 DEF TypeOK, NodeStatus, PENDING, INVALIDATED
<1>8. patched' \in 0..MaxPatches /\ revisions' \in Nat
  BY <1>1, <1>2, <1>4 DEF TypeOK
<1>9. /\ ask' \in [NodeId -> Nat] /\ kind' \in [NodeId -> {"question", "confirm_cancel"}]
      /\ asked' \in Nat
  BY <1>4 DEF TypeOK
<1> QED
  BY <1>4, <1>5, <1>6, <1>7, <1>8, <1>9

(* The names of statuses are statuses. *)
LEMMA StatusTypes ==
  /\ PENDING \in NodeStatus /\ READY \in NodeStatus /\ SUBMITTED \in NodeStatus
  /\ INPUT_REQUIRED \in NodeStatus /\ COMPLETED \in NodeStatus /\ FAILED \in NodeStatus
  /\ CANCELED \in NodeStatus /\ INVALIDATED \in NodeStatus
BY DEF NodeStatus, PENDING, READY, SUBMITTED, INPUT_REQUIRED, COMPLETED, FAILED, CANCELED, INVALIDATED

(* Every step of the runner keeps the types. *)
LEMMA RunnerTypes ==
  ASSUME TypeOK, Runner
  PROVE  TypeOK'
<1> USE DEF planVars, taskVars, settleVars, msgVars, Endings
<1>1. CASE RunnerEnter
  BY <1>1, QueueTypes, ActorTypes DEF TypeOK, RunnerEnter, RunnerLoops, RunnerTo
<1>2. CASE RunnerSchedule
  <2>1. retried \in [NodeId -> NodeStatus]
    BY StatusTypes DEF TypeOK, retried
  <2>2. status' \in [NodeId -> NodeStatus] 
    BY <1>2, <2>1, StatusTypes DEF RunnerSchedule
  <2>3. attempt' \in [NodeId -> 0..MaxAttempts]
    BY <1>2, ConstantsAssumption DEF TypeOK, RunnerSchedule
  <2>4. phase' \in [TaskId -> Phases] 
    BY <1>2 DEF TypeOK, RunnerSchedule, Phases
  <2>5. settle' \in [NodeId -> {"none", "inspect", "decide", "adopt", "act", "done"}]
    BY <1>2 DEF TypeOK, RunnerSchedule
  <2>6. lockq' \in Seq(Actor) /\ busy' \in BOOLEAN /\ runner' \in {"wait", "flow"}
    BY <1>2, QueueTypes, ActorTypes DEF RunnerSchedule, Holds, Release, RunnerTo
  <2> QED
    BY <1>2, <2>2, <2>3, <2>4, <2>5, <2>6 DEF TypeOK, RunnerSchedule
<1>3. CASE RunnerReap
  <2>1. status' \in [NodeId -> NodeStatus]
    BY <1>3, StatusTypes DEF TypeOK, RunnerReap
  <2>2. phase' \in [TaskId -> Phases] /\ obj' \in [TaskId -> NodeStatus \cup {"live"}]
    BY <1>3 DEF TypeOK, RunnerReap, Phases
  <2>3. settle' \in [NodeId -> {"none", "inspect", "decide", "adopt", "act", "done"}]
    BY <1>3 DEF TypeOK, RunnerReap
  <2>4. detached' \in [NodeId -> BOOLEAN]
    BY <1>3 DEF TypeOK, RunnerReap
  <2>5. lockq' \in Seq(Actor) /\ busy' \in BOOLEAN /\ wake' \in BOOLEAN /\ runner' \in {"backoff", "schedule"}
    BY <1>3, QueueTypes, ActorTypes DEF TypeOK, RunnerReap, RunnerLoops, RunnerTo
  <2> QED
    BY <1>3, <2>1, <2>2, <2>3, <2>4, <2>5 DEF TypeOK, RunnerReap
<1>4. CASE RunnerBackoff
  BY <1>4, QueueTypes, ActorTypes DEF TypeOK, RunnerBackoff, RunnerLoops, RunnerTo
<1>5. CASE RunnerContinue
  BY <1>5, QueueTypes, ActorTypes DEF TypeOK, RunnerContinue, PlanFlowStep, Holds, RunnerLoops, RunnerTo
<1>6. CASE RunnerExitWait \/ RunnerCompleted \/ RunnerFailed
  BY <1>6 DEF TypeOK, RunnerExitWait, RunnerCompleted, RunnerFailed, RunnerEnds
<1>7. CASE RunnerRepairBegin
  BY <1>7 DEF TypeOK, RunnerRepairBegin
<1>8. CASE RunnerReturns
  BY <1>8, QueueTypes DEF TypeOK, RunnerReturns, Holds, Release
<1>9. ASSUME NEW p \in Patches, RunnerRepairOk(p)
      PROVE  TypeOK'
  <2> DEFINE q == [p EXCEPT !.invalidate = @ \cup failed_nodes(nodes, status)]
  <2>1. q.add = p.add /\ (\A D \in p.add : D \subseteq nodes) /\ (p.add # {} => patched < MaxPatches)
    BY DEF Patches, Refs
  <2>2. apply_patch(q)
    BY <1>9 DEF RunnerRepairOk
  <2> HIDE DEF q
  <2>3. lockq' \in Seq(Actor) /\ busy' \in BOOLEAN /\ wake' = FALSE /\ runner' = "schedule"
    BY <1>9, QueueTypes, ActorTypes DEF RunnerRepairOk, RunnerLoops, RunnerTo, Holds
  <2>4. UNCHANGED <<taskVars, settleVars, live, turn, msgVars>>
    BY <1>9 DEF RunnerRepairOk
  <2> QED
    BY <2>1, <2>2, <2>3, <2>4, PatchTypes DEF TypeOK
<1> QED
  BY <1>1, <1>2, <1>3, <1>4, <1>5, <1>6, <1>7, <1>8, <1>9 DEF Runner

(* What a finished node leaves to do: one step for the agent its output    *)
(* mentions, one for the messages queued for it.  Each adds at most one    *)
(* node, within the budget of derived nodes.                               *)
Posts(t) == TaskDeliverQueued(t) \/ \E mention \in BOOLEAN : TaskArbitrate(t, mention)

LEMMA PostSpawns ==
  ASSUME TypeOK, NEW t \in TaskId, Posts(t)
  PROVE  \E k \in {0, 1}, D \in SUBSET queue, r \in NodeId \cup {0} :
           /\ derived + k <= MaxDerived
           /\ Spawn(k, [i \in 1..k |-> D], [i \in 1..k |-> r])
           /\ status' = Spawned(k, status)
<1>1. NodeOf(t) \in NodeId
  BY DEF TaskId, NodeOf
<1>2. derived \in 0..MaxDerived /\ MaxDerived \in Nat
  BY ConstantsAssumption DEF TypeOK
<1>3. ASSUME NEW wanted \in BOOLEAN, NEW D, NEW r \in NodeId \cup {0}, wanted => D \subseteq queue,
             spawn_derived_node(wanted, D, r, status)
      PROVE  \E k \in {0, 1}, E \in SUBSET queue, s \in NodeId \cup {0} :
               /\ derived + k <= MaxDerived
               /\ Spawn(k, [i \in 1..k |-> E], [i \in 1..k |-> s])
               /\ status' = Spawned(k, status)
  <2> DEFINE k == IF wanted /\ derived < MaxDerived THEN 1 ELSE 0
             E == IF wanted THEN D ELSE {}
  <2>1. k \in {0, 1} /\ derived + k <= MaxDerived /\ (k # 0 => wanted)
    BY <1>2
  <2>2. Spawn(k, [i \in 1..k |-> D], [i \in 1..k |-> r]) /\ status' = Spawned(k, status)
    BY <1>3 DEF spawn_derived_node
  <2> HIDE DEF k
  <2>3. [i \in 1..k |-> D] = [i \in 1..k |-> E]
    BY <2>1
  <2>4. E \in SUBSET queue
    BY <1>3
  <2> HIDE DEF E
  <2> QED
    BY <2>1, <2>2, <2>3, <2>4
<1>4. CASE TaskDeliverQueued(t)
  <2>1. /\ spawn_derived_node(NodeOf(t) \in queue, {NodeOf(t)}, 0, status)
        /\ (NodeOf(t) \in queue) \in BOOLEAN /\ (NodeOf(t) \in queue => {NodeOf(t)} \subseteq queue)
    BY <1>4 DEF TaskDeliverQueued
  <2> QED
    BY <1>3, <2>1
<1>5. ASSUME NEW mention \in BOOLEAN, TaskArbitrate(t, mention)
      PROVE  spawn_derived_node(mention, {}, NodeOf(t), status)
  BY <1>5 DEF TaskArbitrate
<1> QED
  BY <1>1, <1>3, <1>4, <1>5 DEF Posts

(* Every step of a node task keeps the types. *)
LEMMA TaskTypes ==
  ASSUME TypeOK, NEW t \in TaskId, NodeTask(t)
  PROVE  TypeOK'
<1> USE DEF planVars, taskVars, settleVars, msgVars
<1>1. NodeOf(t) \in NodeId
  BY DEF TaskId, NodeOf
<1>2. ASSUME NEW to \in NodeStatus, NEW next \in Phases, TaskSets(t, to, next)
      PROVE  TypeOK'
  <2>1. status' \in [NodeId -> NodeStatus] /\ obj' \in [TaskId -> NodeStatus \cup {"live"}]
    BY <1>1, <1>2 DEF TypeOK, TaskSets, apply_transition, TaskRaises
  <2>2. phase' \in [TaskId -> Phases]
    BY <1>2 DEF TypeOK, TaskSets, TaskRaises, Phases
  <2> QED
    BY <1>2, <2>1, <2>2 DEF TypeOK, TaskSets
<1>3. CASE TaskSubmitted(t) \/ TaskFails(t) \/ TaskCanceled(t) \/ TaskNeedsInfo(t) \/ TaskDelivers(t)
  BY <1>2, <1>3, StatusTypes
     DEF TaskSubmitted, TaskFails, TaskCanceled, TaskNeedsInfo, TaskDelivers, Phases
<1>4. CASE TaskReviseBegin(t)
  BY <1>4, QueueTypes, ActorTypes DEF TypeOK, TaskReviseBegin, Acquire, Phases
<1>5. CASE TaskTail(t)
  <2>1. ask' \in [NodeId -> Nat]
    BY <1>5, ExpireType DEF TaskTail
  <2> QED
    BY <1>5, <2>1 DEF TypeOK, TaskTail, Phases
<1>6. ASSUME NEW p \in Patches, TaskRevise(t, p)
      PROVE  TypeOK'
  <2>1. (\A D \in p.add : D \subseteq nodes) /\ (p.add # {} => patched < MaxPatches)
    BY DEF Patches, Refs
  <2>2. apply_patch(p)
    BY <1>6 DEF TaskRevise
  <2>3. phase' \in [TaskId -> Phases] /\ lockq' \in Seq(Actor)
    BY <1>6, QueueTypes DEF TypeOK, TaskRevise, Phases, Release, Holds
  <2>4. UNCHANGED <<runner, busy, wake, obj, settleVars, live, turn, msgVars>>
    BY <1>6 DEF TaskRevise
  <2> QED
    BY <2>1, <2>2, <2>3, <2>4, PatchTypes, ZenonT(30) DEF TypeOK
<1>7. CASE Posts(t)
  <2>1. PICK k \in {0, 1}, D \in SUBSET queue, r \in NodeId \cup {0} :
          /\ derived + k <= MaxDerived
          /\ Spawn(k, [i \in 1..k |-> D], [i \in 1..k |-> r])
          /\ status' = Spawned(k, status)
    BY <1>7, PostSpawns
  <2> DEFINE dp == [i \in 1..k |-> D]
             by == [i \in 1..k |-> r]
  <2>2. k \in Nat /\ Spawn(k, dp, by) /\ \A i \in 1..k : dp[i] \subseteq NodeId /\ by[i] \in NodeId \cup {0}
    BY <2>1 DEF TypeOK
  <2> HIDE DEF dp, by
  <2>3. /\ nodes' \subseteq NodeId /\ deps' \in [NodeId -> SUBSET NodeId]
        /\ requested' \in [NodeId -> NodeId \cup {0}] /\ derived' \in 0..MaxDerived
    BY <2>1, <2>2, SpawnTypes
  <2>4. status' \in [NodeId -> NodeStatus]
    BY <2>1, SpawnedType DEF TypeOK
  <2>5. /\ queue' \subseteq queue
        /\ \E next \in {"queued", "tail"} : phase' = [phase EXCEPT ![t] = next]
    BY <1>7 DEF Posts, TaskDeliverQueued, TaskArbitrate, TaskPost
  <2>6. phase' \in [TaskId -> Phases]
    BY <2>5 DEF TypeOK, Phases
  <2>7. UNCHANGED <<version, attempt, adopted, ask, kind, asked, patched, revisions, lockq, runner,
                    busy, wake, obj, settleVars, live, turn, msgVars>>
    BY <1>7 DEF Posts, TaskDeliverQueued, TaskArbitrate, TaskPost
  <2> QED
    BY <2>3, <2>4, <2>5, <2>6, <2>7 DEF TypeOK
<1> QED
  BY <1>3, <1>4, <1>5, <1>6, <1>7 DEF NodeTask, Posts

(* Every step of a settlement keeps the types. *)
LEMMA SettlementTypes ==
  ASSUME TypeOK, NEW n \in NodeId, Settlement(n)
  PROVE  TypeOK'
<1> USE DEF planVars, taskVars, settleVars, msgVars
<1>1. CASE SettleInspect(n)
  <2>1. lockq' \in Seq(Actor)
    <3>1. lockq' = lockq \/ lockq' = Append(lockq, SettleActor(n))
      BY <1>1 DEF SettleInspect, Acquire
    <3>2. lockq \in Seq(Actor) /\ SettleActor(n) \in Actor
      BY ActorTypes DEF TypeOK
    <3> QED
      BY <3>1, <3>2, QueueTypes
  <2>2. settle' \in [NodeId -> {"none", "inspect", "decide", "adopt", "act", "done"}]
    BY <1>1 DEF TypeOK, SettleInspect
  <2> QED
    BY <1>1, <2>1, <2>2 DEF TypeOK, SettleInspect
<1>2. CASE SettleDecide(n)
  BY <1>2, QueueTypes, ActorTypes DEF TypeOK, SettleDecide, Acquire
<1>3. CASE SettleAdopt(n)
  <2>1. status' \in [NodeId -> NodeStatus]
    BY <1>3, StatusTypes DEF TypeOK, SettleAdopt
  <2>2. adopted' \subseteq NodeId
    BY <1>3 DEF TypeOK, SettleAdopt, helpers
  <2>3. ask' \in [NodeId -> Nat]
    BY <1>3, ExpireType DEF TypeOK, SettleAdopt
  <2>4. settle' \in [NodeId -> {"none", "inspect", "decide", "adopt", "act", "done"}] /\ lockq' \in Seq(Actor)
    BY <1>3, QueueTypes DEF TypeOK, SettleAdopt, Release, Holds
  <2> QED
    BY <1>3, <2>1, <2>2, <2>3, <2>4 DEF TypeOK, SettleAdopt
<1>4. CASE SettleAct(n)
  <2>1. settle' \in [NodeId -> {"none", "inspect", "decide", "adopt", "act", "done"}] /\ lockq' \in Seq(Actor)
    BY <1>4, QueueTypes DEF TypeOK, SettleAct, Release, Holds
  <2>2. /\ nodes' \subseteq NodeId /\ deps' \in [NodeId -> SUBSET NodeId]
        /\ requested' \in [NodeId -> NodeId \cup {0}] /\ derived' \in 0..MaxDerived
        /\ status' \in [NodeId -> NodeStatus]
        /\ ask' \in [NodeId -> Nat] /\ kind' \in [NodeId -> {"question", "confirm_cancel"}]
        /\ asked' \in Nat
    <3>1. CASE UNCHANGED <<nodes, status, deps, requested, ask, kind, asked, derived>>
      BY <3>1 DEF TypeOK
    <3>2. CASE derived < MaxDerived /\ Spawn(1, <<{}>>, <<n>>) /\ status' = Spawned(1, status)
               /\ UNCHANGED <<ask, kind, asked>>
      <4>1. derived + 1 <= MaxDerived
        BY <3>2, ConstantsAssumption DEF TypeOK
      <4>2. \A i \in 1..1 : <<{}>>[i] \subseteq NodeId /\ <<n>>[i] \in NodeId \cup {0}
        OBVIOUS
      <4>3. /\ nodes' \subseteq NodeId /\ deps' \in [NodeId -> SUBSET NodeId]
            /\ requested' \in [NodeId -> NodeId \cup {0}] /\ derived' \in 0..MaxDerived
        BY <3>2, <4>1, <4>2, SpawnTypes
      <4>4. status' \in [NodeId -> NodeStatus]
        BY <3>2, SpawnedType DEF TypeOK
      <4> QED
        BY <3>2, <4>3, <4>4 DEF TypeOK
    <3>3. CASE ask_user(n) /\ UNCHANGED <<nodes, deps, requested, derived>>
      <4>1. nodes' \subseteq NodeId /\ deps' \in [NodeId -> SUBSET NodeId]
            /\ requested' \in [NodeId -> NodeId \cup {0}] /\ derived' \in 0..MaxDerived
        BY <3>3 DEF TypeOK
      <4>2. status' \in [NodeId -> NodeStatus]
        BY <3>3, StatusTypes DEF TypeOK, ask_user
      <4>3. ask' \in [NodeId -> Nat] /\ asked' \in Nat
        <5>1. asked \in Nat /\ ask \in [NodeId -> Nat]
          BY DEF TypeOK
        <5>2. CASE UNCHANGED <<ask, asked>>
          BY <5>1, <5>2
        <5>3. CASE ask' = [ask EXCEPT ![n] = asked + 1] /\ asked' = asked + 1
          BY <5>1, <5>3
        <5> QED
          BY <3>3, <5>2, <5>3 DEF ask_user
      <4>4. kind' \in [NodeId -> {"question", "confirm_cancel"}]
        BY <3>3 DEF TypeOK, ask_user
      <4> QED
        BY <4>1, <4>2, <4>3, <4>4
    <3> QED
      BY <1>4, <3>1, <3>2, <3>3 DEF SettleAct, call_subagent
  <2> QED
    BY <1>4, <2>1, <2>2 DEF TypeOK, SettleAct
<1> QED
  BY <1>1, <1>2, <1>3, <1>4 DEF Settlement

(* A follow-up is spawned only within the budget of derived nodes. *)
LEMMA FollowupTypes ==
  ASSUME TypeOK, NEW D \in SUBSET NodeId, NEW st \in [NodeId -> NodeStatus], followup(D, st)
  PROVE  /\ nodes' \subseteq NodeId /\ deps' \in [NodeId -> SUBSET NodeId]
         /\ requested' \in [NodeId -> NodeId \cup {0}] /\ derived' \in 0..MaxDerived
         /\ status' \in [NodeId -> NodeStatus]
<1> DEFINE k  == IF derived < MaxDerived THEN 1 ELSE 0
           dp == [i \in 1..k |-> D]
           by == [i \in 1..k |-> 0]
<1>1. k \in Nat /\ derived + k <= MaxDerived
  BY ConstantsAssumption DEF TypeOK
<1>2. Spawn(k, dp, by) /\ status' = Spawned(k, st)
  BY DEF followup, spawn_derived_node
<1> HIDE DEF k
<1>3. \A i \in 1..k : dp[i] \subseteq NodeId /\ by[i] \in NodeId \cup {0}
  OBVIOUS
<1> HIDE DEF dp, by
<1>4. status' \in [NodeId -> NodeStatus]
  BY <1>2, SpawnedType
<1> QED
  BY <1>1, <1>2, <1>3, <1>4, SpawnTypes

(* The statuses after a node is cancelled are statuses. *)
LEMMA CancelingType ==
  ASSUME TypeOK, NEW n
  PROVE  canceling(n) \in [NodeId -> NodeStatus]
BY StatusTypes DEF TypeOK, canceling

(* The fields of a handler's message after it has finished, or suspended. *)
LEMMA HandledTypes ==
  ASSUME TypeOK, NEW m \in Msg,
         Handled(m) \/ Suspends(m, "canceling") \/ \E at \in Planning : Suspends(m, at)
  PROVE  /\ mstate' \in [Msg -> {"new", "queued", "canceling", "interrupting", "planning", "replanning", "done"}]
         /\ mkind' \in [Msg -> MsgKinds] /\ mnode' \in [Msg -> NodeId \cup {0}] /\ mask' \in [Msg -> Nat]
<1>1. CASE Handled(m)
  <2>1. "text" \in MsgKinds
    BY DEF MsgKinds
  <2> QED
    BY <1>1, <2>1 DEF TypeOK, Handled
<1>2. CASE Suspends(m, "canceling") \/ \E at \in Planning : Suspends(m, at)
  BY <1>2, ZenonT(30) DEF TypeOK, Suspends, Planning
<1> QED
  BY <1>1, <1>2

(* Every step of a handler keeps the types. *)
LEMMA HandlerTypes ==
  ASSUME TypeOK, NEW m \in Msg, Handler(m)
  PROVE  TypeOK'
<1> USE DEF planVars, taskVars, settleVars, msgVars
<1>1. ASSUME start_runner, Release, Holds(MsgActor(m))
      PROVE  /\ lockq' \in Seq(Actor) /\ busy' \in BOOLEAN
             /\ runner' \in {"off", "start", "schedule", "wait", "backoff", "flow", "repair"} \cup Endings
  BY <1>1, QueueTypes DEF TypeOK, start_runner, Release, Holds
<1>2. ASSUME Holds(MsgActor(m)), EndsIdle(m)
      PROVE  TypeOK'
  BY <1>2, QueueTypes, HandledTypes, SMTT(30) DEF TypeOK, EndsIdle, Holds, Release
<1>3. CASE HMalformed(m) \/ HReject(m) \/ HCancelRaises(m) \/ HPlanRaises(m) \/ HReemit(m)
  BY <1>2, <1>3 DEF HMalformed, HReject, HCancelRaises, HPlanRaises, HReemit, Handles
<1>4. CASE HExpire(m)
  <2>1. ask' \in [NodeId -> Nat]
    BY <1>4 DEF TypeOK, HExpire
  <2> QED
    BY <1>4, <2>1, HandledTypes, QueueTypes, SMTT(30) DEF TypeOK, HExpire, Handles, Holds, Release
<1>5. CASE HAnswer(m)
  <2>1. ask' \in [NodeId -> Nat]
    BY <1>5 DEF TypeOK, HAnswer
  <2>2. status' \in [NodeId -> NodeStatus]
    BY <1>5, StatusTypes DEF TypeOK, HAnswer
  <2> QED
    BY <1>1, <1>5, <2>1, <2>2, HandledTypes DEF TypeOK, HAnswer, Handles
<1>6. CASE HConfirm(m)
  <2>1. ask' \in [NodeId -> Nat]
    BY <1>6 DEF TypeOK, HConfirm
  <2> QED
    BY <1>6, <2>1, HandledTypes, SMTT(30) DEF TypeOK, HConfirm
<1>7. CASE HConfirmed(m)
  <2>1. status' \in [NodeId -> NodeStatus]
    BY <1>7, CancelingType DEF HConfirmed
  <2>2. ask' \in [NodeId -> Nat]
    BY <1>7, ExpireType DEF HConfirmed
  <2> QED
    BY <1>1, <1>7, <2>1, <2>2, HandledTypes DEF TypeOK, HConfirmed
<1>8. CASE HNoop(m)
  BY <1>1, <1>8, HandledTypes DEF TypeOK, HNoop, Room, Handles, _finish
<1>9. CASE HComplete(m)
  BY <1>9, HandledTypes, QueueTypes
     DEF TypeOK, HComplete, NoRoom, Handles, Holds, Release, evict_session
<1>10. CASE HEnqueue(m)
  <2>1. queue' \subseteq NodeId
    <3>1. targets \subseteq NodeId
      <4>1. \A S : S \subseteq nodes /\ S # {} => First(S) \in NodeId
        BY FirstIn DEF TypeOK
      <4> QED
        BY <4>1 DEF targets, active_nodes
    <3> QED
      BY <1>10, <3>1 DEF TypeOK, HEnqueue, Quotes
  <2> QED
    BY <1>1, <1>10, <2>1, HandledTypes DEF TypeOK, HEnqueue, Room, Handles, _finish
<1>11. CASE HFollowup(m)
  <2>1. {mnode[m]} \in SUBSET NodeId /\ status \in [NodeId -> NodeStatus]
    BY <1>11 DEF TypeOK, HFollowup, Quotes
  <2>2. followup({mnode[m]}, status)
    BY <1>11 DEF HFollowup
  <2> QED
    BY <1>1, <1>11, <2>1, <2>2, FollowupTypes, HandledTypes
       DEF TypeOK, HFollowup, Room, Handles, _finish
<1>12. CASE HInterrupt(m)
  <2>1. First(active_nodes(nodes, status)) \in NodeId
    BY <1>12, FirstIn, ZenonT(30) DEF TypeOK, HInterrupt, Interrupts, active_nodes
  <2> QED
    BY <1>12, <2>1 DEF TypeOK, HInterrupt
<1>13. CASE HInterrupted(m)
  <2>1. followup({}, canceling(mnode[m])) /\ canceling(mnode[m]) \in [NodeId -> NodeStatus]
    BY <1>13, CancelingType DEF HInterrupted
  <2> QED
    BY <1>1, <1>13, <2>1, FollowupTypes, HandledTypes DEF TypeOK, HInterrupted, _finish
<1>14. CASE HPlan(m)
  <2>1. version' \in 0..MaxPlans
    BY <1>14, ConstantsAssumption DEF TypeOK, HPlan
  <2>2. obj' \in [TaskId -> NodeStatus \cup {"live"}]
    BY <1>14 DEF TypeOK, HPlan, current, TaskId, NodeOf
  <2>3. /\ nodes' \subseteq NodeId /\ adopted' \subseteq NodeId /\ queue' \subseteq NodeId
        /\ status' \in [NodeId -> NodeStatus] /\ deps' \in [NodeId -> SUBSET NodeId]
        /\ attempt' \in [NodeId -> 0..MaxAttempts] /\ requested' \in [NodeId -> NodeId \cup {0}]
        /\ ask' \in [NodeId -> Nat] /\ derived' \in 0..MaxDerived /\ patched' \in 0..MaxPatches
        /\ revisions' \in Nat /\ detached' \in [NodeId -> BOOLEAN]
        /\ turn' = "working"
    BY <1>14, StatusTypes, ConstantsAssumption DEF TypeOK, HPlan
  <2>4. \E at \in Planning : Suspends(m, at)
    BY <1>14 DEF HPlan, Planning
  <2> QED
    BY <1>14, <2>1, <2>2, <2>3, <2>4, HandledTypes DEF TypeOK, HPlan
<1>15. ASSUME cleared, Holds(MsgActor(m))
       PROVE  /\ phase' \in [TaskId -> Phases] /\ obj' \in [TaskId -> NodeStatus \cup {"live"}]
              /\ settle' \in [NodeId -> {"none", "inspect", "decide", "adopt", "act", "done"}]
              /\ detached' \in [NodeId -> BOOLEAN]
              /\ lockq' \in Seq(Actor)
  <2>1. /\ phase' \in [TaskId -> Phases] /\ obj' \in [TaskId -> NodeStatus \cup {"live"}]
        /\ settle' \in [NodeId -> {"none", "inspect", "decide", "adopt", "act", "done"}]
        /\ detached' \in [NodeId -> BOOLEAN]
    BY <1>15 DEF cleared, Phases
  <2>2. lockq' \in Seq(Actor)
    <3>1. Tail(lockq) \in Seq(Actor)
      BY <1>15, QueueTypes DEF Holds
    <3> QED
      BY <1>15, <3>1, CancelledQueue DEF cleared
  <2> QED
    BY <2>1, <2>2
<1>16. CASE HCancel(m)
  <2>1. status' \in [NodeId -> NodeStatus]
    BY <1>16, StatusTypes DEF TypeOK, HCancel
  <2>2. cleared /\ Holds(MsgActor(m))
    BY <1>16 DEF HCancel, Handles
  <2>3. live' = FALSE /\ turn' = "canceled" /\ runner' = "off" /\ Handled(m)
    BY <1>16 DEF HCancel, evict_session
  <2>4. UNCHANGED <<version, nodes, deps, attempt, requested, adopted, ask, kind, asked, queue, derived,
                    patched, revisions, wake, busy>>
    BY <1>16 DEF HCancel
  <2> QED
    BY <1>15, <2>1, <2>2, <2>3, <2>4, HandledTypes DEF TypeOK
<1>17. ASSUME NEW final \in {"failed", "completed"}, HPlanEnds(m, final)
       PROVE  TypeOK'
  <2>1. cleared /\ Holds(MsgActor(m))
    BY <1>17 DEF HPlanEnds
  <2>2. live' = FALSE /\ turn' = final /\ runner' \in {"start", "off"} /\ Handled(m)
    BY <1>17 DEF HPlanEnds, evict_session
  <2>3. UNCHANGED <<planVars, busy, wake>>
    BY <1>17 DEF HPlanEnds
  <2> QED
    BY <1>15, <2>1, <2>2, <2>3, HandledTypes DEF TypeOK
<1>18. ASSUME NEW d \in Drafts, HPlanOk(m, d)
       PROVE  TypeOK'
  <2>1. DOMAIN d \subseteq NodeId /\ \A n \in DOMAIN d : d[n] \subseteq NodeId
    BY DraftsAssumption, ConstantsAssumption DEF PlanId, NodeId
  <2>2. /\ nodes' \subseteq NodeId /\ status' \in [NodeId -> NodeStatus]
        /\ deps' \in [NodeId -> SUBSET NodeId]
    BY <1>18, <2>1, StatusTypes DEF TypeOK, HPlanOk
  <2> QED
    BY <1>1, <1>18, <2>2, HandledTypes DEF TypeOK, HPlanOk
<1> QED
  BY <1>3, <1>4, <1>5, <1>6, <1>7, <1>8, <1>9, <1>10, <1>11, <1>12, <1>13, <1>14, <1>16, <1>17,
     <1>18 DEF Handler

(* A message that is sent keeps the types. *)
LEMMA SendTypes ==
  ASSUME TypeOK, NEW m \in Msg, NEW k \in Kinds, NEW n \in nodes \cup {0}, Send(m, k, n)
  PROVE  TypeOK'
<1> USE DEF planVars, taskVars, settleVars, msgVars
<1>1. k \in MsgKinds /\ n \in NodeId \cup {0}
  BY ConstantsAssumption DEF TypeOK
<1>2. lockq' \in Seq(Actor)
  <2>1. lockq' = lockq \/ lockq' = Append(lockq, MsgActor(m))
    BY DEF Send, Acquire
  <2>2. lockq \in Seq(Actor) /\ MsgActor(m) \in Actor
    BY ActorTypes DEF TypeOK
  <2> QED
    BY <2>1, <2>2, QueueTypes
<1>3. /\ mstate' \in [Msg -> {"new", "queued", "canceling", "interrupting", "planning", "replanning", "done"}]
      /\ mkind' \in [Msg -> MsgKinds] /\ mnode' \in [Msg -> NodeId \cup {0}]
  BY <1>1, ZenonT(30) DEF TypeOK, Send
<1>4. mask' \in [Msg -> Nat]
  <2>1. (IF k \in Answers THEN ask[n] ELSE 0) \in Nat
    BY <1>1 DEF TypeOK, Send
  <2> QED
    BY <2>1 DEF TypeOK, Send
<1>5. live' \in BOOLEAN /\ turn' \in {turn, "canceled"}
  BY DEF TypeOK, Send
<1> QED
  BY <1>2, <1>3, <1>4, <1>5 DEF TypeOK, Send

(* Every step keeps the types. *)
LEMMA StepTypes ==
  ASSUME TypeOK, [Next]_vars
  PROVE  TypeOK'
<1>1. CASE User
  BY <1>1, SendTypes DEF User
<1>2. CASE LockSkip
  BY <1>2, QueueTypes
     DEF TypeOK, LockSkip, Holds, Release, planVars, taskVars, settleVars, msgVars
<1>3. CASE Runner
  BY <1>3, RunnerTypes
<1>4. CASE \E t \in TaskId : NodeTask(t)
  BY <1>4, TaskTypes
<1>5. CASE \E n \in NodeId : Settlement(n)
  BY <1>5, SettlementTypes
<1>6. CASE \E m \in Msg : Handler(m)
  BY <1>6, HandlerTypes
<1>7. CASE UNCHANGED vars
  BY <1>7 DEF TypeOK, vars, planVars, taskVars, settleVars, msgVars
<1> QED
  BY <1>1, <1>2, <1>3, <1>4, <1>5, <1>6, <1>7 DEF Next

(* TypeOK is an invariant: whatever the agents and the user do, every      *)
(* field keeps its shape and the budgets of derived nodes, added nodes,    *)
(* attempts and plans are respected.                                       *)
THEOREM TypeCorrect == Spec => []TypeOK
<1>1. Init => TypeOK
  <2> SUFFICES ASSUME Init PROVE TypeOK
    OBVIOUS
  <2>1. /\ version \in 0..MaxPlans /\ derived \in 0..MaxDerived /\ patched \in 0..MaxPatches
        /\ asked \in Nat /\ revisions \in Nat
        /\ attempt \in [NodeId -> 0..MaxAttempts] /\ requested \in [NodeId -> NodeId \cup {0}]
        /\ ask \in [NodeId -> Nat] /\ mnode \in [Msg -> NodeId \cup {0}] /\ mask \in [Msg -> Nat]
    BY ConstantsAssumption DEF Init
  <2>2. /\ nodes \subseteq NodeId /\ adopted \subseteq NodeId /\ queue \subseteq NodeId
        /\ status \in [NodeId -> NodeStatus] /\ deps \in [NodeId -> SUBSET NodeId]
        /\ lockq \in Seq(Actor)
    BY StatusTypes DEF Init
  <2>3. /\ phase \in [TaskId -> Phases] /\ obj \in [TaskId -> NodeStatus \cup {"live"}]
        /\ settle \in [NodeId -> {"none", "inspect", "decide", "adopt", "act", "done"}]
        /\ detached \in [NodeId -> BOOLEAN]
    BY DEF Init, Phases
  <2>4. /\ kind \in [NodeId -> {"question", "confirm_cancel"}]
        /\ mstate \in [Msg -> {"new", "queued", "canceling", "interrupting", "planning", "replanning", "done"}]
        /\ mkind \in [Msg -> MsgKinds]
    BY DEF Init, MsgKinds
  <2> QED
    BY <2>1, <2>2, <2>3, <2>4 DEF Init, TypeOK
<1>2. TypeOK /\ [Next]_vars => TypeOK'
  BY StepTypes
<1> QED
  BY <1>1, <1>2, PTL DEF Spec

(***************************************************************************)
(* What a step may do to the nodes a plan already has.                     *)
(***************************************************************************)

(* An id handed out as fresh is not that of a node of the plan. *)
FreshIds == \A n \in nodes : n <= MaxPlan + derived + patched

(* A handler that awaits the planner holds the lock, and the plan it       *)
(* awaits has none of the planner's nodes yet.                             *)
PlannerAlone ==
  \A m \in Msg : mstate[m] \in Planning => Holds(MsgActor(m)) /\ nodes \cap PlanId = {}

(* The inductive invariant *)
IInv == TypeOK /\ FreshIds /\ PlannerAlone

(* A step that keeps the nodes of the plan, with their dependencies, and   *)
(* leaves the settled ones settled.                                        *)
KeepsNodes ==
  \A n \in nodes : /\ n \in nodes' /\ deps'[n] = deps[n]
                   /\ status[n] \in Settled => status'[n] = status[n]

(* Such a step, that adds only nodes with fresh ids. *)
ExtendsPlan == KeepsNodes /\ FreshIds' /\ nodes' \cap PlanId \subseteq nodes

(* No transition leaves COMPLETED, CANCELED or INVALIDATED. *)
LEMMA SettledStuck ==
  ASSUME NEW s \in Settled
  PROVE  /\ \A to : can_transition(s, to) => to = s
         /\ s \notin INVALIDATABLE_STATUSES /\ s \notin PENDING_NODE_STATUSES
         /\ s \notin ACTIVE_NODE_STATUSES /\ s \notin {FAILED, INPUT_REQUIRED, PENDING, READY}
BY DEF Settled, can_transition, ALLOWED_TRANSITIONS, INVALIDATABLE_STATUSES, PENDING_NODE_STATUSES,
       ACTIVE_NODE_STATUSES, PENDING, READY, SUBMITTED, WORKING, INPUT_REQUIRED, RECOVER, COMPLETED,
       FAILED, CANCELED, INVALIDATED, IN_FLIGHT_TARGETS

(* A step that leaves the nodes and their dependencies alone, and settled  *)
(* statuses too, extends the plan.                                         *)
LEMMA ExtendsByStatus ==
  ASSUME IInv, UNCHANGED <<nodes, deps, derived, patched>>,
         \A n \in nodes : status[n] \in Settled => status'[n] = status[n]
  PROVE  ExtendsPlan
BY DEF IInv, FreshIds, ExtendsPlan, KeepsNodes

(* spawn_derived_node extends the plan. *)
LEMMA SpawnExtends ==
  ASSUME IInv, NEW k \in Nat, NEW dp, NEW by, NEW st \in [NodeId -> NodeStatus],
         Spawn(k, dp, by), status' = Spawned(k, st), UNCHANGED patched,
         \A n \in nodes : status[n] \in Settled => st[n] = status[n]
  PROVE  ExtendsPlan
<1>1. derived \in Nat /\ patched \in Nat /\ MaxPlan \in Nat /\ nodes \subseteq NodeId /\ nodes \subseteq Nat
  BY ConstantsAssumption DEF IInv, TypeOK, NodeId
<1>2. \A n \in nodes : \A i \in 1..k : n # Fresh(i)
  BY <1>1 DEF IInv, FreshIds, Fresh
<1>3. KeepsNodes
  BY <1>1, <1>2 DEF KeepsNodes, Spawn, Spawned
<1>4. FreshIds'
  BY <1>1 DEF IInv, FreshIds, Spawn, Fresh
<1>5. nodes' \cap PlanId \subseteq nodes
  BY <1>1 DEF Spawn, Fresh, PlanId
<1> QED
  BY <1>3, <1>4, <1>5 DEF ExtendsPlan

(* apply_patch extends the plan. *)
LEMMA PatchExtends ==
  ASSUME IInv, NEW q, apply_patch(q)
  PROVE  ExtendsPlan
<1> DEFINE new   == {Fresh(1) : D \in q.add}
           ns    == nodes \cup new
           dp    == [n \in NodeId |-> IF n \in new THEN UNION q.add ELSE deps[n]]
           added == [n \in NodeId |-> IF n \in new THEN PENDING ELSE status[n]]
           gone  == invalidated_by(ns, added, dp, q.invalidate)
<1>1. derived \in Nat /\ patched \in Nat /\ MaxPlan \in Nat /\ nodes \subseteq NodeId /\ nodes \subseteq Nat
  BY ConstantsAssumption DEF IInv, TypeOK, NodeId
<1>2. /\ nodes' = ns /\ deps' = dp /\ derived' = derived
      /\ status' = [n \in NodeId |-> IF n \in gone THEN INVALIDATED ELSE added[n]]
      /\ patched' = IF new = {} THEN patched ELSE patched + 1
  BY DEF apply_patch
<1>3. \A n \in gone : added[n] \in INVALIDATABLE_STATUSES
  BY DEF invalidated_by
<1>4. \A n \in new : n = MaxPlan + derived + patched + 1
  BY DEF Fresh
<1> HIDE DEF new, gone
<1>5. \A n \in nodes : n \notin new
  BY <1>1, <1>4 DEF IInv, FreshIds
<1>6. KeepsNodes
  <2> SUFFICES ASSUME NEW n \in nodes
               PROVE  /\ n \in nodes' /\ deps'[n] = deps[n]
                      /\ status[n] \in Settled => status'[n] = status[n]
    BY DEF KeepsNodes
  <2>1. added[n] = status[n] /\ dp[n] = deps[n]
    BY <1>1, <1>5
  <2>2. status[n] \in Settled => n \notin gone
    BY <1>3, <2>1, SettledStuck
  <2> QED
    BY <1>1, <1>2, <2>1, <2>2
<1>7. FreshIds'
  <2>1. \A n \in nodes : n <= MaxPlan + derived + patched
    BY DEF IInv, FreshIds
  <2>2. CASE new = {}
    BY <1>2, <2>1, <2>2 DEF FreshIds
  <2>3. CASE new # {}
    BY <1>1, <1>2, <1>4, <2>1, <2>3 DEF FreshIds
  <2> QED
    BY <2>2, <2>3
<1>8. nodes' \cap PlanId \subseteq nodes
  BY <1>1, <1>2, <1>4 DEF PlanId
<1> QED
  BY <1>6, <1>7, <1>8 DEF ExtendsPlan

(* The runner never takes a delivery back: retries, dispatches and         *)
(* reaping leave the settled nodes alone, and a repair extends the plan.   *)
LEMMA RunnerExtends ==
  ASSUME IInv, Runner
  PROVE  ExtendsPlan
<1> USE DEF planVars
<1>1. TypeOK
  BY DEF IInv
<1>2. CASE RunnerSchedule
  <2>1. \A n \in nodes : n \in NodeId /\ (status[n] \in Settled => retried[n] = status[n])
    BY <1>1, SettledStuck DEF TypeOK, retried, can_retry
  <2>2. \A n \in dispatched : retried[n] \in PENDING_NODE_STATUSES
    BY DEF dispatched, ready_batch, ready_nodes
  <2>3. \A n \in nodes : status[n] \in Settled => status'[n] = status[n]
    BY <1>2, <2>1, <2>2, SettledStuck DEF RunnerSchedule
  <2> QED
    BY <1>2, <2>3, ExtendsByStatus DEF RunnerSchedule
<1>3. CASE RunnerReap
  <2>1. \A n \in nodes : status[n] \in Settled => status'[n] = status[n]
    BY <1>1, <1>3, SettledStuck DEF TypeOK, RunnerReap
  <2> QED
    BY <1>3, <2>1, ExtendsByStatus DEF RunnerReap
<1>4. ASSUME NEW p \in Patches, RunnerRepairOk(p)
      PROVE  ExtendsPlan
  BY <1>4, PatchExtends DEF RunnerRepairOk
<1>5. CASE UNCHANGED planVars
  BY <1>5, ExtendsByStatus
<1> QED
  BY <1>2, <1>3, <1>4, <1>5
     DEF Runner, RunnerEnter, RunnerBackoff, RunnerContinue, RunnerExitWait, RunnerCompleted,
         RunnerRepairBegin, RunnerFailed, RunnerReturns, RunnerEnds

(* A node task never takes a delivery back: what it reports is checked     *)
(* against the table of transitions.                                       *)
LEMMA TaskExtends ==
  ASSUME IInv, NEW t \in TaskId, NodeTask(t)
  PROVE  ExtendsPlan
<1> USE DEF planVars
<1>1. TypeOK /\ NodeOf(t) \in NodeId
  BY DEF IInv, TaskId, NodeOf
<1>2. ASSUME NEW to, NEW next, TaskSets(t, to, next)
      PROVE  ExtendsPlan
  <2>1. \A n \in nodes : status[n] \in Settled => status'[n] = status[n]
    BY <1>1, <1>2, SettledStuck DEF TypeOK, TaskSets, apply_transition, TaskRaises, current
  <2> QED
    BY <1>2, <2>1, ExtendsByStatus DEF TaskSets
<1>3. CASE TaskSubmitted(t) \/ TaskFails(t) \/ TaskCanceled(t) \/ TaskNeedsInfo(t) \/ TaskDelivers(t)
  BY <1>2, <1>3 DEF TaskSubmitted, TaskFails, TaskCanceled, TaskNeedsInfo, TaskDelivers
<1>4. CASE TaskReviseBegin(t) \/ TaskTail(t)
  BY <1>4, ExtendsByStatus DEF TaskReviseBegin, TaskTail
<1>5. ASSUME NEW p \in Patches, TaskRevise(t, p)
      PROVE  ExtendsPlan
  BY <1>5, PatchExtends DEF TaskRevise
<1>6. CASE Posts(t)
  <2>1. PICK k \in {0, 1}, D \in SUBSET queue, r \in NodeId \cup {0} :
          /\ Spawn(k, [i \in 1..k |-> D], [i \in 1..k |-> r])
          /\ status' = Spawned(k, status)
    BY <1>1, <1>6, PostSpawns
  <2>2. k \in Nat
    BY <2>1
  <2>3. status \in [NodeId -> NodeStatus] /\ UNCHANGED patched
    BY <1>1, <1>6 DEF TypeOK, Posts, TaskDeliverQueued, TaskArbitrate, TaskPost
  <2> QED
    BY <2>1, <2>2, <2>3, SpawnExtends
<1> QED
  BY <1>3, <1>4, <1>5, <1>6 DEF NodeTask, Posts

(* A settlement makes a node READY, or asks the user, only when the table  *)
(* allows it, and otherwise adds a node.                                   *)
LEMMA SettlementExtends ==
  ASSUME IInv, NEW n \in NodeId, Settlement(n)
  PROVE  ExtendsPlan
<1> USE DEF planVars
<1>1. TypeOK
  BY DEF IInv
<1>2. CASE SettleInspect(n) \/ SettleDecide(n)
  BY <1>2, ExtendsByStatus DEF SettleInspect, SettleDecide
<1>3. CASE SettleAdopt(n)
  <2>1. \A k \in nodes : status[k] \in Settled => status'[k] = status[k]
    BY <1>1, <1>3, SettledStuck DEF TypeOK, SettleAdopt
  <2> QED
    BY <1>3, <2>1, ExtendsByStatus DEF SettleAdopt
<1>4. CASE SettleAct(n)
  <2>1. CASE UNCHANGED <<nodes, status, deps, requested, ask, kind, asked, derived>>
    BY <1>4, <2>1, ExtendsByStatus DEF SettleAct
  <2>2. CASE Spawn(1, <<{}>>, <<n>>) /\ status' = Spawned(1, status)
    <3>1. status \in [NodeId -> NodeStatus] /\ UNCHANGED patched
      BY <1>1, <1>4 DEF TypeOK, SettleAct
    <3> QED
      BY <2>2, <3>1, SpawnExtends
  <2>3. CASE ask_user(n) /\ UNCHANGED <<nodes, deps, requested, derived>>
    <3>1. \A k \in nodes : status[k] \in Settled => status'[k] = status[k]
      BY <1>1, <2>3, SettledStuck DEF TypeOK, ask_user
    <3> QED
      BY <1>4, <2>3, <3>1, ExtendsByStatus DEF SettleAct
  <2> QED
    BY <1>4, <2>1, <2>2, <2>3 DEF SettleAct, call_subagent
<1> QED
  BY <1>2, <1>3, <1>4 DEF Settlement

(* Cancelling a node the table lets be cancelled, and invalidating the     *)
(* PENDING nodes it blocks, leaves the settled ones alone.                 *)
LEMMA CancelingKeeps ==
  ASSUME TypeOK, NEW n, can_transition(status[n], CANCELED)
  PROVE  \A k \in nodes : status[k] \in Settled => canceling(n)[k] = status[k]
<1> DEFINE st == [status EXCEPT ![n] = CANCELED]
<1> SUFFICES ASSUME NEW k \in nodes, status[k] \in Settled
             PROVE  canceling(n)[k] = status[k]
  OBVIOUS
<1>1. k \in NodeId /\ st[k] = status[k]
  BY SettledStuck DEF TypeOK
<1>2. k \notin blocked_nodes(nodes, st, deps)
  BY <1>1, SettledStuck DEF blocked_nodes
<1> QED
  BY <1>1, <1>2 DEF canceling

(* Every handler extends the plan, but for the one that starts a new plan  *)
(* and the one that fills it.                                              *)
LEMMA HandlerExtends ==
  ASSUME IInv, NEW m \in Msg, Handler(m), ~HPlan(m), \A d \in Drafts : ~HPlanOk(m, d)
  PROVE  ExtendsPlan
<1> USE DEF planVars
<1>1. TypeOK
  BY DEF IInv
<1>2. ASSUME NEW D, NEW st \in [NodeId -> NodeStatus], followup(D, st), UNCHANGED patched,
             \A n \in nodes : status[n] \in Settled => st[n] = status[n]
      PROVE  ExtendsPlan
  <2> DEFINE k == IF derived < MaxDerived THEN 1 ELSE 0
  <2>1. Spawn(k, [i \in 1..k |-> D], [i \in 1..k |-> 0]) /\ status' = Spawned(k, st)
    BY <1>2 DEF followup, spawn_derived_node
  <2>2. k \in Nat
    OBVIOUS
  <2> HIDE DEF k
  <2> QED
    BY <1>2, <2>1, <2>2, SpawnExtends
<1>3. CASE UNCHANGED <<nodes, status, deps, derived, patched>>
  BY <1>3, ExtendsByStatus
<1>4. CASE HMalformed(m) \/ HReject(m) \/ HCancelRaises(m) \/ HPlanRaises(m) \/ HReemit(m) \/ HExpire(m) \/ HConfirm(m)
  BY <1>3, <1>4 DEF HMalformed, HReject, HCancelRaises, HPlanRaises, HReemit, EndsIdle, HExpire, HConfirm
<1>5. CASE \/ HNoop(m) \/ HComplete(m) \/ HEnqueue(m) \/ HInterrupt(m)
           \/ \E final \in {"failed", "completed"} : HPlanEnds(m, final)
  BY <1>3, <1>5 DEF HNoop, HComplete, HEnqueue, HInterrupt, HPlanEnds
<1>6. CASE HAnswer(m)
  <2>1. kind[mnode[m]] = "question" => status[mnode[m]] = INPUT_REQUIRED
    BY <1>6 DEF HAnswer, Stale
  <2>2. \A n \in nodes : status[n] \in Settled => status'[n] = status[n]
    BY <1>1, <1>6, <2>1, SettledStuck DEF TypeOK, HAnswer
  <2> QED
    BY <1>6, <2>2, ExtendsByStatus DEF HAnswer
<1>7. CASE HConfirmed(m)
  BY <1>1, <1>7, CancelingKeeps, ExtendsByStatus DEF HConfirmed
<1>8. CASE HFollowup(m)
  BY <1>1, <1>2, <1>8 DEF TypeOK, HFollowup
<1>9. CASE HInterrupted(m)
  BY <1>1, <1>2, <1>9, CancelingKeeps, CancelingType DEF HInterrupted
<1>10. CASE HCancel(m)
  <2>1. \A n \in nodes : status[n] \in Settled => status'[n] = status[n]
    BY <1>1, <1>10, SettledStuck DEF TypeOK, HCancel
  <2> QED
    BY <1>10, <2>1, ExtendsByStatus DEF HCancel
<1> QED
  BY <1>4, <1>5, <1>6, <1>7, <1>8, <1>9, <1>10 DEF Handler

(***************************************************************************)
(* The lock keeps other handlers away from a plan that is being made.      *)
(***************************************************************************)

(* Appending to the queue of the lock does not change its holder. *)
LEMMA HolderStays ==
  ASSUME TypeOK, NEW a, Holds(a), lockq' = lockq \/ \E b \in Actor : lockq' = Append(lockq, b)
  PROVE  Holds(a)'
<1>1. lockq \in Seq(Actor) /\ lockq # <<>> /\ Head(lockq) = a
  BY DEF TypeOK, Holds
<1>2. ASSUME NEW b \in Actor, lockq' = Append(lockq, b)
      PROVE  Holds(a)'
  BY <1>1, <1>2, HeadTailAppend, AppendProperties DEF Holds
<1>3. CASE lockq' = lockq
  BY <1>1, <1>3 DEF Holds
<1> QED
  BY <1>2, <1>3

(* The actors of the lock are distinct. *)
LEMMA ActorsDiffer ==
  ASSUME NEW m \in Msg, Holds(MsgActor(m))
  PROVE  /\ ~Holds(RUNNER) /\ ~Holds(GONE)
         /\ \A n \in NodeId : ~Holds(SettleActor(n))
         /\ \A t \in TaskId : ~Holds(TaskActor(t))
         /\ \A o \in Msg : Holds(MsgActor(o)) => o = m
BY DEF Holds, MsgActor, RUNNER, GONE, SettleActor, TaskActor

(* A handler runs only while its message holds the lock. *)
LEMMA HandlerHolds ==
  ASSUME NEW m \in Msg, Handler(m)
  PROVE  Holds(MsgActor(m))
BY DEF Handler, HMalformed, HReject, HExpire, HAnswer, HConfirm, HConfirmed, HCancelRaises, HPlanRaises, HReemit,
       HNoop, HComplete, HEnqueue, HFollowup, HInterrupt, HInterrupted, HPlan, HCancel, HPlanEnds,
       HPlanOk, Room, NoRoom, Handles

(* Only start_new_plan makes a handler await the planner. *)
LEMMA PlanningBegins ==
  ASSUME TypeOK, NEW m \in Msg, Handler(m), mstate'[m] \in Planning
  PROVE  HPlan(m)
<1>1. ASSUME Handled(m) \/ Suspends(m, "canceling") PROVE FALSE
  BY <1>1 DEF TypeOK, Handled, Suspends, Planning
<1>2. ~HInterrupt(m)
  BY DEF TypeOK, HInterrupt, Planning
<1> QED
  BY <1>1, <1>2
     DEF Handler, HMalformed, HReject, HExpire, HAnswer, HConfirm, HConfirmed, HCancelRaises, HPlanRaises, HReemit,
         HNoop, HComplete, HEnqueue, HFollowup, HInterrupted, HCancel, HPlanEnds, HPlanOk, EndsIdle,
         _finish

(* While a handler has the lock, no step of another actor takes it away.   *)
LEMMA HandlerKeepsLock ==
  ASSUME TypeOK, NEW m \in Msg, Holds(MsgActor(m)), Next, ~Handler(m)
  PROVE  Holds(MsgActor(m))'
<1> USE DEF planVars, taskVars, settleVars, msgVars
<1>1. CASE User
  BY <1>1, HolderStays, ActorTypes DEF User, Send, Acquire
<1>2. CASE LockSkip
  BY <1>2, ActorsDiffer DEF LockSkip
<1>3. CASE Runner
  <2>1. CASE RunnerEnter
    BY <2>1, HolderStays, ActorTypes DEF RunnerEnter, RunnerLoops, RunnerTo
  <2>2. CASE RunnerReap
    BY <2>2, HolderStays, ActorTypes DEF RunnerReap, RunnerLoops, RunnerTo
  <2>3. CASE RunnerBackoff
    BY <2>3, HolderStays, ActorTypes DEF RunnerBackoff, RunnerLoops, RunnerTo
  <2>4. CASE Holds(RUNNER)
    BY <2>4, ActorsDiffer
  <2> QED
    BY <1>3, <2>1, <2>2, <2>3, <2>4
       DEF Runner, RunnerSchedule, RunnerContinue, RunnerExitWait, RunnerCompleted, RunnerRepairBegin,
           RunnerFailed, RunnerReturns, RunnerRepairOk, PlanFlowStep
<1>4. ASSUME NEW t \in TaskId, NodeTask(t)
      PROVE  Holds(MsgActor(m))'
  <2>1. ~Holds(TaskActor(t))
    BY ActorsDiffer
  <2>2. lockq' = lockq \/ lockq' = Append(lockq, TaskActor(t))
    BY <1>4, <2>1
       DEF NodeTask, TaskSubmitted, TaskFails, TaskCanceled, TaskNeedsInfo, TaskDelivers, TaskSets,
           TaskReviseBegin, TaskTail, TaskRevise, TaskDeliverQueued, TaskArbitrate, TaskPost, Acquire
  <2> QED
    BY <2>2, HolderStays, ActorTypes
<1>5. ASSUME NEW n \in NodeId, Settlement(n)
      PROVE  Holds(MsgActor(m))'
  <2>1. ~Holds(SettleActor(n))
    BY ActorsDiffer
  <2>2. lockq' = lockq \/ lockq' = Append(lockq, SettleActor(n))
    BY <1>5, <2>1 DEF Settlement, SettleInspect, SettleAdopt, SettleDecide, SettleAct, Acquire
  <2> QED
    BY <2>2, HolderStays, ActorTypes
<1>6. CASE \E o \in Msg : Handler(o)
  BY <1>6, HandlerHolds, ActorsDiffer
<1> QED
  BY <1>1, <1>2, <1>3, <1>4, <1>5, <1>6 DEF Next

(* Only its handler takes a message out of the queue. *)
LEMMA MessageStays ==
  ASSUME TypeOK, NEW m \in Msg, Next, ~Handler(m)
  PROVE  mstate'[m] = mstate[m] \/ mstate'[m] \in {"queued", "done"}
<1> USE DEF planVars, taskVars, settleVars, msgVars
<1>1. CASE User
  BY <1>1 DEF TypeOK, User, Send
<1>2. CASE UNCHANGED mstate
  BY <1>2
<1>3. ASSUME NEW o \in Msg, o # m, Handler(o)
      PROVE  mstate'[m] = mstate[m]
  BY <1>3, SMTT(30)
     DEF TypeOK, Handler, HMalformed, HReject, HExpire, HAnswer, HConfirm, HConfirmed, HCancelRaises, HPlanRaises,
         HReemit, HNoop, HComplete, HEnqueue, HFollowup, HInterrupt, HInterrupted, HPlan, HCancel,
         HPlanEnds, HPlanOk, EndsIdle, _finish, Handled, Suspends
<1>4. CASE LockSkip
  BY <1>2, <1>4 DEF LockSkip
<1>5. CASE Runner
  BY <1>2, <1>5
     DEF Runner, RunnerEnter, RunnerReap, RunnerBackoff, RunnerSchedule, RunnerContinue, RunnerExitWait,
         RunnerCompleted, RunnerRepairBegin, RunnerFailed, RunnerReturns, RunnerRepairOk, RunnerEnds
<1>6. CASE \E t \in TaskId : NodeTask(t)
  BY <1>2, <1>6, ZenonT(30)
     DEF NodeTask, TaskSubmitted, TaskFails, TaskCanceled, TaskNeedsInfo, TaskDelivers, TaskSets,
         TaskReviseBegin, TaskTail, TaskRevise, TaskDeliverQueued, TaskArbitrate, TaskPost
<1>7. CASE \E n \in NodeId : Settlement(n)
  BY <1>2, <1>7 DEF Settlement, SettleInspect, SettleAdopt, SettleDecide, SettleAct
<1> QED
  BY <1>1, <1>3, <1>4, <1>5, <1>6, <1>7 DEF Next

(* A message begins to be planned for only in its handler. *)
LEMMA PlanningStays ==
  ASSUME TypeOK, NEW m \in Msg, Next, ~Handler(m), mstate'[m] \in Planning
  PROVE  mstate[m] \in Planning
BY MessageStays DEF Planning

(* Only start_new_plan counts plans, and messages are queued for nodes of  *)
(* the plan.                                                               *)
LEMMA PlanStays ==
  ASSUME TypeOK, Next, \A m \in Msg : ~HPlan(m)
  PROVE  version' = version /\ queue' \subseteq queue \cup nodes
<1> USE DEF planVars
<1>1. CASE UNCHANGED <<version, queue>>
  BY <1>1
<1>2. CASE User \/ LockSkip
  BY <1>1, <1>2 DEF User, Send, LockSkip
<1>3. CASE Runner
  BY <1>1, <1>3
     DEF Runner, RunnerEnter, RunnerSchedule, RunnerReap, RunnerBackoff, RunnerContinue, RunnerExitWait,
         RunnerCompleted, RunnerRepairBegin, RunnerFailed, RunnerReturns, RunnerRepairOk, RunnerEnds,
         apply_patch
<1>4. ASSUME NEW t \in TaskId, NodeTask(t)
      PROVE  version' = version /\ queue' \subseteq queue \cup nodes
  <2>1. CASE Posts(t)
    BY <2>1 DEF Posts, TaskDeliverQueued, TaskArbitrate, TaskPost
  <2> QED
    BY <1>1, <1>4, <2>1
       DEF NodeTask, Posts, TaskSubmitted, TaskFails, TaskCanceled, TaskNeedsInfo, TaskDelivers, TaskSets,
           TaskReviseBegin, TaskTail, TaskRevise, apply_patch
<1>5. CASE \E n \in NodeId : Settlement(n)
  BY <1>1, <1>5 DEF Settlement, SettleInspect, SettleAdopt, SettleDecide, SettleAct
<1>6. ASSUME NEW m \in Msg, Handler(m)
      PROVE  version' = version /\ queue' \subseteq queue \cup nodes
  <2>1. CASE HEnqueue(m)
    <3>1. targets \subseteq nodes
      <4>1. \A S : S \subseteq nodes /\ S # {} => First(S) \in nodes
        BY FirstIn DEF TypeOK
      <4>2. active_nodes(nodes, status) \subseteq nodes
        BY DEF active_nodes
      <4> QED
        BY <4>1, <4>2 DEF targets
    <3> QED
      BY <2>1, <3>1 DEF HEnqueue, Quotes
  <2> QED
    BY <1>1, <1>6, <2>1
       DEF Handler, HMalformed, HReject, HExpire, HAnswer, HConfirm, HConfirmed, HCancelRaises, HPlanRaises, HReemit,
           HNoop, HComplete, HFollowup, HInterrupt, HInterrupted, HPlanOk, HPlanEnds, HCancel, EndsIdle
<1> QED
  BY <1>2, <1>3, <1>4, <1>5, <1>6 DEF Next

(* Every step but those of the planning handler extends the plan. *)
LEMMA StepExtends ==
  ASSUME IInv, Next,
         \A m \in Msg : ~HPlan(m) /\ \A d \in Drafts : ~HPlanOk(m, d)
  PROVE  ExtendsPlan
<1> USE DEF planVars
<1>1. CASE User
  BY <1>1, ExtendsByStatus DEF User, Send
<1>2. CASE LockSkip
  BY <1>2, ExtendsByStatus DEF LockSkip
<1> QED
  BY <1>1, <1>2, RunnerExtends, TaskExtends, SettlementExtends, HandlerExtends DEF Next

(* create_plan adds nodes that are not there yet. *)
LEMMA PlanOkKeeps ==
  ASSUME IInv, NEW m \in Msg, NEW d \in Drafts, HPlanOk(m, d)
  PROVE  KeepsNodes /\ FreshIds'
<1>1. DOMAIN d \subseteq PlanId /\ nodes \cap PlanId = {} /\ nodes \subseteq NodeId
  BY DraftsAssumption DEF IInv, TypeOK, PlannerAlone, HPlanOk
<1>2. KeepsNodes
  BY <1>1 DEF KeepsNodes, HPlanOk
<1>3. derived \in Nat /\ patched \in Nat /\ MaxPlan \in Nat
  BY ConstantsAssumption DEF IInv, TypeOK
<1>4. FreshIds'
  BY <1>1, <1>3 DEF IInv, FreshIds, HPlanOk, PlanId
<1> QED
  BY <1>2, <1>4

(* A step that does not start a new plan keeps the nodes it has. *)
LEMMA StepKeeps ==
  ASSUME IInv, Next, \A m \in Msg : ~HPlan(m)
  PROVE  KeepsNodes /\ FreshIds'
BY StepExtends, PlanOkKeeps DEF ExtendsPlan


(***************************************************************************)
(* The theorems.                                                           *)
(***************************************************************************)

(* The handler that waits for the planner stays alone with the lock. *)
LEMMA StepPlannerAlone ==
  ASSUME IInv, Next
  PROVE  PlannerAlone'
<1>1. TypeOK
  BY DEF IInv
<1> SUFFICES ASSUME NEW m \in Msg, mstate'[m] \in Planning
             PROVE  Holds(MsgActor(m))' /\ nodes' \cap PlanId = {}
  BY DEF PlannerAlone
<1>2. CASE Handler(m)
  <2>1. HPlan(m)
    BY <1>1, <1>2, PlanningBegins
  <2>2. Holds(MsgActor(m))
    BY <1>2, HandlerHolds
  <2> QED
    BY <2>1, <2>2 DEF HPlan, Holds
<1>3. CASE ~Handler(m)
  <2>1. mstate[m] \in Planning /\ Holds(MsgActor(m)) /\ nodes \cap PlanId = {}
    BY <1>1, <1>3, PlanningStays DEF IInv, PlannerAlone
  <2>2. Holds(MsgActor(m))'
    BY <1>1, <1>3, <2>1, HandlerKeepsLock
  <2>3. \A o \in Msg : ~Handler(o)
    BY <1>3, <2>1, HandlerHolds, ActorsDiffer
  <2>4. ExtendsPlan
    BY <2>3, StepExtends DEF Handler
  <2> QED
    BY <2>1, <2>2, <2>4 DEF ExtendsPlan
<1> QED
  BY <1>2, <1>3

(* The inductive invariant holds: fresh ids are fresh, and only the        *)
(* planning handler touches a plan that is being made.                     *)
THEOREM InductiveInvariant == Spec => []IInv
<1>1. Init => FreshIds /\ PlannerAlone
  BY DEF Init, FreshIds, PlannerAlone, Planning
<1>2. IInv /\ [Next]_vars => (FreshIds /\ PlannerAlone)'
  <2> SUFFICES ASSUME IInv, [Next]_vars
               PROVE  (FreshIds /\ PlannerAlone)'
    OBVIOUS
  <2>1. CASE Next
    <3>1. FreshIds'
      <4>1. CASE \E m \in Msg : HPlan(m)
        BY <4>1 DEF HPlan, FreshIds
      <4> QED
        BY <2>1, <4>1, StepKeeps
    <3> QED
      BY <2>1, <3>1, StepPlannerAlone
  <2>2. CASE UNCHANGED vars
    BY <2>2 DEF IInv, FreshIds, PlannerAlone, Holds, vars, planVars, msgVars
  <2> QED
    BY <2>1, <2>2
<1> QED
  BY <1>1, <1>2, TypeCorrect, PTL DEF IInv, Spec

(* A COMPLETED, CANCELED or INVALIDATED node stays so until its plan is    *)
(* dropped: no late report of a task, no retry, answer, patch, settlement  *)
(* or planning brings it back.                                             *)
THEOREM SettledNodesStay == Spec => SettledIsFinal
<1> DEFINE A == \A n \in nodes : status[n] \in Settled /\ version' = version => status'[n] = status[n]
<1>1. IInv /\ [Next]_vars => [A]_vars
  <2> SUFFICES ASSUME IInv, Next PROVE A
    OBVIOUS
  <2>1. CASE \E m \in Msg : HPlan(m)
    <3>1. version \in Nat /\ version' = version + 1
      BY <2>1, ConstantsAssumption DEF IInv, TypeOK, HPlan
    <3> QED
      BY <3>1
  <2>2. CASE \A m \in Msg : ~HPlan(m)
    BY <2>2, StepKeeps DEF KeepsNodes
  <2> QED
    BY <2>1, <2>2
<1> QED
  BY <1>1, InductiveInvariant, PTL DEF SettledIsFinal, Spec

(* start_new_plan leaves no task at work on a node of the new plan. *)
LEMMA NewPlanNoWork ==
  ASSUME TypeOK, NEW m \in Msg, HPlan(m), NEW t \in TaskId
  PROVE  ~AtWork(t)'
<1>1. current(t) \in NodeStatus \/ current(t) # "live"
  BY DEF TypeOK, current, TaskId, NodeOf
<1>2. "live" \notin NodeStatus
  BY DEF NodeStatus
<1> QED
  BY <1>1, <1>2 DEF AtWork, HPlan

(* A task begins to work on a node of the plan only when the runner        *)
(* dispatches it.                                                          *)
LEMMA WorkBegins ==
  ASSUME TypeOK, Next, NEW t \in TaskId, AtWork(t)'
  PROVE  AtWork(t) \/ (RunnerSchedule /\ NodeOf(t) \in ready_batch)
<1> USE DEF planVars, taskVars, settleVars, msgVars
<1>1. "live" \notin NodeStatus
  BY DEF NodeStatus
<1>2. ASSUME UNCHANGED taskVars PROVE AtWork(t)
  BY <1>2 DEF AtWork
<1>3. CASE User \/ LockSkip
  BY <1>2, <1>3 DEF User, Send, LockSkip
<1>4. CASE Runner
  <2>1. CASE RunnerSchedule
    BY <2>1 DEF AtWork, RunnerSchedule, NodeOf
  <2>2. CASE RunnerReap
    BY <2>2 DEF AtWork, RunnerReap, Finished
  <2> QED
    BY <1>2, <1>4, <2>1, <2>2
       DEF Runner, RunnerEnter, RunnerBackoff, RunnerContinue, RunnerExitWait, RunnerCompleted,
           RunnerRepairBegin, RunnerFailed, RunnerReturns, RunnerRepairOk, RunnerEnds
<1>5. ASSUME NEW u \in TaskId, NodeTask(u)
      PROVE  AtWork(t)
  <2>1. ASSUME NEW to \in NodeStatus, NEW next, TaskSets(u, to, next),
               next = "run" => phase[u] = "run", next \in {"run", "tail", "post"}
        PROVE  AtWork(t)
    BY <1>1, <2>1 DEF TypeOK, AtWork, TaskSets, apply_transition, TaskRaises
  <2>2. CASE TaskSubmitted(u) \/ TaskFails(u) \/ TaskCanceled(u) \/ TaskNeedsInfo(u) \/ TaskDelivers(u)
    BY <2>1, <2>2, StatusTypes
       DEF At, TaskSubmitted, TaskFails, TaskCanceled, TaskNeedsInfo, TaskDelivers
  <2>3. CASE TaskReviseBegin(u)
    BY <2>3 DEF TypeOK, AtWork, TaskReviseBegin, At
  <2>4. CASE \E p \in Patches : TaskRevise(u, p)
    BY <2>4 DEF TypeOK, AtWork, TaskRevise
  <2>5. CASE TaskTail(u) \/ Posts(u)
    BY <2>5 DEF TypeOK, AtWork, TaskTail, Posts, TaskDeliverQueued, TaskArbitrate, TaskPost
  <2> QED
    BY <1>5, <2>2, <2>3, <2>4, <2>5 DEF NodeTask, Posts
<1>6. CASE \E n \in NodeId : Settlement(n)
  BY <1>2, <1>6 DEF Settlement, SettleInspect, SettleAdopt, SettleDecide, SettleAct
<1>7. ASSUME NEW m \in Msg, Handler(m)
      PROVE  AtWork(t)
  <2>1. CASE HPlan(m)
    BY <2>1, NewPlanNoWork
  <2>2. CASE HCancel(m)
    BY <2>2 DEF AtWork, HCancel, cleared
  <2>3. CASE \E final \in {"failed", "completed"} : HPlanEnds(m, final)
    BY <2>3 DEF AtWork, HPlanEnds, cleared
  <2> QED
    BY <1>2, <1>7, <2>1, <2>2, <2>3
       DEF Handler, HMalformed, HReject, HExpire, HAnswer, HConfirm, HConfirmed, HCancelRaises, HPlanRaises, HReemit,
           HNoop, HComplete, HEnqueue, HFollowup, HInterrupt, HInterrupted, HPlanOk, EndsIdle
<1> QED
  BY <1>3, <1>4, <1>5, <1>6, <1>7 DEF Next

(* What is at work is a node of the plan. *)
WorkOnPlan == \A t \in TaskId : AtWork(t) => NodeOf(t) \in nodes

(* A node is at work only when everything it depends on has been           *)
(* delivered, and stays delivered.                                         *)
THEOREM DispatchCorrect == Spec => []DispatchAfterDeps
<1> DEFINE D == DispatchAfterDeps /\ WorkOnPlan
<1>1. Init => D
  BY DEF Init, DispatchAfterDeps, WorkOnPlan, AtWork
<1>2. IInv /\ D /\ [Next]_vars => D'
  <2> SUFFICES ASSUME IInv, D, Next PROVE D'
    BY DEF vars, planVars, taskVars, DispatchAfterDeps, WorkOnPlan, AtWork
  <2>1. TypeOK /\ nodes \subseteq NodeId
    BY DEF IInv, TypeOK
  <2> SUFFICES ASSUME NEW t \in TaskId, AtWork(t)'
               PROVE  /\ NodeOf(t) \in nodes'
                      /\ \A d \in deps'[NodeOf(t)] : d \in nodes' /\ status'[d] = COMPLETED
    BY DEF DispatchAfterDeps, WorkOnPlan
  <2>2. KeepsNodes
    BY <2>1, NewPlanNoWork, StepKeeps
  <2>3. /\ NodeOf(t) \in nodes
        /\ \A d \in deps[NodeOf(t)] : d \in nodes /\ status[d] = COMPLETED
    <3>1. CASE AtWork(t)
      BY <3>1 DEF DispatchAfterDeps, WorkOnPlan
    <3>2. CASE RunnerSchedule /\ NodeOf(t) \in ready_batch
      <4>1. /\ NodeOf(t) \in nodes
            /\ \A d \in deps[NodeOf(t)] : d \in nodes /\ retried[d] = COMPLETED
        BY <3>2 DEF ready_batch, ready_nodes
      <4>2. \A d \in nodes : retried[d] = COMPLETED => status[d] = COMPLETED
        BY <2>1 DEF retried, COMPLETED, PENDING
      <4> QED
        BY <4>1, <4>2
    <3> QED
      BY <2>1, <3>1, <3>2, WorkBegins
  <2>4. COMPLETED \in Settled
    BY DEF Settled
  <2> QED
    BY <2>2, <2>3, <2>4 DEF KeepsNodes
<1> QED
  BY <1>1, <1>2, InductiveInvariant, PTL DEF Spec

(***************************************************************************)
(* The end of a turn.                                                      *)
(***************************************************************************)

(* Where run_plan is when none of its tasks is left. *)
Quiet == {"off", "start", "flow", "repair"} \cup Endings
NothingRuns ==
  runner \in Quiet => (\A t \in TaskId : phase[t] = "none") /\ \A n \in NodeId : settle[n] = "none"

(* run_plan decides and reports the end of a turn under the lock. *)
RunnerDecides == runner \in {"repair"} \cup Endings => Holds(RUNNER)

(* No step leaves a task behind when run_plan comes to plan_flow or        *)
(* returns: only the runner starts tasks, and it goes on to plan_flow only *)
(* when there is none.                                                     *)
LEMMA StepNothingRuns ==
  ASSUME TypeOK, NothingRuns, Next
  PROVE  NothingRuns'
<1> USE DEF planVars, taskVars, settleVars, msgVars, Quiet, Endings
<1>1. ASSUME UNCHANGED <<phase, settle>>, runner' \in Quiet => runner \in Quiet
      PROVE  NothingRuns'
  BY <1>1 DEF NothingRuns
<1>2. CASE User \/ LockSkip
  BY <1>1, <1>2 DEF User, Send, LockSkip
<1>3. CASE Runner
  <2>1. CASE RunnerSchedule
    <3>1. \/ runner' = "wait"
          \/ (\A t \in TaskId : phase'[t] = "none") /\ \A n \in NodeId : settle'[n] = "none"
      BY <2>1 DEF RunnerSchedule
    <3> QED
      BY <3>1 DEF NothingRuns
  <2>2. CASE runner' \in {"schedule", "backoff"}
    BY <2>2 DEF NothingRuns
  <2>3. CASE RunnerEnter \/ RunnerReap \/ RunnerBackoff \/ RunnerContinue \/ \E p \in Patches : RunnerRepairOk(p)
    BY <2>2, <2>3 DEF RunnerEnter, RunnerReap, RunnerBackoff, RunnerContinue, RunnerRepairOk, RunnerLoops, RunnerTo
  <2>4. CASE RunnerExitWait \/ RunnerCompleted \/ RunnerRepairBegin \/ RunnerFailed \/ RunnerReturns
    BY <1>1, <2>4 DEF RunnerExitWait, RunnerCompleted, RunnerRepairBegin, RunnerFailed, RunnerReturns,
                      RunnerEnds, PlanFlowStep
  <2> QED
    BY <1>3, <2>1, <2>3, <2>4 DEF Runner
<1>4. ASSUME NEW t \in TaskId, NodeTask(t)
      PROVE  NothingRuns'
  <2>1. phase[t] # "none" /\ UNCHANGED runner
    BY <1>4 DEF NodeTask, TaskSubmitted, TaskFails, TaskCanceled, TaskNeedsInfo, TaskDelivers, TaskSets,
                TaskReviseBegin, TaskTail, TaskRevise, TaskDeliverQueued, TaskArbitrate, TaskPost, At
  <2> QED
    BY <2>1 DEF NothingRuns
<1>5. ASSUME NEW n \in NodeId, Settlement(n)
      PROVE  NothingRuns'
  <2>1. settle[n] # "none" /\ UNCHANGED runner
    BY <1>5 DEF Settlement, SettleInspect, SettleAdopt, SettleDecide, SettleAct
  <2> QED
    BY <2>1 DEF NothingRuns
<1>6. ASSUME NEW m \in Msg, Handler(m)
      PROVE  NothingRuns'
  <2>1. CASE HCancel(m)
    BY <2>1 DEF NothingRuns, HCancel, cleared
  <2>2. CASE \E final \in {"failed", "completed"} : HPlanEnds(m, final)
    BY <2>2 DEF NothingRuns, HPlanEnds, cleared
  <2>3. CASE start_runner /\ UNCHANGED <<phase, settle>>
    BY <1>1, <2>3 DEF start_runner
  <2>4. CASE UNCHANGED <<phase, settle, runner>>
    BY <1>1, <2>4
  <2> QED
    BY <1>6, <2>1, <2>2, <2>3, <2>4
       DEF Handler, HMalformed, HReject, HExpire, HAnswer, HConfirm, HConfirmed, HCancelRaises, HPlanRaises, HReemit,
           HNoop, HComplete, HEnqueue, HFollowup, HInterrupt, HInterrupted, HPlan, HPlanOk, EndsIdle, _finish
<1> QED
  BY <1>2, <1>3, <1>4, <1>5, <1>6 DEF Next

(* A planning that comes to nothing evicts the session under a runner that *)
(* is still at work in the room: its tasks go on, and only the registries  *)
(* are emptied.                                                            *)
Forgets == runner # "off" /\ \E m \in Msg, final \in {"failed", "completed"} : HPlanEnds(m, final)

(* As long as no live runner is forgotten, the tasks end before the runner *)
(* does: run_plan comes to its end only when none is left, and its         *)
(* cancellation takes them along.  The eviction at the end of a planning   *)
(* contributes nothing to this: it finds the registries empty.             *)
LEMMA StepTasksEndFirst ==
  ASSUME TypeOK, NothingRuns, Next, ~Forgets
  PROVE  /\ NothingRuns'
         /\ \A m \in Msg, final \in {"failed", "completed"} : HPlanEnds(m, final) => UNCHANGED <<phase, settle>>
<1>1. ASSUME NEW m \in Msg, NEW final \in {"failed", "completed"}, HPlanEnds(m, final)
      PROVE  UNCHANGED <<phase, settle>>
  <2>1. runner = "off"
    BY <1>1 DEF Forgets
  <2>2. (\A t \in TaskId : phase[t] = "none") /\ \A n \in NodeId : settle[n] = "none"
    BY <2>1 DEF NothingRuns, Quiet
  <2>3. phase' = [t \in TaskId |-> "none"] /\ settle' = [n \in NodeId |-> "none"]
    BY <1>1 DEF HPlanEnds, cleared
  <2> QED
    BY <2>2, <2>3 DEF TypeOK
<1> QED
  BY <1>1, StepNothingRuns

(* Once run_plan has returned, or was cancelled, none of its tasks is left *)
(* behind.  (A live runner that is forgotten leaves its tasks behind in    *)
(* the code, so the theorem is about the behaviours without that step.)    *)
THEOREM NoTaskLeftBehind == Init /\ [][Next /\ ~Forgets]_vars => []NothingLeftBehind
<1>1. Init => NothingRuns
  BY DEF Init, NothingRuns
<1>2. TypeOK /\ NothingRuns /\ [Next /\ ~Forgets]_vars => NothingRuns'
  BY StepTasksEndFirst DEF vars, taskVars, settleVars, NothingRuns
<1>3. NothingRuns => NothingLeftBehind
  BY DEF NothingRuns, NothingLeftBehind, Quiet, tasksInFlight
<1>4. [Next /\ ~Forgets]_vars => [Next]_vars
  OBVIOUS
<1> QED
  BY <1>1, <1>2, <1>3, <1>4, TypeCorrect, PTL DEF Spec

(* Whoever decides keeps the lock: the others can only ask for it. *)
LEMMA StepRunnerDecides ==
  ASSUME TypeOK, RunnerDecides, Next
  PROVE  RunnerDecides'
<1> USE DEF planVars, taskVars, settleVars, msgVars, Endings
<1>1. ASSUME UNCHANGED runner, Holds(RUNNER) => Holds(RUNNER)'
      PROVE  RunnerDecides'
  BY <1>1 DEF RunnerDecides
<1>2. CASE User
  BY <1>1, <1>2, HolderStays, ActorTypes DEF User, Send, Acquire
<1>3. CASE LockSkip
  BY <1>1, <1>3 DEF LockSkip, Holds, RUNNER, GONE
<1>4. CASE Runner
  <2>1. CASE runner' \notin {"repair"} \cup Endings
    BY <2>1 DEF RunnerDecides
  <2>2. CASE Holds(RUNNER) /\ UNCHANGED lockq
    BY <2>2 DEF RunnerDecides, Holds
  <2>3. CASE RunnerSchedule
    BY <2>1, <2>3 DEF RunnerSchedule, RunnerTo
  <2> QED
    BY <1>4, <2>1, <2>2, <2>3
       DEF Runner, RunnerEnter, RunnerReap, RunnerBackoff, RunnerContinue, RunnerExitWait, RunnerCompleted,
           RunnerRepairBegin, RunnerFailed, RunnerReturns, RunnerRepairOk, RunnerEnds, RunnerLoops,
           RunnerTo, PlanFlowStep
<1>5. ASSUME NEW t \in TaskId, NodeTask(t)
      PROVE  RunnerDecides'
  <2>1. Holds(RUNNER) => ~Holds(TaskActor(t))
    BY DEF Holds, RUNNER, TaskActor
  <2>2. UNCHANGED runner /\ (Holds(TaskActor(t)) \/ lockq' = lockq \/ lockq' = Append(lockq, TaskActor(t)))
    BY <1>5
       DEF NodeTask, TaskSubmitted, TaskFails, TaskCanceled, TaskNeedsInfo, TaskDelivers, TaskSets,
           TaskReviseBegin, TaskTail, TaskRevise, TaskDeliverQueued, TaskArbitrate, TaskPost, Acquire
  <2> QED
    BY <1>1, <2>1, <2>2, HolderStays, ActorTypes
<1>6. ASSUME NEW n \in NodeId, Settlement(n)
      PROVE  RunnerDecides'
  <2>1. Holds(RUNNER) => ~Holds(SettleActor(n))
    BY DEF Holds, RUNNER, SettleActor
  <2>2. UNCHANGED runner /\ (Holds(SettleActor(n)) \/ lockq' = lockq \/ lockq' = Append(lockq, SettleActor(n)))
    BY <1>6 DEF Settlement, SettleInspect, SettleAdopt, SettleDecide, SettleAct, Acquire
  <2> QED
    BY <1>1, <2>1, <2>2, HolderStays, ActorTypes
<1>7. ASSUME NEW m \in Msg, Handler(m)
      PROVE  RunnerDecides'
  <2>1. runner \notin {"repair"} \cup Endings
    BY <1>7, HandlerHolds, ActorsDiffer DEF RunnerDecides
  <2>2. CASE start_runner
    BY <2>1, <2>2 DEF start_runner, RunnerDecides
  <2>3. CASE UNCHANGED runner
    BY <2>1, <2>3 DEF RunnerDecides
  <2> QED
    BY <1>7, <2>2, <2>3
       DEF Handler, HMalformed, HReject, HExpire, HAnswer, HConfirm, HConfirmed, HCancelRaises, HPlanRaises, HReemit,
           HNoop, HComplete, HEnqueue, HFollowup, HInterrupt, HInterrupted, HPlan, HPlanOk, HPlanEnds,
           HCancel, EndsIdle, _finish, RunnerDecides
<1> QED
  BY <1>2, <1>3, <1>4, <1>5, <1>6, <1>7 DEF Next

(* While the runner reports the end of a turn nobody touches the plan: its *)
(* tasks are gone and the handlers wait for the lock.                      *)
LEMMA PlanAtRest ==
  ASSUME NothingRuns, RunnerDecides, Next, runner \in Endings, runner' \in Endings
  PROVE  UNCHANGED planVars
<1> USE DEF Endings, Quiet
<1>1. Holds(RUNNER)
  BY DEF RunnerDecides
<1>2. \A m \in Msg : ~Handler(m)
  BY <1>1, HandlerHolds DEF Holds, RUNNER, MsgActor
<1>3. ASSUME NEW t \in TaskId, NodeTask(t) PROVE FALSE
  <2>1. phase[t] # "none"
    BY <1>3 DEF NodeTask, TaskSubmitted, TaskFails, TaskCanceled, TaskNeedsInfo, TaskDelivers,
                TaskReviseBegin, TaskTail, TaskRevise, TaskDeliverQueued, TaskArbitrate, TaskPost, At
  <2> QED
    BY <2>1 DEF NothingRuns
<1>4. ASSUME NEW n \in NodeId, Settlement(n) PROVE FALSE
  BY <1>4 DEF Settlement, SettleInspect, SettleAdopt, SettleDecide, SettleAct, NothingRuns
<1>5. CASE User \/ LockSkip
  BY <1>5 DEF User, Send, LockSkip
<1>6. CASE Runner
  BY <1>6
     DEF Runner, RunnerEnter, RunnerSchedule, RunnerReap, RunnerBackoff, RunnerContinue, RunnerExitWait,
         RunnerCompleted, RunnerRepairBegin, RunnerFailed, RunnerReturns, RunnerRepairOk, RunnerEnds, PlanFlowStep
<1> QED
  BY <1>2, <1>3, <1>4, <1>5, <1>6 DEF Next

(* A turn is reported completed only when every node has come to an end    *)
(* and none has failed, and it stays so until the session is evicted.      *)
THEOREM CompletedCorrect == Spec => []CompletedIsSettled
<1>1. Init => NothingRuns /\ RunnerDecides /\ CompletedIsSettled
  BY DEF Init, NothingRuns, RunnerDecides, CompletedIsSettled, Endings
<1>2. TypeOK /\ NothingRuns /\ RunnerDecides /\ CompletedIsSettled /\ [Next]_vars
        => (NothingRuns /\ RunnerDecides /\ CompletedIsSettled)'
  <2> SUFFICES ASSUME TypeOK, NothingRuns, RunnerDecides, CompletedIsSettled, Next
               PROVE  (NothingRuns /\ RunnerDecides /\ CompletedIsSettled)'
    BY DEF vars, planVars, taskVars, settleVars, NothingRuns, RunnerDecides, CompletedIsSettled, Holds
  <2>1. CompletedIsSettled'
    <3> SUFFICES ASSUME runner' = "completed"
                 PROVE  \A n \in nodes' : status'[n] \in Settled
      BY DEF CompletedIsSettled
    <3>1. CASE runner = "completed"
      BY <3>1, PlanAtRest DEF Endings, planVars, CompletedIsSettled
    <3>2. CASE RunnerCompleted
      <4>1. UNCHANGED <<nodes, status>> /\ all_completed(nodes, status)
        BY <3>2 DEF RunnerCompleted, RunnerEnds, planVars
      <4> QED
        BY <4>1 DEF all_completed, Settled
    <3>3. UNCHANGED runner \/ runner' \in {"start", "off"} \/ Runner
      <4>1. CASE User \/ LockSkip
        BY <4>1 DEF User, Send, LockSkip
      <4>2. ASSUME NEW t \in TaskId, NodeTask(t)
            PROVE  UNCHANGED runner
        BY <4>2 DEF NodeTask, TaskSubmitted, TaskFails, TaskCanceled, TaskNeedsInfo, TaskDelivers, TaskSets,
                    TaskReviseBegin, TaskTail, TaskRevise, TaskDeliverQueued, TaskArbitrate, TaskPost
      <4>3. ASSUME NEW n \in NodeId, Settlement(n)
            PROVE  UNCHANGED runner
        BY <4>3 DEF Settlement, SettleInspect, SettleAdopt, SettleDecide, SettleAct
      <4>4. ASSUME NEW m \in Msg, Handler(m)
            PROVE  UNCHANGED runner \/ runner' \in {"start", "off"}
        <5>1. CASE HCancel(m)
          BY <5>1 DEF HCancel
        <5>2. CASE \E final \in {"failed", "completed"} : HPlanEnds(m, final)
          BY <5>2 DEF HPlanEnds
        <5>3. CASE start_runner
          BY <5>3 DEF start_runner
        <5>4. CASE UNCHANGED runner
          BY <5>4
        <5> QED
          BY <4>4, <5>1, <5>2, <5>3, <5>4
             DEF Handler, HMalformed, HReject, HExpire, HAnswer, HConfirm, HConfirmed, HCancelRaises, HPlanRaises, HReemit,
                 HNoop, HComplete, HEnqueue, HFollowup, HInterrupt, HInterrupted, HPlan, HPlanOk, EndsIdle, _finish
      <4> QED
        BY <4>1, <4>2, <4>3, <4>4 DEF Next
    <3>4. Runner => RunnerCompleted \/ runner' # "completed"
      BY DEF Runner, RunnerEnter, RunnerSchedule, RunnerReap, RunnerBackoff, RunnerContinue,
             RunnerExitWait, RunnerRepairBegin, RunnerFailed, RunnerReturns, RunnerRepairOk, RunnerEnds,
             RunnerLoops, RunnerTo
    <3> QED
      BY <3>1, <3>2, <3>3, <3>4
  <2> QED
    BY <2>1, StepNothingRuns, StepRunnerDecides
<1> QED
  BY <1>1, <1>2, TypeCorrect, PTL DEF Spec

(***************************************************************************)
(* Session implements PlanLifecycle, for every value of its constants.     *)
(*                                                                         *)
(* Every step that does not start a new plan does one of a few things to a *)
(* node it finds (StatusMove) and gives the nodes it adds inputs that      *)
(* exist (StepMoves); LEMMA FoundMoves turns that into a step of the       *)
(* abstract specification.  Beyond IInv the argument needs that the nodes  *)
(* with queued messages are nodes of the plan, since a follow-up depends   *)
(* on one, and that a node at work has its inputs (DispatchCorrect), since *)
(* a task may report SUBMITTED for a node that had left its work.          *)
(***************************************************************************)

(* Messages are queued for nodes of the plan. *)
QueueOnPlan == queue \subseteq nodes

(* The inputs of a node have been delivered. *)
HasInputs(n) == \A d \in deps[n] : d \in nodes /\ status[d] = COMPLETED

Landing == {READY, INPUT_REQUIRED, COMPLETED, FAILED, CANCELED, INVALIDATED}

(* What a step does to the status of a node it finds. *)
StatusMove(n) ==
  \/ status'[n] = status[n]
  \/ status'[n] \in ALLOWED_TRANSITIONS(status[n]) /\ status'[n] \in Landing
  \/ status[n] = FAILED /\ status'[n] = PENDING
  \/ status'[n] = SUBMITTED /\ status[n] \notin Settled /\ HasInputs(n)

PlanMoves ==
  /\ \A n \in nodes : StatusMove(n)
  /\ \A n \in nodes' \ nodes : status'[n] \in {PENDING, INVALIDATED} /\ deps'[n] \subseteq nodes'

(* A step that changes no node. *)
LEMMA QuietMoves ==
  ASSUME UNCHANGED <<nodes, status>>
  PROVE  PlanMoves
BY DEF PlanMoves, StatusMove

(* A change of status the table allows, to a status that is not at work.   *)
LEMMA LandingMoves ==
  ASSUME NEW n, NEW to \in Landing, can_transition(status[n], to), status'[n] = to
  PROVE  StatusMove(n)
BY DEF StatusMove, can_transition

(* spawn_derived_node adds PENDING nodes; the others move as st says. *)
LEMMA SpawnMoves ==
  ASSUME IInv, NEW k \in Nat, NEW dp, NEW by, NEW st \in [NodeId -> NodeStatus],
         Spawn(k, dp, by), status' = Spawned(k, st), nodes' \subseteq NodeId,
         \A i \in 1..k : dp[i] \subseteq nodes,
         \A n \in nodes : status'[n] = st[n] => StatusMove(n)
  PROVE  PlanMoves
<1>1. derived \in Nat /\ patched \in Nat /\ MaxPlan \in Nat /\ nodes \subseteq NodeId /\ nodes \subseteq Nat
  BY ConstantsAssumption DEF IInv, TypeOK, NodeId
<1>2. \A n \in nodes : \A i \in 1..k : n # Fresh(i)
  BY <1>1 DEF IInv, FreshIds, Fresh
<1>3. \A n \in nodes : status'[n] = st[n]
  BY <1>1, <1>2 DEF Spawned
<1>4. ASSUME NEW n \in nodes' \ nodes
      PROVE  status'[n] \in {PENDING, INVALIDATED} /\ deps'[n] \subseteq nodes'
  <2>1. PICK i \in 1..k : n = Fresh(i)
    BY DEF Spawn
  <2>2. n - Fresh(0) = i /\ n \in NodeId
    BY <1>1, <2>1 DEF Fresh
  <2>3. status'[n] = PENDING
    BY <2>1, <2>2 DEF Spawned
  <2>4. deps'[n] = dp[i]
    BY <2>1, <2>2 DEF Spawn
  <2> QED
    BY <2>3, <2>4 DEF Spawn
<1> QED
  BY <1>3, <1>4 DEF PlanMoves

(* apply_patch adds a node that depends on nodes of the plan, and          *)
(* invalidates what the table lets be invalidated.                         *)
LEMMA PatchMoves ==
  ASSUME IInv, NEW q, apply_patch(q), nodes' \subseteq NodeId, \A D \in q.add : D \subseteq nodes
  PROVE  PlanMoves
<1> DEFINE new   == {Fresh(1) : D \in q.add}
           ns    == nodes \cup new
           dp    == [n \in NodeId |-> IF n \in new THEN UNION q.add ELSE deps[n]]
           added == [n \in NodeId |-> IF n \in new THEN PENDING ELSE status[n]]
           gone  == invalidated_by(ns, added, dp, q.invalidate)
<1>1. derived \in Nat /\ patched \in Nat /\ MaxPlan \in Nat /\ nodes \subseteq NodeId /\ nodes \subseteq Nat
  BY ConstantsAssumption DEF IInv, TypeOK, NodeId
<1>2. /\ nodes' = ns /\ deps' = dp
      /\ status' = [n \in NodeId |-> IF n \in gone THEN INVALIDATED ELSE added[n]]
  BY DEF apply_patch
<1>3. \A n \in gone : added[n] \in INVALIDATABLE_STATUSES
  BY DEF invalidated_by
<1>4. \A n \in new : n = MaxPlan + derived + patched + 1
  BY DEF Fresh
<1>5. UNION q.add \subseteq nodes
  OBVIOUS
<1> HIDE DEF new, gone
<1>6. \A n \in nodes : n \notin new
  BY <1>1, <1>4 DEF IInv, FreshIds
<1>7. ASSUME NEW n \in nodes PROVE StatusMove(n)
  <2>1. n \in NodeId /\ added[n] = status[n]
    BY <1>1, <1>6
  <2>2. CASE n \in gone
    <3>1. status'[n] = INVALIDATED /\ status[n] \in INVALIDATABLE_STATUSES
      BY <1>2, <1>3, <2>1, <2>2
    <3>2. INVALIDATED \in ALLOWED_TRANSITIONS(status[n])
      BY <3>1 DEF INVALIDATABLE_STATUSES, ALLOWED_TRANSITIONS, IN_FLIGHT_TARGETS, PENDING, READY,
                  RECOVER, FAILED, SUBMITTED, WORKING, INPUT_REQUIRED, INVALIDATED
    <3> QED
      BY <3>1, <3>2 DEF StatusMove, Landing
  <2>3. CASE n \notin gone
    BY <1>2, <2>1, <2>3 DEF StatusMove
  <2> QED
    BY <2>2, <2>3
<1>8. \A n \in nodes' \ nodes :
        status'[n] \in {PENDING, INVALIDATED} /\ deps'[n] \subseteq nodes'
  BY <1>2, <1>5
<1> QED
  BY <1>7, <1>8 DEF PlanMoves

(* The runner retries failed nodes, dispatches nodes that have their       *)
(* inputs, and fails the nodes of tasks that raised.                       *)
LEMMA RunnerMoves ==
  ASSUME IInv, IInv', Runner
  PROVE  PlanMoves
<1> USE DEF planVars
<1>1. TypeOK /\ nodes \subseteq NodeId /\ nodes' \subseteq NodeId
  BY DEF IInv, TypeOK
<1>2. CASE RunnerSchedule
  <2> SUFFICES ASSUME NEW n \in nodes PROVE StatusMove(n)
    BY <1>2 DEF PlanMoves, RunnerSchedule
  <2>1. n \in NodeId
    BY <1>1
  <2>2. retried[n] = status[n] \/ (status[n] = FAILED /\ retried[n] = PENDING)
    BY <2>1 DEF retried, can_retry
  <2>3. CASE n \in dispatched
    <3>1. status'[n] = SUBMITTED
      BY <1>2, <2>1, <2>3 DEF RunnerSchedule
    <3>2. /\ retried[n] \in PENDING_NODE_STATUSES
          /\ \A d \in deps[n] : d \in nodes /\ retried[d] = COMPLETED
      BY <2>3 DEF dispatched, ready_batch, ready_nodes
    <3>3. status[n] \notin Settled
      BY <2>2, <3>2, SettledStuck DEF Settled
    <3>4. \A d \in nodes : retried[d] = COMPLETED => status[d] = COMPLETED
      BY <1>1 DEF retried, COMPLETED, PENDING
    <3>5. HasInputs(n)
      BY <3>2, <3>4 DEF HasInputs
    <3> QED
      BY <3>1, <3>3, <3>5 DEF StatusMove
  <2>4. CASE n \notin dispatched
    BY <1>2, <2>1, <2>2, <2>4 DEF RunnerSchedule, StatusMove
  <2> QED
    BY <2>3, <2>4
<1>3. CASE RunnerReap
  <2> SUFFICES ASSUME NEW n \in nodes PROVE StatusMove(n)
    BY <1>3 DEF PlanMoves, RunnerReap
  <2>1. \/ status'[n] = status[n]
        \/ status'[n] = FAILED /\ can_transition(status[n], FAILED)
    BY <1>1, <1>3 DEF RunnerReap
  <2> QED
    BY <2>1, LandingMoves DEF StatusMove, Landing
<1>4. ASSUME NEW p \in Patches, RunnerRepairOk(p)
      PROVE  PlanMoves
  <2> DEFINE q == [p EXCEPT !.invalidate = @ \cup failed_nodes(nodes, status)]
  <2>1. q.add = p.add /\ \A D \in p.add : D \subseteq nodes
    BY DEF Patches, Refs
  <2>2. apply_patch(q)
    BY <1>4 DEF RunnerRepairOk
  <2> HIDE DEF q
  <2> QED
    BY <1>1, <2>1, <2>2, PatchMoves
<1>5. CASE UNCHANGED planVars
  BY <1>5, QuietMoves
<1> QED
  BY <1>2, <1>3, <1>4, <1>5
     DEF Runner, RunnerEnter, RunnerBackoff, RunnerContinue, RunnerExitWait, RunnerCompleted,
         RunnerRepairBegin, RunnerFailed, RunnerReturns, RunnerEnds

(* A node task reports what the table allows; when it reports SUBMITTED it *)
(* is at work, so the inputs are there.                                    *)
LEMMA TaskMoves ==
  ASSUME IInv, IInv', DispatchAfterDeps, QueueOnPlan, NEW t \in TaskId, NodeTask(t)
  PROVE  PlanMoves
<1> USE DEF planVars
<1>1. TypeOK /\ nodes \subseteq NodeId /\ nodes' \subseteq NodeId /\ NodeOf(t) \in NodeId
  BY DEF IInv, TypeOK, TaskId, NodeOf
<1>2. ASSUME NEW to, NEW next, TaskSets(t, to, next), NEW n \in nodes
      PROVE  \/ status'[n] = status[n]
             \/ /\ n = NodeOf(t) /\ obj[t] = "live" /\ status'[n] = to
                /\ can_transition(status[n], to)
  BY <1>1, <1>2 DEF TypeOK, TaskSets, apply_transition, TaskRaises, current
<1>3. CASE TaskFails(t) \/ TaskCanceled(t) \/ TaskNeedsInfo(t) \/ TaskDelivers(t)
  <2>1. PICK to \in Landing, next \in Phases : TaskSets(t, to, next)
    BY <1>3 DEF TaskFails, TaskCanceled, TaskNeedsInfo, TaskDelivers, Landing, Phases
  <2>2. \A n \in nodes : StatusMove(n)
    BY <1>2, <2>1, LandingMoves DEF StatusMove
  <2> QED
    BY <2>1, <2>2 DEF PlanMoves, TaskSets
<1>4. CASE TaskSubmitted(t)
  <2>1. TaskSets(t, SUBMITTED, "run") /\ phase[t] = "run"
    BY <1>4 DEF TaskSubmitted, At
  <2>2. ASSUME NEW n \in nodes PROVE StatusMove(n)
    <3>1. CASE status'[n] = status[n]
      BY <3>1 DEF StatusMove
    <3>2. CASE /\ n = NodeOf(t) /\ obj[t] = "live" /\ status'[n] = SUBMITTED
               /\ can_transition(status[n], SUBMITTED)
      <4>1. HasInputs(n)
        BY <2>1, <3>2 DEF DispatchAfterDeps, AtWork, HasInputs
      <4>2. status[n] \notin Settled
        BY <3>2, SettledStuck DEF Settled, SUBMITTED, COMPLETED, CANCELED, INVALIDATED
      <4> QED
        BY <3>2, <4>1, <4>2 DEF StatusMove
    <3> QED
      BY <1>2, <2>1, <3>1, <3>2
  <2> QED
    BY <2>1, <2>2 DEF PlanMoves, TaskSets
<1>5. CASE TaskReviseBegin(t) \/ TaskTail(t)
  BY <1>5, QuietMoves DEF TaskReviseBegin, TaskTail
<1>6. ASSUME NEW p \in Patches, TaskRevise(t, p)
      PROVE  PlanMoves
  <2>1. \A D \in p.add : D \subseteq nodes
    BY DEF Patches, Refs
  <2> QED
    BY <1>1, <1>6, <2>1, PatchMoves DEF TaskRevise
<1>7. CASE Posts(t)
  <2>1. PICK k \in {0, 1}, D \in SUBSET queue, r \in NodeId \cup {0} :
          /\ Spawn(k, [i \in 1..k |-> D], [i \in 1..k |-> r])
          /\ status' = Spawned(k, status)
    BY <1>1, <1>7, PostSpawns
  <2> DEFINE dp == [i \in 1..k |-> D]
             by == [i \in 1..k |-> r]
  <2>2. k \in Nat /\ \A i \in 1..k : dp[i] \subseteq nodes
    BY <2>1 DEF QueueOnPlan
  <2>3. status \in [NodeId -> NodeStatus] /\ \A n \in nodes : status'[n] = status[n] => StatusMove(n)
    BY <1>1 DEF TypeOK, StatusMove
  <2>4. Spawn(k, dp, by) /\ status' = Spawned(k, status)
    BY <2>1
  <2> HIDE DEF dp, by
  <2> QED
    BY <1>1, <2>2, <2>3, <2>4, SpawnMoves
<1> QED
  BY <1>3, <1>4, <1>5, <1>6, <1>7 DEF NodeTask, Posts

(* A settlement makes a node READY, asks the user about it, or adds a      *)
(* helper without inputs.                                                  *)
LEMMA SettlementMoves ==
  ASSUME IInv, IInv', NEW n \in NodeId, Settlement(n)
  PROVE  PlanMoves
<1> USE DEF planVars
<1>1. TypeOK /\ nodes \subseteq NodeId /\ nodes' \subseteq NodeId /\ status \in [NodeId -> NodeStatus]
  BY DEF IInv, TypeOK
<1>2. CASE SettleInspect(n) \/ SettleDecide(n)
  BY <1>2, QuietMoves DEF SettleInspect, SettleDecide
<1>3. CASE SettleAdopt(n)
  <2>1. \A k \in nodes : \/ status'[k] = status[k]
                         \/ status'[k] = READY /\ can_transition(status[k], READY)
    BY <1>1, <1>3 DEF SettleAdopt
  <2>2. \A k \in nodes : StatusMove(k)
    BY <2>1, LandingMoves DEF StatusMove, Landing
  <2> QED
    BY <1>3, <2>2 DEF PlanMoves, SettleAdopt
<1>4. CASE SettleAct(n)
  <2>1. CASE UNCHANGED <<nodes, status, deps, requested, ask, kind, asked, derived>>
    BY <2>1, QuietMoves
  <2>2. CASE Spawn(1, <<{}>>, <<n>>) /\ status' = Spawned(1, status)
    <3> DEFINE dp == <<{}>>
    <3>1. \A i \in 1..1 : dp[i] \subseteq nodes
      OBVIOUS
    <3>2. \A k \in nodes : status'[k] = status[k] => StatusMove(k)
      BY DEF StatusMove
    <3>3. Spawn(1, dp, <<n>>)
      BY <2>2
    <3> HIDE DEF dp
    <3> QED
      BY <1>1, <2>2, <3>1, <3>2, <3>3, SpawnMoves
  <2>3. CASE ask_user(n) /\ UNCHANGED <<nodes, deps, requested, derived>>
    <3>1. \A k \in nodes : \/ status'[k] = status[k]
                           \/ status'[k] = INPUT_REQUIRED /\ can_transition(status[k], INPUT_REQUIRED)
      BY <1>1, <2>3 DEF ask_user
    <3>2. \A k \in nodes : StatusMove(k)
      BY <3>1, LandingMoves DEF StatusMove, Landing
    <3> QED
      BY <2>3, <3>2 DEF PlanMoves
  <2> QED
    BY <1>4, <2>1, <2>2, <2>3 DEF SettleAct, call_subagent
<1> QED
  BY <1>2, <1>3, <1>4 DEF Settlement

(* Cancelling a node makes it CANCELED, and INVALIDATED the PENDING nodes  *)
(* it blocks.                                                              *)
LEMMA CancelingPlan ==
  ASSUME TypeOK, NEW n, can_transition(status[n], CANCELED), NEW k \in nodes,
         status'[k] = canceling(n)[k]
  PROVE  StatusMove(k)
<1> DEFINE st == [status EXCEPT ![n] = CANCELED]
<1>1. k \in NodeId /\ st[k] = IF k = n THEN CANCELED ELSE status[k]
  BY DEF TypeOK
<1>2. canceling(n)[k] = IF k \in blocked_nodes(nodes, st, deps) THEN INVALIDATED ELSE st[k]
  BY <1>1 DEF canceling
<1>3. k \in blocked_nodes(nodes, st, deps) => st[k] = PENDING
  BY DEF blocked_nodes
<1> HIDE DEF st
<1>4. can_transition(PENDING, INVALIDATED) /\ PENDING # CANCELED
  BY DEF can_transition, ALLOWED_TRANSITIONS, IN_FLIGHT_TARGETS, PENDING, READY, SUBMITTED, WORKING,
         INPUT_REQUIRED, RECOVER, COMPLETED, FAILED, CANCELED, INVALIDATED
<1>5. CASE k \in blocked_nodes(nodes, st, deps)
  <2>1. status[k] = PENDING /\ status'[k] = INVALIDATED
    BY <1>1, <1>2, <1>3, <1>4, <1>5
  <2> QED
    BY <1>4, <2>1, LandingMoves DEF Landing
<1>6. CASE k \notin blocked_nodes(nodes, st, deps)
  BY <1>1, <1>2, <1>6, LandingMoves DEF Landing, StatusMove
<1> QED
  BY <1>5, <1>6

(* Every handler, but for the one that starts a new plan.  create_plan     *)
(* finds none of the planner's nodes.                                      *)
LEMMA HandlerMoves ==
  ASSUME IInv, IInv', NEW m \in Msg, Handler(m), ~HPlan(m)
  PROVE  PlanMoves
<1> USE DEF planVars
<1>1. TypeOK /\ nodes \subseteq NodeId /\ nodes' \subseteq NodeId /\ status \in [NodeId -> NodeStatus]
  BY DEF IInv, TypeOK
<1>2. ASSUME NEW D \in SUBSET nodes, NEW st \in [NodeId -> NodeStatus], followup(D, st),
             \A n \in nodes : status'[n] = st[n] => StatusMove(n)
      PROVE  PlanMoves
  <2> DEFINE k  == IF derived < MaxDerived THEN 1 ELSE 0
             dp == [i \in 1..k |-> D]
  <2>1. Spawn(k, dp, [i \in 1..k |-> 0]) /\ status' = Spawned(k, st)
    BY <1>2 DEF followup, spawn_derived_node
  <2>2. k \in Nat
    OBVIOUS
  <2> HIDE DEF k
  <2>3. \A i \in 1..k : dp[i] \subseteq nodes
    OBVIOUS
  <2> HIDE DEF dp
  <2> QED
    BY <1>1, <1>2, <2>1, <2>2, <2>3, SpawnMoves
<1>3. CASE HMalformed(m) \/ HReject(m) \/ HCancelRaises(m) \/ HPlanRaises(m) \/ HReemit(m) \/ HExpire(m) \/ HConfirm(m)
  BY <1>3, QuietMoves DEF HMalformed, HReject, HCancelRaises, HPlanRaises, HReemit, EndsIdle, HExpire, HConfirm
<1>4. CASE \/ HNoop(m) \/ HComplete(m) \/ HEnqueue(m) \/ HInterrupt(m)
           \/ \E final \in {"failed", "completed"} : HPlanEnds(m, final)
  BY <1>4, QuietMoves DEF HNoop, HComplete, HEnqueue, HInterrupt, HPlanEnds
<1>5. CASE HAnswer(m)
  <2>1. kind[mnode[m]] = "question" => status[mnode[m]] = INPUT_REQUIRED
    BY <1>5 DEF HAnswer, Stale
  <2>2. can_transition(INPUT_REQUIRED, READY)
    BY DEF can_transition, ALLOWED_TRANSITIONS, IN_FLIGHT_TARGETS, PENDING, READY, SUBMITTED, WORKING,
           INPUT_REQUIRED, RECOVER, COMPLETED, FAILED, CANCELED, INVALIDATED
  <2>3. \A n \in nodes : \/ status'[n] = status[n]
                         \/ status'[n] = READY /\ can_transition(status[n], READY)
    BY <1>1, <1>5, <2>1, <2>2 DEF HAnswer
  <2>4. \A n \in nodes : StatusMove(n)
    BY <2>3, LandingMoves DEF StatusMove, Landing
  <2> QED
    BY <1>5, <2>4 DEF PlanMoves, HAnswer
<1>6. CASE HConfirmed(m)
  BY <1>1, <1>6, CancelingPlan DEF PlanMoves, HConfirmed
<1>7. CASE HFollowup(m)
  <2>1. {mnode[m]} \in SUBSET nodes /\ followup({mnode[m]}, status)
    BY <1>7 DEF HFollowup, Quotes
  <2> QED
    BY <1>1, <1>2, <2>1 DEF StatusMove
<1>8. CASE HInterrupted(m)
  <2>1. /\ followup({}, canceling(mnode[m])) /\ can_transition(status[mnode[m]], CANCELED)
        /\ canceling(mnode[m]) \in [NodeId -> NodeStatus]
    BY <1>1, <1>8, CancelingType DEF HInterrupted
  <2>2. \A n \in nodes : status'[n] = canceling(mnode[m])[n] => StatusMove(n)
    BY <1>1, <2>1, CancelingPlan
  <2> QED
    BY <1>2, <2>1, <2>2
<1>9. CASE HCancel(m)
  <2>1. \A s \in ACTIVE_NODE_STATUSES \cup {READY} : can_transition(s, CANCELED)
    BY DEF ACTIVE_NODE_STATUSES, can_transition, ALLOWED_TRANSITIONS, IN_FLIGHT_TARGETS,
           PENDING, READY, SUBMITTED, WORKING,
           INPUT_REQUIRED, RECOVER, COMPLETED, FAILED, CANCELED, INVALIDATED
  <2>2. \A n \in nodes : \/ status'[n] = status[n]
                         \/ status'[n] = CANCELED /\ can_transition(status[n], CANCELED)
    BY <1>1, <1>9, <2>1 DEF HCancel
  <2>3. \A n \in nodes : StatusMove(n)
    BY <2>2, LandingMoves DEF StatusMove, Landing
  <2> QED
    BY <1>9, <2>3 DEF PlanMoves, HCancel
<1>10. ASSUME NEW d \in Drafts, HPlanOk(m, d)
       PROVE  PlanMoves
  <2>1. DOMAIN d \subseteq PlanId /\ nodes \cap PlanId = {} /\ \A n \in DOMAIN d : d[n] \subseteq DOMAIN d
    BY <1>10, DraftsAssumption DEF IInv, PlannerAlone, HPlanOk
  <2>2. /\ nodes' = nodes \cup DOMAIN d
        /\ status' = [n \in NodeId |-> IF n \in DOMAIN d THEN PENDING ELSE status[n]]
        /\ deps' = [n \in NodeId |-> IF n \in DOMAIN d THEN d[n] ELSE deps[n]]
    BY <1>10 DEF HPlanOk
  <2>3. \A n \in nodes : status'[n] = status[n]
    BY <1>1, <2>1, <2>2
  <2>4. \A n \in nodes' \ nodes : status'[n] = PENDING /\ deps'[n] \subseteq nodes'
    BY <1>1, <2>1, <2>2
  <2> QED
    BY <2>3, <2>4 DEF PlanMoves, StatusMove
<1> QED
  BY <1>3, <1>4, <1>5, <1>6, <1>7, <1>8, <1>9, <1>10 DEF Handler

(* Messages stay queued for nodes of the plan. *)
LEMMA QueueInvariant == Spec => []QueueOnPlan
<1>1. Init => QueueOnPlan
  BY DEF Init, QueueOnPlan
<1>2. IInv /\ QueueOnPlan /\ [Next]_vars => QueueOnPlan'
  <2> SUFFICES ASSUME IInv, QueueOnPlan, Next PROVE QueueOnPlan'
    BY DEF QueueOnPlan, vars, planVars
  <2>1. CASE \E m \in Msg : HPlan(m)
    BY <2>1 DEF HPlan, QueueOnPlan
  <2>2. CASE \A m \in Msg : ~HPlan(m)
    BY <2>2, PlanStays, StepKeeps DEF IInv, QueueOnPlan, KeepsNodes
  <2> QED
    BY <2>1, <2>2
<1> QED
  BY <1>1, <1>2, InductiveInvariant, PTL DEF Spec

(* Every step moves the nodes it finds, and adds nodes with inputs. *)
LEMMA StepMoves ==
  ASSUME IInv, IInv', DispatchAfterDeps, QueueOnPlan, Next, \A m \in Msg : ~HPlan(m)
  PROVE  PlanMoves
<1>1. CASE User \/ LockSkip
  BY <1>1, QuietMoves DEF User, Send, LockSkip, planVars
<1> QED
  BY <1>1, RunnerMoves, TaskMoves, SettlementMoves, HandlerMoves DEF Next

(* The stage of a node of the plan, by its status. *)
LEMMA StageByStatus ==
  ASSUME NEW n \in nodes, status[n] \in NodeStatus
  PROVE  /\ stage_of(n) = "waiting"   <=> status[n] \in {PENDING, READY}
         /\ stage_of(n) = "working"   <=> status[n] \in {SUBMITTED, WORKING, RECOVER}
         /\ stage_of(n) = "asking"    <=> status[n] = INPUT_REQUIRED
         /\ stage_of(n) = "failed"    <=> status[n] = FAILED
         /\ stage_of(n) = "delivered" <=> status[n] = COMPLETED
         /\ stage_of(n) = "dropped"   <=> status[n] \in {CANCELED, INVALIDATED}
         /\ stage_of(n) # "absent"
BY DEF stage_of, NodeStatus, ACTIVE_NODE_STATUSES, PENDING, READY, SUBMITTED, WORKING,
       INPUT_REQUIRED, RECOVER, COMPLETED, FAILED, CANCELED, INVALIDATED

(* The same in the next state. *)
LEMMA StageByStatusNext ==
  ASSUME NEW n \in nodes', status'[n] \in NodeStatus
  PROVE  /\ stage_of(n)' = "waiting"   <=> status'[n] \in {PENDING, READY}
         /\ stage_of(n)' = "working"   <=> status'[n] \in {SUBMITTED, WORKING, RECOVER}
         /\ stage_of(n)' = "asking"    <=> status'[n] = INPUT_REQUIRED
         /\ stage_of(n)' = "failed"    <=> status'[n] = FAILED
         /\ stage_of(n)' = "delivered" <=> status'[n] = COMPLETED
         /\ stage_of(n)' = "dropped"   <=> status'[n] \in {CANCELED, INVALIDATED}
         /\ stage_of(n)' # "absent"
BY DEF stage_of, NodeStatus, ACTIVE_NODE_STATUSES, PENDING, READY, SUBMITTED, WORKING,
       INPUT_REQUIRED, RECOVER, COMPLETED, FAILED, CANCELED, INVALIDATED

(* Where the table lets a node go, by its stage. *)
LEMMA TableStages ==
  ASSUME NEW s \in NodeStatus, NEW to \in ALLOWED_TRANSITIONS(s), to \in Landing
  PROVE  /\ to = COMPLETED => s \in {SUBMITTED, WORKING, RECOVER}
         /\ to = READY => s \in {PENDING, INPUT_REQUIRED}
         /\ to = INPUT_REQUIRED => s \in {PENDING, READY, SUBMITTED, WORKING, RECOVER}
         /\ to = FAILED => s \in {PENDING, READY, SUBMITTED, WORKING, RECOVER, INPUT_REQUIRED}
         /\ to \in {CANCELED, INVALIDATED} =>
              s \in {PENDING, READY, SUBMITTED, WORKING, RECOVER, INPUT_REQUIRED, FAILED}
BY DEF ALLOWED_TRANSITIONS, IN_FLIGHT_TARGETS, Landing, NodeStatus, PENDING, READY, SUBMITTED, WORKING,
       INPUT_REQUIRED, RECOVER, COMPLETED, FAILED, CANCELED, INVALIDATED

(* What a step may do to a node, in the words of PlanLifecycle. *)
LifecycleMove(n) ==
  \/ Lifecycle!Absent(n) \/ Lifecycle!Added(n) \/ Lifecycle!Stays(n) \/ Lifecycle!Begins(n)
  \/ Lifecycle!Delivers(n) \/ Lifecycle!Asks(n) \/ Lifecycle!Fails(n) \/ Lifecycle!Waits(n)
  \/ Lifecycle!Dropped(n)

(* A node the step finds goes from one stage to another as it should. *)
LEMMA FoundMoves ==
  ASSUME TypeOK, TypeOK', NEW n \in nodes, n \in nodes', deps'[n] = deps[n], StatusMove(n)
  PROVE  LifecycleMove(n)
<1>1. n \in NodeId /\ status[n] \in NodeStatus /\ status'[n] \in NodeStatus /\ deps[n] \subseteq NodeId
  BY DEF TypeOK
<1> DEFINE from == stage_of(n)
           to   == stage_of(n)'
<1>2. /\ from = "waiting"   <=> status[n] \in {PENDING, READY}
      /\ from = "working"   <=> status[n] \in {SUBMITTED, WORKING, RECOVER}
      /\ from = "asking"    <=> status[n] = INPUT_REQUIRED
      /\ from = "failed"    <=> status[n] = FAILED
      /\ from # "absent"
  BY <1>1, StageByStatus
<1>3. /\ to = "waiting"   <=> status'[n] \in {PENDING, READY}
      /\ to = "working"   <=> status'[n] \in {SUBMITTED, WORKING, RECOVER}
      /\ to = "asking"    <=> status'[n] = INPUT_REQUIRED
      /\ to = "failed"    <=> status'[n] = FAILED
      /\ to = "delivered" <=> status'[n] = COMPLETED
      /\ to = "dropped"   <=> status'[n] \in {CANCELED, INVALIDATED}
  BY <1>1, StageByStatusNext
<1>4. ASSUME NEW F, NEW T, from \in F, to \in T
      PROVE  Lifecycle!Moves(n, F, T)
  BY <1>1, <1>4 DEF Lifecycle!Moves
<1> HIDE DEF from, to
<1>5. CASE status'[n] = status[n]
  <2>1. from = to
    BY <1>5 DEF from, to, stage_of
  <2>2. Lifecycle!Moves(n, {from}, {from})
    BY <1>4, <2>1
  <2> QED
    BY <1>1, <1>2, <2>2 DEF Lifecycle!Stays, LifecycleMove, from
<1>6. CASE status[n] = FAILED /\ status'[n] = PENDING
  <2>1. from = "failed" /\ to = "waiting"
    BY <1>2, <1>3, <1>6
  <2> QED
    BY <1>4, <2>1 DEF Lifecycle!Waits, LifecycleMove
<1>7. CASE status'[n] = SUBMITTED /\ status[n] \notin Settled /\ HasInputs(n)
  <2>1. to = "working" /\ from \in {"waiting", "working", "asking", "failed"}
    BY <1>1, <1>2, <1>3, <1>7 DEF NodeStatus, Settled, PENDING, READY, SUBMITTED, WORKING, INPUT_REQUIRED,
       RECOVER, COMPLETED, FAILED, CANCELED, INVALIDATED
  <2>2. CASE from = "working"
    <3>1. Lifecycle!Moves(n, {from}, {from})
      BY <1>4, <2>1, <2>2
    <3> QED
      BY <1>1, <1>2, <3>1 DEF Lifecycle!Stays, LifecycleMove, from
  <2>3. CASE from # "working"
    <3>1. \A d \in deps[n] : stage_of(d) = "delivered"
      BY <1>7, StageByStatus DEF HasInputs, COMPLETED, NodeStatus
    <3>2. Lifecycle!Moves(n, {"waiting", "asking", "failed"}, {"working"})
      BY <1>4, <2>1, <2>3
    <3> QED
      BY <1>1, <3>1, <3>2 DEF Lifecycle!Begins, LifecycleMove
  <2> QED
    BY <2>2, <2>3
<1>8. CASE status'[n] \in ALLOWED_TRANSITIONS(status[n]) /\ status'[n] \in Landing
  <2>1. \/ to = "delivered" /\ from = "working"
        \/ to = "waiting" /\ from \in {"waiting", "asking"}
        \/ to = "asking" /\ from \in {"waiting", "working"}
        \/ to = "failed" /\ from \in {"waiting", "working", "asking"}
        \/ to = "dropped" /\ from \in {"waiting", "working", "asking", "failed"}
    BY <1>1, <1>2, <1>3, <1>8, TableStages DEF Landing
  <2>2. CASE from = to
    <3>1. Lifecycle!Moves(n, {from}, {from})
      BY <1>4, <2>2
    <3> QED
      BY <1>1, <1>2, <3>1 DEF Lifecycle!Stays, LifecycleMove, from
  <2>3. CASE to = "delivered" /\ from = "working"
    BY <1>4, <2>3 DEF Lifecycle!Delivers, LifecycleMove
  <2>4. CASE to = "waiting" /\ from = "asking"
    BY <1>4, <2>4 DEF Lifecycle!Waits, LifecycleMove
  <2>5. CASE to = "asking" /\ from \in {"waiting", "working"}
    BY <1>4, <2>5 DEF Lifecycle!Asks, LifecycleMove
  <2>6. CASE to = "failed" /\ from \in {"waiting", "working", "asking"}
    BY <1>4, <2>6 DEF Lifecycle!Fails, Lifecycle!Open, LifecycleMove
  <2>7. CASE to = "dropped" /\ from \in {"waiting", "working", "asking", "failed"}
    BY <1>4, <2>7 DEF Lifecycle!Dropped, Lifecycle!Open, LifecycleMove
  <2> QED
    BY <2>1, <2>2, <2>3, <2>4, <2>5, <2>6, <2>7
<1> QED
  BY <1>5, <1>6, <1>7, <1>8 DEF StatusMove

(* The session implements PlanLifecycle: whatever tasks, settlements,      *)
(* patches, retries and messages do, and in whatever order, a node goes    *)
(* only through the stages promised.                                       *)
THEOREM Refinement == Spec => KeepsLifecycle
<1>1. Init => Lifecycle!Init
  BY DEF Init, Lifecycle!Init, stage_of
<1>2. ASSUME IInv, IInv', DispatchAfterDeps, QueueOnPlan, Next
      PROVE  Lifecycle!Next
  <2>1. TypeOK /\ TypeOK' /\ nodes \subseteq NodeId /\ nodes' \subseteq NodeId
    BY <1>2 DEF IInv, TypeOK
  <2>2. CASE \E m \in Msg : HPlan(m)
    <3>1. nodes' = {} /\ version' = version + 1
      BY <2>2 DEF HPlan
    <3>2. \A n : stage_of(n)' = "absent"
      BY <3>1 DEF stage_of
    <3> QED
      BY <3>1, <3>2 DEF Lifecycle!Next, Lifecycle!NewPlan
  <2>3. CASE \A m \in Msg : ~HPlan(m)
    <3>1. PlanMoves /\ KeepsNodes /\ version' = version
      BY <1>2, <2>1, <2>3, StepMoves, StepKeeps, PlanStays
    <3>2. ASSUME NEW n \in NodeId PROVE LifecycleMove(n)
      <4>1. CASE n \in nodes
        BY <2>1, <3>1, <4>1, FoundMoves DEF PlanMoves, KeepsNodes
      <4>2. CASE n \notin nodes /\ n \notin nodes'
        BY <4>2 DEF LifecycleMove, Lifecycle!Absent, stage_of
      <4>3. CASE n \in nodes' \ nodes
        <5>1. status'[n] \in {PENDING, INVALIDATED} /\ deps'[n] \subseteq nodes'
          BY <3>1, <4>3 DEF PlanMoves
        <5>2. stage_of(n) = "absent"
          BY <4>3 DEF stage_of
        <5>3. stage_of(n)' \in {"waiting", "dropped"}
          BY <4>3, <5>1, StageByStatusNext DEF NodeStatus, PENDING, INVALIDATED
        <5>4. \A d \in nodes' : stage_of(d)' # "absent"
          BY <2>1, StageByStatusNext DEF TypeOK
        <5> QED
          BY <2>1, <5>1, <5>2, <5>3, <5>4 DEF LifecycleMove, Lifecycle!Added
      <4> QED
        BY <4>1, <4>2, <4>3
    <3> QED
      BY <3>1, <3>2 DEF Lifecycle!Next, Lifecycle!Step, LifecycleMove
  <2> QED
    BY <2>2, <2>3
<1>3. IInv /\ IInv' /\ DispatchAfterDeps /\ QueueOnPlan /\ [Next]_vars => [Lifecycle!Next]_(Lifecycle!vars)
  <2> SUFFICES ASSUME IInv, IInv', DispatchAfterDeps, QueueOnPlan, [Next]_vars
               PROVE  [Lifecycle!Next]_(Lifecycle!vars)
    OBVIOUS
  <2>1. CASE UNCHANGED vars
    BY <2>1 DEF vars, planVars, Lifecycle!vars, stage_of
  <2> QED
    BY <1>2, <2>1
<1> QED
  BY <1>1, <1>3, InductiveInvariant, DispatchCorrect, QueueInvariant, PTL
     DEF Spec, KeepsLifecycle, Lifecycle!Spec

(***************************************************************************)
(* The tasks of the first plan of a conversation: one task per node, a     *)
(* node at work is shown so, a question is put only for a node that waits. *)
(*                                                                         *)
(* In a later plan a settlement of an earlier one may act, by its id, on a *)
(* node of the new plan, and the invariants below fail; what the runs of   *)
(* Session check is all that is said of later plans.                       *)
(*                                                                         *)
(* The argument: PlanFrame and TaskFrame say what a step may do to nodes,  *)
(* questions and tasks without disturbing InPlan (FrameKeeps).  All steps  *)
(* stay in that frame but two, that start tasks and that report a status;  *)
(* each of these is looked at by itself.                                   *)
(***************************************************************************)

Settling(n) == settle[n] \in {"inspect", "adopt", "decide", "act"}

(* Before the first plan there is nothing. *)
Unplanned ==
  version = 0 => /\ nodes = {} /\ runner = "off"
                 /\ \A t \in TaskId : phase[t] = "none"
                 /\ \A n \in NodeId : settle[n] = "none"
                 /\ \A m \in Msg : mstate[m] \in {"new", "queued", "done"}

(* A handler that awaits the cancellation of an interrupted node holds the *)
(* lock, and no question is pending.                                       *)
InterruptAlone ==
  \A m \in Msg : mstate[m] = "interrupting" => Holds(MsgActor(m)) /\ pending_interventions = {}

(* Tasks and settlements hold nodes of the plan. *)
Own ==
  /\ \A t \in TaskId : obj[t] = "live" /\ (phase[t] # "none" => NodeOf(t) \in nodes)
  /\ \A n \in NodeId : ~detached[n] /\ (ask[n] # 0 => n \in nodes)

(* A task raises only when its node was cancelled meanwhile. *)
RaisedIsCanceled == \A t \in TaskId : phase[t] = "raised" => status[NodeOf(t)] = CANCELED

NoRecover == \A n \in NodeId : status[n] # RECOVER

(* A node that is being settled waits for input, or was cancelled, and has *)
(* no question pending yet.                                                *)
SettlesWaiting ==
  \A n \in NodeId : Settling(n) =>
    /\ n \in nodes /\ status[n] \in {INPUT_REQUIRED, CANCELED}
    /\ ask[n] # 0 => kind[n] = "confirm_cancel"

InPlan == /\ Own /\ RaisedIsCanceled /\ NoRecover /\ SettlesWaiting
          /\ AtWorkIsActive /\ OneTaskPerNode /\ QuestionIsWaited

FirstPlan == Unplanned /\ InterruptAlone /\ (version <= 1 => InPlan)

(* What most steps do to the plan: a node keeps its status, is cancelled,  *)
(* or was neither at work, cancelled nor being settled; a pending question *)
(* is an old one, or one a settlement has just put.                        *)
PlanFrame ==
  /\ nodes \subseteq nodes'
  /\ \A n \in NodeId : status'[n] # RECOVER /\ (Settling(n)' => Settling(n))
  /\ \A n \in nodes : \/ status'[n] = status[n] \/ status'[n] = CANCELED
                      \/ status[n] \notin ACTIVE_NODE_STATUSES \cup {CANCELED} /\ ~Settling(n)'
  /\ \A n \in NodeId : ask'[n] # 0 =>
       /\ n \in nodes'
       /\ \/ kind'[n] = "confirm_cancel"
          \/ status'[n] = INPUT_REQUIRED /\ ~Settling(n)'
          \/ ask[n] # 0 /\ kind[n] = "question" /\ status'[n] = status[n]

(* What they do to the tasks: none begins, none raises. *)
TaskFrame ==
  /\ \A t \in TaskId : /\ obj'[t] = "live" /\ (phase'[t] # "none" => phase[t] # "none")
                       /\ AtWork(t)' => AtWork(t)
                       /\ phase'[t] = "raised" => phase[t] = "raised"
  /\ \A n \in NodeId : ~detached'[n]

(* Such a step keeps the invariants of the first plan. *)
LEMMA FrameKeeps ==
  ASSUME TypeOK, TypeOK', InPlan, PlanFrame, TaskFrame
  PROVE  InPlan'
<1>0. \A t \in TaskId : NodeOf(t) \in NodeId
  BY DEF TaskId, NodeOf
<1>1. Own'
  BY <1>0 DEF InPlan, Own, PlanFrame, TaskFrame
<1>2. RaisedIsCanceled'
  <2> SUFFICES ASSUME NEW t \in TaskId, phase'[t] = "raised" PROVE status'[NodeOf(t)] = CANCELED
    BY DEF RaisedIsCanceled
  <2>1. phase[t] = "raised" /\ NodeOf(t) \in nodes /\ status[NodeOf(t)] = CANCELED
    BY DEF InPlan, Own, RaisedIsCanceled, TaskFrame
  <2> QED
    BY <2>1 DEF PlanFrame
<1>3. NoRecover'
  BY DEF PlanFrame, NoRecover
<1>4. SettlesWaiting'
  <2> SUFFICES ASSUME NEW n \in NodeId, Settling(n)'
               PROVE  /\ n \in nodes' /\ status'[n] \in {INPUT_REQUIRED, CANCELED}
                      /\ ask'[n] # 0 => kind'[n] = "confirm_cancel"
    BY DEF SettlesWaiting
  <2>1. /\ Settling(n) /\ n \in nodes /\ status[n] \in {INPUT_REQUIRED, CANCELED}
        /\ ask[n] # 0 => kind[n] = "confirm_cancel"
    BY DEF InPlan, SettlesWaiting, PlanFrame
  <2> QED
    BY <2>1 DEF PlanFrame
<1>5. AtWorkIsActive'
  <2> SUFFICES ASSUME NEW t \in TaskId, AtWork(t)'
               PROVE  status'[NodeOf(t)] \in ACTIVE_NODE_STATUSES \cup {CANCELED}
    BY DEF AtWorkIsActive, NodeOf
  <2>1. AtWork(t) /\ phase[t] # "none"
    BY DEF TaskFrame, AtWork
  <2>2. NodeOf(t) \in nodes /\ status[NodeOf(t)] \in ACTIVE_NODE_STATUSES \cup {CANCELED}
    BY <2>1 DEF InPlan, Own, AtWorkIsActive
  <2> QED
    BY <2>2 DEF PlanFrame
<1>6. OneTaskPerNode'
  BY DEF InPlan, OneTaskPerNode, TaskFrame, NodeOf
<1>7. QuestionIsWaited'
  <2> SUFFICES ASSUME NEW n \in nodes', ask'[n] # 0, kind'[n] = "question"
               PROVE  status'[n] = INPUT_REQUIRED
    BY DEF QuestionIsWaited
  <2>1. n \in NodeId
    BY DEF TypeOK
  <2>2. CASE ask[n] # 0 /\ kind[n] = "question" /\ status'[n] = status[n]
    <3>1. n \in nodes
      BY <2>1, <2>2 DEF InPlan, Own
    <3> QED
      BY <2>2, <3>1 DEF InPlan, QuestionIsWaited
  <2> QED
    BY <2>1, <2>2 DEF PlanFrame
<1> QED
  BY <1>1, <1>2, <1>3, <1>4, <1>5, <1>6, <1>7 DEF InPlan

(* A step that leaves the tasks alone. *)
LEMMA SameTasks ==
  ASSUME InPlan, UNCHANGED <<phase, obj, detached>>
  PROVE  TaskFrame
BY DEF InPlan, Own, TaskFrame, AtWork

(* A step that leaves the nodes alone: settlements end, questions expire. *)
LEMMA SamePlan ==
  ASSUME TypeOK, InPlan, UNCHANGED <<nodes, status, kind>>,
         \A n \in NodeId : (Settling(n)' => Settling(n)) /\ ask'[n] \in {0, ask[n]}
  PROVE  PlanFrame
<1>1. \A n \in NodeId : kind[n] \in {"question", "confirm_cancel"}
  BY DEF TypeOK
<1> QED
  BY <1>1 DEF InPlan, Own, NoRecover, PlanFrame

(* Nodes are added, the statuses move as in the frame, questions expire. *)
LEMMA MorePlan ==
  ASSUME IInv, InPlan, NEW st \in [NodeId -> NodeStatus], NEW k \in Nat, NEW dp, NEW by,
         Spawn(k, dp, by), status' = Spawned(k, st), UNCHANGED <<ask, kind, settle>>,
         \A n \in NodeId : /\ st[n] # RECOVER
                           /\ ask[n] # 0 => st[n] = status[n],
         \A n \in nodes : \/ st[n] = status[n] \/ st[n] = CANCELED
                          \/ status[n] \notin ACTIVE_NODE_STATUSES \cup {CANCELED, INPUT_REQUIRED}
  PROVE  PlanFrame
<1>1. nodes \subseteq NodeId /\ \A n \in nodes : \A i \in 1..k : n # Fresh(i)
  <2>1. derived \in Nat /\ patched \in Nat /\ MaxPlan \in Nat /\ nodes \subseteq NodeId /\ nodes \subseteq Nat
    BY ConstantsAssumption DEF IInv, TypeOK, NodeId
  <2> QED
    BY <2>1 DEF IInv, FreshIds, Fresh
<1>2. \A n \in nodes : status'[n] = st[n]
  BY <1>1 DEF Spawned
<1>3. \A n \in NodeId : status'[n] # RECOVER
  BY DEF Spawned, PENDING, RECOVER
<1>4. nodes \subseteq nodes'
  BY DEF Spawn
<1>5. ASSUME NEW n \in nodes
      PROVE  \/ status'[n] = status[n] \/ status'[n] = CANCELED
             \/ status[n] \notin ACTIVE_NODE_STATUSES \cup {CANCELED} /\ ~Settling(n)'
  <2>1. Settling(n)' => Settling(n) /\ status[n] \in {INPUT_REQUIRED, CANCELED}
    BY <1>1 DEF Settling, InPlan, SettlesWaiting
  <2> QED
    BY <1>2, <2>1
<1>6. ASSUME NEW n \in NodeId, ask'[n] # 0
      PROVE  /\ n \in nodes'
             /\ \/ kind'[n] = "confirm_cancel"
                \/ ask[n] # 0 /\ kind[n] = "question" /\ status'[n] = status[n]
  <2>1. n \in nodes /\ kind[n] \in {"question", "confirm_cancel"} /\ ask[n] # 0
    BY <1>6 DEF InPlan, Own, IInv, TypeOK
  <2>2. kind[n] = "question" => status'[n] = status[n]
    BY <1>2, <2>1
  <2> QED
    BY <1>4, <2>1, <2>2
<1>7. \A n \in NodeId : Settling(n)' => Settling(n)
  BY DEF Settling
<1> QED
  BY <1>3, <1>4, <1>5, <1>6, <1>7 DEF PlanFrame

(* A patch. *)
LEMMA PatchFrame ==
  ASSUME IInv, InPlan, NEW q, apply_patch(q), q.add # {} => patched < MaxPatches,
         UNCHANGED settle
  PROVE  PlanFrame
<1> DEFINE new   == {Fresh(1) : D \in q.add}
           ns    == nodes \cup new
           dp    == [n \in NodeId |-> IF n \in new THEN UNION q.add ELSE deps[n]]
           added == [n \in NodeId |-> IF n \in new THEN PENDING ELSE status[n]]
           gone  == invalidated_by(ns, added, dp, q.invalidate)
           keep  == {n \in skipped_in_flight(ns, added, q.invalidate) : ask[n] = 0}
<1>1. /\ nodes' = ns
      /\ status' = [n \in NodeId |-> IF n \in gone THEN INVALIDATED ELSE added[n]]
      /\ ask' = [n \in NodeId |-> IF n \in keep THEN asked + 1 ELSE ask[n]]
      /\ kind' = [n \in NodeId |-> IF n \in keep THEN "confirm_cancel" ELSE kind[n]]
  BY DEF apply_patch
<1>2. nodes \subseteq NodeId /\ \A n \in nodes : n \notin new
  <2>1. derived \in Nat /\ patched \in Nat /\ MaxPlan \in Nat /\ nodes \subseteq NodeId /\ nodes \subseteq Nat
    BY ConstantsAssumption DEF IInv, TypeOK, NodeId
  <2> QED
    BY <2>1 DEF IInv, FreshIds, Fresh
<1>3. \A n \in gone : n \in ns /\ added[n] \in INVALIDATABLE_STATUSES
  BY DEF invalidated_by
<1>4. keep \subseteq ns
  BY DEF skipped_in_flight
<1>5. \A n \in nodes : added[n] = status[n]
  BY <1>2
<1>6. \A n \in NodeId : added[n] # RECOVER
  BY DEF InPlan, NoRecover, PENDING, RECOVER
<1> HIDE DEF new, ns, dp, added, gone, keep
<1>7. nodes \subseteq nodes'
  BY <1>1 DEF ns
<1>8. \A n \in NodeId : status'[n] # RECOVER
  BY <1>1, <1>6 DEF INVALIDATED, RECOVER
<1>9. ASSUME NEW n \in nodes
      PROVE  \/ status'[n] = status[n]
             \/ status[n] \notin ACTIVE_NODE_STATUSES \cup {CANCELED, INPUT_REQUIRED}
  BY <1>1, <1>2, <1>3, <1>5
     DEF INVALIDATABLE_STATUSES, ACTIVE_NODE_STATUSES, PENDING, READY, RECOVER, FAILED, SUBMITTED,
         WORKING, CANCELED, INPUT_REQUIRED
<1>10. ASSUME NEW n \in nodes
       PROVE  \/ status'[n] = status[n]
              \/ status[n] \notin ACTIVE_NODE_STATUSES \cup {CANCELED} /\ ~Settling(n)'
  <2>1. Settling(n)' => Settling(n) /\ status[n] \in {INPUT_REQUIRED, CANCELED}
    BY <1>2 DEF Settling, InPlan, SettlesWaiting
  <2> QED
    BY <1>9, <2>1
<1>11. ASSUME NEW n \in NodeId, ask'[n] # 0
       PROVE  /\ n \in nodes'
              /\ \/ kind'[n] = "confirm_cancel"
                 \/ ask[n] # 0 /\ kind[n] = "question" /\ status'[n] = status[n]
  <2>1. CASE n \in keep
    BY <1>1, <1>4, <2>1
  <2>2. CASE n \notin keep
    <3>1. ask[n] # 0 /\ kind'[n] = kind[n] /\ n \in nodes /\ kind[n] \in {"question", "confirm_cancel"}
      BY <1>1, <1>11, <2>2 DEF InPlan, Own, IInv, TypeOK
    <3>2. kind[n] = "question" => status[n] = INPUT_REQUIRED
      BY <3>1 DEF InPlan, QuestionIsWaited
    <3>3. kind[n] = "question" => status'[n] = status[n]
      BY <1>9, <3>1, <3>2
    <3> QED
      BY <1>7, <3>1, <3>3
  <2> QED
    BY <2>1, <2>2
<1>12. \A n \in NodeId : Settling(n)' => Settling(n)
  BY DEF Settling
<1> QED
  BY <1>7, <1>8, <1>10, <1>11, <1>12 DEF PlanFrame

(* The statuses run_plan may dispatch or retry are not those of a node at  *)
(* work, cancelled or waiting.                                             *)
LEMMA StatusFacts ==
  /\ PENDING_NODE_STATUSES \cap (ACTIVE_NODE_STATUSES \cup {CANCELED, INPUT_REQUIRED}) = {}
  /\ FAILED \notin ACTIVE_NODE_STATUSES \cup {CANCELED, INPUT_REQUIRED}
  /\ SUBMITTED \in ACTIVE_NODE_STATUSES
  /\ RECOVER \notin {PENDING, READY, SUBMITTED, CANCELED, FAILED, INPUT_REQUIRED, COMPLETED, INVALIDATED}
  /\ CANCELED \in Settled /\ CANCELED # FAILED
  /\ INPUT_REQUIRED \notin ACTIVE_NODE_STATUSES \cup {CANCELED}
  /\ CANCELED \notin ACTIVE_NODE_STATUSES
BY DEF PENDING_NODE_STATUSES, ACTIVE_NODE_STATUSES, Settled, PENDING, READY, SUBMITTED, WORKING,
       INPUT_REQUIRED, RECOVER, COMPLETED, FAILED, CANCELED, INVALIDATED

(* The runner schedules. *)
LEMMA ScheduleKeeps ==
  ASSUME TypeOK, TypeOK', InPlan, RunnerSchedule
  PROVE  InPlan'
<1>0. /\ status' = [n \in NodeId |-> IF n \in dispatched THEN SUBMITTED ELSE retried[n]]
      /\ phase' = [t \in TaskId |-> IF t[1] \in ready_batch /\ t = TaskFor(t[1])
                                    THEN "run" ELSE phase[t]]
      /\ settle' = [n \in NodeId |-> IF n \in to_settle THEN "inspect" ELSE settle[n]]
      /\ UNCHANGED <<nodes, ask, kind, obj, detached>>
  BY DEF RunnerSchedule
<1>1. nodes \subseteq NodeId /\ \A t \in TaskId : NodeOf(t) \in NodeId /\ NodeOf(t) = t[1]
  BY DEF TypeOK, TaskId, NodeOf
<1>2. \A n \in NodeId : retried[n] = IF n \in nodes /\ can_retry(status[n], attempt[n], MaxAttempts)
                                     THEN PENDING ELSE status[n]
  BY DEF retried
<1>3. \A n \in NodeId : retried[n] # RECOVER /\ (status[n] # FAILED => retried[n] = status[n])
  BY <1>2, StatusFacts DEF InPlan, NoRecover, can_retry
<1>4. \A n \in ready_batch : n \in nodes /\ retried[n] \in PENDING_NODE_STATUSES
  BY DEF ready_batch, ready_nodes
<1>5. dispatched = ready_batch
  BY <1>1, <1>3, <1>4 DEF dispatched
<1> HIDE DEF ready_batch, retried, dispatched
<1>6. ASSUME NEW n \in NodeId, status[n] \in ACTIVE_NODE_STATUSES \cup {CANCELED, INPUT_REQUIRED}
      PROVE  status'[n] = status[n] /\ n \notin ready_batch
  <2>1. retried[n] = status[n]
    BY <1>3, <1>6, StatusFacts
  <2>2. n \notin ready_batch
    BY <1>4, <1>6, <2>1, StatusFacts
  <2> QED
    BY <1>0, <1>5, <2>1, <2>2
<1>7. \A t \in TaskId : NodeOf(t) \in ready_batch => ~AtWork(t)
  BY <1>1, <1>6 DEF InPlan, AtWorkIsActive
<1>8. ASSUME NEW t \in TaskId
      PROVE  \/ phase'[t] = phase[t]
             \/ NodeOf(t) \in ready_batch /\ t = TaskFor(NodeOf(t)) /\ phase'[t] = "run"
  BY <1>0, <1>1
<1>9. Own'
  BY <1>0, <1>4, <1>8 DEF InPlan, Own
<1>10. RaisedIsCanceled'
  <2> SUFFICES ASSUME NEW t \in TaskId, phase'[t] = "raised" PROVE status'[NodeOf(t)] = CANCELED
    BY DEF RaisedIsCanceled
  <2>1. phase[t] = "raised"
    BY <1>8
  <2>2. status[NodeOf(t)] = CANCELED
    BY <2>1 DEF InPlan, RaisedIsCanceled
  <2> QED
    BY <1>1, <1>6, <2>2
<1>11. NoRecover'
  BY <1>0, <1>3, StatusFacts DEF NoRecover
<1>12. SettlesWaiting'
  <2> SUFFICES ASSUME NEW n \in NodeId, Settling(n)'
               PROVE  /\ n \in nodes /\ status'[n] \in {INPUT_REQUIRED, CANCELED}
                      /\ ask[n] # 0 => kind[n] = "confirm_cancel"
    BY <1>0 DEF SettlesWaiting
  <2>1. CASE n \in to_settle
    <3>1. n \in nodes /\ status[n] = INPUT_REQUIRED /\ ask[n] = 0
      BY <2>1 DEF to_settle, input_required_nodes
    <3> QED
      BY <1>6, <3>1
  <2>2. CASE n \notin to_settle
    <3>1. Settling(n)
      BY <1>0, <2>2 DEF Settling
    <3> QED
      BY <1>6, <3>1 DEF InPlan, SettlesWaiting
  <2> QED
    BY <2>1, <2>2
<1>13. AtWorkIsActive'
  <2> SUFFICES ASSUME NEW t \in TaskId, AtWork(t)'
               PROVE  status'[NodeOf(t)] \in ACTIVE_NODE_STATUSES \cup {CANCELED}
    BY DEF AtWorkIsActive, NodeOf
  <2>1. CASE NodeOf(t) \in ready_batch
    BY <1>0, <1>1, <1>5, <2>1, StatusFacts
  <2>2. CASE NodeOf(t) \notin ready_batch
    <3>1. AtWork(t)
      BY <1>0, <1>8, <2>2 DEF AtWork
    <3> QED
      BY <1>1, <1>6, <3>1 DEF InPlan, AtWorkIsActive
  <2> QED
    BY <2>1, <2>2
<1>14. OneTaskPerNode'
  <2> SUFFICES ASSUME NEW t \in TaskId, NEW u \in TaskId, AtWork(t)', AtWork(u)', NodeOf(t) = NodeOf(u)
               PROVE  t = u
    BY DEF OneTaskPerNode, NodeOf
  <2>1. CASE NodeOf(t) \in ready_batch
    <3>1. \A v \in {t, u} : v = TaskFor(NodeOf(v))
      BY <1>0, <1>7, <1>8, <2>1 DEF AtWork
    <3> QED
      BY <3>1
  <2>2. CASE NodeOf(t) \notin ready_batch
    <3>1. AtWork(t) /\ AtWork(u)
      BY <1>0, <1>8, <2>2 DEF AtWork
    <3> QED
      BY <3>1 DEF InPlan, OneTaskPerNode
  <2> QED
    BY <2>1, <2>2
<1>15. QuestionIsWaited'
  BY <1>0, <1>1, <1>6 DEF InPlan, QuestionIsWaited
<1> QED
  BY <1>9, <1>10, <1>11, <1>12, <1>13, <1>14, <1>15 DEF InPlan

(* The runner. *)
LEMMA RunnerInPlan ==
  ASSUME IInv, TypeOK', InPlan, Runner
  PROVE  InPlan'
<1> USE DEF planVars, taskVars, settleVars, msgVars
<1>0. TypeOK
  BY DEF IInv
<1>1. CASE RunnerSchedule
  BY <1>0, <1>1, ScheduleKeeps
<1>2. CASE RunnerReap
  <2>1. /\ status' = [n \in NodeId |->
                 IF /\ \E t \in TaskId : t[1] = n /\ phase[t] = "raised" /\ obj[t] = "live"
                    /\ can_transition(status[n], FAILED)
                 THEN FAILED ELSE status[n]]
        /\ phase'  = [t \in TaskId |-> IF phase[t] \in Finished THEN "none" ELSE phase[t]]
        /\ obj'    = [t \in TaskId |-> IF phase[t] \in Finished THEN "live" ELSE obj[t]]
        /\ settle' = [n \in NodeId |-> IF settle[n] = "done" THEN "none" ELSE settle[n]]
        /\ detached' = [n \in NodeId |-> settle[n] # "done" /\ detached[n]]
        /\ UNCHANGED <<nodes, ask, kind>>
    BY <1>2 DEF RunnerReap
  <2>2. ASSUME NEW t \in TaskId, phase[t] = "raised"
        PROVE  ~can_transition(status[t[1]], FAILED)
    <3>1. status[t[1]] = CANCELED
      BY <2>2 DEF InPlan, RaisedIsCanceled, NodeOf
    <3> QED
      BY <3>1, SettledStuck, StatusFacts
  <2>3. status' = status
    BY <1>0, <2>1, <2>2 DEF TypeOK
  <2>4. PlanFrame
    <3>1. \A n \in NodeId : (Settling(n)' => Settling(n)) /\ ask'[n] \in {0, ask[n]}
      BY <2>1 DEF Settling
    <3> QED
      BY <1>0, <2>1, <2>3, <3>1, SamePlan
  <2>5. TaskFrame
    BY <2>1 DEF InPlan, Own, TaskFrame, AtWork, Finished
  <2> QED
    BY <1>0, <2>4, <2>5, FrameKeeps
<1>3. ASSUME NEW p \in Patches, RunnerRepairOk(p) PROVE InPlan'
  <2> DEFINE q == [p EXCEPT !.invalidate = @ \cup failed_nodes(nodes, status)]
  <2>1. apply_patch(q) /\ UNCHANGED <<phase, obj, settle, detached>>
    BY <1>3 DEF RunnerRepairOk
  <2>2. q.add # {} => patched < MaxPatches
    BY DEF Patches
  <2> HIDE DEF q
  <2>3. PlanFrame
    BY <2>1, <2>2, PatchFrame
  <2> QED
    BY <1>0, <2>1, <2>3, SameTasks, FrameKeeps
<1>4. CASE UNCHANGED <<nodes, status, ask, kind, phase, obj, settle, detached>>
  <2>1. \A n \in NodeId : (Settling(n)' => Settling(n)) /\ ask'[n] \in {0, ask[n]}
    BY <1>4 DEF Settling
  <2> QED
    BY <1>0, <1>4, <2>1, SamePlan, SameTasks, FrameKeeps
<1> QED
  BY <1>1, <1>2, <1>3, <1>4
     DEF Runner, RunnerEnter, RunnerBackoff, RunnerContinue, RunnerExitWait, RunnerCompleted,
         RunnerRepairBegin, RunnerFailed, RunnerReturns, RunnerEnds

(* A node at work may get every status its agent can report. *)
LEMMA Reports ==
  ASSUME NEW s \in ACTIVE_NODE_STATUSES,
         NEW to \in {SUBMITTED, FAILED, CANCELED, INPUT_REQUIRED, COMPLETED}
  PROVE  can_transition(s, to)
BY DEF can_transition, ALLOWED_TRANSITIONS, ACTIVE_NODE_STATUSES, IN_FLIGHT_TARGETS, PENDING, READY,
       SUBMITTED, WORKING, INPUT_REQUIRED, RECOVER, COMPLETED, FAILED, CANCELED, INVALIDATED

(* A task sets the status of its node, or raises. *)
LEMMA SetsKeeps ==
  ASSUME TypeOK, TypeOK', InPlan, NEW t \in TaskId, AtWork(t), NEW to, NEW next, TaskSets(t, to, next),
         to \in {SUBMITTED, FAILED, CANCELED, INPUT_REQUIRED, COMPLETED},
         (to = SUBMITTED /\ next = "run") \/ next \in {"post", "tail"}
  PROVE  InPlan'
<1> DEFINE n == NodeOf(t)
<1>0. n \in NodeId /\ n \in nodes /\ obj[t] = "live" /\ current(t) = status[n]
      /\ \A u \in TaskId : NodeOf(u) \in NodeId
  BY DEF InPlan, Own, AtWork, TaskId, NodeOf, current
<1>1. UNCHANGED <<nodes, ask, kind, settle, detached>>
  BY DEF TaskSets, settleVars
<1>2. status[n] \in ACTIVE_NODE_STATUSES \cup {CANCELED}
  BY DEF InPlan, AtWorkIsActive
<1>3. ASSUME NEW k \in NodeId, k # n PROVE status'[k] = status[k]
  BY <1>0, <1>3 DEF TypeOK, TaskSets, apply_transition, TaskRaises
<1>4. \A u \in TaskId : u # t => phase'[u] = phase[u]
  BY DEF TypeOK, TaskSets, TaskRaises
<1>5. \A u \in TaskId : obj'[u] = "live"
  BY <1>0 DEF InPlan, Own, TaskSets, apply_transition, TaskRaises
<1>6. \A u \in TaskId : u # t /\ AtWork(u) => NodeOf(u) # n
  BY DEF InPlan, OneTaskPerNode
<1>7. CASE status[n] = CANCELED
  <2>1. status'[n] = CANCELED
    BY <1>0, <1>7, SettledStuck, StatusFacts DEF TypeOK, TaskSets, apply_transition, TaskRaises
  <2>2. status' = status
    BY <1>3, <1>7, <2>1 DEF TypeOK
  <2>3. phase'[t] \in {"raised", next}
    BY DEF TypeOK, TaskSets, TaskRaises
  <2>4. Own'
    BY <1>0, <1>1, <1>4, <1>5 DEF InPlan, Own
  <2>5. RaisedIsCanceled'
    BY <1>0, <1>4, <1>7, <2>2 DEF InPlan, RaisedIsCanceled, NodeOf
  <2>6. NoRecover' /\ SettlesWaiting' /\ QuestionIsWaited'
    BY <1>1, <2>2 DEF InPlan, NoRecover, SettlesWaiting, QuestionIsWaited, Settling
  <2>7. AtWorkIsActive'
    BY <1>4, <1>5, <1>7, <2>2 DEF InPlan, Own, AtWorkIsActive, AtWork, NodeOf
  <2>8. OneTaskPerNode'
    BY <1>4, <1>5 DEF InPlan, Own, OneTaskPerNode, AtWork, NodeOf
  <2> QED
    BY <2>4, <2>5, <2>6, <2>7, <2>8 DEF InPlan
<1>8. CASE status[n] \in ACTIVE_NODE_STATUSES
  <2>1. can_transition(status[n], to)
    BY <1>8, Reports
  <2>2. status'[n] = to /\ phase'[t] = next
    BY <1>0, <2>1 DEF TypeOK, TaskSets, apply_transition
  <2>3. Own'
    BY <1>0, <1>1, <1>4, <1>5 DEF InPlan, Own
  <2>4. RaisedIsCanceled'
    <3> SUFFICES ASSUME NEW u \in TaskId, phase'[u] = "raised" PROVE status'[NodeOf(u)] = CANCELED
      BY DEF RaisedIsCanceled
    <3>1. u # t
      BY <2>2
    <3>2. status[NodeOf(u)] = CANCELED
      BY <1>4, <3>1 DEF InPlan, RaisedIsCanceled
    <3> QED
      BY <1>0, <1>3, <1>8, <3>2, StatusFacts
  <2>5. NoRecover'
    BY <1>3, <2>2, StatusFacts DEF InPlan, NoRecover
  <2>6. SettlesWaiting'
    <3> SUFFICES ASSUME NEW k \in NodeId, Settling(k)
                 PROVE  /\ k \in nodes /\ status'[k] \in {INPUT_REQUIRED, CANCELED}
                        /\ ask[k] # 0 => kind[k] = "confirm_cancel"
      BY <1>1 DEF SettlesWaiting, Settling
    <3>1. /\ k \in nodes /\ status[k] \in {INPUT_REQUIRED, CANCELED}
          /\ ask[k] # 0 => kind[k] = "confirm_cancel"
      BY DEF InPlan, SettlesWaiting
    <3>2. k # n
      BY <1>8, <3>1, StatusFacts
    <3> QED
      BY <1>3, <3>1, <3>2
  <2>7. AtWorkIsActive'
    <3> SUFFICES ASSUME NEW u \in TaskId, AtWork(u)'
                 PROVE  status'[NodeOf(u)] \in ACTIVE_NODE_STATUSES \cup {CANCELED}
      BY DEF AtWorkIsActive, NodeOf
    <3>1. CASE u = t
      BY <2>2, <3>1, StatusFacts DEF AtWork
    <3>2. CASE u # t
      <4>1. AtWork(u)
        BY <1>4, <3>2 DEF AtWork, InPlan, Own
      <4> QED
        BY <1>0, <1>3, <1>6, <3>2, <4>1 DEF InPlan, AtWorkIsActive
    <3> QED
      BY <3>1, <3>2
  <2>8. OneTaskPerNode'
    BY <1>4, <1>5 DEF InPlan, Own, OneTaskPerNode, AtWork, NodeOf
  <2>9. QuestionIsWaited'
    <3> SUFFICES ASSUME NEW k \in nodes, ask[k] # 0, kind[k] = "question"
                 PROVE  status'[k] = INPUT_REQUIRED
      BY <1>1 DEF QuestionIsWaited
    <3>1. status[k] = INPUT_REQUIRED /\ k \in NodeId
      BY DEF InPlan, QuestionIsWaited, TypeOK
    <3> QED
      BY <1>3, <1>8, <3>1, StatusFacts
  <2> QED
    BY <2>3, <2>4, <2>5, <2>6, <2>7, <2>8, <2>9 DEF InPlan
<1> QED
  BY <1>2, <1>7, <1>8

(* The node tasks. *)
LEMMA TaskInPlan ==
  ASSUME IInv, TypeOK', InPlan, NEW t \in TaskId, NodeTask(t)
  PROVE  InPlan'
<1> USE DEF planVars, taskVars, settleVars, msgVars
<1>0. TypeOK /\ obj[t] = "live"
  BY DEF IInv, InPlan, Own
<1>1. CASE TaskSubmitted(t) \/ TaskFails(t) \/ TaskCanceled(t) \/ TaskNeedsInfo(t) \/ TaskDelivers(t)
  <2>1. AtWork(t)
    BY <1>0, <1>1 DEF TaskSubmitted, TaskFails, TaskCanceled, TaskNeedsInfo, TaskDelivers, At, AtWork
  <2> QED
    BY <1>0, <1>1, <2>1, SetsKeeps
       DEF TaskSubmitted, TaskFails, TaskCanceled, TaskNeedsInfo, TaskDelivers
<1>2. ASSUME UNCHANGED <<obj, detached>>, NEW next,
             phase' = [phase EXCEPT ![t] = next], phase[t] # "none",
             \/ AtWork(t) /\ next \in {"revise", "revised"}
             \/ next \in {"queued", "tail", "ok"}
      PROVE  TaskFrame
  <2>1. \A u \in TaskId : phase'[u] = IF u = t THEN next ELSE phase[u]
    BY <1>0, <1>2 DEF TypeOK
  <2> QED
    BY <1>2, <2>1 DEF InPlan, Own, TaskFrame, AtWork
<1>3. CASE TaskReviseBegin(t)
  <2>1. /\ UNCHANGED <<nodes, status, ask, kind, settle, obj, detached>>
        /\ phase' = [phase EXCEPT ![t] = "revise"] /\ phase[t] = "run"
    BY <1>3 DEF TaskReviseBegin, At
  <2>2. \A n \in NodeId : (Settling(n)' => Settling(n)) /\ ask'[n] \in {0, ask[n]}
    BY <2>1 DEF Settling
  <2>3. AtWork(t)
    BY <1>0, <2>1 DEF AtWork
  <2> QED
    BY <1>0, <1>2, <2>1, <2>2, <2>3, SamePlan, FrameKeeps
<1>4. CASE TaskTail(t)
  <2>1. /\ UNCHANGED <<nodes, status, kind, settle, obj, detached>> /\ expire({NodeOf(t)}, status)
        /\ phase' = [phase EXCEPT ![t] = "ok"] /\ phase[t] = "tail"
    BY <1>4 DEF TaskTail, At
  <2>2. \A n \in NodeId : (Settling(n)' => Settling(n)) /\ ask'[n] \in {0, ask[n]}
    BY <2>1 DEF Settling, expire
  <2> QED
    BY <1>0, <1>2, <2>1, <2>2, SamePlan, FrameKeeps
<1>5. ASSUME NEW p \in Patches, TaskRevise(t, p)
      PROVE  InPlan'
  <2>1. /\ apply_patch(p) /\ UNCHANGED <<settle, obj, detached>>
        /\ phase' = [phase EXCEPT ![t] = "revised"] /\ phase[t] = "revise"
    BY <1>5 DEF TaskRevise
  <2>2. p.add # {} => patched < MaxPatches
    BY DEF Patches
  <2>3. AtWork(t)
    BY <1>0, <2>1 DEF AtWork
  <2> QED
    BY <1>0, <1>2, <2>1, <2>2, <2>3, PatchFrame, FrameKeeps
<1>6. CASE Posts(t)
  <2>1. PICK k \in {0, 1}, D \in SUBSET queue, r \in NodeId \cup {0} :
          /\ Spawn(k, [i \in 1..k |-> D], [i \in 1..k |-> r])
          /\ status' = Spawned(k, status)
    BY <1>0, <1>6, PostSpawns
  <2>2. k \in Nat
    BY <2>1
  <2>3. /\ status \in [NodeId -> NodeStatus] /\ \A n \in NodeId : status[n] # RECOVER
        /\ UNCHANGED <<ask, kind, settle, obj, detached>>
        /\ phase[t] \in {"post", "queued"}
        /\ \E next \in {"queued", "tail"} : phase' = [phase EXCEPT ![t] = next]
    BY <1>0, <1>6 DEF TypeOK, Posts, TaskDeliverQueued, TaskArbitrate, TaskPost, InPlan, NoRecover, At
  <2>4. PlanFrame
    BY <2>1, <2>2, <2>3, MorePlan
  <2>5. PICK next \in {"queued", "tail"} : phase' = [phase EXCEPT ![t] = next]
    BY <2>3
  <2> QED
    BY <1>0, <1>2, <2>3, <2>4, <2>5, FrameKeeps
<1> QED
  BY <1>1, <1>3, <1>4, <1>5, <1>6 DEF NodeTask, Posts

(* A settlement. *)
LEMMA SettlementInPlan ==
  ASSUME IInv, TypeOK', InPlan, NEW n \in NodeId, Settlement(n)
  PROVE  InPlan'
<1> USE DEF planVars, taskVars, settleVars, msgVars
<1>0. TypeOK /\ ~detached[n]
  BY DEF IInv, InPlan, Own
<1>1. /\ Settling(n) /\ n \in nodes /\ status[n] \in {INPUT_REQUIRED, CANCELED}
      /\ ask[n] # 0 => kind[n] = "confirm_cancel"
  <2>1. Settling(n)
    BY DEF Settlement, SettleInspect, SettleAdopt, SettleDecide, SettleAct, Settling
  <2> QED
    BY <2>1 DEF InPlan, SettlesWaiting
<1>2. CASE SettleInspect(n) \/ SettleDecide(n)
  <2>1. UNCHANGED <<nodes, status, ask, kind, phase, obj, detached>>
    BY <1>2 DEF SettleInspect, SettleDecide
  <2>2. \A k \in NodeId : k # n => settle'[k] = settle[k]
    BY <1>0, <1>2 DEF TypeOK, SettleInspect, SettleDecide
  <2>3. \A k \in NodeId : (Settling(k)' => Settling(k)) /\ ask'[k] \in {0, ask[k]}
    BY <1>1, <2>1, <2>2 DEF Settling
  <2> QED
    BY <1>0, <2>1, <2>3, SamePlan, SameTasks, FrameKeeps
<1>3. CASE SettleAdopt(n)
  <2>1. UNCHANGED <<nodes, kind, phase, obj, detached>>
    BY <1>3 DEF SettleAdopt
  <2>2. /\ \A k \in NodeId : k # n => settle'[k] = settle[k] /\ status'[k] = status[k]
        /\ ~Settling(n)'
        /\ \A k \in NodeId : ask'[k] \in {0, ask[k]}
    BY <1>0, <1>3 DEF TypeOK, SettleAdopt, Settling, expire
  <2>3. status'[n] = status[n] \/ (status'[n] = READY /\ status[n] = INPUT_REQUIRED)
    <3>1. status[n] = CANCELED => ~can_transition(status[n], READY)
      BY SettledStuck, StatusFacts DEF READY, CANCELED
    <3> QED
      BY <1>0, <1>1, <1>3, <3>1 DEF TypeOK, SettleAdopt
  <2>4. PlanFrame
    <3>1. \A k \in NodeId : status'[k] # RECOVER /\ (Settling(k)' => Settling(k))
      BY <2>2, <2>3, StatusFacts DEF InPlan, NoRecover, Settling
    <3>2. ASSUME NEW k \in nodes
          PROVE  \/ status'[k] = status[k]
                 \/ status[k] \notin ACTIVE_NODE_STATUSES \cup {CANCELED} /\ ~Settling(k)'
      <4>1. k \in NodeId
        BY <1>0 DEF TypeOK
      <4> QED
        BY <2>2, <2>3, <4>1, StatusFacts
    <3>3. ASSUME NEW k \in NodeId, ask'[k] # 0
          PROVE  /\ k \in nodes'
                 /\ \/ kind'[k] = "confirm_cancel"
                    \/ ask[k] # 0 /\ kind[k] = "question" /\ status'[k] = status[k]
      <4>1. ask[k] # 0 /\ k \in nodes /\ kind'[k] = kind[k] /\ kind[k] \in {"question", "confirm_cancel"}
        BY <1>0, <2>1, <2>2, <3>3 DEF InPlan, Own, TypeOK
      <4> QED
        BY <1>1, <2>1, <2>2, <4>1
    <3> QED
      BY <2>1, <3>1, <3>2, <3>3 DEF PlanFrame
  <2> QED
    BY <1>0, <2>1, <2>4, SameTasks, FrameKeeps
<1>4. CASE SettleAct(n)
  <2>1. /\ UNCHANGED <<phase, obj, detached>>
        /\ \A k \in NodeId : k # n => settle'[k] = settle[k]
        /\ ~Settling(n)'
    BY <1>0, <1>4 DEF TypeOK, SettleAct, Settling
  <2>2. \A k \in NodeId : Settling(k)' => Settling(k)
    BY <2>1 DEF Settling
  <2>3. CASE UNCHANGED <<nodes, status, deps, requested, ask, kind, asked, derived>>
    BY <1>0, <2>1, <2>2, <2>3, SamePlan, SameTasks, FrameKeeps
  <2>4. CASE Spawn(1, <<{}>>, <<n>>) /\ status' = Spawned(1, status) /\ UNCHANGED <<ask, kind>>
    <3>1. nodes \subseteq NodeId /\ \A k \in nodes : \A i \in 1..1 : k # Fresh(i)
      <4>1. derived \in Nat /\ patched \in Nat /\ MaxPlan \in Nat /\ nodes \subseteq NodeId /\ nodes \subseteq Nat
        BY ConstantsAssumption, SMTT(30) DEF IInv, TypeOK, NodeId
      <4> QED
        BY <4>1 DEF IInv, FreshIds, Fresh
    <3>2. \A k \in nodes : status'[k] = status[k]
      BY <2>4, <3>1 DEF Spawned
    <3>3. \A k \in NodeId : status'[k] # RECOVER
      BY <2>4, StatusFacts DEF InPlan, NoRecover, Spawned
    <3>4. nodes \subseteq nodes'
      BY <2>4 DEF Spawn
    <3>5. ASSUME NEW k \in NodeId, ask'[k] # 0
          PROVE  /\ k \in nodes'
                 /\ \/ kind'[k] = "confirm_cancel"
                    \/ ask[k] # 0 /\ kind[k] = "question" /\ status'[k] = status[k]
      <4>1. ask[k] # 0 /\ k \in nodes /\ kind'[k] = kind[k] /\ kind[k] \in {"question", "confirm_cancel"}
        BY <1>0, <2>4, <3>5 DEF InPlan, Own, TypeOK
      <4> QED
        BY <3>2, <3>4, <4>1
    <3>6. PlanFrame
      BY <2>2, <3>2, <3>3, <3>4, <3>5 DEF PlanFrame
    <3> QED
      BY <1>0, <2>1, <3>6, SameTasks, FrameKeeps
  <2>5. CASE ask_user(n) /\ UNCHANGED <<nodes, deps, requested, derived>>
    <3>1. /\ \A k \in NodeId : k # n => status'[k] = status[k] /\ ask'[k] = ask[k] /\ kind'[k] = kind[k]
          /\ \/ status'[n] = INPUT_REQUIRED
             \/ status'[n] = status[n] /\ ask'[n] = ask[n] /\ kind'[n] = kind[n]
      <4>0. /\ status \in [NodeId -> NodeStatus] /\ ask \in [NodeId -> Nat]
            /\ kind \in [NodeId -> {"question", "confirm_cancel"}]
        BY <1>0 DEF TypeOK
      <4>1. CASE UNCHANGED <<status, ask, kind>>
        BY <4>1
      <4>2. CASE /\ status' = [status EXCEPT ![n] = INPUT_REQUIRED]
                 /\ ask'    = [ask EXCEPT ![n] = asked + 1]
                 /\ kind'   = [kind EXCEPT ![n] = "question"]
        BY <4>0, <4>2
      <4> QED
        BY <2>5, <4>1, <4>2 DEF ask_user
    <3>2. status[n] = CANCELED => status'[n] = status[n]
      <4>1. status[n] = CANCELED => ~can_transition(status[n], INPUT_REQUIRED)
        BY SettledStuck, StatusFacts DEF INPUT_REQUIRED, CANCELED
      <4> QED
        BY <2>5, <4>1 DEF ask_user
    <3>3. PlanFrame
      <4>1. \A k \in NodeId : status'[k] # RECOVER
        BY <3>1, StatusFacts DEF InPlan, NoRecover
      <4>2. ASSUME NEW k \in nodes
            PROVE  \/ status'[k] = status[k]
                   \/ status[k] \notin ACTIVE_NODE_STATUSES \cup {CANCELED} /\ ~Settling(k)'
        <5>1. k \in NodeId
          BY <1>0 DEF TypeOK
        <5> QED
          BY <1>1, <2>1, <3>1, <3>2, <5>1, StatusFacts
      <4>3. ASSUME NEW k \in NodeId, ask'[k] # 0
            PROVE  /\ k \in nodes'
                   /\ \/ kind'[k] = "confirm_cancel"
                      \/ status'[k] = INPUT_REQUIRED /\ ~Settling(k)'
                      \/ ask[k] # 0 /\ kind[k] = "question" /\ status'[k] = status[k]
        <5>1. kind[k] \in {"question", "confirm_cancel"} /\ (ask[k] # 0 => k \in nodes)
          BY <1>0 DEF InPlan, Own, TypeOK
        <5>2. CASE k = n
          BY <1>1, <2>1, <2>5, <3>1, <4>3, <5>1, <5>2
        <5>3. CASE k # n
          BY <2>5, <3>1, <4>3, <5>1, <5>3
        <5> QED
          BY <5>2, <5>3
      <4> QED
        BY <2>2, <2>5, <4>1, <4>2, <4>3 DEF PlanFrame
    <3> QED
      BY <1>0, <2>1, <3>3, SameTasks, FrameKeeps
  <2> QED
    BY <1>4, <2>3, <2>4, <2>5 DEF SettleAct, call_subagent
<1> QED
  BY <1>2, <1>3, <1>4 DEF Settlement

(* What the cancellation of a node does to the statuses. *)
LEMMA CancelingMoves ==
  ASSUME TypeOK, NEW n, NEW k \in NodeId
  PROVE  \/ canceling(n)[k] = status[k]
         \/ k = n /\ canceling(n)[k] = CANCELED
         \/ status[k] = PENDING /\ canceling(n)[k] = INVALIDATED
<1> DEFINE st == [status EXCEPT ![n] = CANCELED]
<1>1. canceling(n)[k] = IF k \in blocked_nodes(nodes, st, deps) THEN INVALIDATED ELSE st[k]
  BY DEF canceling
<1>2. IF k = n THEN st[k] = CANCELED ELSE st[k] = status[k]
  BY DEF TypeOK
<1>3. k \in blocked_nodes(nodes, st, deps) => st[k] = PENDING
  BY DEF blocked_nodes
<1>4. PENDING # CANCELED
  BY DEF PENDING, CANCELED
<1> QED
  BY <1>1, <1>2, <1>3, <1>4

(* node_tasks and settle_tasks are emptied. *)
LEMMA ClearedFrame ==
  ASSUME cleared
  PROVE  TaskFrame /\ \A n \in NodeId : ~Settling(n)'
BY DEF cleared, TaskFrame, AtWork, Settling

(* A handler that leaves the nodes and the tasks alone. *)
LEMMA IdleHandlerInPlan ==
  ASSUME TypeOK, TypeOK', InPlan, UNCHANGED <<nodes, status, kind, taskVars, settleVars>>,
         \A n \in NodeId : ask'[n] \in {0, ask[n]}
  PROVE  InPlan'
<1>1. \A n \in NodeId : Settling(n)' => Settling(n)
  BY DEF Settling, settleVars
<1>2. PlanFrame
  BY <1>1, SamePlan
<1>3. TaskFrame
  BY SameTasks DEF taskVars, settleVars
<1> QED
  BY <1>2, <1>3, FrameKeeps

(* An answer, and a node that is cancelled. *)
LEMMA AnswerInPlan ==
  ASSUME IInv, TypeOK', InPlan, NEW m \in Msg, HAnswer(m) \/ HConfirmed(m)
  PROVE  InPlan'
<1> DEFINE n == mnode[m]
<1>0. TypeOK
  BY DEF IInv
<1>1. UNCHANGED <<nodes, kind, phase, obj, settle, detached>>
  BY DEF HAnswer, HConfirmed, taskVars, settleVars
<1>2. \A k \in NodeId : Settling(k)' => Settling(k)
  BY <1>1 DEF Settling
<1>3. CASE HAnswer(m)
  <2>1. /\ n \in nodes /\ (kind[n] = "question" => status[n] = INPUT_REQUIRED) /\ ask[n] # 0
        /\ ask' = [ask EXCEPT ![n] = 0]
        /\ status' = IF kind[n] = "question" THEN [status EXCEPT ![n] = READY] ELSE status
    BY <1>3 DEF HAnswer, Stale, Pending
  <2>2. n \in NodeId
    BY <1>0, <2>1 DEF TypeOK
  <2>3. kind[n] = "question" => ~Settling(n)
    BY <2>1, <2>2 DEF InPlan, SettlesWaiting
  <2> HIDE DEF n
  <2>4. /\ \A k \in NodeId : ask'[k] = IF k = n THEN 0 ELSE ask[k]
        /\ \A k \in NodeId : status'[k] = IF k = n /\ kind[n] = "question" THEN READY ELSE status[k]
    <3>1. ask \in [NodeId -> Nat] /\ status \in [NodeId -> NodeStatus]
      BY <1>0 DEF TypeOK
    <3>2. CASE kind[n] = "question"
      BY <2>1, <2>2, <3>1, <3>2
    <3>3. CASE kind[n] # "question"
      BY <2>1, <2>2, <3>1, <3>3
    <3> QED
      BY <3>2, <3>3
  <2>5. \A k \in NodeId : status'[k] # RECOVER
    BY <2>4, StatusFacts DEF InPlan, NoRecover
  <2>6. ASSUME NEW k \in nodes
        PROVE  \/ status'[k] = status[k]
               \/ status[k] \notin ACTIVE_NODE_STATUSES \cup {CANCELED} /\ ~Settling(k)'
    <3>1. k \in NodeId
      BY <1>0 DEF TypeOK
    <3> QED
      BY <1>2, <2>1, <2>3, <2>4, <3>1, StatusFacts
  <2>7. ASSUME NEW k \in NodeId, ask'[k] # 0
        PROVE  /\ k \in nodes'
               /\ \/ kind'[k] = "confirm_cancel"
                  \/ ask[k] # 0 /\ kind[k] = "question" /\ status'[k] = status[k]
    <3>1. k # n /\ ask[k] # 0 /\ status'[k] = status[k]
      BY <2>4, <2>7
    <3>2. k \in nodes /\ kind[k] \in {"question", "confirm_cancel"}
      BY <1>0, <3>1 DEF InPlan, Own, TypeOK
    <3> QED
      BY <1>1, <3>1, <3>2
  <2>8. PlanFrame
    BY <1>1, <1>2, <2>5, <2>6, <2>7 DEF PlanFrame
  <2> QED
    BY <1>0, <1>1, <2>8, SameTasks, FrameKeeps
<1>4. CASE HConfirmed(m)
  <2>1. /\ status' = canceling(n)
        /\ expire({k \in NodeId : k = n \/ status'[k] # status[k]}, status')
    BY <1>4 DEF HConfirmed
  <2>2. \A k \in NodeId : \/ status'[k] = status[k]
                          \/ k = n /\ status'[k] = CANCELED
                          \/ status[k] = PENDING /\ status'[k] = INVALIDATED
    BY <1>0, <2>1, CancelingMoves
  <2>3. \A k \in NodeId : ask'[k] = IF /\ k = n \/ status'[k] # status[k]
                                       /\ ask[k] # 0 /\ Stale(k, status')
                                    THEN 0 ELSE ask[k]
    BY <2>1 DEF expire
  <2> HIDE DEF n
  <2>4. \A k \in NodeId : status'[k] # RECOVER
    BY <2>2, StatusFacts DEF InPlan, NoRecover
  <2>5. ASSUME NEW k \in nodes
        PROVE  \/ status'[k] = status[k] \/ status'[k] = CANCELED
               \/ status[k] \notin ACTIVE_NODE_STATUSES \cup {CANCELED} /\ ~Settling(k)'
    <3>1. k \in NodeId
      BY <1>0 DEF TypeOK
    <3>2. PENDING \notin ACTIVE_NODE_STATUSES \cup {CANCELED, INPUT_REQUIRED}
      BY DEF ACTIVE_NODE_STATUSES, PENDING, SUBMITTED, WORKING, CANCELED, INPUT_REQUIRED
    <3>3. Settling(k)' => status[k] \in {INPUT_REQUIRED, CANCELED}
      BY <1>2, <3>1 DEF InPlan, SettlesWaiting
    <3> QED
      BY <2>2, <3>1, <3>2, <3>3
  <2>6. ASSUME NEW k \in NodeId, ask'[k] # 0
        PROVE  /\ k \in nodes'
               /\ \/ kind'[k] = "confirm_cancel"
                  \/ ask[k] # 0 /\ kind[k] = "question" /\ status'[k] = status[k]
    <3>1. ask[k] # 0 /\ k \in nodes /\ kind[k] \in {"question", "confirm_cancel"}
      BY <1>0, <2>3, <2>6 DEF InPlan, Own, TypeOK
    <3>2. kind[k] = "question" => status[k] = INPUT_REQUIRED
      BY <3>1 DEF InPlan, QuestionIsWaited
    <3>3. (k = n \/ status'[k] # status[k]) => ~Stale(k, status')
      BY <2>3, <2>6, <3>1
    <3>4. kind[k] = "question" => status'[k] = status[k]
      BY <3>2, <3>3 DEF Stale
    <3> QED
      BY <1>1, <3>1, <3>4
  <2>7. PlanFrame
    BY <1>1, <1>2, <2>4, <2>5, <2>6 DEF PlanFrame
  <2> QED
    BY <1>0, <1>1, <2>7, SameTasks, FrameKeeps
<1> QED
  BY <1>3, <1>4

(* Nodes that are added, by a follow-up, an interruption or the planner. *)
LEMMA GrowthInPlan ==
  ASSUME IInv, TypeOK', InPlan, InterruptAlone, NEW m \in Msg,
         HFollowup(m) \/ HInterrupted(m) \/ \E d \in Drafts : HPlanOk(m, d)
  PROVE  InPlan'
<1>0. TypeOK
  BY DEF IInv
<1>1. UNCHANGED <<ask, kind, phase, obj, settle, detached>>
  BY DEF HFollowup, HInterrupted, HPlanOk, taskVars, settleVars
<1>2. ASSUME NEW D, NEW st \in [NodeId -> NodeStatus], followup(D, st),
             \A n \in NodeId : /\ st[n] # RECOVER
                               /\ ask[n] # 0 => st[n] = status[n],
             \A n \in nodes : \/ st[n] = status[n] \/ st[n] = CANCELED
                              \/ status[n] \notin ACTIVE_NODE_STATUSES \cup {CANCELED, INPUT_REQUIRED}
      PROVE  InPlan'
  <2> DEFINE k == IF derived < MaxDerived THEN 1 ELSE 0
  <2>1. Spawn(k, [i \in 1..k |-> D], [i \in 1..k |-> 0]) /\ status' = Spawned(k, st)
    BY <1>2 DEF followup, spawn_derived_node
  <2>2. k \in Nat
    OBVIOUS
  <2> HIDE DEF k
  <2>3. PlanFrame
    BY <1>1, <1>2, <2>1, <2>2, MorePlan
  <2> QED
    BY <1>0, <1>1, <2>3, SameTasks, FrameKeeps
<1>3. CASE HFollowup(m)
  <2>1. status \in [NodeId -> NodeStatus] /\ \A n \in NodeId : status[n] # RECOVER
    BY <1>0 DEF TypeOK, InPlan, NoRecover
  <2>2. followup({mnode[m]}, status)
    BY <1>3 DEF HFollowup
  <2> QED
    BY <1>2, <2>1, <2>2
<1>4. CASE HInterrupted(m)
  <2> DEFINE st == canceling(mnode[m])
  <2>1. followup({}, st) /\ pending_interventions = {}
    BY <1>4 DEF HInterrupted, InterruptAlone
  <2>2. st \in [NodeId -> NodeStatus]
    BY <1>0, CancelingType
  <2>3. \A n \in NodeId : \/ st[n] = status[n] \/ st[n] = CANCELED
                          \/ status[n] = PENDING /\ st[n] = INVALIDATED
    BY <1>0, CancelingMoves
  <2> HIDE DEF st
  <2>4. \A n \in NodeId : st[n] # RECOVER /\ ask[n] = 0
    BY <2>1, <2>3, StatusFacts DEF InPlan, NoRecover, pending_interventions
  <2>5. PENDING \notin ACTIVE_NODE_STATUSES \cup {CANCELED, INPUT_REQUIRED}
    BY DEF ACTIVE_NODE_STATUSES, PENDING, SUBMITTED, WORKING, CANCELED, INPUT_REQUIRED
  <2>6. nodes \subseteq NodeId
    BY <1>0 DEF TypeOK
  <2>7. \A n \in nodes : \/ st[n] = status[n] \/ st[n] = CANCELED
                         \/ status[n] \notin ACTIVE_NODE_STATUSES \cup {CANCELED, INPUT_REQUIRED}
    BY <2>3, <2>5, <2>6
  <2> QED
    BY <1>2, <2>1, <2>2, <2>4, <2>7
<1>5. ASSUME NEW d \in Drafts, HPlanOk(m, d)
      PROVE  InPlan'
  <2>1. DOMAIN d \subseteq PlanId /\ nodes \cap PlanId = {} /\ nodes \subseteq NodeId
    BY <1>5, DraftsAssumption DEF IInv, TypeOK, PlannerAlone, HPlanOk
  <2>2. nodes' = nodes \cup DOMAIN d
    BY <1>5 DEF HPlanOk
  <2>3. \A n \in NodeId : status'[n] = IF n \in DOMAIN d THEN PENDING ELSE status[n]
    BY <1>5 DEF HPlanOk
  <2>4. \A n \in nodes : status'[n] = status[n]
    BY <2>1, <2>3
  <2>5. \A n \in NodeId : status'[n] # RECOVER /\ (Settling(n)' => Settling(n))
    BY <1>1, <2>3, StatusFacts DEF InPlan, NoRecover, Settling
  <2>6. ASSUME NEW n \in NodeId, ask'[n] # 0
        PROVE  /\ n \in nodes'
               /\ \/ kind'[n] = "confirm_cancel"
                  \/ ask[n] # 0 /\ kind[n] = "question" /\ status'[n] = status[n]
    <3>1. n \in nodes /\ ask[n] # 0 /\ kind[n] \in {"question", "confirm_cancel"}
      BY <1>0, <1>1, <2>6 DEF InPlan, Own, TypeOK
    <3> QED
      BY <1>1, <2>2, <2>4, <3>1
  <2>7. PlanFrame
    BY <2>2, <2>4, <2>5, <2>6 DEF PlanFrame
  <2> QED
    BY <1>0, <1>1, <2>7, SameTasks, FrameKeeps
<1> QED
  BY <1>3, <1>4, <1>5

(* Every handler, but for the one that starts a new plan. *)
LEMMA HandlerInPlan ==
  ASSUME IInv, TypeOK', InPlan, InterruptAlone, NEW m \in Msg, Handler(m), ~HPlan(m)
  PROVE  InPlan'
<1> USE DEF planVars
<1>0. TypeOK
  BY DEF IInv
<1>1. CASE UNCHANGED <<nodes, status, kind, ask, taskVars, settleVars>>
  BY <1>0, <1>1, IdleHandlerInPlan
<1>2. CASE HMalformed(m) \/ HReject(m) \/ HCancelRaises(m) \/ HPlanRaises(m) \/ HReemit(m)
  BY <1>1, <1>2 DEF HMalformed, HReject, HCancelRaises, HPlanRaises, HReemit, EndsIdle
<1>3. CASE HNoop(m) \/ HComplete(m) \/ HEnqueue(m) \/ HInterrupt(m)
  BY <1>1, <1>3 DEF HNoop, HComplete, HEnqueue, HInterrupt
<1>4. CASE HExpire(m) \/ HConfirm(m)
  <2>1. ask' = [ask EXCEPT ![mnode[m]] = 0] /\ UNCHANGED <<nodes, status, kind, taskVars, settleVars>>
    BY <1>4 DEF HExpire, HConfirm
  <2>2. \A n \in NodeId : ask'[n] \in {0, ask[n]}
    BY <1>0, <2>1 DEF TypeOK
  <2> QED
    BY <1>0, <2>1, <2>2, IdleHandlerInPlan
<1>5. CASE \E final \in {"failed", "completed"} : HPlanEnds(m, final)
  <2>1. cleared /\ UNCHANGED <<nodes, status, kind, ask>>
    BY <1>5 DEF HPlanEnds
  <2>2. PlanFrame
    BY <1>0, <2>1, ClearedFrame, SamePlan
  <2> QED
    BY <1>0, <2>1, <2>2, ClearedFrame, FrameKeeps
<1>6. CASE HCancel(m)
  <2>1. /\ cleared /\ UNCHANGED <<nodes, kind, ask>>
        /\ status' = [n \in NodeId |-> IF n \in nodes /\ status[n] \in ACTIVE_NODE_STATUSES \cup {READY}
                                       THEN CANCELED ELSE status[n]]
    BY <1>6 DEF HCancel
  <2>2. nodes \subseteq NodeId /\ INPUT_REQUIRED \notin ACTIVE_NODE_STATUSES \cup {READY}
    BY <1>0 DEF TypeOK, ACTIVE_NODE_STATUSES, READY, SUBMITTED, WORKING, INPUT_REQUIRED
  <2>3. \A n \in NodeId : status'[n] # RECOVER
    BY <2>1, StatusFacts DEF InPlan, NoRecover
  <2>4. ASSUME NEW n \in NodeId, ask'[n] # 0
        PROVE  /\ n \in nodes'
               /\ \/ kind'[n] = "confirm_cancel"
                  \/ ask[n] # 0 /\ kind[n] = "question" /\ status'[n] = status[n]
    <3>1. n \in nodes /\ ask[n] # 0 /\ kind[n] \in {"question", "confirm_cancel"}
      BY <1>0, <2>1, <2>4 DEF InPlan, Own, TypeOK
    <3>2. kind[n] = "question" => status'[n] = status[n]
      BY <2>1, <2>2, <3>1 DEF InPlan, QuestionIsWaited
    <3> QED
      BY <2>1, <3>1, <3>2
  <2>5. \A n \in nodes : status'[n] = status[n] \/ status'[n] = CANCELED
    BY <2>1, <2>2
  <2>6. nodes' = nodes /\ \A n \in NodeId : ~Settling(n)'
    BY <2>1, ClearedFrame
  <2>7. PlanFrame
    BY <2>3, <2>4, <2>5, <2>6 DEF PlanFrame
  <2> QED
    BY <1>0, <2>1, <2>7, ClearedFrame, FrameKeeps
<1> QED
  BY <1>2, <1>3, <1>4, <1>5, <1>6, AnswerInPlan, GrowthInPlan DEF Handler

(***************************************************************************)
(* The steps before the first plan, and of an interruption.                *)
(***************************************************************************)

(* Before the first plan nothing happens but messages that leave nothing   *)
(* behind, until one is planned for.                                       *)
LEMMA StepUnplanned ==
  ASSUME TypeOK, TypeOK', Unplanned, Next
  PROVE  Unplanned'
<1> USE DEF planVars, taskVars, settleVars, msgVars
<1> SUFFICES ASSUME version' = 0
             PROVE  /\ nodes' = {} /\ runner' = "off"
                    /\ \A t \in TaskId : phase'[t] = "none"
                    /\ \A n \in NodeId : settle'[n] = "none"
                    /\ \A m \in Msg : mstate'[m] \in {"new", "queued", "done"}
  BY DEF Unplanned
<1>1. version = 0 /\ \A m \in Msg : ~HPlan(m)
  <2>1. \A m \in Msg : ~HPlan(m)
    BY DEF HPlan, TypeOK
  <2>2. version' = version
    BY <2>1, PlanStays
  <2> QED
    BY <2>1, <2>2
<1>2. /\ nodes = {} /\ runner = "off" /\ \A t \in TaskId : phase[t] = "none"
      /\ \A n \in NodeId : settle[n] = "none"
      /\ \A m \in Msg : mstate[m] \in {"new", "queued", "done"}
  BY <1>1 DEF Unplanned
<1>3. ~Runner
  BY <1>2 DEF Runner, RunnerEnter, RunnerSchedule, RunnerReap, RunnerBackoff, RunnerContinue,
              RunnerExitWait, RunnerCompleted, RunnerRepairBegin, RunnerFailed, RunnerReturns,
              RunnerRepairOk, PlanFlowStep, Endings
<1>4. \A t \in TaskId : ~NodeTask(t)
  BY <1>2 DEF NodeTask, TaskSubmitted, TaskFails, TaskCanceled, TaskNeedsInfo, TaskDelivers,
              TaskReviseBegin, TaskTail, TaskRevise, TaskDeliverQueued, TaskArbitrate, TaskPost, At
<1>5. \A n \in NodeId : ~Settlement(n)
  BY <1>2 DEF Settlement, SettleInspect, SettleAdopt, SettleDecide, SettleAct
<1>6. CASE User \/ LockSkip
  <2>1. UNCHANGED <<nodes, runner, phase, settle>>
    BY <1>6 DEF User, Send, LockSkip
  <2>2. \A m \in Msg : mstate'[m] = mstate[m] \/ mstate'[m] \in {"queued", "done"}
    BY <1>6, SMTT(30) DEF User, Send, LockSkip, TypeOK
  <2> QED
    BY <1>2, <2>1, <2>2
<1>7. ASSUME NEW m \in Msg, Handler(m)
      PROVE  /\ nodes' = {} /\ runner' = "off"
             /\ \A t \in TaskId : phase'[t] = "none"
             /\ \A n \in NodeId : settle'[n] = "none"
             /\ Handled(m)
  <2>1. /\ ~HAnswer(m) /\ ~HConfirm(m) /\ ~HConfirmed(m) /\ ~HCancelRaises(m) /\ ~HPlanRaises(m) /\ ~HInterrupted(m)
        /\ \A final \in {"failed", "completed"} : ~HPlanEnds(m, final)
        /\ \A d \in Drafts : ~HPlanOk(m, d)
    BY <1>2 DEF HAnswer, HConfirm, HConfirmed, HCancelRaises, HPlanRaises, HInterrupted, HPlanEnds, HPlanOk, Stale,
                Planning
  <2>2. ~HNoop(m) /\ ~HEnqueue(m) /\ ~HFollowup(m) /\ ~HInterrupt(m)
    BY <1>2 DEF HNoop, HEnqueue, HFollowup, HInterrupt, Room, has_pending_work
  <2>3. CASE HMalformed(m) \/ HReject(m) \/ HExpire(m) \/ HReemit(m) \/ HComplete(m)
    BY <1>2, <2>3 DEF HMalformed, HReject, HExpire, HReemit, HComplete, EndsIdle
  <2>4. CASE HCancel(m)
    BY <1>2, <2>4 DEF HCancel, cleared
  <2> QED
    BY <1>1, <1>7, <2>1, <2>2, <2>3, <2>4 DEF Handler
<1>8. ASSUME NEW m \in Msg, Handler(m)
      PROVE  \A o \in Msg : mstate'[o] \in {"new", "queued", "done"}
  <2>1. /\ mstate' = [mstate EXCEPT ![m] = "done"]
        /\ mstate \in [Msg -> {"new", "queued", "canceling", "interrupting", "planning", "replanning", "done"}]
    BY <1>7, <1>8 DEF Handled, TypeOK
  <2> QED
    BY <1>2, <2>1
<1> QED
  BY <1>3, <1>4, <1>5, <1>6, <1>7, <1>8 DEF Next

(* No step of another actor puts a question while a handler has the lock. *)
LEMMA LockedNoQuestion ==
  ASSUME TypeOK, NEW m \in Msg, Holds(MsgActor(m)), pending_interventions = {}, Next, ~Handler(m)
  PROVE  pending_interventions' = {}
<1> USE DEF planVars, taskVars, settleVars, msgVars
<1>1. /\ ~Holds(RUNNER) /\ ~Holds(GONE) /\ \A n \in NodeId : ~Holds(SettleActor(n))
      /\ \A t \in TaskId : ~Holds(TaskActor(t))
      /\ \A o \in Msg : ~Handler(o)
  BY ActorsDiffer, HandlerHolds
<1>2. CASE UNCHANGED ask
  BY <1>2 DEF pending_interventions
<1>3. CASE User
  BY <1>2, <1>3 DEF User, Send
<1>4. CASE Runner
  BY <1>1, <1>2, <1>4
     DEF Runner, RunnerEnter, RunnerReap, RunnerBackoff, RunnerSchedule, RunnerContinue, RunnerExitWait,
         RunnerCompleted, RunnerRepairBegin, RunnerFailed, RunnerReturns, RunnerRepairOk, RunnerEnds
<1>5. ASSUME NEW t \in TaskId, NodeTask(t)
      PROVE  pending_interventions' = {}
  <2>1. CASE TaskTail(t)
    BY <2>1 DEF TaskTail, expire, pending_interventions
  <2> QED
    BY <1>1, <1>2, <1>5, <2>1
       DEF NodeTask, TaskSubmitted, TaskFails, TaskCanceled, TaskNeedsInfo, TaskDelivers, TaskSets,
           TaskReviseBegin, TaskRevise, TaskDeliverQueued, TaskArbitrate, TaskPost
<1>6. ASSUME NEW n \in NodeId, Settlement(n)
      PROVE  pending_interventions' = {}
  BY <1>1, <1>2, <1>6 DEF Settlement, SettleInspect, SettleAdopt, SettleDecide, SettleAct
<1>7. ~LockSkip
  BY <1>1 DEF LockSkip
<1> QED
  BY <1>1, <1>3, <1>4, <1>5, <1>6, <1>7 DEF Next

(* The handler that awaits the cancellation of the node it interrupts      *)
(* stays alone with the lock, and no question comes up.                    *)
LEMMA StepInterruptAlone ==
  ASSUME TypeOK, InterruptAlone, Next
  PROVE  InterruptAlone'
<1> SUFFICES ASSUME NEW m \in Msg, mstate'[m] = "interrupting"
             PROVE  Holds(MsgActor(m))' /\ pending_interventions' = {}
  BY DEF InterruptAlone
<1>1. CASE Handler(m)
  <2>1. HInterrupt(m)
    <3>1. ASSUME \/ Handled(m) \/ Suspends(m, "canceling") \/ Suspends(m, "planning")
                 \/ Suspends(m, "replanning")
          PROVE  FALSE
      BY <3>1 DEF TypeOK, Handled, Suspends
    <3>2. ~HPlan(m)
      BY <3>1 DEF HPlan
    <3> QED
      BY <1>1, <3>1, <3>2
         DEF Handler, HMalformed, HReject, HExpire, HAnswer, HConfirm, HConfirmed, HCancelRaises, HPlanRaises, HReemit,
             HNoop, HComplete, HEnqueue, HFollowup, HInterrupted, HCancel, HPlanEnds, HPlanOk, EndsIdle,
             _finish
  <2>2. Holds(MsgActor(m)) /\ pending_interventions = {}
    BY <2>1 DEF HInterrupt, Room, Handles
  <2>3. UNCHANGED <<lockq, ask>>
    BY <2>1 DEF HInterrupt, planVars
  <2> QED
    BY <2>2, <2>3 DEF Holds, pending_interventions
<1>2. CASE ~Handler(m)
  <2>1. mstate[m] = "interrupting"
    BY <1>2, MessageStays
  <2>2. Holds(MsgActor(m)) /\ pending_interventions = {}
    BY <2>1 DEF InterruptAlone
  <2> QED
    BY <1>2, <2>2, HandlerKeepsLock, LockedNoQuestion
<1> QED
  BY <1>1, <1>2

(***************************************************************************)
(* The theorems of the first plan.                                         *)
(***************************************************************************)

(* A step that does not start a new plan. *)
LEMMA StepInPlan ==
  ASSUME IInv, TypeOK', InPlan, InterruptAlone, Next, \A m \in Msg : ~HPlan(m)
  PROVE  InPlan'
<1>0. TypeOK
  BY DEF IInv
<1>1. CASE User \/ LockSkip
  <2>1. UNCHANGED <<nodes, status, kind, ask, taskVars, settleVars>>
    BY <1>1 DEF User, Send, LockSkip, planVars
  <2> QED
    BY <1>0, <2>1, IdleHandlerInPlan
<1> QED
  BY <1>1, RunnerInPlan, TaskInPlan, SettlementInPlan, HandlerInPlan DEF Next

(* The first plan begins with nothing of an earlier one. *)
LEMMA FirstPlanBegins ==
  ASSUME TypeOK, Unplanned, NEW m \in Msg, HPlan(m), version = 0
  PROVE  InPlan'
<1>1. /\ \A t \in TaskId : phase[t] = "none"
      /\ \A n \in NodeId : settle[n] = "none"
  BY DEF Unplanned
<1>2. /\ nodes' = {} /\ UNCHANGED <<phase, settle>>
      /\ \A n \in NodeId : status'[n] = PENDING /\ ask'[n] = 0
      /\ \A t \in TaskId : obj'[t] = "live"
      /\ \A n \in NodeId : ~detached'[n]
  BY <1>1 DEF HPlan
<1>3. Own' /\ NoRecover' /\ QuestionIsWaited'
  BY <1>1, <1>2, StatusFacts DEF Own, NoRecover, QuestionIsWaited
<1>4. RaisedIsCanceled' /\ SettlesWaiting' /\ AtWorkIsActive' /\ OneTaskPerNode'
  BY <1>1, <1>2 DEF RaisedIsCanceled, SettlesWaiting, Settling, AtWorkIsActive, OneTaskPerNode, AtWork
<1> QED
  BY <1>3, <1>4 DEF InPlan

(* The inductive invariant of the first plan holds. *)
THEOREM FirstPlanInvariant == Spec => []FirstPlan
<1>1. Init => FirstPlan
  <2> SUFFICES ASSUME Init PROVE FirstPlan
    OBVIOUS
  <2>1. Unplanned /\ InterruptAlone
    BY DEF Init, Unplanned, InterruptAlone
  <2>2. Own /\ NoRecover /\ QuestionIsWaited
    BY StatusFacts DEF Init, Own, NoRecover, QuestionIsWaited
  <2>3. RaisedIsCanceled /\ SettlesWaiting /\ AtWorkIsActive /\ OneTaskPerNode
    BY DEF Init, RaisedIsCanceled, SettlesWaiting, Settling, AtWorkIsActive, OneTaskPerNode, AtWork
  <2> QED
    BY <2>1, <2>2, <2>3 DEF FirstPlan, InPlan
<1>2. IInv /\ IInv' /\ FirstPlan /\ [Next]_vars => FirstPlan'
  <2> SUFFICES ASSUME IInv, IInv', FirstPlan, [Next]_vars
               PROVE  FirstPlan'
    OBVIOUS
  <2>0. TypeOK /\ TypeOK'
    BY DEF IInv
  <2>1. CASE Next
    <3>1. Unplanned' /\ InterruptAlone'
      BY <2>0, <2>1, StepUnplanned, StepInterruptAlone DEF FirstPlan
    <3>2. ASSUME version' <= 1
          PROVE  InPlan'
      <4>1. ASSUME NEW m \in Msg, HPlan(m)
            PROVE  InPlan'
        <5>1. version = 0
          BY <2>0, <3>2, <4>1 DEF TypeOK, HPlan
        <5> QED
          BY <2>0, <4>1, <5>1, FirstPlanBegins DEF FirstPlan
      <4>2. CASE \A m \in Msg : ~HPlan(m)
        <5>1. version' = version
          BY <2>0, <2>1, <4>2, PlanStays
        <5> QED
          BY <2>0, <2>1, <3>2, <4>2, <5>1, StepInPlan DEF FirstPlan
      <4> QED
        BY <4>1, <4>2
    <3> QED
      BY <3>1, <3>2 DEF FirstPlan
  <2>2. CASE UNCHANGED vars
    BY <2>2 DEF vars, planVars, taskVars, settleVars, msgVars, FirstPlan, Unplanned, InterruptAlone,
                Holds, pending_interventions, InPlan, Own, RaisedIsCanceled, NoRecover, SettlesWaiting,
                Settling, AtWorkIsActive, OneTaskPerNode, QuestionIsWaited, AtWork
  <2> QED
    BY <2>1, <2>2
<1> QED
  BY <1>1, <1>2, InductiveInvariant, PTL DEF Spec

(* The first plan is made while no runner is at work. *)
PlansAtRest == version <= 1 => \A m \in Msg : mstate[m] \in Planning => runner = "off"

LEMMA StepPlansAtRest ==
  ASSUME IInv, Unplanned, PlansAtRest, Next
  PROVE  PlansAtRest'
<1> USE DEF planVars, taskVars, settleVars, msgVars
<1>0. TypeOK
  BY DEF IInv
<1> SUFFICES ASSUME version' <= 1, NEW m \in Msg, mstate'[m] \in Planning
             PROVE  runner' = "off"
  BY DEF PlansAtRest
<1>1. CASE Handler(m)
  <2>1. HPlan(m)
    BY <1>0, <1>1, PlanningBegins
  <2>2. version = 0 /\ UNCHANGED runner
    BY <1>0, <2>1 DEF TypeOK, HPlan
  <2> QED
    BY <2>2 DEF Unplanned
<1>2. CASE ~Handler(m)
  <2>1. mstate[m] \in Planning /\ Holds(MsgActor(m))
    BY <1>0, <1>2, PlanningStays DEF IInv, PlannerAlone
  <2>2. \A o \in Msg : ~Handler(o)
    BY <1>2, <2>1, HandlerHolds, ActorsDiffer
  <2>3. version' = version
    <3>1. \A o \in Msg : ~HPlan(o)
      BY <2>2 DEF Handler
    <3> QED
      BY <1>0, <3>1, PlanStays
  <2>4. runner = "off"
    BY <2>1, <2>3 DEF PlansAtRest
  <2>5. ~Runner
    BY <2>4 DEF Runner, RunnerEnter, RunnerSchedule, RunnerReap, RunnerBackoff, RunnerContinue,
                RunnerExitWait, RunnerCompleted, RunnerRepairBegin, RunnerFailed, RunnerReturns,
                RunnerRepairOk, PlanFlowStep, Endings
  <2>6. CASE User \/ LockSkip
    BY <2>4, <2>6 DEF User, Send, LockSkip
  <2>7. ASSUME NEW t \in TaskId, NodeTask(t)
        PROVE  UNCHANGED runner
    BY <2>7 DEF NodeTask, TaskSubmitted, TaskFails, TaskCanceled, TaskNeedsInfo, TaskDelivers, TaskSets,
                TaskReviseBegin, TaskTail, TaskRevise, TaskDeliverQueued, TaskArbitrate, TaskPost
  <2>8. ASSUME NEW n \in NodeId, Settlement(n)
        PROVE  UNCHANGED runner
    BY <2>8 DEF Settlement, SettleInspect, SettleAdopt, SettleDecide, SettleAct
  <2> QED
    BY <2>2, <2>4, <2>5, <2>6, <2>7, <2>8 DEF Next
<1> QED
  BY <1>1, <1>2

(* Making the first plan of a conversation forgets no runner, so that      *)
(* NoTaskLeftBehind holds without its condition until a second plan is     *)
(* asked for.                                                              *)
THEOREM FirstPlanForgetsNone == Spec => [][version <= 1 => ~Forgets]_vars
<1>1. Init => PlansAtRest
  BY DEF Init, PlansAtRest, Planning
<1>2. IInv /\ FirstPlan /\ PlansAtRest /\ [Next]_vars => PlansAtRest'
  <2> SUFFICES ASSUME IInv, FirstPlan, PlansAtRest, [Next]_vars
               PROVE  PlansAtRest'
    OBVIOUS
  <2>1. CASE Next
    BY <2>1, StepPlansAtRest DEF FirstPlan
  <2>2. CASE UNCHANGED vars
    BY <2>2 DEF vars, planVars, msgVars, PlansAtRest
  <2> QED
    BY <2>1, <2>2
<1>3. PlansAtRest => [version <= 1 => ~Forgets]_vars
  BY DEF PlansAtRest, Forgets, HPlanEnds
<1> QED
  BY <1>1, <1>2, <1>3, InductiveInvariant, FirstPlanInvariant, PTL DEF Spec

(* In the first plan of a conversation a node has at most one task at      *)
(* work, however answers, retries and cancellations interleave: run_plan   *)
(* never dispatches a node whose earlier task still works on it.           *)
THEOREM OneTaskWorks == Spec => [](version <= 1 => OneTaskPerNode)
<1>1. FirstPlan => (version <= 1 => OneTaskPerNode)
  BY DEF FirstPlan, InPlan
<1> QED
  BY <1>1, FirstPlanInvariant, PTL

(* And a node at work is shown as active, unless the user cancelled it. *)
THEOREM WorkIsShown == Spec => [](version <= 1 => AtWorkIsActive)
<1>1. FirstPlan => (version <= 1 => AtWorkIsActive)
  BY DEF FirstPlan, InPlan
<1> QED
  BY <1>1, FirstPlanInvariant, PTL

(* And the user is asked only for a node that still waits for the answer:  *)
(* no settlement, cancellation or revision that comes in between leaves a  *)
(* question behind.                                                        *)
THEOREM QuestionsAreWaited == Spec => [](version <= 1 => QuestionIsWaited)
<1>1. FirstPlan => (version <= 1 => QuestionIsWaited)
  BY DEF FirstPlan, InPlan
<1> QED
  BY <1>1, FirstPlanInvariant, PTL
=============================================================================
