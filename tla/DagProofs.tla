----------------------------- MODULE DagProofs -----------------------------
(***************************************************************************)
(* Proofs about DagRuntime, for every number of nodes and assists, every   *)
(* answer of the planner and every list of mentions: RunningTracked,       *)
(* DepsResolvable, NeverRerun, AssistHandedBack and StallsOnDropped.       *)
(*                                                                         *)
(* The methods of DagRuntime are operators from a runtime to a runtime, so *)
(* the invariant is stated of a runtime r and each method is shown to keep *)
(* it; the steps of the workflow then put the methods together.            *)
(***************************************************************************)
EXTENDS DagRuntime, DataLemmas, FiniteSetTheorems

Rt == [plan : Seq(Id), deps : [Id -> SUBSET Id], assist_for : [Id -> Id \cup {0}],
       agent : [Id -> Nat], status : [Id -> DagStatus], outputs : SUBSET Id,
       tasks : Seq(Id), result : [Id -> {"none", "ok", "error"}],
       completions : Seq(Id), done : BOOLEAN, seq : 0..MaxAssists, depth : [Id -> Nat]]

Places == {"planner", "executor", "wait", "drain", "helper"}

TypeOK ==
  /\ rt \in Rt
  /\ at \in Places \cup Ended
  /\ cur \in Id \cup {0}
  /\ obeys \in BOOLEAN

(* The ids there are: those of the planner and of the assists spawned. *)
KnownIds(r) == 1..(MaxPlan + r.seq)

(* The plan: known nodes, none twice, each with a status. *)
PlanKnown(r) ==
  /\ NoTwice(r.plan)
  /\ Elems(r.plan) \subseteq KnownIds(r)
  /\ \A n \in Elems(r.plan) : r.status[n] # "none"
  /\ \A n \in Id \ KnownIds(r) : r.status[n] = "none"

(* Its dependencies: nodes of the plan or outputs, whatever the node does. *)
DepsClosed(r) == \A n \in Elems(r.plan) : r.deps[n] \subseteq Elems(r.plan) \cup r.outputs

(* A node that was delivered has its output, also while it waits for help. *)
HasOutput(r) == \A n \in Id : r.status[n] \in {COMPLETED, WAITING_ASSIST} => n \in r.outputs

(* The nodes that have not run yet do not wait for each other. *)
Unrun(r) == {n \in Elems(r.plan) : r.status[n] = PENDING}
NoCircle(r) == \A S \in SUBSET Unrun(r) : S # {} => \E n \in S : r.deps[n] \cap S = {}

(* The queue of what has ended. *)
QueueOver(r) ==
  /\ NoTwice(r.completions)
  /\ \A n \in Elems(r.completions) : r.status[n] \in {COMPLETED, FAILED}

Tracked(r) ==
  /\ \A n \in Id : r.status[n] = RUNNING <=> n \in Elems(r.tasks)
  /\ NoTwice(r.tasks)

(* The output of an assist is there, or the node it is for still waits. *)
HandsBack(r) ==
  \A n \in Id : \A h \in Elems(r.plan) : r.assist_for[h] = n =>
    \/ h \in r.outputs
    \/ r.status[n] = WAITING_ASSIST /\ n \in Elems(r.plan) /\ h \in r.deps[n]

Core(r) == PlanKnown(r) /\ DepsClosed(r) /\ HasOutput(r) /\ NoCircle(r) /\ QueueOver(r)

(* What the executor waits with: nothing is ready, something is open. *)
NoneReady(r) ==
  /\ ~r.done
  /\ \A n \in Elems(r.plan) : Waits(r, n) => ~(r.deps[n] \subseteq r.outputs)
  /\ r.tasks = <<>> => \E n \in Elems(r.plan) : Waits(r, n)

(* The node that the helper judges. *)
Judged(r, n) ==
  /\ n \in Elems(r.plan) /\ r.status[n] = COMPLETED
  /\ n \notin Elems(r.completions)

IInv ==
  /\ TypeOK
  /\ Core(rt)
  /\ at \notin Ended => Tracked(rt)
  /\ obeys => HandsBack(rt)
  /\ at = "wait" => NoneReady(rt)
  /\ at = "helper" => Judged(rt, cur)

(***************************************************************************)
(* The methods of DagRuntime, field by field.                              *)
(***************************************************************************)
Over(r) == {n \in Elems(r.tasks) : r.result[n] # "none"}

(* _collect_done: what the ended tasks become. *)
LEMMA CollectFields ==
  ASSUME NEW r \in Rt, NEW q, q = _collect_done(r)
  PROVE  /\ q \in Rt
         /\ q.plan = r.plan /\ q.deps = r.deps /\ q.assist_for = r.assist_for
         /\ q.done = r.done /\ q.seq = r.seq
         /\ Elems(q.tasks) = Elems(r.tasks) \ Over(r)
         /\ NoTwice(r.tasks) => NoTwice(q.tasks)
         /\ \A n \in Id : q.status[n] = IF n \notin Over(r) THEN r.status[n]
                                       ELSE IF r.result[n] = "ok" THEN COMPLETED ELSE FAILED
         /\ q.outputs = r.outputs \cup {n \in Over(r) : r.result[n] = "ok"}
         /\ Elems(q.completions) = Elems(r.completions) \cup {n \in Over(r) : _judgable(r, n)}
         /\ NoTwice(r.tasks) /\ NoTwice(r.completions) /\ Elems(r.completions) \cap Over(r) = {}
              => NoTwice(q.completions)
<1> DEFINE over == Those(r.tasks, {n \in Id : r.result[n] # "none"})
           more == Those(over, {n \in Id : _judgable(r, n)})
           rest == Those(r.tasks, {n \in Id : r.result[n] = "none"})
           res  == [n \in Id |-> IF n \in Elems(over) THEN "none" ELSE r.result[n]]
           sts  == [n \in Id |-> IF n \notin Elems(over) THEN r.status[n]
                                  ELSE IF r.result[n] = "ok" THEN COMPLETED ELSE FAILED]
           outs == r.outputs \cup {n \in Elems(over) : r.result[n] = "ok"}
<1>1. /\ r.tasks \in Seq(Id) /\ r.completions \in Seq(Id) /\ r.outputs \subseteq Id
      /\ r.result \in [Id -> {"none", "ok", "error"}] /\ r.status \in [Id -> DagStatus]
  BY DEF Rt
<1>2. Elems(r.tasks) \subseteq Id
  BY <1>1, ElemsFacts
<1>3. /\ over \in Seq(Id) /\ Elems(over) = Over(r)
      /\ NoTwice(r.tasks) => NoTwice(over)
  <2>1. /\ over \in Seq(Id) /\ Elems(over) = Elems(r.tasks) \cap {n \in Id : r.result[n] # "none"}
        /\ NoTwice(r.tasks) => NoTwice(over)
    BY <1>1, ThoseFacts
  <2> QED
    BY <1>2, <2>1 DEF Over
<1>4. /\ rest \in Seq(Id) /\ Elems(rest) = Elems(r.tasks) \ Over(r)
      /\ NoTwice(r.tasks) => NoTwice(rest)
  <2>1. /\ rest \in Seq(Id) /\ Elems(rest) = Elems(r.tasks) \cap {n \in Id : r.result[n] = "none"}
        /\ NoTwice(r.tasks) => NoTwice(rest)
    BY <1>1, ThoseFacts
  <2> QED
    BY <1>2, <2>1 DEF Over
<1>5. q = [r EXCEPT !.tasks = rest, !.result = res, !.status = sts, !.outputs = outs,
                    !.completions = r.completions \o more]
  BY DEF _collect_done
<1> HIDE DEF over, rest
<1>6. /\ more \in Seq(Id) /\ Elems(more) = {n \in Over(r) : _judgable(r, n)}
      /\ NoTwice(r.tasks) => NoTwice(more)
  <2>1. /\ more \in Seq(Id) /\ Elems(more) = Elems(over) \cap {n \in Id : _judgable(r, n)}
        /\ NoTwice(over) => NoTwice(more)
    BY <1>3, ThoseFacts
  <2>2. Over(r) \subseteq Id
    BY <1>2 DEF Over
  <2> QED
    BY <1>3, <2>1, <2>2
<1> HIDE DEF more
<1>7. /\ r.completions \o more \in Seq(Id)
      /\ Elems(r.completions \o more) = Elems(r.completions) \cup Elems(more)
      /\ NoTwice(r.completions) /\ NoTwice(more) /\ Elems(r.completions) \cap Elems(more) = {}
           => NoTwice(r.completions \o more)
  BY <1>1, <1>6, ElemsFacts
<1>8. /\ res \in [Id -> {"none", "ok", "error"}] /\ sts \in [Id -> DagStatus] /\ outs \subseteq Id
  BY <1>1, <1>2, <1>3 DEF DagStatus, COMPLETED, FAILED, Over
<1>9. \A n \in Id : sts[n] = IF n \notin Over(r) THEN r.status[n]
                              ELSE IF r.result[n] = "ok" THEN COMPLETED ELSE FAILED
  BY <1>3
<1>10. outs = r.outputs \cup {n \in Over(r) : r.result[n] = "ok"}
  BY <1>3
<1> DEFINE comp == r.completions \o more
<1>11. q = [r EXCEPT !.tasks = rest, !.result = res, !.status = sts, !.outputs = outs,
                     !.completions = comp]
  BY <1>5
<1>12. comp \in Seq(Id)
  BY <1>7
<1> HIDE DEF res, sts, outs, comp
<1>13. /\ q.plan = r.plan /\ q.deps = r.deps /\ q.assist_for = r.assist_for
       /\ q.done = r.done /\ q.seq = r.seq /\ q.tasks = rest /\ q.status = sts
       /\ q.outputs = outs /\ q.completions = comp
  BY <1>11 DEF Rt
<1>14. q \in Rt
  BY <1>4, <1>8, <1>11, <1>12 DEF Rt
<1> QED
  BY <1>4, <1>6, <1>7, <1>9, <1>10, <1>13, <1>14 DEF comp

(* judgables: the records of nodes that are in the plan. *)
LEMMA JudgablesFacts ==
  ASSUME NEW r \in Rt
  PROVE  /\ judgables(r) \in Seq(Id)
         /\ Elems(judgables(r)) = {n \in Elems(r.completions) : _judgable(r, n)}
         /\ judgables(r) = <<>> <=> \A n \in Elems(r.completions) : ~_judgable(r, n)
<1>1. r.completions \in Seq(Id)
  BY DEF Rt
<1>2. Elems(r.completions) \subseteq Id
  BY <1>1, ElemsFacts
<1>3. /\ judgables(r) \in Seq(Id)
      /\ Elems(judgables(r)) = Elems(r.completions) \cap {n \in Id : _judgable(r, n)}
  BY <1>1, ThoseFacts DEF judgables
<1>4. Elems(judgables(r)) = {} <=> judgables(r) = <<>>
  BY <1>3, ElemsFacts
<1> QED
  BY <1>2, <1>3, <1>4

(* pop_completion: the queue becomes shorter, and the record of the node   *)
(* that is judged next is gone from it.                                    *)
LEMMA PopFields ==
  ASSUME NEW r \in Rt, NEW q, q = pop_completion(r)
  PROVE  /\ q \in Rt
         /\ q = [r EXCEPT !.completions = q.completions]
         /\ Elems(q.completions) \subseteq Elems(r.completions)
         /\ NoTwice(r.completions) => NoTwice(q.completions)
         /\ NoTwice(r.completions) /\ judgables(r) # <<>>
              => /\ Head(judgables(r)) \in Elems(judgables(r))
                 /\ Head(judgables(r)) \notin Elems(q.completions)
<1> DEFINE c == r.completions
           J == {n \in Id : _judgable(r, n)}
<1>1. c \in Seq(Id) /\ Len(c) \in Nat /\ DOMAIN c = 1..Len(c) /\ \A i \in DOMAIN c : c[i] \in Id
  BY DEF Rt
<1>2. CASE judgables(r) = <<>>
  <2>1. q = [r EXCEPT !.completions = <<>>]
    BY <1>2 DEF pop_completion
  <2>2. q.completions = <<>>
    BY <2>1 DEF Rt
  <2> DEFINE e == <<>>
  <2>3. e \in Seq(Id) /\ q = [r EXCEPT !.completions = e]
    BY <2>1
  <2> HIDE DEF e
  <2>4. q \in Rt
    BY <2>3 DEF Rt
  <2>5. Elems(q.completions) = {} /\ NoTwice(q.completions)
    BY <2>2 DEF Elems, NoTwice
  <2> QED
    BY <1>2, <2>1, <2>2, <2>4, <2>5
<1>3. CASE judgables(r) # <<>>
  <2> DEFINE First(i) == /\ _judgable(r, c[i])
                         /\ \A k \in 1..(i - 1) : ~_judgable(r, c[k])
  <2>1. \E i \in DOMAIN c : First(i)
    <3> DEFINE D == {i \in DOMAIN c : _judgable(r, c[i])}
    <3>1. D \subseteq Nat
      BY <1>1
    <3>2. D # {}
      BY <1>3, JudgablesFacts DEF Elems
    <3> HIDE DEF D
    <3>3. PICK i \in D : \A j \in D : i <= j
      BY <3>1, <3>2, Least
    <3>4. i \in DOMAIN c /\ _judgable(r, c[i])
      BY DEF D
    <3>5. ASSUME NEW k \in 1..(i - 1) PROVE ~_judgable(r, c[k])
      <4>1. k \in DOMAIN c /\ ~(i <= k)
        BY <1>1, <3>4
      <4>2. k \notin D
        BY <3>3, <4>1
      <4> QED
        BY <4>1, <4>2 DEF D
    <3> QED
      BY <3>4, <3>5
  <2> DEFINE i == CHOOSE j \in DOMAIN c : First(j)
             t == SubSeq(c, i + 1, Len(c))
  <2>2. i \in DOMAIN c /\ First(i)
    BY <2>1
  <2>3. q = [r EXCEPT !.completions = t]
    BY <1>3 DEF pop_completion
  <2> HIDE DEF i
  <2>4. i \in 1..Len(c) /\ i \in Nat
    BY <1>1, <2>2
  <2>5. /\ t \in Seq(Id) /\ DOMAIN t = 1..(Len(c) - i)
        /\ \A k \in 1..(Len(c) - i) : t[k] = c[i + k] /\ i + k \in DOMAIN c
    BY <1>1, <2>4
  <2> HIDE DEF t
  <2>6. q.completions = t /\ q \in Rt
    BY <2>3, <2>5 DEF Rt
  <2>7. Elems(t) \subseteq Elems(c)
    BY <2>5 DEF Elems
  <2>8. NoTwice(c) => NoTwice(t)
    <3>1. SUFFICES ASSUME NoTwice(c), NEW j \in 1..(Len(c) - i), NEW k \in 1..(Len(c) - i), t[j] = t[k]
                   PROVE  j = k
      BY <2>5 DEF NoTwice
    <3>2. c[i + j] = c[i + k] /\ i + j \in DOMAIN c /\ i + k \in DOMAIN c
      BY <2>5, <3>1
    <3>3. i + j = i + k
      BY <3>1, <3>2 DEF NoTwice
    <3> QED
      BY <1>1, <2>4, <3>3
  <2>9. Head(judgables(r)) = c[i]
    <3>1. c[i] \in J /\ \A k \in 1..(i - 1) : c[k] \notin J
      BY <1>1, <2>2
    <3> QED
      BY <1>1, <2>4, <3>1, ThoseFirst DEF judgables
  <2>10. c[i] \in Elems(judgables(r))
    BY <2>2, JudgablesFacts DEF Elems
  <2>11. NoTwice(c) => c[i] \notin Elems(t)
    <3>1. SUFFICES ASSUME NoTwice(c), NEW k \in 1..(Len(c) - i), c[i] = t[k] PROVE FALSE
      BY <2>5 DEF Elems
    <3>2. i = i + k
      BY <2>2, <2>5, <3>1 DEF NoTwice
    <3> QED
      BY <1>1, <2>4, <3>2
  <2> QED
    BY <2>3, <2>6, <2>7, <2>8, <2>9, <2>10, <2>11
<1> QED
  BY <1>2, <1>3

(* _dispatch_ready: every node that waits and has what it needs runs. *)
Ready(r) == {n \in Elems(r.plan) : Waits(r, n) /\ r.deps[n] \subseteq r.outputs}

LEMMA DispatchFields ==
  ASSUME NEW r \in Rt, NEW q, q = _dispatch_ready(r)
  PROVE  /\ q \in Rt
         /\ q.plan = r.plan /\ q.deps = r.deps /\ q.assist_for = r.assist_for
         /\ q.done = r.done /\ q.seq = r.seq /\ q.outputs = r.outputs
         /\ q.completions = r.completions
         /\ Elems(q.tasks) = Elems(r.tasks) \cup Ready(r)
         /\ NoTwice(r.plan) /\ NoTwice(r.tasks) => NoTwice(q.tasks)
         /\ \A n \in Id : q.status[n] = IF n \in Ready(r) THEN RUNNING ELSE r.status[n]
<1> DEFINE ready == dispatchable(r)
           more  == Those(ready, Id \ Elems(r.tasks))
           all   == r.tasks \o more
           sts   == [n \in Id |-> IF n \in Elems(ready) THEN RUNNING ELSE r.status[n]]
           res   == [n \in Id |-> IF n \in Elems(ready) THEN "none" ELSE r.result[n]]
<1>1. /\ r.tasks \in Seq(Id) /\ r.plan \in Seq(Id)
      /\ r.result \in [Id -> {"none", "ok", "error"}] /\ r.status \in [Id -> DagStatus]
  BY DEF Rt
<1>2. Elems(r.plan) \subseteq Id
  BY <1>1, ElemsFacts
<1>3. ready \in Seq(Id) /\ Elems(ready) = Ready(r) /\ (NoTwice(r.plan) => NoTwice(ready))
  <2>1. /\ ready \in Seq(Id)
        /\ Elems(ready) = Elems(r.plan) \cap {n \in Id : Waits(r, n) /\ r.deps[n] \subseteq r.outputs}
        /\ NoTwice(r.plan) => NoTwice(ready)
    BY <1>1, ThoseFacts DEF dispatchable
  <2> QED
    BY <1>2, <2>1 DEF Ready
<1>4. q = [r EXCEPT !.status = sts, !.tasks = all, !.result = res]
  BY DEF _dispatch_ready
<1> HIDE DEF ready
<1>5. /\ more \in Seq(Id) /\ Elems(more) = Ready(r) \ Elems(r.tasks)
      /\ NoTwice(r.plan) => NoTwice(more)
  <2>1. /\ more \in Seq(Id) /\ Elems(more) = Elems(ready) \cap (Id \ Elems(r.tasks))
        /\ NoTwice(ready) => NoTwice(more)
    BY <1>3, ThoseFacts
  <2>2. Ready(r) \subseteq Id
    BY <1>2 DEF Ready
  <2> QED
    BY <1>3, <2>1, <2>2
<1> HIDE DEF more
<1>6. /\ all \in Seq(Id) /\ Elems(all) = Elems(r.tasks) \cup Elems(more)
      /\ NoTwice(r.tasks) /\ NoTwice(more) /\ Elems(r.tasks) \cap Elems(more) = {} => NoTwice(all)
  BY <1>1, <1>5, ElemsFacts
<1>7. sts \in [Id -> DagStatus] /\ res \in [Id -> {"none", "ok", "error"}]
  BY <1>1 DEF DagStatus, RUNNING
<1>8. \A n \in Id : sts[n] = IF n \in Ready(r) THEN RUNNING ELSE r.status[n]
  BY <1>3
<1> HIDE DEF all, sts, res
<1>9. /\ q.plan = r.plan /\ q.deps = r.deps /\ q.assist_for = r.assist_for
      /\ q.done = r.done /\ q.seq = r.seq /\ q.outputs = r.outputs
      /\ q.completions = r.completions /\ q.tasks = all /\ q.status = sts
  BY <1>4 DEF Rt
<1>10. q \in Rt
  BY <1>4, <1>6, <1>7 DEF Rt
<1> QED
  BY <1>5, <1>6, <1>8, <1>9, <1>10

(* Sorted lists a set of ids. *)
LEMMA SortedFacts ==
  ASSUME NEW S \in SUBSET Id
  PROVE  Sorted(S) \in Seq(Id) /\ Elems(Sorted(S)) = S /\ NoTwice(Sorted(S))
<1> DEFINE N == MaxPlan + MaxAssists
           all == [i \in Id |-> i]
<1>1. N \in Nat /\ Id = 1..N
  BY DagAssumption DEF Id
<1>2. all \in Seq(Id) /\ DOMAIN all = Id /\ \A i \in Id : all[i] = i
  BY <1>1
<1> HIDE DEF all
<1>3. Elems(all) = Id /\ NoTwice(all)
  BY <1>2 DEF Elems, NoTwice
<1>4. Sorted(S) = Those(all, S)
  BY DEF Sorted, all
<1>5. /\ Those(all, S) \in Seq(Id) /\ Elems(Those(all, S)) = Elems(all) \cap S
      /\ NoTwice(all) => NoTwice(Those(all, S))
  BY <1>2, ThoseFacts
<1> QED
  BY <1>3, <1>4, <1>5

(* apply_plan: what a new plan leaves of the old one. *)
LEMMA ApplyFields ==
  ASSUME NEW r \in Rt, NEW S \in SUBSET Id, NEW p \in [S -> SUBSET S], NEW q, q = apply_plan(r, p)
  PROVE  /\ q \in Rt
         /\ Elems(q.plan) = S /\ NoTwice(q.plan)
         /\ q.tasks = r.tasks /\ q.outputs = r.outputs /\ q.seq = r.seq
         /\ q.completions \in {<<>>, r.completions}
         /\ \A n \in Id :
              /\ q.status[n] = IF n \in S \ Elems(r.plan) THEN readded(r.status[n]) ELSE r.status[n]
              /\ q.assist_for[n] = IF n \in S \ Elems(r.plan) THEN 0 ELSE r.assist_for[n]
              /\ q.deps[n] = IF n \in S THEN merged_deps(r, p, n) ELSE {}
<1> DEFINE old == Elems(r.plan)
           sts == [n \in Id |-> IF n \in S \ old THEN readded(r.status[n]) ELSE r.status[n]]
           ass == [n \in Id |-> IF n \in S \ old THEN 0 ELSE r.assist_for[n]]
           dep == [n \in Id |-> IF n \in S THEN merged_deps(r, p, n) ELSE {}]
           com == IF S = {} THEN <<>> ELSE r.completions
           pln == Sorted(S)
<1>1. /\ r.status \in [Id -> DagStatus] /\ r.assist_for \in [Id -> Id \cup {0}]
      /\ r.deps \in [Id -> SUBSET Id] /\ r.completions \in Seq(Id)
  BY DEF Rt
<1>2. DOMAIN p = S /\ \A n \in S : p[n] \subseteq S
  OBVIOUS
<1>3. sts \in [Id -> DagStatus]
  BY <1>1 DEF readded, DagStatus, PENDING
<1>4. ass \in [Id -> Id \cup {0}]
  BY <1>1
<1>5. dep \in [Id -> SUBSET Id]
  <2>1. ASSUME NEW n \in S PROVE merged_deps(r, p, n) \subseteq Id
    BY <1>1, <1>2 DEF merged_deps
  <2> QED
    BY <2>1
<1>6. com \in Seq(Id) /\ com \in {<<>>, r.completions}
  BY <1>1
<1>7. pln \in Seq(Id) /\ Elems(pln) = S /\ NoTwice(pln)
  BY SortedFacts
<1>8. q = [r EXCEPT !.done = (S = {}), !.completions = com, !.status = sts,
                    !.assist_for = ass, !.deps = dep, !.plan = pln]
  BY <1>2 DEF apply_plan
<1>9. \A n \in Id : /\ sts[n] = IF n \in S \ old THEN readded(r.status[n]) ELSE r.status[n]
                    /\ ass[n] = IF n \in S \ old THEN 0 ELSE r.assist_for[n]
                    /\ dep[n] = IF n \in S THEN merged_deps(r, p, n) ELSE {}
  OBVIOUS
<1> HIDE DEF sts, ass, dep, com, pln
<1>10. /\ q.plan = pln /\ q.tasks = r.tasks /\ q.outputs = r.outputs /\ q.seq = r.seq
       /\ q.completions = com /\ q.status = sts /\ q.assist_for = ass /\ q.deps = dep
  BY <1>8 DEF Rt
<1>11. q \in Rt
  BY <1>3, <1>4, <1>5, <1>6, <1>7, <1>8, ZenonT(30) DEF Rt
<1> QED
  BY <1>6, <1>7, <1>9, <1>10, <1>11

(* add_assists: new nodes with ids of their own, and a parent that waits. *)
NewIds(r, k) == {MaxPlan + r.seq + i : i \in 1..k}

LEMMA NewIdsFacts ==
  ASSUME NEW r \in Rt, NEW k \in Nat, r.seq + k <= MaxAssists
  PROVE  /\ NewIds(r, k) \subseteq Id \ KnownIds(r)
         /\ KnownIds(r) \cup NewIds(r, k) \subseteq 1..(MaxPlan + r.seq + k)
         /\ 1..(MaxPlan + r.seq + k) \subseteq KnownIds(r) \cup NewIds(r, k)
<1>1. MaxPlan \in Nat /\ MaxAssists \in Nat /\ r.seq \in Nat
  BY DagAssumption DEF Rt
<1>2. NewIds(r, k) \subseteq Id \ KnownIds(r)
  BY <1>1 DEF NewIds, KnownIds, Id
<1>3. KnownIds(r) \cup NewIds(r, k) \subseteq 1..(MaxPlan + r.seq + k)
  BY <1>1 DEF NewIds, KnownIds
<1>4. ASSUME NEW n \in 1..(MaxPlan + r.seq + k), n \notin KnownIds(r) PROVE n \in NewIds(r, k)
  <2>1. n - MaxPlan - r.seq \in 1..k /\ n = MaxPlan + r.seq + (n - MaxPlan - r.seq)
    BY <1>1, <1>4 DEF KnownIds
  <2> QED
    BY <2>1 DEF NewIds
<1> QED
  BY <1>2, <1>3, <1>4

(* There is room for the assists of who, and what they change. *)
Fits(r, who) == r.seq + Len(who) <= MaxAssists

Assisted(r, n, who, q) ==
  LET new == NewIds(r, Len(who))
  IN  /\ Elems(r.plan) \subseteq KnownIds(r) =>
           Elems(q.plan) = Elems(r.plan) \cup new /\ (NoTwice(r.plan) => NoTwice(q.plan))
      /\ q.seq = r.seq + Len(who)
      /\ q.tasks = r.tasks /\ q.outputs = r.outputs /\ q.completions = r.completions
      /\ \A m \in Id :
           /\ q.status[m] = IF m \in new THEN PENDING ELSE IF m = n THEN WAITING_ASSIST ELSE r.status[m]
           /\ q.deps[m] = IF m \in new THEN {} ELSE IF m = n THEN r.deps[n] \cup new ELSE r.deps[m]
           /\ q.assist_for[m] = IF m \in new THEN n ELSE r.assist_for[m]

LEMMA AssistFields ==
  ASSUME NEW r \in Rt, NEW n \in KnownIds(r), NEW who \in Seq(Nat), Fits(r, who)
  PROVE  add_assists(r, n, who) \in Rt /\ Assisted(r, n, who, add_assists(r, n, who))
<1> DEFINE k   == Len(who)
           sq  == r.seq + k
           new == NewIds(r, k)
           q   == add_assists(r, n, who)
<1>0. n \in Id
  <2>1. r.seq \in 0..MaxAssists /\ MaxPlan \in Nat /\ MaxAssists \in Nat
    BY DagAssumption DEF Rt
  <2> QED
    BY <2>1 DEF KnownIds, Id
<1> DEFINE b   == MaxPlan + r.seq
           ids == [i \in 1..k |-> b + i]
           pln == r.plan \o ids
           sts == [m \in Id |-> IF m \in new THEN PENDING ELSE IF m = n THEN WAITING_ASSIST ELSE r.status[m]]
           dep == [m \in Id |-> IF m \in new THEN {} ELSE IF m = n THEN r.deps[n] \cup new ELSE r.deps[m]]
           ass == [m \in Id |-> IF m \in new THEN n ELSE r.assist_for[m]]
           agt == [m \in Id |-> IF m \in new THEN who[m - MaxPlan - r.seq] ELSE r.agent[m]]
           dph == [m \in Id |-> IF m \in new THEN r.depth[n] + 1 ELSE r.depth[m]]
<1>1. /\ r.plan \in Seq(Id) /\ r.status \in [Id -> DagStatus] /\ r.deps \in [Id -> SUBSET Id]
      /\ r.assist_for \in [Id -> Id \cup {0}] /\ r.agent \in [Id -> Nat] /\ r.depth \in [Id -> Nat]
      /\ r.seq \in 0..MaxAssists
  BY DEF Rt
<1>2. k \in Nat /\ b \in Nat /\ sq \in 0..MaxAssists /\ \A i \in 1..k : who[i] \in Nat
  <2>1. k \in Nat /\ \A i \in 1..k : who[i] \in Nat
    BY LenProperties, ElementOfSeq
  <2> HIDE DEF k
  <2>2. r.seq \in Nat /\ MaxPlan \in Nat /\ MaxAssists \in Nat
    BY <1>1, DagAssumption
  <2>3. b \in Nat
    BY <2>2
  <2>4. r.seq + k <= MaxAssists
    BY DEF Fits, k
  <2>5. sq \in 0..MaxAssists
    BY <2>1, <2>2, <2>4
  <2> QED
    BY <2>1, <2>3, <2>5
<1>3. new \subseteq Id \ KnownIds(r)
  <2>1. r.seq \in Nat /\ MaxAssists \in Nat
    BY <1>1, DagAssumption
  <2>2. r.seq + k <= MaxAssists
    BY DEF Fits
  <2> QED
    BY <1>2, <2>2, NewIdsFacts
<1>4. /\ ids \in Seq(Id) /\ Elems(ids) = new /\ NoTwice(ids)
  <2>1. DOMAIN ids = 1..k /\ \A i \in 1..k : ids[i] = b + i /\ b + i \in new
    BY DEF NewIds
  <2>2. \A i \in 1..k : b + i \in Id
    BY <1>3, <2>1
  <2>3. ids \in Seq(Id)
    <3> HIDE DEF k, b
    <3> QED
      BY <1>2, <2>2
  <2>4. NoTwice(ids)
    BY <1>2, <2>1 DEF NoTwice
  <2>5. Elems(ids) = new
    BY <2>1 DEF Elems, NewIds
  <2> QED
    BY <2>3, <2>4, <2>5
<1>5. q = [r EXCEPT !.seq = sq, !.plan = pln, !.status = sts, !.deps = dep,
                    !.assist_for = ass, !.agent = agt, !.depth = dph]
  BY DEF add_assists, NewIds
<1> HIDE DEF ids, new, q
<1>6. /\ pln \in Seq(Id) /\ Elems(pln) = Elems(r.plan) \cup new
      /\ NoTwice(r.plan) /\ Elems(r.plan) \cap new = {} => NoTwice(pln)
  BY <1>1, <1>4, ElemsFacts
<1>7. sts \in [Id -> DagStatus]
  BY <1>1 DEF DagStatus, PENDING, WAITING_ASSIST
<1>8. dep \in [Id -> SUBSET Id] /\ ass \in [Id -> Id \cup {0}]
  BY <1>0, <1>1, <1>3
<1>9. agt \in [Id -> Nat]
  <2>1. ASSUME NEW m \in new PROVE m - MaxPlan - r.seq \in 1..k
    <3>1. PICK i \in 1..k : m = MaxPlan + r.seq + i
      BY DEF new, NewIds
    <3>2. MaxPlan \in Nat /\ r.seq \in Nat /\ i \in Nat
      BY <1>1, DagAssumption
    <3>3. m - MaxPlan - r.seq = i
      BY <3>1, <3>2
    <3> QED
      BY <3>3
  <2> QED
    BY <1>1, <1>2, <2>1
<1>10. dph \in [Id -> Nat]
  BY <1>0, <1>1
<1>11. \A m \in Id :
         /\ sts[m] = IF m \in new THEN PENDING ELSE IF m = n THEN WAITING_ASSIST ELSE r.status[m]
         /\ dep[m] = IF m \in new THEN {} ELSE IF m = n THEN r.deps[n] \cup new ELSE r.deps[m]
         /\ ass[m] = IF m \in new THEN n ELSE r.assist_for[m]
  OBVIOUS
<1> HIDE DEF sts, dep, ass, agt, dph, pln, sq, k
<1>12. /\ q.plan = pln /\ q.seq = sq /\ q.status = sts /\ q.deps = dep /\ q.assist_for = ass
       /\ q.tasks = r.tasks /\ q.outputs = r.outputs /\ q.completions = r.completions
  BY <1>5 DEF Rt
<1>13. q \in Rt
  BY <1>2, <1>5, <1>6, <1>7, <1>8, <1>9, <1>10 DEF Rt
<1> USE DEF k, sq, new
<1>14. Assisted(r, n, who, q)
  BY <1>3, <1>6, <1>11, <1>12 DEF Assisted
<1> QED
  BY <1>13, <1>14 DEF q

(***************************************************************************)
(* The methods keep the invariant.                                         *)
(***************************************************************************)
(* The parts of a runtime have their types. *)
LEMMA RtFacts ==
  ASSUME NEW r \in Rt
  PROVE  /\ Elems(r.plan) \subseteq Id /\ Elems(r.tasks) \subseteq Id /\ Elems(r.completions) \subseteq Id
         /\ r.status \in [Id -> DagStatus] /\ r.deps \in [Id -> SUBSET Id] /\ r.outputs \subseteq Id
         /\ KnownIds(r) \subseteq Id
<1>1. r.plan \in Seq(Id) /\ r.tasks \in Seq(Id) /\ r.completions \in Seq(Id)
  BY DEF Rt
<1>2. r.status \in [Id -> DagStatus] /\ r.deps \in [Id -> SUBSET Id] /\ r.outputs \subseteq Id
  BY DEF Rt
<1>3. KnownIds(r) \subseteq Id
  <2>1. r.seq \in 0..MaxAssists /\ MaxPlan \in Nat /\ MaxAssists \in Nat
    BY DagAssumption DEF Rt
  <2> QED
    BY <2>1 DEF KnownIds, Id
<1> QED
  BY <1>1, <1>2, <1>3, ElemsFacts

(* _collect_done: only nodes that run change. *)
LEMMA CollectKeeps ==
  ASSUME NEW r \in Rt, Core(r), Tracked(r), NEW q, q = _collect_done(r)
  PROVE  /\ Core(q) /\ Tracked(q)
         /\ HandsBack(r) => HandsBack(q)
         /\ \A n \in Id : r.status[n] # RUNNING => q.status[n] = r.status[n]
         /\ \A n \in Id : q.status[n] # r.status[n] => q.status[n] \in {COMPLETED, FAILED}
<1> USE DEF PENDING, RUNNING, WAITING_ASSIST, COMPLETED, FAILED
<1>1. /\ q \in Rt
      /\ q.plan = r.plan /\ q.deps = r.deps /\ q.assist_for = r.assist_for
      /\ q.done = r.done /\ q.seq = r.seq
      /\ Elems(q.tasks) = Elems(r.tasks) \ Over(r)
      /\ NoTwice(r.tasks) => NoTwice(q.tasks)
      /\ \A n \in Id : q.status[n] = IF n \notin Over(r) THEN r.status[n]
                                    ELSE IF r.result[n] = "ok" THEN COMPLETED ELSE FAILED
      /\ q.outputs = r.outputs \cup {n \in Over(r) : r.result[n] = "ok"}
      /\ Elems(q.completions) = Elems(r.completions) \cup {n \in Over(r) : _judgable(r, n)}
      /\ NoTwice(r.tasks) /\ NoTwice(r.completions) /\ Elems(r.completions) \cap Over(r) = {}
           => NoTwice(q.completions)
  BY CollectFields
<1>2. /\ Elems(r.plan) \subseteq Id /\ Elems(r.tasks) \subseteq Id /\ Elems(r.completions) \subseteq Id
      /\ KnownIds(r) \subseteq Id
  BY RtFacts
<1>3. Over(r) \subseteq Elems(r.tasks) /\ \A n \in Over(r) : r.status[n] = RUNNING
  BY <1>2 DEF Over, Tracked
<1>4. \A n \in Id : r.status[n] # RUNNING => q.status[n] = r.status[n]
  BY <1>1, <1>3
<1>5. \A n \in Id : q.status[n] # r.status[n] => q.status[n] \in {COMPLETED, FAILED}
  BY <1>1
<1>6. PlanKnown(q)
  BY <1>1, <1>2, <1>4, <1>5 DEF Core, PlanKnown, KnownIds
<1>7. DepsClosed(q)
  BY <1>1 DEF Core, DepsClosed
<1>8. HasOutput(q)
  BY <1>1 DEF Core, HasOutput
<1>9. NoCircle(q)
  <2>1. Unrun(q) \subseteq Unrun(r)
    BY <1>1, <1>2, <1>5 DEF Unrun
  <2> QED
    BY <1>1, <2>1 DEF Core, NoCircle
<1>10. QueueOver(q)
  <2>1. Elems(r.completions) \cap Over(r) = {}
    BY <1>3 DEF Core, QueueOver
  <2>2. NoTwice(q.completions)
    BY <1>1, <2>1 DEF Core, QueueOver, Tracked
  <2>3. \A n \in Elems(q.completions) : q.status[n] \in {COMPLETED, FAILED}
    BY <1>1, <1>2, <1>3, <1>4 DEF Core, QueueOver
  <2> QED
    BY <2>2, <2>3 DEF QueueOver
<1>11. Tracked(q)
  BY <1>1, <1>2, <1>3 DEF Tracked
<1>12. HandsBack(r) => HandsBack(q)
  BY <1>1, <1>2, <1>4 DEF HandsBack
<1> QED
  BY <1>4, <1>5, <1>6, <1>7, <1>8, <1>9, <1>10, <1>11, <1>12 DEF Core

(* pop_completion: nothing but the queue changes. *)
LEMMA PopKeeps ==
  ASSUME NEW r \in Rt, Core(r), NEW q, q = pop_completion(r)
  PROVE  /\ q \in Rt /\ Core(q) /\ (Tracked(r) => Tracked(q)) /\ (HandsBack(r) => HandsBack(q))
         /\ q.plan = r.plan /\ q.deps = r.deps /\ q.status = r.status /\ q.outputs = r.outputs
         /\ q.tasks = r.tasks /\ q.done = r.done
<1>1. /\ q \in Rt
      /\ q = [r EXCEPT !.completions = q.completions]
      /\ Elems(q.completions) \subseteq Elems(r.completions)
      /\ NoTwice(r.completions) => NoTwice(q.completions)
  BY PopFields
<1>2. /\ q.plan = r.plan /\ q.deps = r.deps /\ q.status = r.status /\ q.outputs = r.outputs
      /\ q.tasks = r.tasks /\ q.done = r.done /\ q.seq = r.seq /\ q.assist_for = r.assist_for
  BY <1>1 DEF Rt
<1>3. PlanKnown(q) /\ DepsClosed(q) /\ HasOutput(q)
  BY <1>2 DEF Core, PlanKnown, KnownIds, DepsClosed, HasOutput
<1>4. NoCircle(q)
  BY <1>2 DEF Core, NoCircle, Unrun
<1>5. QueueOver(q)
  BY <1>1, <1>2 DEF Core, QueueOver
<1>6. Tracked(r) => Tracked(q)
  BY <1>2 DEF Tracked
<1>7. HandsBack(r) => HandsBack(q)
  BY <1>2 DEF HandsBack
<1> QED
  BY <1>1, <1>2, <1>3, <1>4, <1>5, <1>6, <1>7 DEF Core

(* _dispatch_ready: what runs had all it depends on. *)
LEMMA DispatchKeeps ==
  ASSUME NEW r \in Rt, Core(r), Tracked(r), NEW q, q = _dispatch_ready(r)
  PROVE  /\ Core(q) /\ Tracked(q)
         /\ HandsBack(r) => HandsBack(q)
         /\ \A n \in Elems(q.plan) : Waits(q, n) => ~(q.deps[n] \subseteq q.outputs)
         /\ \A n \in Id : q.status[n] # r.status[n] => n \in Ready(r) /\ q.status[n] = RUNNING
<1> USE DEF PENDING, RUNNING, WAITING_ASSIST, COMPLETED, FAILED
<1>1. /\ q \in Rt
      /\ q.plan = r.plan /\ q.deps = r.deps /\ q.assist_for = r.assist_for
      /\ q.done = r.done /\ q.seq = r.seq /\ q.outputs = r.outputs
      /\ q.completions = r.completions
      /\ Elems(q.tasks) = Elems(r.tasks) \cup Ready(r)
      /\ NoTwice(r.plan) /\ NoTwice(r.tasks) => NoTwice(q.tasks)
      /\ \A n \in Id : q.status[n] = IF n \in Ready(r) THEN RUNNING ELSE r.status[n]
  BY DispatchFields
<1>2. /\ Elems(r.plan) \subseteq Id /\ Elems(r.tasks) \subseteq Id /\ Elems(r.completions) \subseteq Id
      /\ KnownIds(r) \subseteq Id
  BY RtFacts
<1>3. /\ Ready(r) \subseteq Elems(r.plan)
      /\ \A n \in Ready(r) : r.status[n] \in {PENDING, WAITING_ASSIST} /\ r.deps[n] \subseteq r.outputs
  BY DEF Ready, Waits
<1>4. PlanKnown(q)
  BY <1>1, <1>2, <1>3 DEF Core, PlanKnown, KnownIds
<1>5. DepsClosed(q) /\ HasOutput(q)
  BY <1>1, <1>2, <1>3 DEF Core, DepsClosed, HasOutput
<1>6. NoCircle(q)
  <2>1. Unrun(q) \subseteq Unrun(r)
    BY <1>1, <1>2 DEF Unrun
  <2> QED
    BY <1>1, <2>1 DEF Core, NoCircle
<1>7. QueueOver(q)
  BY <1>1, <1>2, <1>3 DEF Core, QueueOver
<1>8. Tracked(q)
  <2>1. NoTwice(q.tasks)
    BY <1>1 DEF Core, PlanKnown, Tracked
  <2>2. \A n \in Id : q.status[n] = RUNNING <=> n \in Elems(q.tasks)
    BY <1>1, <1>3 DEF Tracked
  <2> QED
    BY <2>1, <2>2 DEF Tracked
<1>9. HandsBack(r) => HandsBack(q)
  BY <1>1, <1>2, <1>3 DEF HandsBack
<1>10. \A n \in Elems(q.plan) : Waits(q, n) => ~(q.deps[n] \subseteq q.outputs)
  BY <1>1, <1>2 DEF Ready, Waits
<1> QED
  BY <1>1, <1>4, <1>5, <1>6, <1>7, <1>8, <1>9, <1>10 DEF Core

(* The answers of the planner that validate_plan lets pass. *)
LEMMA PlansFacts ==
  ASSUME NEW r \in Rt, NEW p \in Plans(r)
  PROVE  \E S \in SUBSET KnownIds(r) : p \in [S -> SUBSET S] /\ validate_plan(p)
<1>1. r.seq \in 0..MaxAssists /\ MaxPlan \in Nat
  BY DagAssumption DEF Rt
<1> DEFINE known == PlanId \cup {MaxPlan + i : i \in 1..r.seq}
<1>2. Plans(r) = {x \in UNION {[S -> SUBSET S] : S \in {T \in SUBSET known : Cardinality(T) <= MaxNodes}} :
                    validate_plan(x)}
  BY <1>1 DEF Plans, PlansAfter
<1>3. known \subseteq KnownIds(r)
  BY <1>1 DEF PlanId, KnownIds
<1> HIDE DEF known
<1>4. PICK S \in SUBSET known : p \in [S -> SUBSET S] /\ validate_plan(p)
  BY <1>2
<1> QED
  BY <1>3, <1>4

(* apply_plan: what has begun or ended keeps its status, and a waiting     *)
(* node what it waits for.                                                 *)
LEMMA ApplyKeeps ==
  ASSUME NEW r \in Rt, Core(r), NEW S \in SUBSET KnownIds(r), NEW p \in [S -> SUBSET S],
         validate_plan(p), NEW q, q = apply_plan(r, p)
  PROVE  /\ q \in Rt /\ Core(q)
         /\ Tracked(r) => Tracked(q)
         /\ HandsBack(r) /\ keeps_waiting(r, p) => HandsBack(q)
         /\ \A n \in Id : r.status[n] \notin {"none", PENDING} => q.status[n] = r.status[n]
         /\ \A n \in Id : q.status[n] # r.status[n] => q.status[n] = PENDING
<1> USE DEF PENDING, RUNNING, WAITING_ASSIST, COMPLETED, FAILED
<1>1. /\ Elems(r.plan) \subseteq Id /\ Elems(r.tasks) \subseteq Id /\ Elems(r.completions) \subseteq Id
      /\ KnownIds(r) \subseteq Id
  BY RtFacts
<1>2. S \in SUBSET Id /\ DOMAIN p = S /\ \A n \in S : p[n] \subseteq S
  BY <1>1
<1>3. /\ q \in Rt
      /\ Elems(q.plan) = S /\ NoTwice(q.plan)
      /\ q.tasks = r.tasks /\ q.outputs = r.outputs /\ q.seq = r.seq
      /\ q.completions \in {<<>>, r.completions}
      /\ \A n \in Id :
           /\ q.status[n] = IF n \in S \ Elems(r.plan) THEN readded(r.status[n]) ELSE r.status[n]
           /\ q.assist_for[n] = IF n \in S \ Elems(r.plan) THEN 0 ELSE r.assist_for[n]
           /\ q.deps[n] = IF n \in S THEN merged_deps(r, p, n) ELSE {}
  BY <1>2, ApplyFields
<1>4. \A n \in Id : /\ r.status[n] \notin {"none", PENDING} => q.status[n] = r.status[n]
                    /\ q.status[n] # r.status[n] => q.status[n] = PENDING /\ r.status[n] = "none"
  BY <1>3 DEF readded
<1>5. PlanKnown(q)
  <2>1. Elems(q.plan) \subseteq KnownIds(q)
    BY <1>3 DEF KnownIds
  <2>2. \A n \in Elems(q.plan) : q.status[n] # "none"
    BY <1>2, <1>3 DEF Core, PlanKnown, readded
  <2>3. \A n \in Id \ KnownIds(q) : q.status[n] = "none"
    BY <1>3 DEF Core, PlanKnown, KnownIds
  <2> QED
    BY <1>3, <2>1, <2>2, <2>3 DEF PlanKnown
<1>6. DepsClosed(q)
  <2>1. ASSUME NEW n \in S PROVE q.deps[n] \subseteq S \cup r.outputs
    <3>1. q.deps[n] = merged_deps(r, p, n)
      BY <1>2, <1>3
    <3> QED
      BY <1>2, <3>1 DEF merged_deps
  <2> QED
    BY <1>3, <2>1 DEF DepsClosed
<1>7. HasOutput(q)
  BY <1>3, <1>4 DEF Core, HasOutput
<1>8. NoCircle(q)
  <2>1. ASSUME NEW n \in Unrun(q) PROVE n \in S /\ q.deps[n] = p[n]
    <3>1. n \in S /\ n \in Id /\ q.status[n] = PENDING
      BY <1>2, <1>3 DEF Unrun
    <3>2. ~(n \in Elems(r.plan) /\ r.status[n] = WAITING_ASSIST)
      BY <1>3, <3>1
    <3> QED
      BY <1>3, <3>1, <3>2 DEF merged_deps
  <2>2. ASSUME NEW X \in SUBSET Unrun(q), X # {} PROVE \E n \in X : q.deps[n] \cap X = {}
    <3>1. X \in SUBSET DOMAIN p
      BY <1>2, <2>1
    <3>2. PICK n \in X : p[n] \cap X = {}
      BY <2>2, <3>1 DEF validate_plan
    <3> QED
      BY <2>1, <3>2
  <2> QED
    BY <2>2 DEF NoCircle
<1>9. QueueOver(q)
  <2>1. CASE q.completions = <<>>
    BY <2>1 DEF QueueOver, NoTwice, Elems
  <2>2. CASE q.completions = r.completions
    BY <1>1, <1>4, <2>2 DEF Core, QueueOver
  <2> QED
    BY <1>3, <2>1, <2>2
<1>10. Tracked(r) => Tracked(q)
  BY <1>3, <1>4 DEF Tracked
<1>11. HandsBack(r) /\ keeps_waiting(r, p) => HandsBack(q)
  <2>1. SUFFICES ASSUME HandsBack(r), keeps_waiting(r, p),
                        NEW n \in Id, NEW h \in S, q.assist_for[h] = n, h \notin r.outputs
                 PROVE  q.status[n] = WAITING_ASSIST /\ n \in S /\ h \in q.deps[n]
    BY <1>3 DEF HandsBack
  <2>2. h \in Elems(r.plan) /\ r.assist_for[h] = n
    <3>1. n # 0
      BY DagAssumption DEF Id
    <3> QED
      BY <1>2, <1>3, <2>1, <3>1
  <2>3. r.status[n] = WAITING_ASSIST /\ n \in Elems(r.plan) /\ h \in r.deps[n]
    BY <2>1, <2>2 DEF HandsBack
  <2>4. n \in S
    BY <1>2, <2>1, <2>3 DEF keeps_waiting
  <2>5. q.deps[n] = merged_deps(r, p, n) /\ q.status[n] = WAITING_ASSIST
    BY <1>3, <1>4, <2>3, <2>4
  <2>6. h \in merged_deps(r, p, n)
    BY <1>2, <2>1, <2>3 DEF merged_deps
  <2> QED
    BY <2>4, <2>5, <2>6
<1> QED
  BY <1>3, <1>4, <1>5, <1>6, <1>7, <1>8, <1>9, <1>10, <1>11 DEF Core

(* candidates: a list of agents. *)
LEMMA CandidatesType ==
  ASSUME NEW r \in Rt, NEW n \in Id, NEW list \in Mentions
  PROVE  candidates(r, n, list) \in Seq(Nat)
<1>1. list \in Seq(Nat)
  BY DagAssumption
<1> DEFINE D == 1..Len(list)
           first(i) == \A j \in 1..(i - 1) : list[j] # list[i]
           I == {i \in D : first(i) /\ list[i] # r.agent[n] /\ ~has_assist_for(r, n, list[i])}
           all == [i \in D |-> i]
           idx == Those(all, I)
<1>2. all \in Seq(D) /\ \A i \in D : list[i] \in Nat
  BY <1>1
<1>3. candidates(r, n, list) = [i \in 1..Len(idx) |-> list[idx[i]]]
  BY DEF candidates
<1> HIDE DEF all, I
<1>4. idx \in Seq(D)
  BY <1>2, ThoseFacts
<1> HIDE DEF idx, D
<1>5. Len(idx) \in Nat /\ \A i \in 1..Len(idx) : idx[i] \in D
  BY <1>4
<1>6. \A i \in 1..Len(idx) : list[idx[i]] \in Nat
  BY <1>2, <1>5
<1> QED
  BY <1>3, <1>5, <1>6

(* add_assists: the node that asked waits for its assists. *)
LEMMA AssistKeeps ==
  ASSUME NEW r \in Rt, Core(r), NEW n \in Id, Judged(r, n), NEW who \in Seq(Nat),
         Fits(r, who), NEW q, q = add_assists(r, n, who)
  PROVE  /\ q \in Rt /\ Core(q)
         /\ Tracked(r) => Tracked(q)
         /\ HandsBack(r) => HandsBack(q)
         /\ \A m \in Id : q.status[m] # r.status[m] =>
              \/ r.status[m] = "none" /\ q.status[m] = PENDING
              \/ m = n /\ q.status[m] = WAITING_ASSIST
<1> DEFINE k   == Len(who)
           new == NewIds(r, k)
<1>1. /\ Elems(r.plan) \subseteq Id /\ Elems(r.tasks) \subseteq Id /\ Elems(r.completions) \subseteq Id
      /\ KnownIds(r) \subseteq Id
  BY RtFacts
<1>2. k \in Nat
  BY LenProperties
<1>3. n \in Elems(r.plan) /\ n \in KnownIds(r) /\ r.status[n] = COMPLETED /\ n \notin Elems(r.completions)
  BY DEF Judged, Core, PlanKnown
<1>4. /\ q \in Rt
      /\ Elems(r.plan) \subseteq KnownIds(r) =>
           Elems(q.plan) = Elems(r.plan) \cup new /\ (NoTwice(r.plan) => NoTwice(q.plan))
      /\ q.seq = r.seq + k
      /\ q.tasks = r.tasks /\ q.outputs = r.outputs /\ q.completions = r.completions
      /\ \A m \in Id :
           /\ q.status[m] = IF m \in new THEN PENDING ELSE IF m = n THEN WAITING_ASSIST ELSE r.status[m]
           /\ q.deps[m] = IF m \in new THEN {} ELSE IF m = n THEN r.deps[n] \cup new ELSE r.deps[m]
           /\ q.assist_for[m] = IF m \in new THEN n ELSE r.assist_for[m]
  <2>1. q \in Rt /\ Assisted(r, n, who, q)
    BY <1>3, AssistFields
  <2> QED
    BY <2>1 DEF Assisted
<1> USE DEF PENDING, RUNNING, WAITING_ASSIST, COMPLETED, FAILED
<1>5. /\ new \subseteq Id \ KnownIds(r)
      /\ 1..(MaxPlan + r.seq + k) = KnownIds(r) \cup new
  BY <1>2, NewIdsFacts DEF Fits
<1>6. KnownIds(q) = KnownIds(r) \cup new
  <2>1. MaxPlan + (r.seq + k) = MaxPlan + r.seq + k
    <3>1. r.seq \in Nat /\ MaxPlan \in Nat
      BY DagAssumption DEF Rt
    <3> HIDE DEF k
    <3> QED
      BY <1>2, <3>1
  <2> QED
    BY <1>4, <1>5, <2>1 DEF KnownIds
<1> HIDE DEF new, k
<1>7. \A m \in new : r.status[m] = "none"
  BY <1>5 DEF Core, PlanKnown
<1>8. Elems(q.plan) = Elems(r.plan) \cup new /\ NoTwice(q.plan)
  BY <1>4 DEF Core, PlanKnown
<1>9. PlanKnown(q)
  <2>1. Elems(q.plan) \subseteq KnownIds(q)
    BY <1>6, <1>8 DEF Core, PlanKnown
  <2>2. \A m \in Elems(q.plan) : q.status[m] # "none"
    BY <1>1, <1>4, <1>5, <1>8 DEF Core, PlanKnown
  <2>3. \A m \in Id \ KnownIds(q) : q.status[m] = "none"
    BY <1>3, <1>4, <1>6 DEF Core, PlanKnown
  <2> QED
    BY <1>8, <2>1, <2>2, <2>3 DEF PlanKnown
<1>10. DepsClosed(q)
  BY <1>1, <1>3, <1>4, <1>5, <1>8 DEF Core, DepsClosed
<1>11. HasOutput(q)
  BY <1>3, <1>4 DEF Core, HasOutput
<1>12. NoCircle(q)
  <2>1. Unrun(q) \subseteq Unrun(r) \cup new
    BY <1>1, <1>4, <1>5, <1>8 DEF Unrun
  <2>2. SUFFICES ASSUME NEW X \in SUBSET Unrun(q), X # {} PROVE \E m \in X : q.deps[m] \cap X = {}
    BY DEF NoCircle
  <2>3. CASE X \cap new # {}
    BY <1>4, <1>5, <2>3
  <2>4. CASE X \cap new = {}
    <3>1. X \in SUBSET Unrun(r)
      BY <2>1, <2>4
    <3>2. PICK m \in X : r.deps[m] \cap X = {}
      BY <2>2, <3>1 DEF Core, NoCircle
    <3>3. m \in Id /\ m \notin new /\ m # n
      BY <1>1, <1>3, <2>4, <3>1 DEF Unrun
    <3> QED
      BY <1>4, <3>2, <3>3
  <2> QED
    BY <2>3, <2>4
<1>13. QueueOver(q)
  BY <1>1, <1>3, <1>4, <1>7 DEF Core, QueueOver
<1>14. Tracked(r) => Tracked(q)
  BY <1>3, <1>4, <1>7 DEF Tracked
<1>15. HandsBack(r) => HandsBack(q)
  <2>1. SUFFICES ASSUME HandsBack(r), NEW m \in Id, NEW h \in Elems(q.plan),
                        q.assist_for[h] = m, h \notin r.outputs
                 PROVE  q.status[m] = WAITING_ASSIST /\ m \in Elems(q.plan) /\ h \in q.deps[m]
    BY <1>4 DEF HandsBack
  <2>2. CASE h \in new
    <3>1. m = n /\ m \notin new
      BY <1>3, <1>4, <1>5, <2>1, <2>2
    <3> QED
      BY <1>3, <1>4, <1>8, <2>2, <3>1
  <2>3. CASE h \notin new
    <3>1. h \in Elems(r.plan) /\ r.assist_for[h] = m
      BY <1>1, <1>4, <1>8, <2>1, <2>3
    <3>2. r.status[m] = WAITING_ASSIST /\ m \in Elems(r.plan) /\ h \in r.deps[m]
      BY <2>1, <3>1 DEF HandsBack
    <3>3. m # n /\ m \notin new
      BY <1>3, <1>7, <3>2
    <3> QED
      BY <1>4, <1>8, <3>2, <3>3
  <2> QED
    BY <2>2, <2>3
<1>16. \A m \in Id : q.status[m] # r.status[m] =>
         \/ r.status[m] = "none" /\ q.status[m] = PENDING
         \/ m = n /\ q.status[m] = WAITING_ASSIST
  BY <1>4, <1>7
<1> QED
  BY <1>4, <1>9, <1>10, <1>11, <1>12, <1>13, <1>14, <1>15, <1>16 DEF Core

(* shutdown: only the tasks go. *)
LEMMA ShutdownKeeps ==
  ASSUME NEW r \in Rt, Core(r), NEW q, q = shutdown(r)
  PROVE  q \in Rt /\ Core(q) /\ (HandsBack(r) => HandsBack(q)) /\ q.status = r.status
<1> DEFINE t == <<>>
           u == [n \in Id |-> "none"]
<1>1. t \in Seq(Id) /\ u \in [Id -> {"none", "ok", "error"}]
  OBVIOUS
<1>2. q = [r EXCEPT !.tasks = t, !.result = u]
  BY DEF shutdown
<1> HIDE DEF t, u
<1>3. q \in Rt
  BY <1>1, <1>2 DEF Rt
<1>4. /\ q.plan = r.plan /\ q.deps = r.deps /\ q.status = r.status /\ q.outputs = r.outputs
      /\ q.completions = r.completions /\ q.seq = r.seq /\ q.assist_for = r.assist_for
  BY <1>2 DEF Rt
<1>5. PlanKnown(q) /\ DepsClosed(q) /\ HasOutput(q) /\ QueueOver(q)
  BY <1>4 DEF Core, PlanKnown, KnownIds, DepsClosed, HasOutput, QueueOver
<1>6. NoCircle(q)
  BY <1>4 DEF Core, NoCircle, Unrun
<1>7. HandsBack(r) => HandsBack(q)
  BY <1>4 DEF HandsBack
<1> QED
  BY <1>3, <1>4, <1>5, <1>6, <1>7 DEF Core

(***************************************************************************)
(* The steps of the workflow.                                              *)
(***************************************************************************)
(* What a step may do to a node that was delivered, and to one that waits. *)
Reopens ==
  \A n \in Id : rt.status[n] = COMPLETED /\ rt'.status[n] # COMPLETED
    => at = "helper" /\ cur = n /\ rt'.status[n] = WAITING_ASSIST

Resumes ==
  \A n \in Id : obeys /\ rt.status[n] = WAITING_ASSIST /\ rt'.status[n] = RUNNING =>
    \A h \in Elems(rt.plan) : rt.assist_for[h] = n => h \in rt'.outputs

LEMMA InitInv == Init => IInv
<1> SUFFICES ASSUME Init PROVE IInv
  OBVIOUS
<1> USE DEF PENDING, RUNNING, WAITING_ASSIST, COMPLETED, FAILED
<1>1. MaxPlan \in Nat /\ MaxAssists \in Nat /\ AgentOf \in [PlanId -> Nat]
  BY DagAssumption
<1>2. /\ rt.plan = <<>> /\ rt.deps = [n \in Id |-> {}] /\ rt.assist_for = [n \in Id |-> 0]
      /\ rt.agent = [n \in Id |-> IF n \in PlanId THEN AgentOf[n] ELSE 0]
      /\ rt.status = [n \in Id |-> "none"] /\ rt.outputs = {} /\ rt.tasks = <<>>
      /\ rt.result = [n \in Id |-> "none"] /\ rt.completions = <<>> /\ rt.done = FALSE
      /\ rt.seq = 0 /\ rt.depth = [n \in Id |-> 0]
  BY DEF Init
<1>3. Elems(rt.plan) = {} /\ Elems(rt.tasks) = {} /\ Elems(rt.completions) = {}
  BY <1>2 DEF Elems
<1>4. NoTwice(rt.plan) /\ NoTwice(rt.tasks) /\ NoTwice(rt.completions)
  BY <1>2 DEF NoTwice
<1>5. rt \in Rt
  <2>1. [n \in Id |-> IF n \in PlanId THEN AgentOf[n] ELSE 0] \in [Id -> Nat]
    BY <1>1
  <2>2. <<>> \in Seq(Id)
    OBVIOUS
  <2>3. 0 \in 0..MaxAssists /\ [n \in Id |-> 0] \in [Id -> Nat] /\ [n \in Id |-> 0] \in [Id -> Id \cup {0}]
    BY <1>1
  <2>4. [n \in Id |-> "none"] \in [Id -> DagStatus] /\ [n \in Id |-> "none"] \in [Id -> {"none", "ok", "error"}]
    BY DEF DagStatus
  <2> QED
    BY <2>1, <2>2, <2>3, <2>4 DEF Init, Rt
<1>6. Core(rt)
  BY <1>2, <1>3, <1>4 DEF Core, PlanKnown, DepsClosed, HasOutput, NoCircle, Unrun, QueueOver
<1>7. Tracked(rt) /\ HandsBack(rt)
  BY <1>2, <1>3, <1>4 DEF Tracked, HandsBack
<1>8. TypeOK /\ at = "planner"
  BY <1>5 DEF Init, TypeOK, Places
<1> QED
  BY <1>6, <1>7, <1>8 DEF IInv

(* The end of a remote task only shows in its result. *)
LEMMA TaskEndsInv ==
  ASSUME IInv, NEW n \in Id, NEW how \in {"ok", "error"}, TaskEnds(n, how), UNCHANGED obeys
  PROVE  IInv' /\ Reopens /\ Resumes
<1>1. rt \in Rt /\ rt' = [rt EXCEPT !.result[n] = how] /\ UNCHANGED <<at, cur>>
  BY DEF IInv, TypeOK, TaskEnds
<1> DEFINE v == [rt.result EXCEPT ![n] = how]
<1>2. v \in [Id -> {"none", "ok", "error"}]
  BY <1>1 DEF Rt
<1>3. rt' = [rt EXCEPT !.result = v]
  BY <1>1 DEF Rt
<1> HIDE DEF v
<1>4. rt' \in Rt
  BY <1>1, <1>2, <1>3 DEF Rt
<1>5. /\ rt'.plan = rt.plan /\ rt'.deps = rt.deps /\ rt'.status = rt.status /\ rt'.outputs = rt.outputs
      /\ rt'.completions = rt.completions /\ rt'.seq = rt.seq /\ rt'.assist_for = rt.assist_for
      /\ rt'.tasks = rt.tasks /\ rt'.done = rt.done
  BY <1>1, <1>3 DEF Rt
<1>6. Core(rt')
  BY <1>5 DEF IInv, Core, PlanKnown, KnownIds, DepsClosed, HasOutput, QueueOver, NoCircle, Unrun
<1>7. (Tracked(rt) => Tracked(rt')) /\ (HandsBack(rt) => HandsBack(rt'))
  BY <1>5 DEF Tracked, HandsBack
<1>8. (NoneReady(rt) => NoneReady(rt')) /\ (Judged(rt, cur) => Judged(rt', cur))
  BY <1>5 DEF NoneReady, Judged, Waits
<1>9. TypeOK'
  BY <1>1, <1>4 DEF IInv, TypeOK
<1>10. IInv'
  BY <1>1, <1>6, <1>7, <1>8, <1>9 DEF IInv
<1>11. Reopens /\ Resumes
  BY <1>5 DEF Reopens, Resumes, WAITING_ASSIST, RUNNING
<1> QED
  BY <1>10, <1>11

(* What the executor has once the ended tasks are collected. *)
LEMMA CollectStep ==
  ASSUME IInv, at \notin Ended
  PROVE  LET r == _collect_done(rt)
         IN  /\ r \in Rt /\ Core(r) /\ Tracked(r) /\ (obeys => HandsBack(r))
             /\ r.plan = rt.plan /\ r.deps = rt.deps /\ r.assist_for = rt.assist_for /\ r.done = rt.done
             /\ \A n \in Id : rt.status[n] # RUNNING => r.status[n] = rt.status[n]
             /\ \A n \in Id : r.status[n] # rt.status[n] => r.status[n] \in {COMPLETED, FAILED}
<1> DEFINE r == _collect_done(rt)
<1>1. rt \in Rt /\ Core(rt) /\ Tracked(rt) /\ (obeys => HandsBack(rt))
  BY DEF IInv, TypeOK
<1>2. r = _collect_done(rt)
  OBVIOUS
<1> HIDE DEF r
<1>3. /\ r \in Rt
      /\ r.plan = rt.plan /\ r.deps = rt.deps /\ r.assist_for = rt.assist_for /\ r.done = rt.done
  BY <1>1, <1>2, CollectFields
<1>4. /\ Core(r) /\ Tracked(r)
      /\ HandsBack(rt) => HandsBack(r)
      /\ \A n \in Id : rt.status[n] # RUNNING => r.status[n] = rt.status[n]
      /\ \A n \in Id : r.status[n] # rt.status[n] => r.status[n] \in {COMPLETED, FAILED}
  BY <1>1, <1>2, CollectKeeps
<1> QED
  BY <1>1, <1>3, <1>4 DEF r

(* A step that leaves the statuses as they were collected, at a place      *)
(* where nothing is waited for or judged.                                  *)
LEMMA SettledStep ==
  ASSUME IInv, at \notin Ended, UNCHANGED <<cur, obeys>>,
         rt' \in Rt, Core(rt'), obeys => HandsBack(rt'),
         at' \in {"planner", "executor", "drain"} \cup Ended, at' \notin Ended => Tracked(rt'),
         \A n \in Id : rt.status[n] # RUNNING => rt'.status[n] = rt.status[n]
  PROVE  IInv' /\ Reopens /\ Resumes
<1> USE DEF RUNNING, WAITING_ASSIST, COMPLETED
<1>1. TypeOK'
  BY DEF IInv, TypeOK, Places
<1>2. at' # "wait" /\ at' # "helper"
  BY DEF Ended
<1>3. IInv'
  BY <1>1, <1>2 DEF IInv
<1>4. Reopens /\ Resumes
  BY DEF Reopens, Resumes
<1> QED
  BY <1>3, <1>4

LEMMA AbortsInv ==
  ASSUME IInv, at \notin Ended, Aborts(_collect_done(rt)), UNCHANGED obeys
  PROVE  IInv' /\ Reopens /\ Resumes
<1> DEFINE r == _collect_done(rt)
<1>1. /\ r \in Rt /\ Core(r) /\ (obeys => HandsBack(r))
      /\ \A n \in Id : rt.status[n] # RUNNING => r.status[n] = rt.status[n]
  BY CollectStep
<1>2. rt' = shutdown(r) /\ at' = "failed" /\ UNCHANGED cur
  BY DEF Aborts
<1> HIDE DEF r
<1>3. rt' \in Rt /\ Core(rt') /\ (HandsBack(r) => HandsBack(rt')) /\ rt'.status = r.status
  BY <1>1, <1>2, ShutdownKeeps
<1>4. /\ obeys => HandsBack(rt')
      /\ \A n \in Id : rt.status[n] # RUNNING => rt'.status[n] = rt.status[n]
      /\ at' \in Ended
  BY <1>1, <1>2, <1>3 DEF Ended
<1> QED
  BY <1>2, <1>3, <1>4, SettledStep

LEMMA StallsInv ==
  ASSUME IInv, at \notin Ended, Stalls(_collect_done(rt)), UNCHANGED obeys
  PROVE  IInv' /\ Reopens /\ Resumes
<1> DEFINE r == _collect_done(rt)
           q == pop_completion(r)
<1>1. /\ r \in Rt /\ Core(r) /\ (obeys => HandsBack(r))
      /\ \A n \in Id : rt.status[n] # RUNNING => r.status[n] = rt.status[n]
  BY CollectStep
<1>2. rt' = shutdown(q) /\ at' = "stalled" /\ UNCHANGED cur
  BY DEF Stalls
<1> HIDE DEF r
<1>3. q \in Rt /\ Core(q) /\ (HandsBack(r) => HandsBack(q)) /\ q.status = r.status
  BY <1>1, PopKeeps
<1> HIDE DEF q
<1>4. rt' \in Rt /\ Core(rt') /\ (HandsBack(q) => HandsBack(rt')) /\ rt'.status = q.status
  BY <1>2, <1>3, ShutdownKeeps
<1>5. /\ obeys => HandsBack(rt')
      /\ \A n \in Id : rt.status[n] # RUNNING => rt'.status[n] = rt.status[n]
      /\ at' \in Ended
  BY <1>1, <1>2, <1>3, <1>4 DEF Ended
<1> QED
  BY <1>2, <1>4, <1>5, SettledStep

(* The node that goes to the helper has just been delivered. *)
LEMMA JudgesInv ==
  ASSUME IInv, at \notin Ended, Judges(_collect_done(rt)), UNCHANGED obeys
  PROVE  IInv' /\ Reopens /\ Resumes
<1> USE DEF RUNNING, WAITING_ASSIST, COMPLETED, FAILED
<1> DEFINE r == _collect_done(rt)
           n == Head(judgables(r))
<1>1. /\ r \in Rt /\ Core(r) /\ Tracked(r) /\ (obeys => HandsBack(r))
      /\ \A m \in Id : rt.status[m] # RUNNING => r.status[m] = rt.status[m]
  BY CollectStep
<1>2. /\ ~failed_completion(r) /\ judgables(r) # <<>>
      /\ rt' = pop_completion(r) /\ cur' = n /\ at' = "helper"
  BY DEF Judges
<1> HIDE DEF r
<1>3. /\ rt' \in Rt /\ Core(rt') /\ (Tracked(r) => Tracked(rt')) /\ (HandsBack(r) => HandsBack(rt'))
      /\ rt'.plan = r.plan /\ rt'.status = r.status
  BY <1>1, <1>2, PopKeeps
<1>4. n \in Elems(judgables(r)) /\ n \notin Elems(rt'.completions)
  <2>1. NoTwice(r.completions)
    BY <1>1 DEF Core, QueueOver
  <2> QED
    BY <1>1, <1>2, <2>1, PopFields
<1>5. n \in Elems(r.completions) /\ n \in Elems(r.plan)
  BY <1>1, <1>4, JudgablesFacts DEF _judgable, in_plan
<1>6. r.status[n] = COMPLETED
  BY <1>1, <1>2, <1>4, <1>5 DEF failed_completion, Core, QueueOver
<1>7. Judged(rt', cur')
  BY <1>2, <1>3, <1>4, <1>5, <1>6 DEF Judged
<1>8. n \in Id
  BY <1>1, <1>5, RtFacts
<1>9. TypeOK'
  BY <1>2, <1>3, <1>8 DEF IInv, TypeOK, Places
<1>10. IInv'
  BY <1>1, <1>2, <1>3, <1>7, <1>9 DEF IInv, Ended
<1>11. Reopens /\ Resumes
  BY <1>1, <1>3 DEF Reopens, Resumes
<1> QED
  BY <1>10, <1>11

(* What is dispatched had the output of everything it depends on. *)
LEMMA DispatchesInv ==
  ASSUME IInv, at \notin Ended, Dispatches(_collect_done(rt)), UNCHANGED obeys
  PROVE  IInv' /\ Reopens /\ Resumes
<1> USE DEF PENDING, RUNNING, WAITING_ASSIST, COMPLETED, FAILED
<1> DEFINE r == _collect_done(rt)
           q == pop_completion(r)
<1>1. /\ r \in Rt /\ Core(r) /\ Tracked(r) /\ (obeys => HandsBack(r))
      /\ r.plan = rt.plan /\ r.deps = rt.deps /\ r.assist_for = rt.assist_for /\ r.done = rt.done
      /\ \A m \in Id : rt.status[m] # RUNNING => r.status[m] = rt.status[m]
  BY CollectStep
<1>2. /\ ~r.done /\ rt' = _dispatch_ready(q)
      /\ at' = IF has_work(rt') THEN "wait" ELSE "done"
      /\ UNCHANGED cur
  BY DEF Dispatches
<1> HIDE DEF r
<1>3. /\ q \in Rt /\ Core(q) /\ (Tracked(r) => Tracked(q)) /\ (HandsBack(r) => HandsBack(q))
      /\ q.plan = r.plan /\ q.deps = r.deps /\ q.status = r.status /\ q.outputs = r.outputs
      /\ q.tasks = r.tasks /\ q.done = r.done
  BY <1>1, PopKeeps
<1> HIDE DEF q
<1>4. /\ rt' \in Rt /\ rt'.plan = q.plan /\ rt'.deps = q.deps /\ rt'.outputs = q.outputs
      /\ rt'.done = q.done
  BY <1>2, <1>3, DispatchFields
<1>5. /\ Core(rt') /\ Tracked(rt')
      /\ HandsBack(q) => HandsBack(rt')
      /\ \A n \in Elems(rt'.plan) : Waits(rt', n) => ~(rt'.deps[n] \subseteq rt'.outputs)
      /\ \A n \in Id : rt'.status[n] # q.status[n] => n \in Ready(q) /\ rt'.status[n] = RUNNING
  BY <1>1, <1>2, <1>3, DispatchKeeps
<1>6. at' = "wait" => NoneReady(rt')
  <2>1. SUFFICES ASSUME at' = "wait" PROVE NoneReady(rt')
    OBVIOUS
  <2>2. has_work(rt')
    BY <1>2, <2>1
  <2> QED
    BY <1>2, <1>3, <1>4, <1>5, <2>2 DEF NoneReady, has_work
<1>7. at' \in {"wait", "done"} /\ at' # "helper"
  BY <1>2
<1>8. TypeOK'
  BY <1>2, <1>4, <1>7 DEF IInv, TypeOK, Places, Ended
<1>9. IInv'
  BY <1>1, <1>3, <1>5, <1>6, <1>7, <1>8 DEF IInv
<1>10. Reopens
  <2>1. SUFFICES ASSUME NEW n \in Id, rt.status[n] = COMPLETED PROVE rt'.status[n] = COMPLETED
    BY DEF Reopens
  <2>2. q.status[n] = COMPLETED
    BY <1>1, <1>3, <2>1
  <2>3. n \notin Ready(q)
    BY <2>2 DEF Ready, Waits
  <2> QED
    BY <1>5, <2>2, <2>3
<1>11. Resumes
  <2>1. SUFFICES ASSUME NEW n \in Id, obeys, rt.status[n] = WAITING_ASSIST, rt'.status[n] = RUNNING,
                        NEW h \in Elems(rt.plan), rt.assist_for[h] = n
                 PROVE  h \in rt'.outputs
    BY DEF Resumes
  <2>2. q.status[n] = WAITING_ASSIST /\ n \in Ready(q)
    BY <1>1, <1>3, <1>5, <2>1
  <2>3. q.deps[n] \subseteq q.outputs
    BY <2>2 DEF Ready
  <2>4. h \in r.outputs \/ h \in r.deps[n]
    BY <1>1, <2>1 DEF HandsBack
  <2> QED
    BY <1>3, <1>4, <2>3, <2>4
<1> QED
  BY <1>9, <1>10, <1>11

(* A new plan: nothing that has begun or ended starts anew. *)
LEMMA PlannerPlansInv ==
  ASSUME IInv, NEW p \in Plans(rt), PlannerPlans(p), UNCHANGED obeys
  PROVE  IInv' /\ Reopens /\ Resumes
<1> USE DEF PENDING, RUNNING, WAITING_ASSIST, COMPLETED, FAILED
<1>1. /\ at = "planner" /\ (obeys => keeps_waiting(rt, p))
      /\ rt' = apply_plan(rt, p) /\ at' = "executor" /\ UNCHANGED cur
  BY DEF PlannerPlans
<1>2. rt \in Rt /\ Core(rt) /\ Tracked(rt) /\ (obeys => HandsBack(rt))
  BY <1>1 DEF IInv, TypeOK, Ended
<1>3. PICK S \in SUBSET KnownIds(rt) : p \in [S -> SUBSET S] /\ validate_plan(p)
  BY <1>2, PlansFacts
<1>4. /\ rt' \in Rt /\ Core(rt')
      /\ Tracked(rt) => Tracked(rt')
      /\ HandsBack(rt) /\ keeps_waiting(rt, p) => HandsBack(rt')
      /\ \A n \in Id : rt.status[n] \notin {"none", PENDING} => rt'.status[n] = rt.status[n]
  BY <1>1, <1>2, <1>3, ApplyKeeps
<1>5. TypeOK'
  BY <1>1, <1>4 DEF IInv, TypeOK, Places
<1>6. IInv'
  BY <1>1, <1>2, <1>4, <1>5 DEF IInv
<1>7. Reopens /\ Resumes
  BY <1>4 DEF Reopens, Resumes
<1> QED
  BY <1>6, <1>7

(* The planner fails or the client cancels: every task is cancelled. *)
LEMMA ShutdownInv ==
  ASSUME IInv, PlannerFails \/ Cancel, UNCHANGED obeys
  PROVE  IInv' /\ Reopens /\ Resumes
<1>1. at \notin Ended /\ at' \in Ended /\ rt' = shutdown(rt) /\ UNCHANGED cur
  BY DEF PlannerFails, Cancel, Ended
<1>2. rt \in Rt /\ Core(rt) /\ (obeys => HandsBack(rt))
  BY DEF IInv, TypeOK
<1>3. rt' \in Rt /\ Core(rt') /\ (HandsBack(rt) => HandsBack(rt')) /\ rt'.status = rt.status
  BY <1>1, <1>2, ShutdownKeeps
<1>4. obeys => HandsBack(rt')
  BY <1>2, <1>3
<1> QED
  BY <1>1, <1>3, <1>4, SettledStep

(* After an empty plan the tasks are collected and not judged. *)
LEMMA DrainsInv ==
  ASSUME IInv, at \notin Ended, rt' = _collect_done(rt), at' \in {"drain", "done"},
         UNCHANGED <<cur, obeys>>
  PROVE  IInv' /\ Reopens /\ Resumes
<1>1. /\ rt' \in Rt /\ Core(rt') /\ Tracked(rt') /\ (obeys => HandsBack(rt'))
      /\ \A n \in Id : rt.status[n] # RUNNING => rt'.status[n] = rt.status[n]
  BY CollectStep
<1>2. at' \in {"planner", "executor", "drain"} \cup Ended
  BY DEF Ended
<1> QED
  BY <1>1, <1>2, SettledStep

(* The helper reopens the node that it judges, and no other. *)
LEMMA HelperInv ==
  ASSUME IInv, NEW list \in Mentions, Helper(list), UNCHANGED obeys
  PROVE  IInv' /\ Reopens /\ Resumes
<1> USE DEF PENDING, RUNNING, WAITING_ASSIST, COMPLETED, FAILED
<1> DEFINE who == candidates(rt, cur, list)
<1>1. /\ at = "helper" /\ cur' = 0
      /\ rt.seq + Len(who) <= IF obeys THEN MaxAssists ELSE FreeAssists
      /\ \/ rt' = add_assists(rt, cur, who) /\ at' = "executor"
         \/ at' = "planner" /\ UNCHANGED rt
  BY DEF Helper
<1>2. rt \in Rt /\ Core(rt) /\ Tracked(rt) /\ (obeys => HandsBack(rt)) /\ Judged(rt, cur)
  BY <1>1 DEF IInv, TypeOK, Ended
<1>3. cur \in Id
  BY <1>2, RtFacts DEF Judged
<1>4. who \in Seq(Nat)
  BY <1>2, <1>3, CandidatesType
<1> HIDE DEF who
<1>5. CASE rt' = add_assists(rt, cur, who) /\ at' = "executor"
  <2>1. Fits(rt, who)
    <3>1. MaxAssists \in Nat /\ FreeAssists \in 0..MaxAssists /\ rt.seq \in Nat /\ Len(who) \in Nat
      BY <1>2, <1>4, DagAssumption DEF Rt
    <3> QED
      BY <1>1, <3>1 DEF Fits
  <2>2. /\ rt' \in Rt /\ Core(rt')
        /\ Tracked(rt) => Tracked(rt')
        /\ HandsBack(rt) => HandsBack(rt')
        /\ \A m \in Id : rt'.status[m] # rt.status[m] =>
             \/ rt.status[m] = "none" /\ rt'.status[m] = PENDING
             \/ m = cur /\ rt'.status[m] = WAITING_ASSIST
    BY <1>2, <1>3, <1>4, <1>5, <2>1, AssistKeeps
  <2>3. TypeOK'
    BY <1>1, <1>5, <2>2 DEF IInv, TypeOK, Places
  <2>4. IInv'
    BY <1>2, <1>5, <2>2, <2>3 DEF IInv
  <2>5. Reopens /\ Resumes
    BY <1>1, <2>2 DEF Reopens, Resumes
  <2> QED
    BY <2>4, <2>5
<1>6. CASE at' = "planner" /\ UNCHANGED rt
  <2>1. TypeOK'
    BY <1>1, <1>2, <1>6 DEF IInv, TypeOK, Places
  <2>2. IInv'
    BY <1>2, <1>6, <2>1 DEF IInv
  <2> QED
    BY <1>6, <2>2 DEF Reopens, Resumes
<1> QED
  BY <1>1, <1>5, <1>6

(* Every step keeps the invariant, reopens only the node that asked for    *)
(* help, and resumes a waiting node only with its assists delivered.       *)
LEMMA StepInv == IInv /\ [Next]_vars => IInv' /\ Reopens /\ Resumes
<1> SUFFICES ASSUME IInv, [Next]_vars PROVE IInv' /\ Reopens /\ Resumes
  OBVIOUS
<1>1. CASE UNCHANGED vars
  <2>1. UNCHANGED <<rt, at, cur, obeys>>
    BY <1>1 DEF vars
  <2>2. IInv'
    BY <2>1 DEF IInv, TypeOK
  <2> QED
    BY <2>1, <2>2 DEF Reopens, Resumes, WAITING_ASSIST, RUNNING
<1>2. CASE PlannerSilent /\ UNCHANGED obeys
  <2>1. at = "planner" /\ at' = "executor" /\ UNCHANGED <<rt, cur, obeys>>
    BY <1>2 DEF PlannerSilent
  <2>2. IInv'
    BY <2>1 DEF IInv, TypeOK, Places, Ended
  <2> QED
    BY <2>1, <2>2 DEF Reopens, Resumes, WAITING_ASSIST, RUNNING
<1>3. CASE (PlannerFails \/ Cancel) /\ UNCHANGED obeys
  BY <1>3, ShutdownInv
<1>4. CASE Executor /\ UNCHANGED obeys
  <2>1. /\ at = "executor" /\ at \notin Ended
        /\ \/ rt' = _collect_done(rt) /\ at' = "drain" /\ UNCHANGED cur
           \/ Aborts(_collect_done(rt)) \/ Judges(_collect_done(rt)) \/ Dispatches(_collect_done(rt))
    BY <1>4 DEF Executor, Ended
  <2> QED
    BY <1>4, <2>1, DrainsInv, AbortsInv, JudgesInv, DispatchesInv
<1>5. CASE ExecutorWaits /\ UNCHANGED obeys
  <2>1. /\ at = "wait" /\ at \notin Ended
        /\ Aborts(_collect_done(rt)) \/ Judges(_collect_done(rt)) \/ Stalls(_collect_done(rt))
    BY <1>5 DEF ExecutorWaits, Ended
  <2> QED
    BY <1>5, <2>1, AbortsInv, JudgesInv, StallsInv
<1>6. CASE ExecutorDrains /\ UNCHANGED obeys
  <2>1. at \notin Ended /\ rt' = _collect_done(rt) /\ at' \in {"drain", "done"} /\ UNCHANGED cur
    BY <1>6 DEF ExecutorDrains, Ended
  <2> QED
    BY <1>6, <2>1, DrainsInv
<1>7. CASE (\E p \in Plans(rt) : PlannerPlans(p)) /\ UNCHANGED obeys
  BY <1>7, PlannerPlansInv
<1>8. CASE (\E list \in Mentions : Helper(list)) /\ UNCHANGED obeys
  BY <1>8, HelperInv
<1>9. CASE (\E n \in Id, how \in {"ok", "error"} : TaskEnds(n, how)) /\ UNCHANGED obeys
  BY <1>9, TaskEndsInv
<1> QED
  BY <1>1, <1>2, <1>3, <1>4, <1>5, <1>6, <1>7, <1>8, <1>9 DEF Next, Workflow

(* The executor finds no progress only over a task of a dropped node, or   *)
(* with a failed node in the plan: among the nodes that wait, one waits    *)
(* for none that has still to run.                                         *)
LEMMA StallStep ==
  ASSUME IInv, at = "wait", Awaited, Stalls(_collect_done(rt))
  PROVE  \/ \E n \in Elems(rt.tasks) : rt.result[n] # "none" /\ ~in_plan(rt, n)
         \/ \E n \in Elems(rt.plan) : rt.status[n] = FAILED
<1> USE DEF PENDING, RUNNING, WAITING_ASSIST, COMPLETED, FAILED
<1> DEFINE r == _collect_done(rt)
<1>1. rt \in Rt /\ Core(rt) /\ Tracked(rt) /\ NoneReady(rt)
  BY DEF IInv, TypeOK, Ended
<1>2. Elems(rt.plan) \subseteq Id /\ rt.status \in [Id -> DagStatus] /\ rt.tasks \in Seq(Id)
  BY <1>1, RtFacts DEF Rt
<1>3. judgables(r) = <<>>
  BY DEF Stalls
<1>4. /\ r \in Rt /\ r.plan = rt.plan /\ r.done = rt.done
      /\ Elems(r.completions) = Elems(rt.completions) \cup {n \in Over(rt) : _judgable(rt, n)}
  BY <1>1, CollectFields
<1> HIDE DEF r
<1>5. CASE rt.tasks # <<>>
  <2>1. PICK n \in Elems(rt.tasks) : rt.result[n] # "none"
    BY <1>5 DEF Awaited
  <2>2. CASE in_plan(rt, n)
    <3>1. _judgable(rt, n) /\ _judgable(r, n)
      BY <1>1, <1>4, <2>2 DEF _judgable, in_plan, NoneReady
    <3>2. n \in Elems(r.completions)
      BY <1>4, <2>1, <3>1 DEF Over
    <3> QED
      BY <1>3, <1>4, <3>1, <3>2, JudgablesFacts
  <2> QED
    BY <2>1, <2>2
<1>6. CASE rt.tasks = <<>>
  <2>1. Elems(rt.tasks) = {}
    BY <1>6 DEF Elems
  <2>2. \A n \in Id : rt.status[n] # RUNNING
    BY <1>1, <2>1 DEF Tracked
  <2>3. ASSUME NEW n \in Elems(rt.plan), Waits(rt, n)
        PROVE  \E d \in Elems(rt.plan) : /\ d \in rt.deps[n] /\ d \notin rt.outputs
                                         /\ rt.status[d] \in {PENDING, FAILED}
    <3>1. PICK d \in rt.deps[n] : d \notin rt.outputs
      BY <1>1, <2>3 DEF NoneReady
    <3>2. d \in Elems(rt.plan)
      BY <1>1, <2>3, <3>1 DEF Core, DepsClosed
    <3>3. rt.status[d] \in DagStatus /\ rt.status[d] \notin {"none", RUNNING, COMPLETED, WAITING_ASSIST}
      BY <1>1, <1>2, <2>2, <3>1, <3>2 DEF Core, PlanKnown, HasOutput
    <3> QED
      BY <3>1, <3>2, <3>3 DEF DagStatus
  <2>4. CASE Unrun(rt) = {}
    <3>1. PICK n \in Elems(rt.plan) : Waits(rt, n)
      BY <1>1, <1>6 DEF NoneReady
    <3> QED
      BY <2>3, <2>4, <3>1 DEF Unrun
  <2>5. CASE Unrun(rt) # {}
    <3>1. PICK n \in Unrun(rt) : rt.deps[n] \cap Unrun(rt) = {}
      BY <1>1, <2>5 DEF Core, NoCircle
    <3>2. n \in Elems(rt.plan) /\ Waits(rt, n)
      BY DEF Unrun, Waits
    <3> QED
      BY <2>3, <3>1, <3>2 DEF Unrun
  <2> QED
    BY <2>4, <2>5
<1> QED
  BY <1>5, <1>6

(***************************************************************************)
(* The theorems.                                                           *)
(***************************************************************************)
(* The invariant of the methods of DagRuntime and of the places of the     *)
(* workflow holds throughout.                                              *)
THEOREM InductiveInvariant == Spec => []IInv
<1>1. IInv /\ [Next]_vars => IInv'
  BY StepInv
<1> QED
  BY <1>1, InitInv, PTL DEF Spec

(* running_tasks has exactly one task for every node that is RUNNING,      *)
(* whatever plans drop and take in again (_dispatch_ready, _collect_done,  *)
(* apply_plan).                                                            *)
THEOREM EveryRunIsTracked == Spec => []RunningTracked
<1>1. IInv => RunningTracked
  BY DEF IInv, Tracked, RunningTracked
<1> QED
  BY <1>1, InductiveInvariant, PTL

(* No node of the plan waits for a node that is neither in the plan nor    *)
(* delivered: the union of dependencies in apply_plan and add_assist.      *)
THEOREM NothingWaitsInVain == Spec => []DepsResolvable
<1>1. IInv => DepsResolvable
  BY DEF IInv, Core, DepsClosed, DepsResolvable
<1> QED
  BY <1>1, InductiveInvariant, PTL

(* What was delivered is not run again, but for its own request for help   *)
(* (apply_plan's statuses, the helper).                                    *)
THEOREM DeliveredStays == Spec => NeverRerun
<1>1. IInv /\ [Next]_vars =>
        [\A n \in Id : rt.status[n] = COMPLETED /\ rt'.status[n] # COMPLETED
                         => at = "helper" /\ cur = n /\ rt'.status[n] = WAITING_ASSIST]_vars
  BY StepInv DEF Reopens
<1> QED
  BY <1>1, InductiveInvariant, PTL DEF Spec, NeverRerun

(* A node that asked for help goes on only with the output of every assist *)
(* the plan has for it, if the planner keeps the rule on waiting nodes.    *)
THEOREM HelpIsHandedBack == Spec => AssistHandedBack
<1>1. IInv /\ [Next]_vars =>
        [\A n \in Id : obeys /\ rt.status[n] = WAITING_ASSIST /\ rt'.status[n] = RUNNING =>
           \A h \in Elems(rt.plan) : rt.assist_for[h] = n => h \in rt'.outputs]_vars
  BY StepInv DEF Resumes
<1> QED
  BY <1>1, InductiveInvariant, PTL DEF Spec, AssistHandedBack

(* "dispatch made no progress" is raised only over a dropped node whose    *)
(* task ended or over a failed one: the executor of a plan the planner     *)
(* leaves alone always gets on.                                            *)
THEOREM StallsExplained == Spec => StallsOnDropped
<1>1. IInv /\ [Next]_vars =>
        [at # "stalled" /\ at' = "stalled" =>
           \/ \E n \in Elems(rt.tasks) : rt.result[n] # "none" /\ ~in_plan(rt, n)
           \/ \E n \in Elems(rt.plan) : rt.status[n] = FAILED]_vars
  <2>1. SUFFICES ASSUME IInv, Next, at # "stalled", at' = "stalled"
                 PROVE  \/ \E n \in Elems(rt.tasks) : rt.result[n] # "none" /\ ~in_plan(rt, n)
                        \/ \E n \in Elems(rt.plan) : rt.status[n] = FAILED
    BY DEF vars
  <2>2. at = "wait" /\ Awaited /\ Stalls(_collect_done(rt))
    BY <2>1 DEF Next, Workflow, PlannerSilent, PlannerFails, Executor, ExecutorWaits, ExecutorDrains,
                PlannerPlans, Helper, Cancel, TaskEnds, Aborts, Judges, Dispatches
  <2> QED
    BY <2>1, <2>2, StallStep
<1> QED
  BY <1>1, InductiveInvariant, PTL DEF Spec, StallsOnDropped
=============================================================================
