---------------------------- MODULE HistoryProofs ----------------------------
(***************************************************************************)
(* Proofs about History, for any number of turns, rewinds, messages and    *)
(* compactions and any retention.                                          *)
(*                                                                         *)
(* First what the skip stack of iter_all_tasks hides, then what a replay   *)
(* gives when a turn is opened, an artifact added or a rewind made, then   *)
(* the invariants: types and control, the messages against the replay, and *)
(* the row against the snapshots.                                          *)
(***************************************************************************)
EXTENDS History, DataLemmas

Role    == {"user", "assistant", "tool"}
Message == [id : Nat, role : Role, covers : SUBSET Nat]
State   == {NoCompaction} \cup [count : Nat, covers : SUBSET Nat, set : {TRUE}]

(* The result of a call follows the call. *)
Paired(s) ==
  \A i \in DOMAIN s : s[i].role = "tool" =>
    i > 1 /\ s[i - 1].role = "assistant" /\ s[i - 1].id = s[i].id - 1

(* What the artifacts carry: messages as they were recorded, a call with   *)
(* its result, or a compaction.                                            *)
Said == {m \in Message : m.id # 0 /\ m.covers = {}}

Artifact ==
  {a \in [ms : Seq(Said), compaction : State] :
     /\ Paired(a.ms)
     /\ a.ms = <<>> <=> a.compaction.set}

Task == [before : Nat, arts : Seq(Artifact), snap : Nat, open : BOOLEAN, human : BOOLEAN]

TypeOK ==
  /\ world \in Worlds
  /\ tasks \in Seq(Task) /\ row \in Nat /\ recorded \in Nat
  /\ messages \in Seq(Message) /\ cstate \in State
  /\ live \in BOOLEAN /\ running \in BOOLEAN /\ cur \in Nat
  /\ pc \in {"idle", "routed", "compacting", "planning", "down"}
  /\ recent \in [kept : Seq(Message), made : State]
  /\ rw \in [at : {"none", "read", "written"}, before : Nat, snap : Nat]
  /\ folds \in Nat

(* The turns of the store ts that no later rewind took back. *)
Kept(ts) ==
  {i \in DOMAIN ts :
     /\ ts[i].before = 0
     /\ \A m \in i + 1..Len(ts) : ts[m].before # 0 => i < ts[m].before}

(* A rewind names a turn that was visible when it was made. *)
Marked(ts) ==
  \A m \in DOMAIN ts : ts[m].before # 0 =>
    /\ ts[m].before < m /\ ts[ts[m].before].before = 0
    /\ \A k \in ts[m].before + 1..m - 1 : ts[k].before # 0 => ts[m].before < ts[k].before

(* What is replayed when the task e is left out, and the list it gives. *)
Shares(ts, e) == [i \in DOMAIN ts |-> IF i \in Kept(ts) \ {e} THEN ts[i].arts ELSE <<>>]
Replay(ts, e) == Flat(Shares(ts, e))

Rebuilt(A) ==
  IF Latest(A).set
  THEN <<Summary(Latest(A).covers)>> \o SubSeq(Raw(A), Latest(A).count + 1, Len(Raw(A)))
  ELSE Raw(A)

Control ==
  /\ Marked(tasks)
  /\ \A i \in DOMAIN tasks : tasks[i].open => tasks[i].before = 0
  /\ live => cur \in DOMAIN tasks /\ tasks[cur].before = 0
  /\ ~live => messages = <<>> /\ ~running
  /\ pc \in {"routed", "compacting", "planning"} => live /\ rw.at = "none"
  /\ pc = "down" => ~live
  /\ pc = "compacting" => recent.made.set
  /\ rw.at # "none" => /\ "rewind" \in world.events
                      /\ pc = "idle" /\ ~running /\ rw.before \in Kept(tasks)

(* What was never compacted. *)
Plain == {a \in Artifact : ~a.compaction.set}

Uncompacted ==
  /\ ~cstate.set /\ Paired(messages) /\ pc # "compacting"
  /\ \A i \in DOMAIN tasks : tasks[i].arts \in Seq(Plain)

(* While the process is down and it may only stop between turns, what is   *)
(* open is the newest task, and it has no artifacts.                       *)
Rested ==
  pc = "down" => \A i \in DOMAIN tasks : tasks[i].open => i = Len(tasks) /\ tasks[i].arts = <<>>

(* The task that is written to is the newest that is visible. *)
Seated == live => Kept(tasks) # {} /\ cur = Greatest(Kept(tasks))

(* What an open task loses if its session is loaded again. *)
Resumable ==
  ~live /\ Kept(tasks) # {} /\ tasks[Greatest(Kept(tasks))].open =>
    tasks[Greatest(Kept(tasks))].arts = <<>>

(* A compaction stands for a prefix of the messages, and does not end      *)
(* between a call and its result.                                          *)
Stands(c, raw) ==
  /\ c.count <= Len(raw)
  /\ c.covers = Told(SubSeq(raw, 1, c.count))
  /\ c.count < Len(raw) => raw[c.count + 1].role # "tool"

Replayed ==
  LET A == Replay(tasks, 0)
  IN  /\ live => messages = Rebuilt(A) /\ cstate = Latest(A)
      /\ cstate.set => cstate = Latest(A)
      /\ Latest(A).set => Stands(Latest(A), Raw(A))
      /\ pc = "compacting" =>
           /\ Stands(recent.made, Raw(A))
           /\ recent.kept = SubSeq(Raw(A), recent.made.count + 1, Len(Raw(A)))

(* The row is the newest snapshot of the turns in S. *)
Snapped(ts, S) == {i \in S : ts[i].snap # 0}
Newest(ts, S)  == IF Snapped(ts, S) = {} THEN 0 ELSE ts[Greatest(Snapped(ts, S))].snap

Snapshots ==
  /\ running => recorded > 0
  /\ recorded = 0 => \A i \in DOMAIN tasks : tasks[i].snap = 0
  /\ rw.at # "written" => row = Newest(tasks, Kept(tasks))
  /\ rw.at # "none" => rw.snap = Newest(tasks, {i \in Kept(tasks) : i < rw.before})
  /\ rw.at = "written" => row = rw.snap

IInv ==
  /\ TypeOK /\ Control
  /\ "compact" \notin world.events => Uncompacted
  /\ "restart" \notin world.events => Seated /\ Rested
  /\ Replayable(world.events) =>
       /\ Replayed
       /\ "resume" \in world.events => Resumable
  /\ Checkpointed(world.events) => Snapshots

(***************************************************************************)
(* The skip stack of iter_all_tasks.                                       *)
(***************************************************************************)
(* The store as the walk over it sees it. *)
Rows ==
  /\ Len(tasks) \in Nat /\ DOMAIN tasks = 1..Len(tasks)
  /\ \A i \in DOMAIN tasks : tasks[i].before \in Nat

LEMMA RowsOfType == tasks \in Seq(Task) => Rows
<1>1. \A t \in Task : t.before \in Nat
  BY DEF Task
<1> QED
  BY <1>1 DEF Rows

(* The stack after the tasks behind i: the turns up to i that a rewind     *)
(* behind i names, the latest on top.                                      *)
Holds(stack, i) ==
  /\ stack \in Seq(Nat)
  /\ \A j, k \in 1..Len(stack) : j < k => stack[j] < stack[k]
  /\ \A j \in 1..Len(stack) :
       /\ stack[j] \in 1..i
       /\ \E m \in i + 1..Len(tasks) : tasks[m].before = stack[j]
  /\ \A m \in i + 1..Len(tasks) : tasks[m].before \in 1..i =>
       \E j \in 1..Len(stack) : stack[j] = tasks[m].before

LEMMA ScanHolds ==
  ASSUME Rows, Marked(tasks), NEW i \in DOMAIN tasks, NEW stack, Holds(stack, i)
  PROVE  Holds(scan(stack, i), i - 1)
<1> DEFINE n == Len(stack)
           b == tasks[i].before
<1>1. i \in 1..Len(tasks) /\ Len(tasks) \in Nat /\ b \in Nat /\ n \in Nat /\ stack \in Seq(Nat)
  BY DEF Rows, Holds
<1>2. /\ \A j, k \in 1..n : j < k => stack[j] < stack[k]
      /\ \A j \in 1..n : stack[j] \in 1..i /\ \E m \in i + 1..Len(tasks) : tasks[m].before = stack[j]
      /\ \A m \in i + 1..Len(tasks) : tasks[m].before \in 1..i =>
           \E j \in 1..n : stack[j] = tasks[m].before
  BY DEF Holds
<1>3. i - 1 \in Nat /\ (i - 1) + 1 = i /\ i..Len(tasks) = {i} \cup (i + 1..Len(tasks))
  BY <1>1
<1>4. CASE b # 0
  <2> DEFINE new == Append(stack, b)
  <2>1. new = scan(stack, i)
    BY <1>4 DEF scan
  <2>2. b \in 1..(i - 1) /\ new \in Seq(Nat) /\ Len(new) = n + 1 /\ new[n + 1] = b
        /\ \A j \in 1..n : new[j] = stack[j]
    BY <1>1, <1>4 DEF Marked, Rows
  <2>3. \A j \in 1..n : stack[j] \in 1..(i - 1) /\ stack[j] < b
    <3> TAKE j \in 1..n
    <3>1. PICK m \in i + 1..Len(tasks) : tasks[m].before = stack[j]
      BY <1>2
    <3>2. stack[j] \in 1..i /\ m \in DOMAIN tasks /\ tasks[m].before # 0
      BY <1>1, <1>2, <3>1 DEF Rows
    <3>3. tasks[stack[j]].before = 0
      BY <3>1, <3>2 DEF Marked
    <3>4. stack[j] # i
      BY <1>4, <3>3
    <3>5. i \in stack[j] + 1..m - 1
      BY <1>1, <3>1, <3>2, <3>4
    <3>6. stack[j] < b
      BY <1>4, <3>1, <3>2, <3>5 DEF Marked
    <3> QED
      BY <1>1, <3>2, <3>4, <3>6
  <2> HIDE DEF new, n, b
  <2>4. \A j, k \in 1..(n + 1) : j < k => new[j] < new[k]
    <3> TAKE j, k \in 1..(n + 1)
    <3> HAVE j < k
    <3>1. j \in 1..n /\ (k \in 1..n \/ k = n + 1)
      BY <1>1
    <3>2. new[j] = stack[j] /\ stack[j] < b /\ (k \in 1..n => new[k] = stack[k] /\ stack[j] < stack[k])
      BY <1>2, <2>2, <2>3, <3>1
    <3> QED
      BY <2>2, <3>1, <3>2
  <2>5. \A j \in 1..(n + 1) : new[j] \in 1..(i - 1) /\ \E m \in i..Len(tasks) : tasks[m].before = new[j]
    <3>1. \A j \in 1..n : \E m \in i..Len(tasks) : tasks[m].before = new[j]
      BY <1>2, <1>3, <2>2
    <3>2. tasks[i].before = new[n + 1] /\ i \in i..Len(tasks)
      BY <1>3, <2>2 DEF b
    <3>3. \A j \in 1..(n + 1) : j \in 1..n \/ j = n + 1
      BY <1>1
    <3> QED
      BY <2>2, <2>3, <3>1, <3>2, <3>3
  <2>6. \A m \in i..Len(tasks) : tasks[m].before \in 1..(i - 1) =>
          \E j \in 1..(n + 1) : new[j] = tasks[m].before
    <3> TAKE m \in i..Len(tasks)
    <3> HAVE tasks[m].before \in 1..(i - 1)
    <3>1. CASE m = i
      BY <1>1, <2>2, <3>1 DEF b
    <3>2. CASE m \in i + 1..Len(tasks)
      <4>1. tasks[m].before \in 1..i
        BY <1>1
      <4>2. PICK j \in 1..n : stack[j] = tasks[m].before
        BY <1>2, <3>2, <4>1
      <4>3. j \in 1..(n + 1) /\ new[j] = tasks[m].before
        BY <1>1, <2>2, <4>2
      <4> QED
        BY <4>3
    <3> QED
      BY <1>3, <3>1, <3>2
  <2>7. Holds(new, i - 1)
    BY <1>3, <2>2, <2>4, <2>5, <2>6 DEF Holds
  <2> QED
    BY <2>1, <2>7
<1>5. ASSUME b = 0, NEW new, new \in Seq(Nat), Len(new) <= n,
             \A j \in 1..Len(new) : new[j] = stack[j],
             \A j \in 1..n : (j \in 1..Len(new)) <=> stack[j] # i
      PROVE  Holds(new, i - 1)
  <2>1. Len(new) \in Nat /\ \A j \in 1..Len(new) : j \in 1..n /\ stack[j] # i /\ stack[j] \in 1..(i - 1)
    <3> HIDE DEF n, b
    <3>1. Len(new) \in Nat /\ Len(new) <= n
      BY ONLY <1>5
    <3>2. \A j \in 1..Len(new) : j \in 1..n
      BY ONLY <1>1, <3>1
    <3>3. \A j \in 1..Len(new) : stack[j] # i /\ stack[j] \in 1..i
      BY <1>2, <1>5, <3>2
    <3>4. \A x \in 1..i : x # i => x \in 1..(i - 1)
      BY ONLY <1>1
    <3>5. \A j \in 1..Len(new) : stack[j] \in 1..(i - 1)
      BY ONLY <3>3, <3>4
    <3> QED
      BY ONLY <3>1, <3>2, <3>3, <3>5
  <2> HIDE DEF n, b
  <2>2. \A j, k \in 1..Len(new) : j < k => new[j] < new[k]
    BY <1>2, <1>5, <2>1
  <2>3. \A j \in 1..Len(new) : new[j] \in 1..(i - 1) /\ \E m \in i..Len(tasks) : tasks[m].before = new[j]
    BY <1>2, <1>3, <1>5, <2>1
  <2>4. \A m \in i..Len(tasks) : tasks[m].before \in 1..(i - 1) =>
          \E j \in 1..Len(new) : new[j] = tasks[m].before
    <3> TAKE m \in i..Len(tasks)
    <3> HAVE tasks[m].before \in 1..(i - 1)
    <3>1. m # i
      BY <1>1, <1>5 DEF b
    <3>2. m \in i + 1..Len(tasks) /\ tasks[m].before \in 1..i /\ tasks[m].before # i
      BY <1>1, <1>3, <3>1
    <3>3. PICK j \in 1..n : stack[j] = tasks[m].before
      BY <1>2, <3>2
    <3>4. j \in 1..Len(new) /\ new[j] = tasks[m].before
      BY <1>5, <3>2, <3>3
    <3> QED
      BY <3>4
  <2> QED
    BY <1>3, <1>5, <2>2, <2>3, <2>4 DEF Holds
<1>6. CASE b = 0 /\ stack # <<>> /\ stack[n] = i
  <2> DEFINE new == SubSeq(stack, 1, n - 1)
  <2>1. new = scan(stack, i)
    BY <1>6 DEF scan
  <2>2. n # 0
    BY <1>1, <1>6
  <2>3. new \in Seq(Nat) /\ Len(new) = n - 1 /\ \A j \in 1..(n - 1) : new[j] = stack[j]
    <3>1. n - 1 \in 0..Len(stack) /\ stack \in Seq(Nat)
      BY <1>1, <2>2
    <3> QED
      BY ONLY <3>1, Cuts, ZenonT(30) DEF new
  <2> HIDE DEF new, n
  <2>4. \A j \in 1..n : (j \in 1..(n - 1)) <=> stack[j] # i
    <3> TAKE j \in 1..n
    <3>1. n \in 1..n /\ (j \in 1..(n - 1) <=> j < n) /\ (j < n \/ j = n)
      BY <1>1, <2>2
    <3>2. j < n => stack[j] < stack[n] /\ stack[j] \in 1..i
      BY <1>2, <3>1
    <3> QED
      BY <1>1, <1>6, <3>1, <3>2
  <2>5. Len(new) <= n
    BY <1>1, <2>3
  <2>6. Holds(new, i - 1)
    BY <1>5, <1>6, <2>3, <2>4, <2>5
  <2> QED
    BY <2>1, <2>6
<1>7. CASE b = 0 /\ ~(stack # <<>> /\ stack[n] = i)
  <2>1. stack = scan(stack, i)
    BY <1>7 DEF scan
  <2>2. n = 0 \/ stack[n] # i
    BY <1>1, <1>7
  <2>3. \A j \in 1..n : stack[j] # i
    <3> HIDE DEF n, b
    <3> TAKE j \in 1..n
    <3>1. n \in 1..n /\ n # 0
      BY <1>1
    <3>2. j = n \/ stack[j] < stack[n]
      BY <1>1, <1>2, <3>1
    <3>3. stack[n] \in 1..i /\ stack[j] \in 1..i
      BY <1>2, <3>1
    <3> QED
      BY <1>1, <2>2, <3>1, <3>2, <3>3
  <2>4. Holds(stack, i - 1)
    BY <1>1, <1>5, <1>7, <2>3
  <2> QED
    BY <2>1, <2>4
<1> QED
  BY <1>4, <1>6, <1>7

(* What the walk has on the stack at each task. *)
LEMMA StackHolds ==
  ASSUME Rows, Marked(tasks), NEW i \in DOMAIN tasks
  PROVE  Holds(skip_stack[Len(tasks) - i], i)
<1> DEFINE L == Len(tasks)
           step == [n \in 1..L |-> [x \in Seq(Nat) |-> scan(x, L + 1 - n)]]
<1>1. L \in Nat /\ DOMAIN tasks = 1..L /\ \A n \in 1..L : L + 1 - n \in DOMAIN tasks
  BY DEF Rows
<1>2. \A x \in Seq(Nat) : \A k \in DOMAIN tasks : scan(x, k) \in Seq(Nat)
  BY DEF scan, Rows
<1> HIDE DEF L
<1>3. step \in Steps(Seq(Nat), L)
  BY <1>1, <1>2 DEF Steps
<1>4. \A n \in 1..L : \A x \in Seq(Nat) : step[n][x] = scan(x, L + 1 - n)
  OBVIOUS
<1> HIDE DEF step
<1>5. PICK g \in [0..L -> Seq(Nat)] : g[0] = <<>> /\ \A n \in 1..L : g[n] = step[n][g[n - 1]]
  <2>1. <<>> \in Seq(Nat)
    OBVIOUS
  <2>2. Solved(Seq(Nat), L, <<>>, step)
    BY <1>1, <1>3, <2>1, Recursion
  <2> QED
    BY <2>2 DEF Solved
<1>6. \A n \in 1..L : n - 1 \in 0..L /\ g[n - 1] \in Seq(Nat)
  BY <1>1
<1>7. \A n \in 1..L : g[n] = scan(g[n - 1], L + 1 - n)
  BY <1>4, <1>5, <1>6
<1>8. g = [n \in 0..L |-> IF n = 0 THEN <<>> ELSE scan(g[n - 1], L + 1 - n)]
  <2>1. \A n \in 0..L : n # 0 => n \in 1..L
    BY <1>1
  <2>2. \A n \in 0..L : g[n] = IF n = 0 THEN <<>> ELSE scan(g[n - 1], L + 1 - n)
    BY <1>5, <1>7, <2>1
  <2> QED
    BY <2>2
<1> DEFINE p == skip_stack
<1>9. p = [n \in 0..L |-> IF n = 0 THEN <<>> ELSE scan(p[n - 1], L + 1 - n)]
  <2>1. p = CHOOSE f : f = [n \in 0..L |-> IF n = 0 THEN <<>> ELSE scan(f[n - 1], L + 1 - n)]
    BY DEF skip_stack, L
  <2> HIDE DEF p
  <2> QED
    BY <1>8, <2>1
<1> HIDE DEF p
<1>10. p[0] = <<>> /\ \A n \in 1..L : p[n] = scan(p[n - 1], L + 1 - n)
  <2>1. \A n \in 0..L : p[n] = IF n = 0 THEN <<>> ELSE scan(p[n - 1], L + 1 - n)
    BY <1>9
  <2>2. 0 \in 0..L /\ \A n \in 1..L : n \in 0..L /\ n # 0
    BY <1>1
  <2> QED
    BY <2>1, <2>2
<1> DEFINE P == {n \in 0..L : n < L => Holds(p[n], L - n)}
<1>11. 0 \in P
  <2>1. p[0] = <<>> /\ L - 0 = L /\ L + 1..L = {}
    BY <1>1, <1>10
  <2>2. Holds(<<>>, L)
    BY <1>1, <2>1 DEF Holds, L
  <2> QED
    BY <1>1, <2>1, <2>2
<1>12. ASSUME NEW n \in 0..L, n < L, n \in P PROVE n + 1 \in P
  <2>1. n + 1 \in 1..L /\ (n + 1) - 1 = n /\ L - n \in DOMAIN tasks /\ (L - n) - 1 = L - (n + 1)
        /\ L + 1 - (n + 1) = L - n
    BY <1>1, <1>12
  <2>2. p[n + 1] = scan(p[n], L - n)
    BY <1>10, <2>1
  <2>3. Holds(p[n], L - n)
    BY <1>12
  <2>4. Holds(scan(p[n], L - n), (L - n) - 1)
    BY <2>1, <2>3, ScanHolds
  <2> QED
    BY <1>1, <2>1, <2>2, <2>4
<1> HIDE DEF P
<1>13. \A n \in 0..L : n \in P
  BY <1>1, <1>11, <1>12, UpTo
<1>14. L - i \in 0..L /\ L - i < L /\ L - (L - i) = i
  BY <1>1
<1> QED
  BY <1>13, <1>14 DEF P, p, L

(* So it shows the turns that no later rewind took back. *)
LEMMA VisibleKept == Rows /\ Marked(tasks) => iter_all_tasks = Kept(tasks)
<1> SUFFICES ASSUME Rows, Marked(tasks) PROVE iter_all_tasks = Kept(tasks)
  OBVIOUS
<1>1. SUFFICES ASSUME NEW i \in DOMAIN tasks, tasks[i].before = 0
               PROVE  (skip_stack[Len(tasks) - i] = <<>>)
                        <=> \A m \in i + 1..Len(tasks) : tasks[m].before # 0 => i < tasks[m].before
  BY DEF iter_all_tasks, shown, Kept
<1> DEFINE stack == skip_stack[Len(tasks) - i]
<1>2. Holds(stack, i)
  BY StackHolds
<1> SUFFICES stack = <<>> <=> \A m \in i + 1..Len(tasks) : tasks[m].before # 0 => i < tasks[m].before
  OBVIOUS
<1> HIDE DEF stack
<1>3. stack \in Seq(Nat) /\ (stack = <<>> <=> Len(stack) = 0) /\ Len(stack) \in Nat
  BY <1>2 DEF Holds
<1>4. /\ \A j \in 1..Len(stack) :
           stack[j] \in 1..i /\ \E m \in i + 1..Len(tasks) : tasks[m].before = stack[j]
      /\ \A m \in i + 1..Len(tasks) : tasks[m].before \in 1..i =>
           \E j \in 1..Len(stack) : stack[j] = tasks[m].before
  BY <1>2 DEF Holds
<1>5. i \in Nat /\ \A m \in i + 1..Len(tasks) : tasks[m].before \in Nat
  BY DEF Rows
<1>6. CASE Len(stack) = 0
  BY <1>3, <1>4, <1>5, <1>6
<1>7. CASE Len(stack) # 0
  <2>1. 1 \in 1..Len(stack)
    BY <1>3, <1>7
  <2>2. PICK m \in i + 1..Len(tasks) : tasks[m].before = stack[1] /\ stack[1] \in 1..i
    BY <1>4, <2>1
  <2>3. tasks[m].before # 0 /\ ~(i < tasks[m].before)
    BY <1>5, <2>2
  <2> QED
    BY <1>3, <1>7, <2>2, <2>3
<1> QED
  BY <1>6, <1>7

(***************************************************************************)
(* What the messages and the artifacts of a replay are.                    *)
(***************************************************************************)
(* Messages as recorded, every result behind its call. *)
Talk == {s \in Seq(Said) : Paired(s)}

LEMMA SaidMessages == Said \subseteq Message /\ Seq(Said) \subseteq Seq(Message)
<1>1. Said \subseteq Message
  BY DEF Said
<1> QED
  BY <1>1, SeqMonotonic

LEMMA ArtifactFacts ==
  ASSUME NEW a \in Artifact
  PROVE  a.ms \in Talk /\ a.ms \in Seq(Said) /\ a.compaction \in State /\ (a.ms = <<>> <=> a.compaction.set)
BY DEF Artifact, Talk

LEMMA PairedJoins ==
  ASSUME NEW T, NEW x \in Seq(T), NEW y \in Seq(T), Paired(x), Paired(y)
  PROVE  Paired(x \o y)
<1> DEFINE z == x \o y
           m == Len(x)
           n == Len(y)
<1>1. /\ m \in Nat /\ n \in Nat /\ Len(z) = m + n /\ DOMAIN z = 1..m + n
      /\ \A i \in 1..m + n : z[i] = IF i <= m THEN x[i] ELSE y[i - m]
  OBVIOUS
<1>2. /\ \A i \in 1..m : x[i].role = "tool" =>
           i > 1 /\ x[i - 1].role = "assistant" /\ x[i - 1].id = x[i].id - 1
      /\ \A i \in 1..n : y[i].role = "tool" =>
           i > 1 /\ y[i - 1].role = "assistant" /\ y[i - 1].id = y[i].id - 1
  BY DEF Paired
<1> HIDE DEF z, m, n
<1>3. SUFFICES ASSUME NEW i \in 1..m + n, z[i].role = "tool"
               PROVE  i > 1 /\ z[i - 1].role = "assistant" /\ z[i - 1].id = z[i].id - 1
  BY <1>1 DEF Paired, z
<1>4. CASE i <= m
  <2>1. i \in 1..m /\ z[i] = x[i]
    BY ONLY <1>1, <1>4
  <2>2. i > 1 /\ x[i - 1].role = "assistant" /\ x[i - 1].id = x[i].id - 1
    BY ONLY <1>2, <1>3, <2>1
  <2>3. i - 1 \in 1..m + n /\ i - 1 <= m
    BY ONLY <1>1, <1>4, <2>2
  <2>4. z[i - 1] = x[i - 1]
    BY ONLY <1>1, <2>3
  <2> QED
    BY <2>1, <2>2, <2>4
<1>5. CASE i > m
  <2>1. i - m \in 1..n /\ ~(i <= m)
    BY ONLY <1>1, <1>5
  <2>2. z[i] = y[i - m]
    BY ONLY <1>1, <2>1
  <2>3. i - m > 1 /\ y[(i - m) - 1].role = "assistant" /\ y[(i - m) - 1].id = y[i - m].id - 1
    BY ONLY <1>2, <1>3, <2>1, <2>2
  <2>4. i - 1 \in 1..m + n /\ ~(i - 1 <= m) /\ (i - 1) - m = (i - m) - 1 /\ i > 1
    BY ONLY <1>1, <1>5, <2>3
  <2>5. z[i - 1] = y[(i - m) - 1]
    BY ONLY <1>1, <2>4
  <2> QED
    BY <2>2, <2>3, <2>4, <2>5
<1> QED
  BY <1>1, <1>4, <1>5

LEMMA TalkJoins == Talk \subseteq Seq(Said) /\ <<>> \in Talk /\ \A x, y \in Talk : x \o y \in Talk
<1>1. <<>> \in Talk
  BY DEF Talk, Paired
<1>2. ASSUME NEW x \in Talk, NEW y \in Talk PROVE x \o y \in Talk
  <2>1. x \in Seq(Said) /\ y \in Seq(Said) /\ Paired(x) /\ Paired(y)
    BY DEF Talk
  <2>2. x \o y \in Seq(Said)
    BY ONLY <2>1, ConcatProperties
  <2>3. Paired(x \o y)
    BY ONLY <2>1, PairedJoins
  <2> QED
    BY <2>2, <2>3 DEF Talk
<1> QED
  BY <1>1, <1>2 DEF Talk

(* The messages of the artifacts, one list after the other. *)
Lines(arts) == [k \in DOMAIN arts |-> arts[k].ms]

LEMMA LinesFacts ==
  ASSUME NEW A \in Seq(Artifact)
  PROVE  /\ Lines(A) \in Lists(Said) /\ DOMAIN Lines(A) = DOMAIN A
         /\ \A k \in DOMAIN A : A[k] \in Artifact /\ Lines(A)[k] = A[k].ms
         /\ \A a \in Artifact : Lines(Append(A, a)) = Append(Lines(A), a.ms)
<1>1. \A k \in DOMAIN A : A[k] \in Artifact
  OBVIOUS
<1>2. DOMAIN Lines(A) = DOMAIN A /\ \A k \in DOMAIN A : Lines(A)[k] = A[k].ms
  BY DEF Lines
<1>3. \A k \in DOMAIN A : A[k].ms \in Seq(Said)
  BY <1>1, ArtifactFacts
<1>4. Lines(A) \in Lists(Said)
  <2> DEFINE S == Seq(Said)
  <2>1. \A k \in 1..Len(A) : A[k].ms \in S
    BY <1>3
  <2> HIDE DEF S
  <2>2. [k \in 1..Len(A) |-> A[k].ms] \in Seq(S)
    BY <2>1
  <2>3. Lines(A) = [k \in 1..Len(A) |-> A[k].ms]
    BY DEF Lines
  <2> QED
    BY <2>2, <2>3 DEF Lists, S
<1>5. ASSUME NEW a \in Artifact PROVE Lines(Append(A, a)) = Append(Lines(A), a.ms)
  <2> DEFINE n == Len(A)
             B == Append(A, a)
  <2>1. n \in Nat /\ DOMAIN A = 1..n /\ DOMAIN B = 1..n + 1 /\ B[n + 1] = a /\ \A k \in 1..n : B[k] = A[k]
    OBVIOUS
  <2> HIDE DEF B, n
  <2>2. Lines(A) = [k \in 1..n |-> A[k].ms] /\ Lines(B) = [k \in 1..n + 1 |-> B[k].ms]
    BY <2>1 DEF Lines
  <2>3. Append(Lines(A), a.ms) = [k \in 1..n + 1 |-> IF k = n + 1 THEN a.ms ELSE A[k].ms]
    BY ONLY <2>1, <2>2
  <2>4. \A k \in 1..n + 1 : B[k].ms = IF k = n + 1 THEN a.ms ELSE A[k].ms
    <3>1. \A k \in 1..n + 1 : k # n + 1 => k \in 1..n
      BY <2>1
    <3> QED
      BY <2>1, <3>1
  <2> QED
    BY <2>2, <2>3, <2>4 DEF B
<1> QED
  BY <1>1, <1>2, <1>4, <1>5

LEMMA RawFacts ==
  ASSUME NEW A \in Seq(Artifact)
  PROVE  /\ Raw(A) \in Talk
         /\ Raw(A) = <<>> <=> \A k \in DOMAIN A : A[k].compaction.set
         /\ \A a \in Artifact : Raw(Append(A, a)) = Raw(A) \o a.ms
<1>1. \A B : Raw(B) = Flat(Lines(B))
  BY DEF Raw, Lines
<1>2. Lines(A) \in Lists(Said) /\ DOMAIN Lines(A) = DOMAIN A
      /\ \A k \in DOMAIN A : A[k] \in Artifact /\ Lines(A)[k] = A[k].ms
  BY LinesFacts
<1>3. \A k \in DOMAIN Lines(A) : Lines(A)[k] \in Talk
  BY <1>2, ArtifactFacts
<1>4. Raw(A) \in Talk
  BY <1>1, <1>2, <1>3, TalkJoins, FlatKeeps
<1>5. Raw(A) = <<>> <=> \A k \in DOMAIN A : Lines(A)[k] = <<>>
  BY <1>1, <1>2, FlatEmpty
<1>6. \A k \in DOMAIN A : Lines(A)[k] = <<>> <=> A[k].compaction.set
  BY <1>2, ArtifactFacts
<1>7. ASSUME NEW a \in Artifact PROVE Raw(Append(A, a)) = Raw(A) \o a.ms
  <2>1. a.ms \in Seq(Said)
    BY ArtifactFacts
  <2>2. Lines(Append(A, a)) = Append(Lines(A), a.ms)
    BY LinesFacts
  <2>3. Flat(Append(Lines(A), a.ms)) = Flat(Lines(A)) \o a.ms
    BY <1>2, <2>1, FlatAppend
  <2> QED
    BY <1>1, <2>2, <2>3
<1> QED
  BY <1>4, <1>5, <1>6, <1>7

LEMMA LatestFacts ==
  ASSUME NEW A \in Seq(Artifact)
  PROVE  /\ Latest(A) \in State
         /\ Latest(A).set <=> \E k \in DOMAIN A : A[k].compaction.set
         /\ ~Latest(A).set => Latest(A) = NoCompaction
         /\ \A a \in Artifact :
              Latest(Append(A, a)) = IF a.compaction.set THEN a.compaction ELSE Latest(A)
<1> DEFINE K == {k \in DOMAIN A : A[k].compaction.set}
           n == Len(A)
<1>1. n \in Nat /\ DOMAIN A = 1..n /\ K \subseteq 0..n /\ \A k \in 1..n : A[k] \in Artifact
  OBVIOUS
<1>2. Latest(A) = IF K = {} THEN NoCompaction ELSE A[Greatest(K)].compaction
  BY DEF Latest
<1>3. K # {} => Greatest(K) \in K
  <2> HIDE DEF K, n
  <2> QED
    BY <1>1, GreatestFacts
<1>4. NoCompaction \in State /\ ~NoCompaction.set
  BY DEF NoCompaction, State
<1>5. Latest(A) \in State /\ (Latest(A).set <=> K # {}) /\ (~Latest(A).set => Latest(A) = NoCompaction)
  <2>1. CASE K = {}
    BY <1>2, <1>4, <2>1
  <2>2. CASE K # {}
    <3>1. Greatest(K) \in 1..n /\ A[Greatest(K)].compaction.set
      BY <1>1, <1>3, <2>2
    <3>2. A[Greatest(K)].compaction \in State
      BY <1>1, <3>1, ArtifactFacts
    <3> QED
      BY <1>2, <2>2, <3>1, <3>2
  <2> QED
    BY <2>1, <2>2
<1>6. ASSUME NEW a \in Artifact
      PROVE  Latest(Append(A, a)) = IF a.compaction.set THEN a.compaction ELSE Latest(A)
  <2> DEFINE B == Append(A, a)
             J == {k \in DOMAIN B : B[k].compaction.set}
  <2>1. DOMAIN B = 1..n + 1 /\ B[n + 1] = a /\ \A k \in 1..n : B[k] = A[k]
    OBVIOUS
  <2>2. Latest(B) = IF J = {} THEN NoCompaction ELSE B[Greatest(J)].compaction
    BY DEF Latest
  <2> HIDE DEF B
  <2>3. CASE a.compaction.set
    <3>1. n + 1 \in J /\ J \subseteq Nat /\ \A y \in J : y <= n + 1
      BY <1>1, <2>1, <2>3
    <3> HIDE DEF J, n
    <3>2. Greatest(J) = n + 1
      BY ONLY <3>1, GreatestIs
    <3> QED
      BY <2>1, <2>2, <2>3, <3>1, <3>2 DEF B
  <2>4. CASE ~a.compaction.set
    <3>1. J = K
      BY <1>1, <2>1, <2>4
    <3>2. K # {} => Greatest(K) \in 1..n
      BY <1>1, <1>3
    <3> HIDE DEF J, n, K
    <3> QED
      BY <1>2, <2>1, <2>2, <2>4, <3>1, <3>2 DEF B
  <2> QED
    BY <2>3, <2>4
<1> QED
  BY <1>1, <1>5, <1>6

LEMMA ToldFacts ==
  ASSUME NEW x \in Seq(Message), NEW y \in Seq(Message)
  PROVE  /\ Told(x) \subseteq Nat
         /\ Told(x \o y) = Told(x) \cup Told(y)
<1> DEFINE Mine(s) == {s[i].covers \cup ({s[i].id} \ {0}) : i \in DOMAIN s}
<1>1. \A s \in Seq(Message) : \A i \in DOMAIN s : s[i] \in Message
  OBVIOUS
<1>2. \A m \in Message : m.covers \subseteq Nat /\ m.id \in Nat
  BY DEF Message
<1>3. Told(x) \subseteq Nat
  BY <1>1, <1>2 DEF Told
<1>4. /\ Len(x) \in Nat /\ Len(y) \in Nat /\ DOMAIN x = 1..Len(x) /\ DOMAIN y = 1..Len(y)
      /\ DOMAIN (x \o y) = 1..Len(x) + Len(y)
      /\ \A i \in 1..Len(x) : (x \o y)[i] = x[i]
      /\ \A i \in 1..Len(y) : (x \o y)[Len(x) + i] = y[i] /\ Len(x) + i \in 1..Len(x) + Len(y)
      /\ \A i \in 1..Len(x) + Len(y) : i \in 1..Len(x) \/ i - Len(x) \in 1..Len(y)
      /\ \A i \in 1..Len(x) + Len(y) : i \notin 1..Len(x) => (x \o y)[i] = y[i - Len(x)]
      /\ \A i \in 1..Len(x) : i \in 1..Len(x) + Len(y)
  OBVIOUS
<1> DEFINE z == x \o y
<1> HIDE DEF z
<1>5. Mine(z) = Mine(x) \cup Mine(y)
  <2>1. ASSUME NEW e \in Mine(z) PROVE e \in Mine(x) \cup Mine(y)
    <3>1. PICK i \in 1..Len(x) + Len(y) : e = z[i].covers \cup ({z[i].id} \ {0})
      BY <1>4 DEF z
    <3>2. CASE i \in 1..Len(x)
      BY <1>4, <3>1, <3>2 DEF z
    <3>3. CASE i \notin 1..Len(x)
      BY <1>4, <3>1, <3>3 DEF z
    <3> QED
      BY <3>2, <3>3
  <2>2. ASSUME NEW e \in Mine(x) PROVE e \in Mine(z)
    BY <1>4 DEF z
  <2>3. ASSUME NEW e \in Mine(y) PROVE e \in Mine(z)
    <3>1. PICK i \in 1..Len(y) : e = y[i].covers \cup ({y[i].id} \ {0})
      BY <1>4
    <3>2. z[Len(x) + i] = y[i] /\ Len(x) + i \in DOMAIN z
      BY <1>4 DEF z
    <3> QED
      BY <3>1, <3>2
  <2> HIDE DEF Mine
  <2> QED
    BY <2>1, <2>2, <2>3
<1>6. \A s : Told(s) = UNION Mine(s)
  BY DEF Told
<1> HIDE DEF Mine
<1>7. Told(z) = Told(x) \cup Told(y)
  BY <1>5, <1>6
<1> QED
  BY <1>3, <1>7 DEF z

LEMMA ToldSummary == ASSUME NEW S PROVE Told(<<Summary(S)>>) = S
BY DEF Told, Summary

(***************************************************************************)
(* What is replayed, and how it changes.                                   *)
(***************************************************************************)
LEMMA TaskFacts ==
  /\ \A t \in Task : /\ t.before \in Nat /\ t.arts \in Seq(Artifact) /\ t.snap \in Nat
                     /\ t.open \in BOOLEAN /\ t.human \in BOOLEAN
  /\ \A h \in BOOLEAN : Turn(h) \in Task
  /\ \A b \in Nat : Marker(b) \in Task
<1>1. <<>> \in Seq(Artifact)
  OBVIOUS
<1> DEFINE S == Seq(Artifact)
<1> HIDE DEF S
<1> QED
  BY <1>1 DEF Task, Turn, Marker, S

LEMMA ReplayIs ==
  Rows /\ Marked(tasks) =>
    \A e : /\ Artifacts(e) = Replay(tasks, e)
           /\ rebuilt_raw(e) = Raw(Replay(tasks, e))
           /\ latest_compaction(e) = Latest(Replay(tasks, e))
           /\ rebuild(e) = Rebuilt(Replay(tasks, e))
<1> SUFFICES ASSUME Rows, Marked(tasks), NEW e
             PROVE  /\ Artifacts(e) = Replay(tasks, e)
                    /\ rebuilt_raw(e) = Raw(Replay(tasks, e))
                    /\ latest_compaction(e) = Latest(Replay(tasks, e))
                    /\ rebuild(e) = Rebuilt(Replay(tasks, e))
  OBVIOUS
<1>1. Artifacts(e) = Replay(tasks, e)
  BY VisibleKept DEF Artifacts, Replay, Shares
<1> QED
  BY <1>1 DEF rebuilt_raw, latest_compaction, rebuild, Rebuilt

LEMMA SharesFacts ==
  ASSUME NEW ts \in Seq(Task), NEW e
  PROVE  /\ Shares(ts, e) \in Lists(Artifact) /\ Len(Shares(ts, e)) = Len(ts)
         /\ DOMAIN Shares(ts, e) = 1..Len(ts) /\ DOMAIN ts = 1..Len(ts) /\ Len(ts) \in Nat
         /\ \A i \in 1..Len(ts) :
              Shares(ts, e)[i] = IF i \in Kept(ts) \ {e} THEN ts[i].arts ELSE <<>>
         /\ \A i \in 1..Len(ts) : ts[i].arts \in Seq(Artifact)
<1> DEFINE S == Seq(Artifact)
           x == Shares(ts, e)
<1>1. \A i \in 1..Len(ts) : ts[i].arts \in S
  BY TaskFacts
<1>2. <<>> \in S
  OBVIOUS
<1>3. Len(ts) \in Nat /\ DOMAIN ts = 1..Len(ts)
  OBVIOUS
<1> HIDE DEF S
<1>4. x = [i \in 1..Len(ts) |-> IF i \in Kept(ts) \ {e} THEN ts[i].arts ELSE <<>>]
  BY <1>3 DEF Shares
<1> HIDE DEF x
<1>5. x \in Seq(S) /\ Len(x) = Len(ts) /\ DOMAIN x = 1..Len(ts)
  <2>1. \A i \in 1..Len(ts) : (IF i \in Kept(ts) \ {e} THEN ts[i].arts ELSE <<>>) \in S
    BY <1>1, <1>2
  <2> QED
    BY <1>3, <1>4, <2>1
<1>6. \A i \in 1..Len(ts) : x[i] = IF i \in Kept(ts) \ {e} THEN ts[i].arts ELSE <<>>
  BY <1>4
<1> QED
  BY <1>1, <1>3, <1>5, <1>6 DEF S, Lists, x

LEMMA ReplayType ==
  ASSUME NEW ts \in Seq(Task), NEW e
  PROVE  Replay(ts, e) \in Seq(Artifact)
BY SharesFacts, FlatType DEF Replay

(* A change that leaves the artifacts of the visible turns alone. *)
LEMMA ReplaySame ==
  ASSUME NEW ts \in Seq(Task), NEW us \in Seq(Task), Len(us) = Len(ts), Kept(us) = Kept(ts),
         \A i \in 1..Len(ts) : us[i].arts = ts[i].arts, NEW e
  PROVE  Replay(us, e) = Replay(ts, e)
<1>1. DOMAIN us = DOMAIN ts /\ DOMAIN ts = 1..Len(ts)
  OBVIOUS
<1>2. Shares(us, e) = Shares(ts, e)
  BY <1>1 DEF Shares
<1> QED
  BY <1>2 DEF Replay

(* Leaving out a task that has no artifacts, or that is not there. *)
LEMMA ReplayWithout ==
  ASSUME NEW ts \in Seq(Task), NEW e, e \in DOMAIN ts => ts[e].arts = <<>>
  PROVE  Replay(ts, e) = Replay(ts, 0)
<1>1. DOMAIN ts = 1..Len(ts) /\ Len(ts) \in Nat
  OBVIOUS
<1>2. \A i \in DOMAIN ts : (IF i \in Kept(ts) \ {e} THEN ts[i].arts ELSE <<>>)
                         = (IF i \in Kept(ts) \ {0} THEN ts[i].arts ELSE <<>>)
  BY <1>1
<1>3. Shares(ts, e) = Shares(ts, 0)
  BY <1>2 DEF Shares
<1> QED
  BY <1>3 DEF Replay

(* Where nothing is replayed, nothing is without one of the tasks. *)
LEMMA ReplayNothing ==
  ASSUME NEW ts \in Seq(Task), NEW e, Replay(ts, 0) = <<>>
  PROVE  Replay(ts, e) = <<>>
<1> DEFINE n == Len(ts)
           x == Shares(ts, 0)
           y == Shares(ts, e)
<1>1. /\ x \in Lists(Artifact) /\ y \in Lists(Artifact) /\ n \in Nat
      /\ DOMAIN x = 1..n /\ DOMAIN y = 1..n
      /\ \A i \in 1..n : x[i] = (IF i \in Kept(ts) \ {0} THEN ts[i].arts ELSE <<>>)
      /\ \A i \in 1..n : y[i] = (IF i \in Kept(ts) \ {e} THEN ts[i].arts ELSE <<>>)
  BY SharesFacts
<1>2. Flat(x) = <<>>
  BY DEF Replay
<1> HIDE DEF x, y, n
<1>3. \A i \in DOMAIN x : x[i] = <<>>
  BY ONLY <1>1, <1>2, FlatEmpty
<1>4. \A i \in DOMAIN y : y[i] = <<>>
  BY ONLY <1>1, <1>3
<1>5. Flat(y) = <<>>
  BY ONLY <1>1, <1>4, FlatEmpty
<1> QED
  BY <1>5 DEF Replay, y

LEMMA KeptSame ==
  ASSUME NEW ts \in Seq(Task), NEW us \in Seq(Task), Len(us) = Len(ts),
         \A i \in 1..Len(ts) : us[i].before = ts[i].before
  PROVE  Kept(us) = Kept(ts) /\ (Marked(ts) => Marked(us))
<1>1. DOMAIN us = DOMAIN ts /\ DOMAIN ts = 1..Len(ts) /\ Len(ts) \in Nat
      /\ \A i \in 1..Len(ts) : us[i].before \in Nat
  BY TaskFacts
<1>2. Kept(us) = Kept(ts)
  <2>1. \A i \in 1..Len(ts) : \A m \in i + 1..Len(ts) : m \in 1..Len(ts)
    BY <1>1
  <2> QED
    BY <1>1, <2>1 DEF Kept
<1>3. ASSUME Marked(ts) PROVE Marked(us)
  <2>1. SUFFICES ASSUME NEW m \in 1..Len(ts), us[m].before # 0
                 PROVE  /\ us[m].before < m /\ us[us[m].before].before = 0
                        /\ \A k \in us[m].before + 1..m - 1 : us[k].before # 0 => us[m].before < us[k].before
    BY <1>1 DEF Marked
  <2>2. /\ ts[m].before < m /\ ts[ts[m].before].before = 0 /\ ts[m].before # 0
        /\ \A k \in ts[m].before + 1..m - 1 : ts[k].before # 0 => ts[m].before < ts[k].before
    BY <1>1, <1>3, <2>1 DEF Marked
  <2>3. us[m].before = ts[m].before /\ ts[m].before \in 1..Len(ts)
        /\ \A k \in ts[m].before + 1..m - 1 : k \in 1..Len(ts)
    BY <1>1, <2>2
  <2> QED
    BY <2>2, <2>3
<1> QED
  BY <1>2, <1>3

(* The newest visible turn gets another artifact. *)
LEMMA ReplayAdded ==
  ASSUME NEW ts \in Seq(Task), NEW us \in Seq(Task), Len(us) = Len(ts), Kept(us) = Kept(ts),
         NEW c \in Kept(ts), \A i \in Kept(ts) : i <= c, NEW a \in Artifact,
         us[c].arts = Append(ts[c].arts, a),
         \A i \in 1..Len(ts) : i # c => us[i].arts = ts[i].arts
  PROVE  Replay(us, 0) = Append(Replay(ts, 0), a)
<1> DEFINE n == Len(ts)
           x == Shares(ts, 0)
           y == Shares(us, 0)
<1>a. /\ x \in Lists(Artifact) /\ n \in Nat /\ Len(x) = n /\ DOMAIN ts = 1..n
      /\ \A i \in 1..n : x[i] = (IF i \in Kept(ts) \ {0} THEN ts[i].arts ELSE <<>>)
      /\ \A i \in 1..n : ts[i].arts \in Seq(Artifact)
  BY SharesFacts, ZenonT(30)
<1>b. /\ y \in Lists(Artifact) /\ Len(y) = Len(us)
      /\ \A i \in 1..Len(us) : y[i] = (IF i \in Kept(us) \ {0} THEN us[i].arts ELSE <<>>)
  BY SharesFacts
<1>1. /\ x \in Lists(Artifact) /\ y \in Lists(Artifact) /\ n \in Nat
      /\ Len(x) = n /\ Len(y) = n /\ DOMAIN ts = 1..n
      /\ \A i \in 1..n : x[i] = (IF i \in Kept(ts) \ {0} THEN ts[i].arts ELSE <<>>)
      /\ \A i \in 1..n : y[i] = (IF i \in Kept(ts) \ {0} THEN us[i].arts ELSE <<>>)
      /\ \A i \in 1..n : ts[i].arts \in Seq(Artifact)
  <2> HIDE DEF x, y
  <2> QED
    BY <1>a, <1>b
<1>2. c \in 1..n /\ c # 0
  BY <1>1 DEF Kept
<1>3. Append(ts[c].arts, a) = ts[c].arts \o <<a>> /\ <<a>> \in Seq(Artifact)
  BY <1>1, <1>2, AppendIsConcat, SMTT(30)
<1> HIDE DEF x, y, n
<1>4. y[c] = x[c] \o <<a>>
  BY <1>1, <1>2, <1>3
<1>5. \A i \in 1..n : i # c => y[i] = x[i]
  BY <1>1 DEF n
<1>6. \A i \in c + 1..n : x[i] = <<>>
  BY <1>1, <1>2
<1>7. Flat(y) = Flat(x) \o <<a>>
  <2>1. /\ Len(x) = Len(y) /\ c \in 1..Len(x)
        /\ \A i \in 1..Len(x) : i # c => y[i] = x[i]
        /\ \A i \in c + 1..Len(x) : x[i] = <<>>
    BY ONLY <1>1, <1>2, <1>5, <1>6
  <2> DEFINE s == <<a>>
  <2>2. y[c] = x[c] \o s /\ s \in Seq(Artifact) /\ x \in Lists(Artifact) /\ y \in Lists(Artifact)
    BY <1>1, <1>3, <1>4
  <2> HIDE DEF s
  <2>3. Flat(y) = Flat(x) \o s
    BY ONLY <2>1, <2>2, FlatGrows
  <2> QED
    BY <2>3 DEF s
<1>8. Flat(x) \in Seq(Artifact)
  BY ONLY <1>1, FlatType
<1>9. Append(Flat(x), a) = Flat(x) \o <<a>>
  BY <1>8, AppendIsConcat
<1> QED
  BY <1>7, <1>9 DEF Replay, x, y

(* A turn is opened: it is visible, and there is nothing in it to replay. *)
LEMMA TurnOpened ==
  ASSUME NEW ts \in Seq(Task), NEW h \in BOOLEAN
  PROVE  /\ Kept(Append(ts, Turn(h))) = Kept(ts) \cup {Len(ts) + 1}
         /\ Marked(ts) => Marked(Append(ts, Turn(h)))
         /\ Replay(Append(ts, Turn(h)), 0) = Replay(ts, 0)
<1> DEFINE us == Append(ts, Turn(h))
           n == Len(ts)
<1>1. Turn(h) \in Task /\ Turn(h).before = 0 /\ Turn(h).arts = <<>>
  BY TaskFacts DEF Turn
<1>2. /\ n \in Nat /\ DOMAIN ts = 1..n /\ us \in Seq(Task) /\ Len(us) = n + 1 /\ DOMAIN us = 1..n + 1
      /\ us[n + 1] = Turn(h) /\ \A i \in 1..n : us[i] = ts[i]
  BY <1>1
<1>3. \A i \in 1..n : ts[i].before \in Nat /\ ts[i].arts \in Seq(Artifact)
  BY TaskFacts
<1> HIDE DEF us, n
<1>4. Kept(us) = Kept(ts) \cup {n + 1}
  <2>1. \A i \in 1..n + 1 : i \in 1..n \/ i = n + 1
    BY ONLY <1>2
  <2>2. \A i \in 1..n : (i \in Kept(us)) <=> i \in Kept(ts)
    <3> TAKE i \in 1..n
    <3>1. i \in 1..n + 1 /\ (\A m \in i + 1..n : m \in 1..n /\ m \in i + 1..n + 1)
          /\ (\A m \in i + 1..n + 1 : m \in i + 1..n \/ m = n + 1)
      BY ONLY <1>2
    <3> QED
      BY <1>1, <1>2, <3>1 DEF Kept, n
  <2>3. n + 1 \in Kept(us)
    BY <1>1, <1>2 DEF Kept
  <2>4. Kept(us) \subseteq 1..n + 1 /\ Kept(ts) \subseteq 1..n
    BY <1>2 DEF Kept
  <2> QED
    BY <2>1, <2>2, <2>3, <2>4
<1>5. ASSUME Marked(ts) PROVE Marked(us)
  <2>1. SUFFICES ASSUME NEW m \in 1..n + 1, us[m].before # 0
                 PROVE  /\ us[m].before < m /\ us[us[m].before].before = 0
                        /\ \A k \in us[m].before + 1..m - 1 : us[k].before # 0 => us[m].before < us[k].before
    BY <1>2 DEF Marked
  <2>2. m \in 1..n
    BY <1>1, <1>2, <2>1
  <2>3. /\ ts[m].before < m /\ ts[ts[m].before].before = 0 /\ ts[m].before # 0 /\ us[m] = ts[m]
        /\ \A k \in ts[m].before + 1..m - 1 : ts[k].before # 0 => ts[m].before < ts[k].before
    BY <1>2, <1>5, <2>1, <2>2 DEF Marked
  <2>4. ts[m].before \in 1..n /\ \A k \in ts[m].before + 1..m - 1 : k \in 1..n
    BY <1>2, <1>3, <2>2, <2>3
  <2> QED
    BY <1>2, <2>3, <2>4
<1>6. Replay(us, 0) = Replay(ts, 0)
  <2> DEFINE x == Shares(ts, 0)
             y == Shares(us, 0)
  <2>1. x \in Lists(Artifact) /\ Len(x) = n
        /\ \A i \in 1..n : x[i] = IF i \in Kept(ts) \ {0} THEN ts[i].arts ELSE <<>>
    BY SharesFacts DEF n
  <2>2. y \in Lists(Artifact) /\ Len(y) = n + 1
        /\ \A i \in 1..n + 1 : y[i] = IF i \in Kept(us) \ {0} THEN us[i].arts ELSE <<>>
    BY <1>2, SharesFacts
  <2> HIDE DEF x, y
  <2>3. y[n + 1] = <<>>
    BY <1>1, <1>2, <2>2
  <2>4. \A i \in 1..n : y[i] = x[i]
    <3> TAKE i \in 1..n
    <3>1. i \in 1..n + 1 /\ i # n + 1
      BY ONLY <1>2
    <3> QED
      BY <1>2, <1>4, <2>1, <2>2, <3>1
  <2>5. y = Append(x, <<>>)
    <3> DEFINE S == Seq(Artifact)
    <3>1. <<>> \in S
      OBVIOUS
    <3> HIDE DEF S
    <3>2. x \in Seq(S) /\ y \in Seq(S)
      BY <2>1, <2>2 DEF Lists, S
    <3>3. /\ Append(x, <<>>) \in Seq(S) /\ Len(Append(x, <<>>)) = n + 1
          /\ Append(x, <<>>)[n + 1] = <<>> /\ \A i \in 1..n : Append(x, <<>>)[i] = x[i]
      BY <2>1, <3>1, <3>2, AppendProperties
    <3>4. \A i \in 1..n + 1 : y[i] = Append(x, <<>>)[i]
      <4>1. \A i \in 1..n + 1 : i \in 1..n \/ i = n + 1
        BY ONLY <1>2
      <4> QED
        BY <2>3, <2>4, <3>3, <4>1
    <3> QED
      BY <2>2, <3>2, <3>3, <3>4, SeqEqual
  <2>6. <<>> \in Seq(Artifact) /\ Flat(x) \in Seq(Artifact)
    BY <2>1, FlatType
  <2>7. Flat(y) = Flat(x) \o <<>>
    BY <2>1, <2>5, <2>6, FlatAppend
  <2>8. Flat(x) \o <<>> = Flat(x)
    BY <2>6, ConcatEmptySeq
  <2> QED
    BY <2>7, <2>8 DEF Replay, x, y
<1> QED
  BY <1>4, <1>5, <1>6 DEF us, n

(* A rewind hides the turn it names and what came behind it. *)
LEMMA RewindMade ==
  ASSUME NEW ts \in Seq(Task), NEW b \in Kept(ts)
  PROVE  /\ Kept(Append(ts, Marker(b))) = {i \in Kept(ts) : i < b}
         /\ Marked(ts) => Marked(Append(ts, Marker(b)))
<1> DEFINE us == Append(ts, Marker(b))
           n == Len(ts)
<1>1. n \in Nat /\ DOMAIN ts = 1..n /\ b \in 1..n /\ \A i \in 1..n : ts[i].before \in Nat
  BY TaskFacts DEF Kept
<1>2. Marker(b) \in Task /\ Marker(b).before = b
  BY <1>1, TaskFacts DEF Marker
<1>3. /\ us \in Seq(Task) /\ Len(us) = n + 1 /\ DOMAIN us = 1..n + 1
      /\ us[n + 1].before = b /\ \A i \in 1..n : us[i] = ts[i]
  BY <1>2
<1> HIDE DEF us, n
<1>4. Kept(us) = {i \in Kept(ts) : i < b}
  <2>1. \A i \in 1..n + 1 : i \in 1..n \/ i = n + 1
    BY ONLY <1>1
  <2>2. \A i \in 1..n : (i \in Kept(us)) <=> i \in Kept(ts) /\ i < b
    <3> TAKE i \in 1..n
    <3>1. i \in 1..n + 1 /\ (\A m \in i + 1..n : m \in 1..n /\ m \in i + 1..n + 1)
          /\ (\A m \in i + 1..n + 1 : m \in i + 1..n \/ m = n + 1) /\ n + 1 \in i + 1..n + 1 /\ b # 0
      BY ONLY <1>1
    <3> QED
      BY <1>1, <1>3, <3>1 DEF Kept, n
  <2>3. n + 1 \notin Kept(us)
    BY <1>1, <1>3 DEF Kept
  <2>4. Kept(us) \subseteq 1..n + 1 /\ Kept(ts) \subseteq 1..n
    BY <1>1, <1>3 DEF Kept
  <2> QED
    BY <2>1, <2>2, <2>3, <2>4
<1>5. ASSUME Marked(ts) PROVE Marked(us)
  <2>1. SUFFICES ASSUME NEW m \in 1..n + 1, us[m].before # 0
                 PROVE  /\ us[m].before < m /\ us[us[m].before].before = 0
                        /\ \A k \in us[m].before + 1..m - 1 : us[k].before # 0 => us[m].before < us[k].before
    BY <1>3 DEF Marked
  <2>2. CASE m = n + 1
    <3>1. us[m].before = b /\ b < n + 1 /\ us[b].before = 0
      BY <1>1, <1>3, <2>2 DEF Kept
    <3>2. \A k \in b + 1..n : us[k] = ts[k] /\ (ts[k].before # 0 => b < ts[k].before)
      <4>1. \A k \in b + 1..n : k \in 1..n
        BY ONLY <1>1
      <4> QED
        BY <1>3, <4>1 DEF Kept, n
    <3>3. m - 1 = n
      BY <1>1, <2>2
    <3> QED
      BY <2>2, <3>1, <3>2, <3>3
  <2>3. CASE m \in 1..n
    <3>1. /\ ts[m].before < m /\ ts[ts[m].before].before = 0 /\ ts[m].before # 0 /\ us[m] = ts[m]
          /\ \A k \in ts[m].before + 1..m - 1 : ts[k].before # 0 => ts[m].before < ts[k].before
      BY <1>1, <1>3, <1>5, <2>1, <2>3 DEF Marked
    <3>2. ts[m].before \in 1..n /\ \A k \in ts[m].before + 1..m - 1 : k \in 1..n
      BY <1>1, <2>3, <3>1
    <3> QED
      BY <1>3, <3>1, <3>2
  <2> QED
    BY <1>1, <2>2, <2>3
<1> QED
  BY <1>4, <1>5 DEF us

(***************************************************************************)
(* The list a replay gives, and how artifacts change it.                   *)
(***************************************************************************)
(* The two halves of a cut say what the whole says. *)
LEMMA ToldCut ==
  ASSUME NEW s \in Seq(Message), NEW k \in 0..Len(s)
  PROVE  /\ SubSeq(s, 1, k) \in Seq(Message) /\ SubSeq(s, k + 1, Len(s)) \in Seq(Message)
         /\ Told(s) = Told(SubSeq(s, 1, k)) \cup Told(SubSeq(s, k + 1, Len(s)))
<1> DEFINE x == SubSeq(s, 1, k)
           y == SubSeq(s, k + 1, Len(s))
<1>1. /\ x \in Seq(Message) /\ Len(x) = k /\ \A i \in 1..k : x[i] = s[i]
      /\ y \in Seq(Message) /\ Len(y) = Len(s) - k /\ \A i \in 1..Len(s) - k : y[i] = s[k + i]
  BY Cuts
<1> HIDE DEF x, y
<1>2. s = x \o y
  <2>a. /\ x \o y \in Seq(Message) /\ Len(x \o y) = Len(x) + Len(y)
        /\ \A i \in 1..Len(x) + Len(y) : (x \o y)[i] = IF i <= Len(x) THEN x[i] ELSE y[i - Len(x)]
    BY ONLY <1>1, ConcatProperties
  <2>1. /\ x \o y \in Seq(Message) /\ Len(x \o y) = k + (Len(s) - k)
        /\ \A i \in 1..k + (Len(s) - k) : (x \o y)[i] = IF i <= k THEN x[i] ELSE y[i - k]
    <3>1. Len(x) = k /\ Len(y) = Len(s) - k
      BY <1>1
    <3> QED
      BY ONLY <2>a, <3>1
  <2>2. Len(s) \in Nat /\ k + (Len(s) - k) = Len(s)
    OBVIOUS
  <2>3. \A i \in 1..Len(s) : (x \o y)[i] = s[i]
    <3> TAKE i \in 1..Len(s)
    <3>1. CASE i <= k
      <4>1. i \in 1..k
        BY <2>2, <3>1
      <4> QED
        BY <1>1, <2>1, <2>2, <3>1, <4>1
    <3>2. CASE ~(i <= k)
      <4>1. i - k \in 1..Len(s) - k /\ k + (i - k) = i
        BY <2>2, <3>2
      <4> QED
        BY <1>1, <2>1, <2>2, <3>2, <4>1
    <3> QED
      BY <3>1, <3>2
  <2> QED
    BY <2>1, <2>2, <2>3, SeqEqual
<1>3. Told(x \o y) = Told(x) \cup Told(y)
  BY <1>1, ToldFacts
<1> QED
  BY <1>1, <1>2, <1>3 DEF x, y

LEMMA StateFacts ==
  /\ NoCompaction \in State /\ ~NoCompaction.set
  /\ \A c \in State : /\ c.count \in Nat /\ c.covers \in SUBSET Nat /\ c.set \in BOOLEAN
                      /\ ~c.set => c = NoCompaction
  /\ \A n \in Nat, S \in SUBSET Nat : Compaction(n, S) \in State /\ Compaction(n, S).set
<1>1. /\ NoCompaction \in State /\ ~NoCompaction.set
      /\ NoCompaction.count \in Nat /\ NoCompaction.covers \in SUBSET Nat /\ NoCompaction.set \in BOOLEAN
  BY DEF NoCompaction, State
<1>2. ASSUME NEW c \in State, c # NoCompaction
      PROVE  c.count \in Nat /\ c.covers \in SUBSET Nat /\ c.set = TRUE
  BY <1>2 DEF State
<1>3. \A n \in Nat, S \in SUBSET Nat : Compaction(n, S) \in State /\ Compaction(n, S).set
  BY DEF Compaction, State
<1> HIDE DEF NoCompaction, State
<1> QED
  BY <1>1, <1>2, <1>3

(* A compaction that stands for a prefix, and what follows it. *)
Shortened(c, raw) == <<Summary(c.covers)>> \o SubSeq(raw, c.count + 1, Len(raw))

LEMMA ShortenedType ==
  ASSUME NEW c \in State, c.set, NEW raw \in Seq(Said)
  PROVE  /\ Shortened(c, raw) \in Seq(Message) /\ Shortened(c, raw) # <<>>
         /\ Summary(c.covers) \in Message
         /\ SubSeq(raw, c.count + 1, Len(raw)) \in Seq(Message)
         /\ c.count \in Nat
<1> DEFINE y == SubSeq(raw, c.count + 1, Len(raw))
           h == Summary(c.covers)
<1>1. c.count \in Nat /\ c.covers \in SUBSET Nat
  BY StateFacts
<1>2. h \in Message
  BY <1>1 DEF Summary, Message, Role
<1>3. raw \in Seq(Message) /\ Len(raw) \in Nat
  BY SaidMessages
<1>4. y \in Seq(Message)
  <2>1. \A i \in c.count + 1..Len(raw) : raw[i] \in Message
    BY <1>1, <1>3
  <2> QED
    BY <1>1, <1>3, <2>1, SubSeqProperties
<1> HIDE DEF y, h
<1>5. <<h>> \o y \in Seq(Message) /\ Len(<<h>> \o y) = 1 + Len(y)
  BY <1>2, <1>4
<1>6. <<h>> \o y # <<>>
  BY <1>4, <1>5
<1> QED
  BY <1>1, <1>2, <1>4, <1>5, <1>6 DEF Shortened, y, h

LEMMA ShortenedFacts ==
  ASSUME NEW c \in State, c.set, NEW raw \in Seq(Said), Stands(c, raw)
  PROVE  /\ c.count \in 0..Len(raw) /\ Len(Shortened(c, raw)) = 1 + (Len(raw) - c.count)
         /\ Shortened(c, raw)[1] = Summary(c.covers)
         /\ \A i \in 1..Len(raw) - c.count : Shortened(c, raw)[1 + i] = raw[c.count + i]
         /\ Told(Shortened(c, raw)) = Told(raw)
         /\ Paired(raw) => Paired(Shortened(c, raw))
<1> DEFINE y == SubSeq(raw, c.count + 1, Len(raw))
           h == Summary(c.covers)
           z == Shortened(c, raw)
           n == Len(raw) - c.count
<1>1. raw \in Seq(Message) /\ Len(raw) \in Nat /\ c.count \in 0..Len(raw)
      /\ h \in Message /\ z = <<h>> \o y
  BY SaidMessages, ShortenedType DEF Stands, Shortened
<1>2. /\ y \in Seq(Message) /\ Len(y) = n /\ n \in Nat
      /\ \A i \in 1..n : y[i] = raw[c.count + i]
  BY <1>1, Cuts, SMTT(30)
<1>3. Told(raw) = c.covers \cup Told(y)
  BY <1>1, ToldCut DEF Stands
<1>4. Told(<<h>>) = c.covers
  BY ToldSummary
<1>5. h.role = "assistant" /\ h.role # "tool"
  BY DEF Summary
<1>6. n > 0 => raw[c.count + 1].role # "tool"
  BY <1>1 DEF Stands
<1> HIDE DEF y, h, z, n
<1>7. /\ z \in Seq(Message) /\ Len(z) = 1 + n /\ z[1] = h /\ DOMAIN z = 1..1 + n
      /\ \A i \in 1..n : z[1 + i] = y[i]
  BY ONLY <1>1, <1>2
<1>8. Told(z) = c.covers \cup Told(y)
  <2>1. <<h>> \in Seq(Message)
    BY <1>1
  <2>2. Told(<<h>> \o y) = Told(<<h>>) \cup Told(y)
    BY ONLY <1>2, <2>1, ToldFacts
  <2> QED
    BY <1>1, <1>4, <2>2
<1>9. ASSUME Paired(raw) PROVE Paired(z)
  <2>1. SUFFICES ASSUME NEW j \in 1..1 + n, z[j].role = "tool"
                 PROVE  j > 1 /\ z[j - 1].role = "assistant" /\ z[j - 1].id = z[j].id - 1
    BY <1>7 DEF Paired
  <2>2. j # 1
    BY <1>5, <1>7, <2>1
  <2>3. PICK i \in 1..n : j = 1 + i
    <3>1. j - 1 \in 1..n /\ j = 1 + (j - 1)
      BY ONLY <1>2, <2>1, <2>2
    <3> QED
      BY <3>1
  <2>4. z[j] = raw[c.count + i]
    BY <1>2, <1>7, <2>3
  <2>5. i # 1
    BY ONLY <1>2, <1>6, <2>1, <2>3, <2>4
  <2>6. i - 1 \in 1..n /\ j - 1 = 1 + (i - 1) /\ c.count + (i - 1) = (c.count + i) - 1 /\ j > 1
        /\ c.count + i \in 1..Len(raw)
    BY ONLY <1>1, <1>2, <2>3, <2>5 DEF n
  <2>7. z[j - 1] = raw[(c.count + i) - 1]
    <3>1. z[1 + (i - 1)] = y[i - 1] /\ y[i - 1] = raw[c.count + (i - 1)]
      BY <1>2, <1>7, <2>6
    <3> QED
      BY <2>6, <3>1
  <2>8. raw[(c.count + i) - 1].role = "assistant" /\ raw[(c.count + i) - 1].id = raw[c.count + i].id - 1
    <3>1. c.count + i \in DOMAIN raw
      BY <1>1, <2>6
    <3> QED
      BY <1>9, <2>1, <2>4, <3>1 DEF Paired
  <2> QED
    BY <2>4, <2>6, <2>7, <2>8
<1> QED
  BY <1>1, <1>2, <1>3, <1>7, <1>8, <1>9 DEF z, h, n

LEMMA RebuiltType ==
  ASSUME NEW A \in Seq(Artifact)
  PROVE  /\ Rebuilt(A) \in Seq(Message) /\ Raw(A) \in Seq(Said) /\ Raw(A) \in Talk
         /\ Latest(A).set => Rebuilt(A) = Shortened(Latest(A), Raw(A))
         /\ ~Latest(A).set => Rebuilt(A) = Raw(A)
         /\ Rebuilt(A) = <<>> => A = <<>>
<1>1. Raw(A) \in Talk /\ Raw(A) \in Seq(Said) /\ Raw(A) \in Seq(Message) /\ Latest(A) \in State
  BY RawFacts, LatestFacts, TalkJoins, SaidMessages
<1>2. /\ Latest(A).set => Rebuilt(A) = Shortened(Latest(A), Raw(A))
      /\ ~Latest(A).set => Rebuilt(A) = Raw(A)
  BY DEF Rebuilt, Shortened
<1>3. Latest(A).set => Rebuilt(A) \in Seq(Message) /\ Rebuilt(A) # <<>>
  BY <1>1, <1>2, ShortenedType
<1>4. ASSUME ~Latest(A).set, Raw(A) = <<>> PROVE A = <<>>
  <2>1. (\A k \in DOMAIN A : A[k].compaction.set) /\ ~\E k \in DOMAIN A : A[k].compaction.set
    BY <1>4, RawFacts, LatestFacts
  <2>2. DOMAIN A = {}
    BY <2>1
  <2> QED
    BY <2>2
<1> QED
  BY <1>1, <1>2, <1>3, <1>4

(* The list says what was recorded, and every result follows its call. *)
LEMMA RebuiltSays ==
  ASSUME NEW A \in Seq(Artifact), Latest(A).set => Stands(Latest(A), Raw(A))
  PROVE  Told(Rebuilt(A)) = Told(Raw(A)) /\ Paired(Rebuilt(A))
<1>1. Raw(A) \in Seq(Said) /\ Paired(Raw(A)) /\ Latest(A) \in State
  BY RebuiltType, LatestFacts DEF Talk
<1>2. CASE Latest(A).set
  BY <1>1, <1>2, RebuiltType, ShortenedFacts
<1>3. CASE ~Latest(A).set
  BY <1>1, <1>3, RebuiltType
<1> QED
  BY <1>2, <1>3

(* Messages are added at the end of the list, whether or not it was        *)
(* compacted.                                                              *)
LEMMA StandsLonger ==
  ASSUME NEW c \in State, c.set, NEW raw \in Seq(Said), Stands(c, raw), NEW ms \in Talk
  PROVE  /\ Stands(c, raw \o ms)
         /\ Shortened(c, raw \o ms) = Shortened(c, raw) \o ms
<1> DEFINE new == raw \o ms
           n == Len(raw)
           m == Len(ms)
           k == c.count
<1>1. ms \in Seq(Said) /\ Paired(ms) /\ new \in Seq(Said) /\ n \in Nat /\ m \in Nat
  BY ConcatProperties DEF Talk
<1>2. Len(new) = n + m /\ \A i \in 1..n + m : new[i] = IF i <= n THEN raw[i] ELSE ms[i - n]
  BY <1>1, ConcatProperties
<1>3. k \in 0..n /\ k \in 0..n + m /\ c.covers = Told(SubSeq(raw, 1, k))
      /\ (k < n => raw[k + 1].role # "tool")
  BY <1>1, ShortenedFacts DEF Stands
<1> HIDE DEF new, n, m
<1>4. SubSeq(new, 1, k) = SubSeq(raw, 1, k)
  <2>1. SubSeq(new, 1, k) \in Seq(Said) /\ Len(SubSeq(new, 1, k)) = k
        /\ \A i \in 1..k : SubSeq(new, 1, k)[i] = new[i]
    BY <1>1, <1>2, <1>3, Cuts
  <2>2. SubSeq(raw, 1, k) \in Seq(Said) /\ Len(SubSeq(raw, 1, k)) = k
        /\ \A i \in 1..k : SubSeq(raw, 1, k)[i] = raw[i]
    BY <1>1, <1>3, Cuts DEF n
  <2>3. \A i \in 1..k : new[i] = raw[i]
    BY <1>1, <1>2, <1>3
  <2> QED
    BY <2>1, <2>2, <2>3, SeqEqual
<1>5. k < n + m => new[k + 1].role # "tool"
  <2>1. CASE k < n
    <3>1. k + 1 \in 1..n + m /\ k + 1 <= n
      BY <1>1, <1>3, <2>1
    <3> QED
      BY <1>2, <1>3, <2>1, <3>1
  <2>2. CASE k = n /\ m > 0
    <3>1. k + 1 \in 1..n + m /\ ~(k + 1 <= n) /\ (k + 1) - n = 1
      BY <1>1, <1>3, <2>2
    <3>2. new[k + 1] = ms[1]
      BY <1>2, <3>1
    <3>3. 1 \in DOMAIN ms
      BY <1>1, <2>2 DEF m
    <3> QED
      BY <1>1, <3>2, <3>3 DEF Paired
  <2>3. k < n + m => k < n \/ (k = n /\ m > 0)
    BY ONLY <1>1, <1>3
  <2> QED
    BY <2>1, <2>2, <2>3
<1>6. Stands(c, new)
  <2>1. c.covers = Told(SubSeq(new, 1, k))
    BY ONLY <1>3, <1>4, Zenon
  <2>2. k <= n + m /\ Len(new) = n + m
    BY ONLY <1>1, <1>2, <1>3
  <2> QED
    BY ONLY <1>5, <2>1, <2>2, Zenon DEF Stands
<1>7. Shortened(c, new) = Shortened(c, raw) \o ms
  <2> DEFINE x == Shortened(c, raw)
             z == Shortened(c, new)
  <2>1. /\ x \in Seq(Message) /\ Len(x) = 1 + (n - k) /\ x[1] = Summary(c.covers)
        /\ \A i \in 1..n - k : x[1 + i] = raw[k + i]
    BY ShortenedType, ShortenedFacts DEF n
  <2>2. /\ z \in Seq(Message) /\ Len(z) = 1 + ((n + m) - k) /\ z[1] = Summary(c.covers)
        /\ \A i \in 1..(n + m) - k : z[1 + i] = new[k + i]
    BY <1>1, <1>2, <1>6, ShortenedType, ShortenedFacts
  <2>3. ms \in Seq(Message)
    BY <1>1, SaidMessages
  <2> HIDE DEF x, z
  <2>4. /\ x \o ms \in Seq(Message) /\ Len(x \o ms) = (1 + (n - k)) + m
        /\ \A i \in 1..(1 + (n - k)) + m :
             (x \o ms)[i] = IF i <= 1 + (n - k) THEN x[i] ELSE ms[i - (1 + (n - k))]
    BY <2>1, <2>3, ConcatProperties DEF m
  <2>5. (1 + (n - k)) + m = 1 + ((n + m) - k)
    BY ONLY <1>1, <1>3
  <2>6. \A i \in 1..1 + ((n + m) - k) : z[i] = (x \o ms)[i]
    <3> TAKE i \in 1..1 + ((n + m) - k)
    <3> DEFINE j == i - 1
    <3>1. j = 0 \/ j \in 1..(n + m) - k
      BY ONLY <1>1, <1>3
    <3>2. i = 1 + j /\ j \in Int
      BY ONLY <1>1, <1>3
    <3> HIDE DEF j
    <3>3. CASE j = 0
      <4>1. i = 1 /\ i <= 1 + (n - k)
        BY ONLY <1>1, <1>3, <3>2, <3>3
      <4> QED
        BY <2>1, <2>2, <2>4, <2>5, <4>1
    <3>4. CASE j \in 1..n - k
      <4>1. i <= 1 + (n - k) /\ j \in 1..(n + m) - k /\ k + j \in 1..n + m /\ k + j <= n
        BY ONLY <1>1, <1>3, <3>2, <3>4, SMTT(30)
      <4>2. z[i] = raw[k + j]
        BY <1>2, <2>2, <3>2, <4>1
      <4>3. (x \o ms)[i] = x[1 + j]
        BY <2>4, <2>5, <3>2, <4>1
      <4> QED
        BY <2>1, <3>4, <4>2, <4>3
    <3>5. CASE j > n - k
      <4>1. ~(i <= 1 + (n - k)) /\ j \in 1..(n + m) - k /\ k + j \in 1..n + m /\ ~(k + j <= n)
            /\ i - (1 + (n - k)) = (k + j) - n
        <5>1. n \in Int /\ m \in Int /\ k \in Int /\ n >= 0 /\ m >= 0 /\ k >= 0 /\ k <= n
          BY ONLY <1>1, <1>3
        <5>2. j \in Int /\ j > n - k /\ j <= (n + m) - k /\ j > 0
          BY ONLY <3>1, <3>5, <5>1, <3>2
        <5>3. ~(i <= 1 + (n - k)) /\ i - (1 + (n - k)) = (k + j) - n
          <6>1. \A jj \in Int : jj > n - k =>
                  ~(1 + jj <= 1 + (n - k)) /\ (1 + jj) - (1 + (n - k)) = (k + jj) - n
            BY ONLY <5>1
          <6> QED
            BY ONLY <3>2, <5>2, <6>1
        <5>4. j >= 1 /\ (n + m) - k \in Int /\ k + j \in Int /\ k + j >= 1 /\ k + j <= n + m
              /\ n + m \in Int /\ ~(k + j <= n)
          BY ONLY <5>1, <5>2
        <5> HIDE DEF j
        <5>5. j \in 1..(n + m) - k /\ k + j \in 1..n + m
          BY ONLY <5>2, <5>4
        <5> QED
          BY ONLY <5>3, <5>4, <5>5
      <4>2. z[i] = ms[(k + j) - n]
        BY <1>2, <2>2, <3>2, <4>1
      <4>3. (x \o ms)[i] = ms[i - (1 + (n - k))]
        BY <2>4, <2>5, <4>1
      <4> QED
        BY <4>1, <4>2, <4>3
    <3>6. j = 0 \/ j \in 1..n - k \/ j > n - k
      BY ONLY <1>1, <1>3, <3>1, <3>2
    <3> QED
      BY <3>3, <3>4, <3>5, <3>6
  <2> QED
    BY <2>2, <2>4, <2>5, <2>6, SeqEqual, SMTT(30) DEF x, z
<1> QED
  BY <1>6, <1>7 DEF new

LEMMA RebuiltRecorded ==
  ASSUME NEW A \in Seq(Artifact), NEW a \in Artifact, ~a.compaction.set,
         Latest(A).set => Stands(Latest(A), Raw(A))
  PROVE  /\ Latest(Append(A, a)) = Latest(A)
         /\ Raw(Append(A, a)) = Raw(A) \o a.ms
         /\ Rebuilt(Append(A, a)) = Rebuilt(A) \o a.ms
         /\ Latest(A).set => Stands(Latest(A), Raw(A) \o a.ms)
<1> DEFINE B == Append(A, a)
<1>1. Latest(B) = Latest(A) /\ Raw(B) = Raw(A) \o a.ms /\ Latest(A) \in State /\ a.ms \in Talk
      /\ B \in Seq(Artifact)
  BY LatestFacts, RawFacts, ArtifactFacts
<1> HIDE DEF B
<1>2. CASE Latest(A).set
  <2>1. Raw(A) \in Seq(Said) /\ Rebuilt(A) = Shortened(Latest(A), Raw(A))
        /\ Rebuilt(B) = Shortened(Latest(A), Raw(B))
    BY <1>1, <1>2, RebuiltType
  <2>2. Stands(Latest(A), Raw(A) \o a.ms)
        /\ Shortened(Latest(A), Raw(A) \o a.ms) = Shortened(Latest(A), Raw(A)) \o a.ms
    BY <1>1, <1>2, <2>1, StandsLonger
  <2> QED
    BY <1>1, <2>1, <2>2 DEF B
<1>3. CASE ~Latest(A).set
  BY <1>1, <1>3, RebuiltType DEF B
<1> QED
  BY <1>2, <1>3

LEMMA RebuiltFolded ==
  ASSUME NEW A \in Seq(Artifact), NEW c \in State, c.set
  PROVE  /\ CompactionArtifact(c) \in Artifact
         /\ Latest(Append(A, CompactionArtifact(c))) = c
         /\ Raw(Append(A, CompactionArtifact(c))) = Raw(A)
         /\ Rebuilt(Append(A, CompactionArtifact(c))) = Shortened(c, Raw(A))
<1> DEFINE a == CompactionArtifact(c)
<1>1. a.ms = <<>> /\ a.compaction = c
  BY DEF CompactionArtifact
<1>2. a \in Artifact
  <2>1. <<>> \in Seq(Said) /\ Paired(<<>>)
    BY DEF Paired
  <2> DEFINE S == Seq(Said)
  <2> HIDE DEF S
  <2> QED
    BY <2>1 DEF CompactionArtifact, Artifact, S
<1> HIDE DEF a
<1>3. Latest(Append(A, a)) = c /\ Raw(Append(A, a)) = Raw(A) \o <<>> /\ Append(A, a) \in Seq(Artifact)
  <2>1. a.compaction.set
    BY <1>1
  <2>2. Latest(Append(A, a)) = IF a.compaction.set THEN a.compaction ELSE Latest(A)
    BY <1>2, LatestFacts
  <2>3. Raw(Append(A, a)) = Raw(A) \o a.ms
    BY <1>2, RawFacts
  <2>4. Append(A, a) \in Seq(Artifact)
    BY <1>2
  <2> QED
    BY ONLY <1>1, <2>1, <2>2, <2>3, <2>4, Zenon
<1>4. Raw(A) \o <<>> = Raw(A)
  BY RebuiltType, ConcatEmptySeq
<1>5. Rebuilt(Append(A, a)) = Shortened(c, Raw(A))
  BY <1>3, <1>4, RebuiltType
<1> QED
  BY <1>2, <1>3, <1>4, <1>5 DEF a

(* Where the list is split for a compaction. *)
LEMMA SplitFacts ==
  ASSUME NEW s \in Seq(Message)
  PROVE  /\ split(s) \in 0..Len(s)
         /\ split(s) > 0 /\ split(s) < Len(s) => s[split(s) + 1].role # "tool"
<1> DEFINE limit == IF Len(s) > Retention THEN Len(s) - Retention ELSE 0
           K == {k \in 0..limit : k = 0 \/ k = Len(s) \/ s[k + 1].role # "tool"}
<1>1. Len(s) \in Nat /\ limit \in 0..Len(s) /\ limit \in Nat
  BY ConstantsAssumption
<1>2. split(s) = Greatest(K)
  BY DEF split
<1> HIDE DEF limit
<1>3. 0 \in K /\ K \subseteq 0..limit
  BY <1>1
<1>4. Greatest(K) \in K
  <2> HIDE DEF K
  <2>1. K # {}
    BY <1>3
  <2> QED
    BY ONLY <1>1, <1>3, <2>1, GreatestFacts
<1>5. split(s) \in 0..limit /\ (split(s) = 0 \/ split(s) = Len(s) \/ s[split(s) + 1].role # "tool")
  BY <1>2, <1>4
<1>6. split(s) \in 0..Len(s)
  BY ONLY <1>1, <1>5
<1> QED
  BY ONLY <1>1, <1>5, <1>6

(* The old messages of a compaction, the first of which may be a summary. *)
LEMMA OldFacts ==
  ASSUME NEW s \in Seq(Message), split(s) > 0
  PROVE  LET old == SubSeq(s, 1, split(s))
         IN  /\ Len(old) = split(s) /\ split(s) \in 1..Len(s) /\ split(s) \in Nat
             /\ Tail(old) = SubSeq(s, 2, split(s))
             /\ Told(old) \in SUBSET Nat /\ Told(Tail(old)) \in SUBSET Nat
             /\ SubSeq(s, split(s) + 1, Len(s)) \in Seq(Message)
<1> DEFINE n == split(s)
           old == SubSeq(s, 1, n)
<1>1. n \in 0..Len(s) /\ n \in 1..Len(s) /\ n \in Nat /\ Len(s) \in Nat
  BY SplitFacts
<1> HIDE DEF n
<1>2. old \in Seq(Message) /\ Len(old) = n
      /\ SubSeq(s, n + 1, Len(s)) \in Seq(Message)
  BY ONLY <1>1, s \in Seq(Message), Cuts
<1>3. Told(old) \in SUBSET Nat
  BY <1>2, ToldFacts
<1>4. Tail(old) = SubSeq(s, 2, n)
  <2>1. 1 \in 1..Len(s) /\ n \in 1..Len(s) /\ 1 + 1 = 2
    BY <1>1
  <2>2. Tail(SubSeq(s, 1, n)) = SubSeq(s, 1 + 1, n)
    BY ONLY <1>1, <2>1, s \in Seq(Message), HeadTailOfSubSeq
  <2> QED
    BY <2>1, <2>2
<1>5. Tail(old) \in Seq(Message)
  <2>1. old # <<>>
    BY <1>1, <1>2
  <2> HIDE DEF old
  <2> QED
    BY <1>2, <2>1
<1>6. Told(Tail(old)) \in SUBSET Nat
  BY <1>5, ToldFacts
<1> QED
  BY <1>1, <1>2, <1>3, <1>4, <1>6 DEF n

LEMMA CompactedType ==
  ASSUME NEW s \in Seq(Message), cstate \in State, split(s) > 0
  PROVE  compacted(s) \in State /\ compacted(s).set
<1> DEFINE n == split(s)
           old == SubSeq(s, 1, n)
<1>1. n \in Nat /\ n > 0 /\ Len(old) = n /\ Told(old) \in SUBSET Nat /\ Told(Tail(old)) \in SUBSET Nat
  BY OldFacts
<1>2. compacted(s) = IF cstate.set
                     THEN Compaction(cstate.count + Len(old) - 1, cstate.covers \cup Told(Tail(old)))
                     ELSE Compaction(n, Told(old))
  BY DEF compacted
<1> HIDE DEF n, old
<1>3. cstate.count \in Nat /\ cstate.covers \in SUBSET Nat
  BY StateFacts
<1>4. cstate.count + Len(old) - 1 \in Nat /\ cstate.covers \cup Told(Tail(old)) \in SUBSET Nat
  BY ONLY <1>1, <1>3
<1> QED
  BY <1>1, <1>2, <1>4, StateFacts

(* The summary that is made stands for what the list stood for, and what   *)
(* is kept beside it follows in the replay.                                *)
LEMMA CompactedStands ==
  ASSUME NEW A \in Seq(Artifact), NEW s \in Seq(Message), s = Rebuilt(A),
         cstate = Latest(A), Latest(A).set => Stands(Latest(A), Raw(A)), split(s) > 0
  PROVE  /\ Stands(compacted(s), Raw(A))
         /\ SubSeq(s, split(s) + 1, Len(s)) = SubSeq(Raw(A), compacted(s).count + 1, Len(Raw(A)))
<1> DEFINE n == split(s)
           raw == Raw(A)
           old == SubSeq(s, 1, n)
           made == compacted(s)
<1>1. /\ n \in 1..Len(s) /\ Len(old) = n /\ Tail(old) = SubSeq(s, 2, n) /\ Len(s) \in Nat
      /\ n < Len(s) => s[n + 1].role # "tool"
  BY OldFacts, SplitFacts
<1>2. raw \in Seq(Said) /\ raw \in Seq(Message) /\ Len(raw) \in Nat /\ cstate \in State
  BY RebuiltType, SaidMessages, LatestFacts
<1>3. CASE ~cstate.set
  <2>1. s = raw
    BY <1>3, RebuiltType
  <2>2. made.count = n /\ made.covers = Told(old)
    BY <1>3 DEF compacted, Compaction
  <2> QED
    BY <1>1, <2>1, <2>2 DEF Stands
<1>4. CASE cstate.set
  <2> DEFINE c == cstate
             k == c.count
             m == (k + n) - 1
             l == Len(raw)
  <2>1. Stands(c, raw) /\ s = Shortened(c, raw)
    BY <1>4, RebuiltType
  <2>2. /\ k \in 0..l /\ Len(s) = 1 + (l - k) /\ c.covers = Told(SubSeq(raw, 1, k))
        /\ \A i \in 1..l - k : s[1 + i] = raw[k + i]
    BY <1>2, <1>4, <2>1, ShortenedFacts DEF Stands
  <2>3. made.count = m /\ made.covers = c.covers \cup Told(SubSeq(s, 2, n))
    <3>0. made = IF cstate.set
                 THEN Compaction(cstate.count + Len(old) - 1, cstate.covers \cup Told(Tail(old)))
                 ELSE Compaction(n, Told(old))
      BY DEF compacted
    <3>1. made = Compaction(c.count + Len(old) - 1, c.covers \cup Told(Tail(old)))
      <4> HIDE DEF n, old, made
      <4> QED
        BY ONLY <1>4, <3>0
    <3>2. \A x, y : Compaction(x, y).count = x /\ Compaction(x, y).covers = y
      BY DEF Compaction
    <3>3. Len(old) = n /\ Tail(old) = SubSeq(s, 2, n)
      BY <1>1
    <3>4. n \in Int /\ c.count \in Int /\ c.count + (n - 1) = (c.count + n) - 1
      BY ONLY <1>1, <2>2, <1>2
    <3> HIDE DEF n, old, made
    <3>5. made.count = c.count + (n - 1) /\ made.covers = c.covers \cup Told(SubSeq(s, 2, n))
      BY ONLY <3>1, <3>2, <3>3, ZenonT(30)
    <3> QED
      BY ONLY <3>4, <3>5
  <2> HIDE DEF n, raw, made, l, c, k, m, old
  <2>4. m \in 0..l /\ m = (k + n) - 1 /\ l \in Nat /\ n \in Nat /\ k \in Nat /\ n >= 1 /\ k <= m
    BY ONLY <1>1, <1>2, <2>2 DEF l, m
  <2>5. SubSeq(s, 2, n) = SubSeq(raw, k + 1, m)
    <3>1. /\ SubSeq(s, 2, n) \in Seq(Message) /\ Len(SubSeq(s, 2, n)) = (IF 2 <= n THEN n - 2 + 1 ELSE 0)
          /\ \A i \in 1..n - 2 + 1 : SubSeq(s, 2, n)[i] = s[2 + i - 1]
      <4>1. 2 \in Int /\ n \in Int /\ \A i \in 2..n : s[i] \in Message
        BY <1>1, <2>4
      <4> QED
        BY ONLY <4>1, SubSeqProperties
    <3>2. /\ SubSeq(raw, k + 1, m) \in Seq(Message)
          /\ Len(SubSeq(raw, k + 1, m)) = (IF k + 1 <= m THEN m - (k + 1) + 1 ELSE 0)
          /\ \A i \in 1..m - (k + 1) + 1 : SubSeq(raw, k + 1, m)[i] = raw[k + 1 + i - 1]
      <4>1. k + 1 \in Int /\ m \in Int /\ \A i \in k + 1..m : raw[i] \in Message
        BY <1>2, <2>4 DEF l
      <4> QED
        BY ONLY <4>1, SubSeqProperties
    <3>3. /\ (IF 2 <= n THEN n - 2 + 1 ELSE 0) = n - 1 /\ (IF k + 1 <= m THEN m - (k + 1) + 1 ELSE 0) = n - 1
          /\ n - 2 + 1 = n - 1 /\ m - (k + 1) + 1 = n - 1
      BY ONLY <2>4
    <3>4. \A i \in 1..n - 1 : SubSeq(s, 2, n)[i] = SubSeq(raw, k + 1, m)[i]
      <4> TAKE i \in 1..n - 1
      <4>1. i \in 1..l - k /\ 2 + i - 1 = 1 + i /\ k + 1 + i - 1 = k + i
        BY ONLY <2>4, <2>2, <1>1
      <4> QED
        BY <2>2, <3>1, <3>2, <3>3, <4>1
    <3>5. Len(SubSeq(s, 2, n)) = n - 1 /\ Len(SubSeq(raw, k + 1, m)) = n - 1
      BY ONLY <3>1, <3>2, <3>3
    <3> DEFINE x == SubSeq(s, 2, n)
               y == SubSeq(raw, k + 1, m)
    <3>6. x \in Seq(Message) /\ y \in Seq(Message) /\ Len(x) = Len(y) /\ \A i \in 1..Len(x) : x[i] = y[i]
      BY ONLY <3>1, <3>2, <3>4, <3>5
    <3> HIDE DEF x, y
    <3>7. x = y
      BY ONLY <3>6, SeqEqual
    <3> QED
      BY <3>7 DEF x, y
  <2>6. Told(SubSeq(raw, 1, m)) = Told(SubSeq(raw, 1, k)) \cup Told(SubSeq(raw, k + 1, m))
    <3> DEFINE t == SubSeq(raw, 1, m)
    <3>1. t \in Seq(Message) /\ Len(t) = m /\ \A i \in 1..m : t[i] = raw[i]
      BY ONLY <1>2, <2>4, Cuts DEF l
    <3>2. SubSeq(t, 1, k) = SubSeq(raw, 1, k)
      <4>1. k \in 0..Len(t) /\ k \in 0..Len(raw)
        BY ONLY <2>4, <3>1, <2>2 DEF l
      <4> HIDE DEF t
      <4>2. SubSeq(t, 1, k) \in Seq(Message) /\ Len(SubSeq(t, 1, k)) = k
            /\ \A i \in 1..k : SubSeq(t, 1, k)[i] = t[i]
        BY ONLY <3>1, <4>1, Cuts
      <4>3. SubSeq(raw, 1, k) \in Seq(Message) /\ Len(SubSeq(raw, 1, k)) = k
            /\ \A i \in 1..k : SubSeq(raw, 1, k)[i] = raw[i]
        BY ONLY <1>2, <4>1, Cuts
      <4>4. \A i \in 1..k : t[i] = raw[i]
        BY ONLY <2>4, <3>1
      <4> QED
        BY ONLY <4>2, <4>3, <4>4, SeqEqual
    <3>3. SubSeq(t, k + 1, m) = SubSeq(raw, k + 1, m)
      <4> HIDE DEF t
      <4>1. k + 1 \in Int /\ m \in Int /\ \A i \in k + 1..m : t[i] \in Message /\ raw[i] \in Message /\ t[i] = raw[i]
        BY <1>2, <2>4, <3>1 DEF l
      <4>2. /\ SubSeq(t, k + 1, m) \in Seq(Message)
            /\ Len(SubSeq(t, k + 1, m)) = (IF k + 1 <= m THEN m - (k + 1) + 1 ELSE 0)
            /\ \A i \in 1..m - (k + 1) + 1 : SubSeq(t, k + 1, m)[i] = t[k + 1 + i - 1]
        BY ONLY <4>1, SubSeqProperties
      <4>3. /\ SubSeq(raw, k + 1, m) \in Seq(Message)
            /\ Len(SubSeq(raw, k + 1, m)) = (IF k + 1 <= m THEN m - (k + 1) + 1 ELSE 0)
            /\ \A i \in 1..m - (k + 1) + 1 : SubSeq(raw, k + 1, m)[i] = raw[k + 1 + i - 1]
        BY ONLY <4>1, SubSeqProperties
      <4> DEFINE x == SubSeq(t, k + 1, m)
                 y == SubSeq(raw, k + 1, m)
                 w == IF k + 1 <= m THEN m - (k + 1) + 1 ELSE 0
      <4>4. \A i \in 1..w : i \in 1..m - (k + 1) + 1 /\ k + 1 + i - 1 \in k + 1..m
        BY ONLY <2>4
      <4>5. x \in Seq(Message) /\ y \in Seq(Message) /\ Len(x) = w /\ Len(y) = w
            /\ \A i \in 1..w : x[i] = y[i]
        BY ONLY <4>1, <4>2, <4>3, <4>4
      <4> HIDE DEF x, y, w
      <4>6. x = y
        BY ONLY <4>5, SeqEqual
      <4> QED
        BY <4>6 DEF x, y
    <3>4. k \in 0..Len(t) /\ Len(t) = m
      BY ONLY <2>4, <3>1
    <3> HIDE DEF t
    <3>5. Told(t) = Told(SubSeq(t, 1, k)) \cup Told(SubSeq(t, k + 1, Len(t)))
      BY ONLY <3>1, <3>4, ToldCut
    <3> QED
      BY ONLY <3>2, <3>3, <3>4, <3>5, Zenon DEF t
  <2>7. made.covers = Told(SubSeq(raw, 1, m))
    BY ONLY <2>2, <2>3, <2>5, <2>6, Zenon
  <2>8. m < l => raw[m + 1].role # "tool"
    <3>1. m < l => n < Len(s) /\ n \in 1..l - k /\ n + 1 = 1 + n /\ k + n = m + 1
      BY ONLY <1>1, <2>2, <2>4
    <3> QED
      BY ONLY <1>1, <2>2, <3>1
  <2>9. Stands(made, raw)
    <3>1. m <= l
      BY ONLY <2>4
    <3> QED
      BY ONLY <2>3, <2>7, <2>8, <3>1, Zenon DEF Stands, l
  <2>10. SubSeq(s, n + 1, Len(s)) = SubSeq(raw, m + 1, l)
    <3> DEFINE x == SubSeq(s, n + 1, Len(s))
               y == SubSeq(raw, m + 1, l)
    <3>1. n \in 0..Len(s) /\ m \in 0..Len(raw) /\ l = Len(raw)
      BY ONLY <1>1, <2>4 DEF l
    <3>2. /\ x \in Seq(Message) /\ Len(x) = Len(s) - n
          /\ \A i \in 1..Len(s) - n : x[i] = s[n + i]
      BY ONLY <3>1, s \in Seq(Message), Cuts
    <3>3. /\ y \in Seq(Message) /\ Len(y) = l - m
          /\ \A i \in 1..l - m : y[i] = raw[m + i]
      BY ONLY <1>2, <3>1, Cuts
    <3> HIDE DEF x, y
    <3>4. Len(s) - n = l - m
      BY ONLY <1>1, <2>2, <2>4
    <3>5. \A i \in 1..l - m : x[i] = y[i]
      <4> TAKE i \in 1..l - m
      <4> DEFINE j == (n - 1) + i
      <4>1. j \in 1..l - k /\ 1 + j = n + i /\ k + j = m + i
        BY ONLY <1>1, <2>2, <2>4
      <4> HIDE DEF j
      <4>2. s[1 + j] = raw[k + j]
        BY ONLY <2>2, <4>1
      <4> QED
        BY ONLY <3>2, <3>3, <3>4, <4>1, <4>2
    <3>6. x = y
      BY ONLY <3>2, <3>3, <3>4, <3>5, SeqEqual
    <3> QED
      BY <3>6 DEF x, y
  <2> QED
    BY ONLY <2>3, <2>9, <2>10, Zenon DEF n, raw, made, l
<1> QED
  BY <1>3, <1>4

(***************************************************************************)
(* What the steps write.                                                   *)
(***************************************************************************)
RoleLists ==
  {<<"user">>, <<"assistant">>, <<"assistant", "tool">>,
   <<"user", "assistant">>, <<"user", "assistant", "tool">>}

LEMMA MsgsFacts ==
  ASSUME recorded \in Nat, NEW roles \in RoleLists
  PROVE  LET a == MessageArtifact(Msgs(roles))
         IN  /\ Msgs(roles) \in Talk /\ Msgs(roles) \in Seq(Message)
             /\ a \in Artifact /\ a.ms = Msgs(roles) /\ ~a.compaction.set
             /\ Len(roles) \in Nat
<1> DEFINE s == Msgs(roles)
           n == Len(roles)
<1>1. /\ n \in 1..3 /\ DOMAIN roles = 1..n /\ \A i \in 1..n : roles[i] \in Role
      /\ \A i \in 1..n : roles[i] = "tool" => i > 1 /\ roles[i - 1] = "assistant"
  BY DEF RoleLists, Role
<1> HIDE DEF n
<1>2. s = [i \in 1..n |-> Msg(recorded + i, roles[i])]
  BY <1>1 DEF Msgs
<1> HIDE DEF s
<1>3. \A i \in 1..n : s[i] = Msg(recorded + i, roles[i]) /\ s[i].role = roles[i] /\ s[i].id = recorded + i
  BY <1>2 DEF Msg
<1>4. \A i \in 1..n : Msg(recorded + i, roles[i]) \in Said
  <2> TAKE i \in 1..n
  <2>1. recorded + i \in Nat /\ recorded + i # 0
    BY <1>1
  <2> QED
    BY <1>1, <2>1 DEF Msg, Said, Message
<1>5. s \in Seq(Said) /\ Len(s) = n /\ DOMAIN s = 1..n
  BY <1>1, <1>2, <1>4
<1>6. Paired(s)
  <2>1. SUFFICES ASSUME NEW i \in 1..n, s[i].role = "tool"
                 PROVE  i > 1 /\ s[i - 1].role = "assistant" /\ s[i - 1].id = s[i].id - 1
    BY <1>5 DEF Paired
  <2>2. i > 1 /\ roles[i - 1] = "assistant" /\ i - 1 \in 1..n /\ recorded + (i - 1) = (recorded + i) - 1
    BY <1>1, <1>3, <2>1
  <2> QED
    BY <1>3, <2>2
<1>7. s # <<>> /\ s \in Seq(Message) /\ s \in Talk
  BY <1>1, <1>5, <1>6, SaidMessages DEF Talk
<1> DEFINE a == MessageArtifact(s)
<1>8. a = [ms |-> s, compaction |-> NoCompaction] /\ a.ms = s /\ a.compaction = NoCompaction
  BY DEF MessageArtifact
<1>9. a \in Artifact
  <2> DEFINE S == Seq(Said)
  <2>1. s \in S
    BY <1>5
  <2> HIDE DEF a, S
  <2>2. a \in [ms : S, compaction : State]
    BY ONLY <1>8, <2>1, StateFacts
  <2>3. Paired(a.ms) /\ (a.ms = <<>> <=> a.compaction.set)
    BY <1>6, <1>7, <1>8, StateFacts
  <2> QED
    BY <2>2, <2>3 DEF Artifact, S
<1> QED
  BY <1>1, <1>7, <1>8, <1>9, StateFacts DEF s, n

(* Stores with the same tasks in the same places. *)
Alike(ts, us) ==
  /\ us \in Seq(Task) /\ Len(us) = Len(ts)
  /\ \A i \in 1..Len(ts) : us[i].before = ts[i].before

LEMMA AlikeFacts ==
  ASSUME NEW ts \in Seq(Task), NEW us, Alike(ts, us)
  PROVE  /\ us \in Seq(Task) /\ Len(us) = Len(ts) /\ DOMAIN us = DOMAIN ts
         /\ Kept(us) = Kept(ts) /\ (Marked(ts) => Marked(us))
<1>1. us \in Seq(Task) /\ Len(us) = Len(ts) /\ \A i \in 1..Len(ts) : us[i].before = ts[i].before
  BY DEF Alike
<1>2. DOMAIN us = DOMAIN ts
  BY <1>1
<1> QED
  BY <1>1, <1>2, KeptSame

(* The writes of the steps, as operators of their own.  *)
Put(ts, c, t)      == [ts EXCEPT ![c] = t]
Write(ts, c, a)    == [ts EXCEPT ![c].arts = Append(@, a)]
Shoot(ts, c, n)    == [ts EXCEPT ![c].snap = n]
Close(ts, c)       == [ts EXCEPT ![c].open = FALSE]
End(ts, c, n, a)   ==
  [ts EXCEPT ![c].open = FALSE, ![c].snap = n, ![c].arts = Append(@, a)]

LEMMA PutFacts ==
  ASSUME NEW ts \in Seq(Task), NEW c \in DOMAIN ts, NEW t \in Task, t.before = ts[c].before,
         NEW us, us = Put(ts, c, t)
  PROVE  /\ Alike(ts, us) /\ us[c] = t
         /\ \A i \in 1..Len(ts) : i # c => us[i] = ts[i]
<1>1. us \in Seq(Task) /\ Len(us) = Len(ts) /\ us[c] = t /\ DOMAIN ts = 1..Len(ts)
      /\ \A i \in 1..Len(ts) : i # c => us[i] = ts[i]
  BY LenProperties DEF Put
<1> QED
  BY <1>1 DEF Alike

LEMMA Wrote ==
  ASSUME NEW ts \in Seq(Task), NEW c \in DOMAIN ts, NEW a \in Artifact,
         NEW us, us = Write(ts, c, a)
  PROVE  /\ Alike(ts, us) /\ us[c].arts = Append(ts[c].arts, a)
         /\ us[c].open = ts[c].open /\ us[c].snap = ts[c].snap
         /\ \A i \in 1..Len(ts) : i # c => us[i] = ts[i]
<1> DEFINE old == ts[c].arts
           new == Append(old, a)
           t == [ts[c] EXCEPT !.arts = new]
<1>1. ts[c] \in Task /\ new \in Seq(Artifact)
  BY TaskFacts
<1>2. us = Put(ts, c, t)
  BY DEF Put, Write
<1> HIDE DEF new
<1>3. t \in Task /\ t.before = ts[c].before /\ t.arts = new /\ t.open = ts[c].open /\ t.snap = ts[c].snap
  <2> DEFINE S == Seq(Artifact)
  <2>1. new \in S
    BY <1>1
  <2> HIDE DEF S
  <2> QED
    BY <1>1, <2>1 DEF Task, S
<1> HIDE DEF t
<1>4. Alike(ts, us) /\ us[c] = t /\ \A i \in 1..Len(ts) : i # c => us[i] = ts[i]
  BY ONLY <1>2, <1>3, ts \in Seq(Task), c \in DOMAIN ts, PutFacts
<1> QED
  BY <1>3, <1>4 DEF new

LEMMA Shot ==
  ASSUME NEW ts \in Seq(Task), NEW c \in DOMAIN ts, NEW n \in Nat,
         NEW us, us = Shoot(ts, c, n)
  PROVE  /\ Alike(ts, us) /\ us[c].snap = n /\ us[c].arts = ts[c].arts /\ us[c].open = ts[c].open
         /\ \A i \in 1..Len(ts) : i # c => us[i] = ts[i]
<1> DEFINE t == [ts[c] EXCEPT !.snap = n]
<1>1. ts[c] \in Task
  OBVIOUS
<1>2. us = Put(ts, c, t)
  BY DEF Put, Shoot
<1>3. t \in Task /\ t.before = ts[c].before /\ t.arts = ts[c].arts /\ t.open = ts[c].open /\ t.snap = n
  BY <1>1 DEF Task
<1> HIDE DEF t
<1>4. Alike(ts, us) /\ us[c] = t /\ \A i \in 1..Len(ts) : i # c => us[i] = ts[i]
  BY ONLY <1>2, <1>3, ts \in Seq(Task), c \in DOMAIN ts, PutFacts
<1> QED
  BY <1>3, <1>4

LEMMA Closed ==
  ASSUME NEW ts \in Seq(Task), NEW c \in DOMAIN ts, NEW us, us = Close(ts, c)
  PROVE  /\ Alike(ts, us) /\ us[c].snap = ts[c].snap /\ us[c].arts = ts[c].arts /\ ~us[c].open
         /\ \A i \in 1..Len(ts) : i # c => us[i] = ts[i]
<1> DEFINE t == [ts[c] EXCEPT !.open = FALSE]
<1>1. ts[c] \in Task
  OBVIOUS
<1>2. us = Put(ts, c, t)
  BY DEF Put, Close
<1>3. t \in Task /\ t.before = ts[c].before /\ t.arts = ts[c].arts /\ t.open = FALSE /\ t.snap = ts[c].snap
  BY <1>1 DEF Task
<1> HIDE DEF t
<1>4. Alike(ts, us) /\ us[c] = t /\ \A i \in 1..Len(ts) : i # c => us[i] = ts[i]
  BY ONLY <1>2, <1>3, ts \in Seq(Task), c \in DOMAIN ts, PutFacts
<1> QED
  BY <1>3, <1>4

LEMMA Ended ==
  ASSUME NEW ts \in Seq(Task), NEW c \in DOMAIN ts, NEW n \in Nat, NEW a \in Artifact,
         NEW us, us = End(ts, c, n, a)
  PROVE  /\ Alike(ts, us) /\ us[c].snap = n /\ us[c].arts = Append(ts[c].arts, a) /\ ~us[c].open
         /\ \A i \in 1..Len(ts) : i # c => us[i] = ts[i]
<1> DEFINE old == ts[c].arts
           new == Append(old, a)
           t == [ts[c] EXCEPT !.open = FALSE, !.snap = n, !.arts = Append(@, a)]
<1>1. ts[c] \in Task /\ new \in Seq(Artifact)
  BY TaskFacts
<1>2. us = Put(ts, c, t)
  BY DEF Put, End
<1>a. t = [ts[c] EXCEPT !.open = FALSE, !.snap = n, !.arts = new]
  BY <1>1 DEF Task
<1> HIDE DEF new, t
<1>3. t \in Task /\ t.before = ts[c].before /\ t.arts = new /\ t.open = FALSE /\ t.snap = n
  <2> DEFINE S == Seq(Artifact)
  <2>1. new \in S
    BY <1>1
  <2> HIDE DEF S
  <2> QED
    BY <1>1, <1>a, <2>1 DEF Task, S
<1>4. Alike(ts, us) /\ us[c] = t /\ \A i \in 1..Len(ts) : i # c => us[i] = ts[i]
  BY ONLY <1>2, <1>3, ts \in Seq(Task), c \in DOMAIN ts, PutFacts
<1> QED
  BY <1>3, <1>4 DEF new

(* A session is entered: its list is what it was, or the replay without    *)
(* the task that is entered.                                               *)
LEMMA Entered ==
  ASSUME TypeOK, Control, NEW t \in Nat, Enter(t)
  PROVE  /\ live' = TRUE /\ cur' = t
         /\ messages' \in Seq(Message) /\ cstate' \in State
         /\ Replay(tasks, t) \in Seq(Artifact)
         /\ messages = <<>> =>
              /\ messages' = Rebuilt(Replay(tasks, t))
              /\ cstate' = IF Latest(Replay(tasks, t)).set THEN Latest(Replay(tasks, t)) ELSE cstate
         /\ messages # <<>> => messages' = messages /\ cstate' = cstate
<1>1. tasks \in Seq(Task) /\ messages \in Seq(Message) /\ cstate \in State /\ Marked(tasks)
  BY DEF TypeOK, Control
<1>2. rebuild(t) = Rebuilt(Replay(tasks, t)) /\ latest_compaction(t) = Latest(Replay(tasks, t))
  BY <1>1, RowsOfType, ReplayIs
<1>3. Replay(tasks, t) \in Seq(Artifact)
  BY <1>1, ReplayType
<1>4. Rebuilt(Replay(tasks, t)) \in Seq(Message) /\ Latest(Replay(tasks, t)) \in State
  BY <1>3, RebuiltType, LatestFacts
<1> QED
  BY <1>1, <1>2, <1>3, <1>4 DEF Enter, rebuild_state

(***************************************************************************)
(* Types and control.                                                      *)
(***************************************************************************)
(* What the store is to the rest of the state. *)
Stored(ts) ==
  /\ ts \in Seq(Task) /\ Marked(ts)
  /\ \A i \in DOMAIN ts : ts[i].open => ts[i].before = 0

LEMMA AlikeStored ==
  ASSUME NEW ts, Stored(ts), NEW us, Alike(ts, us), NEW c \in DOMAIN ts,
         us[c].open => ts[c].open, \A i \in 1..Len(ts) : i # c => us[i] = ts[i]
  PROVE  Stored(us) /\ Kept(us) = Kept(ts) /\ DOMAIN us = DOMAIN ts
         /\ \A i \in DOMAIN ts : us[i].before = ts[i].before
<1>1. ts \in Seq(Task) /\ Marked(ts) /\ \A i \in DOMAIN ts : ts[i].open => ts[i].before = 0
  BY DEF Stored
<1>2. us \in Seq(Task) /\ DOMAIN us = DOMAIN ts /\ Kept(us) = Kept(ts) /\ Marked(us)
  BY <1>1, AlikeFacts
<1>3. DOMAIN ts = 1..Len(ts) /\ \A i \in 1..Len(ts) : us[i].before = ts[i].before
  BY <1>1 DEF Alike
<1>4. \A i \in DOMAIN us : us[i].open => us[i].before = 0
  BY ONLY <1>1, <1>2, <1>3, us[c].open => ts[c].open, \A i \in 1..Len(ts) : i # c => us[i] = ts[i]
<1> QED
  BY <1>2, <1>3, <1>4 DEF Stored

(* The store and the list after a step that records. *)
LEMMA RecordFacts ==
  ASSUME TypeOK, Control, live, NEW roles \in RoleLists, Record(roles)
  PROVE  LET a == MessageArtifact(Msgs(roles))
         IN  /\ a \in Artifact /\ ~a.compaction.set /\ a.ms = Msgs(roles) /\ Msgs(roles) \in Talk
             /\ messages' = messages \o Msgs(roles) /\ messages' \in Seq(Message)
             /\ recorded' \in Nat
             /\ tasks \in Seq(Task) /\ cur \in DOMAIN tasks
             /\ tasks' = Write(tasks, cur, a)
             /\ Stored(tasks') /\ Kept(tasks)' = Kept(tasks) /\ DOMAIN tasks' = DOMAIN tasks
             /\ \A i \in DOMAIN tasks : tasks'[i].before = tasks[i].before
<1> DEFINE a == MessageArtifact(Msgs(roles))
<1>1. /\ tasks \in Seq(Task) /\ cur \in DOMAIN tasks /\ Stored(tasks)
      /\ messages \in Seq(Message) /\ recorded \in Nat
  BY DEF TypeOK, Control, Stored
<1>2. /\ Msgs(roles) \in Talk /\ Msgs(roles) \in Seq(Message)
      /\ a \in Artifact /\ a.ms = Msgs(roles) /\ ~a.compaction.set /\ Len(roles) \in Nat
  BY <1>1, MsgsFacts
<1>3. tasks' = Write(tasks, cur, a) /\ messages' = messages \o Msgs(roles)
      /\ recorded' = recorded + Len(roles)
  BY DEF Record, Write
<1> HIDE DEF a
<1>4. Alike(tasks, tasks') /\ tasks'[cur].open = tasks[cur].open
      /\ \A i \in 1..Len(tasks) : i # cur => tasks'[i] = tasks[i]
  BY ONLY <1>1, <1>2, <1>3, Wrote
<1>5. Stored(tasks') /\ Kept(tasks') = Kept(tasks) /\ DOMAIN tasks' = DOMAIN tasks
      /\ \A i \in DOMAIN tasks : tasks'[i].before = tasks[i].before
  BY ONLY <1>1, <1>4, AlikeStored
<1>6. messages' \in Seq(Message) /\ recorded' \in Nat
  BY ONLY <1>1, <1>2, <1>3, ConcatProperties
<1> QED
  BY <1>1, <1>2, <1>3, <1>5, <1>6 DEF a

(* A turn that ends with its planning. *)
LEMMA EndsFacts ==
  ASSUME TypeOK, Control, NEW failed \in BOOLEAN, PlanEnds(failed)
  PROVE  \E roles \in RoleLists, n \in Nat :
           LET a == MessageArtifact(Msgs(roles))
           IN  /\ a \in Artifact /\ n > 0 /\ row' = n
               /\ recorded' \in Nat /\ recorded' >= n
               /\ tasks \in Seq(Task) /\ cur \in DOMAIN tasks /\ live
               /\ tasks' = End(tasks, cur, n, a)
               /\ Stored(tasks') /\ Kept(tasks)' = Kept(tasks) /\ DOMAIN tasks' = DOMAIN tasks
<1> DEFINE roles == IF failed THEN <<"user", "assistant", "tool">> ELSE <<"user", "assistant">>
           n == recorded + (IF failed THEN 1 ELSE 2)
           a == MessageArtifact(Msgs(roles))
<1>1. /\ tasks \in Seq(Task) /\ cur \in DOMAIN tasks /\ Stored(tasks) /\ live /\ recorded \in Nat
  BY DEF TypeOK, Control, Stored, PlanEnds
<1>2. roles \in RoleLists /\ Len(roles) = IF failed THEN 3 ELSE 2
  BY DEF RoleLists
<1>3. a \in Artifact /\ n \in Nat /\ n > 0
  BY <1>1, <1>2, MsgsFacts
<1>4. tasks' = End(tasks, cur, n, a) /\ row' = n /\ recorded' = recorded + Len(roles)
  BY DEF PlanEnds, End
<1>5. recorded' \in Nat /\ recorded' >= n
  BY <1>1, <1>2, <1>4
<1> HIDE DEF a, roles, n
<1>6. Alike(tasks, tasks') /\ ~tasks'[cur].open
      /\ \A i \in 1..Len(tasks) : i # cur => tasks'[i] = tasks[i]
  BY ONLY <1>1, <1>3, <1>4, Ended
<1>7. Stored(tasks') /\ Kept(tasks') = Kept(tasks) /\ DOMAIN tasks' = DOMAIN tasks
  BY ONLY <1>1, <1>6, AlikeStored
<1> QED
  BY <1>1, <1>2, <1>3, <1>4, <1>5, <1>7 DEF a

LEMMA CompactFacts ==
  ASSUME TypeOK, Control, CompactEnd
  PROVE  /\ recent.made \in State /\ recent.made.set /\ recent.kept \in Seq(Message)
         /\ CompactionArtifact(recent.made) \in Artifact
         /\ messages' = <<Summary(recent.made.covers)>> \o recent.kept /\ messages' \in Seq(Message)
         /\ tasks \in Seq(Task) /\ cur \in DOMAIN tasks
         /\ tasks' = Write(tasks, cur, CompactionArtifact(recent.made))
         /\ Stored(tasks') /\ Kept(tasks)' = Kept(tasks) /\ DOMAIN tasks' = DOMAIN tasks
         /\ \A i \in DOMAIN tasks : tasks'[i].before = tasks[i].before
<1> DEFINE c == recent.made
           a == CompactionArtifact(c)
<1>1. /\ tasks \in Seq(Task) /\ cur \in DOMAIN tasks /\ Stored(tasks)
      /\ c \in State /\ recent.kept \in Seq(Message) /\ c.set
  BY DEF TypeOK, Control, Stored, CompactEnd
<1>2. a \in Artifact
  <2>1. <<>> \in Seq(Artifact)
    OBVIOUS
  <2> HIDE DEF c
  <2> QED
    BY ONLY <1>1, <2>1, RebuiltFolded
<1>3. tasks' = Write(tasks, cur, a) /\ messages' = <<Summary(c.covers)>> \o recent.kept
  BY DEF CompactEnd, Write
<1>4. Summary(c.covers) \in Message
  <2>1. <<>> \in Seq(Said)
    OBVIOUS
  <2> HIDE DEF c
  <2> QED
    BY ONLY <1>1, <2>1, ShortenedType
<1> HIDE DEF a
<1>5. Alike(tasks, tasks') /\ tasks'[cur].open = tasks[cur].open
      /\ \A i \in 1..Len(tasks) : i # cur => tasks'[i] = tasks[i]
  BY ONLY <1>1, <1>2, <1>3, Wrote
<1>6. Stored(tasks') /\ Kept(tasks') = Kept(tasks) /\ DOMAIN tasks' = DOMAIN tasks
      /\ \A i \in DOMAIN tasks : tasks'[i].before = tasks[i].before
  BY ONLY <1>1, <1>5, AlikeStored
<1>7. messages' \in Seq(Message)
  <2> DEFINE h == Summary(c.covers)
  <2>1. h \in Message /\ messages' = <<h>> \o recent.kept
    BY <1>3, <1>4
  <2> HIDE DEF h
  <2> QED
    BY ONLY <1>1, <2>1
<1> QED
  BY <1>1, <1>2, <1>3, <1>6, <1>7 DEF a

LEMMA ReceiveFacts ==
  ASSUME TypeOK, Control, NEW h \in BOOLEAN, Receive(h)
  PROVE  /\ tasks \in Seq(Task) /\ Len(tasks) + 1 \in Nat /\ Enter(Len(tasks) + 1)
         /\ tasks' = Append(tasks, Turn(h)) /\ Stored(tasks')
         /\ DOMAIN tasks' = 1..Len(tasks) + 1 /\ DOMAIN tasks = 1..Len(tasks) /\ Len(tasks) \in Nat
         /\ Kept(tasks)' = Kept(tasks) \cup {Len(tasks) + 1}
         /\ tasks'[Len(tasks) + 1] = Turn(h) /\ \A i \in 1..Len(tasks) : tasks'[i] = tasks[i]
<1>1. tasks \in Seq(Task) /\ Stored(tasks) /\ Turn(h) \in Task /\ Marked(tasks)
  BY TaskFacts DEF TypeOK, Control, Stored
<1>2. tasks' = Append(tasks, Turn(h)) /\ Enter(Len(tasks) + 1)
  BY DEF Receive
<1>3. /\ tasks' \in Seq(Task) /\ DOMAIN tasks' = 1..Len(tasks) + 1 /\ DOMAIN tasks = 1..Len(tasks)
      /\ Len(tasks) \in Nat /\ Len(tasks) + 1 \in Nat
      /\ tasks'[Len(tasks) + 1] = Turn(h) /\ \A i \in 1..Len(tasks) : tasks'[i] = tasks[i]
  BY <1>1, <1>2
<1>4. Kept(tasks') = Kept(tasks) \cup {Len(tasks) + 1} /\ Marked(tasks')
  BY <1>1, <1>2, TurnOpened
<1>5. Stored(tasks')
  <2>1. \A i \in DOMAIN tasks' : i \in DOMAIN tasks \/ i = Len(tasks) + 1
    BY <1>3
  <2>2. Turn(h).before = 0
    BY DEF Turn
  <2> QED
    BY <1>1, <1>3, <1>4, <2>1, <2>2 DEF Stored
<1> QED
  BY <1>1, <1>2, <1>3, <1>4, <1>5

LEMMA RewindFacts ==
  ASSUME TypeOK, Control, RewindEnd
  PROVE  /\ tasks \in Seq(Task) /\ tasks' = Append(tasks, Marker(rw.before)) /\ Stored(tasks')
         /\ Kept(tasks)' = {i \in Kept(tasks) : i < rw.before}
         /\ DOMAIN tasks = 1..Len(tasks) /\ \A i \in 1..Len(tasks) : tasks'[i] = tasks[i]
         /\ DOMAIN tasks' = 1..Len(tasks) + 1 /\ Len(tasks) \in Nat
         /\ tasks'[Len(tasks) + 1] = Marker(rw.before)
         /\ Kept(tasks) \subseteq DOMAIN tasks
<1> DEFINE b == rw.before
<1>1. tasks \in Seq(Task) /\ Stored(tasks) /\ b \in Kept(tasks) /\ Marked(tasks) /\ b \in Nat
  BY DEF TypeOK, Control, Stored, RewindEnd
<1>2. tasks' = Append(tasks, Marker(b)) /\ Marker(b) \in Task
  BY <1>1, TaskFacts DEF RewindEnd
<1> HIDE DEF b
<1>3. /\ tasks' \in Seq(Task) /\ DOMAIN tasks' = 1..Len(tasks) + 1 /\ DOMAIN tasks = 1..Len(tasks)
      /\ Len(tasks) \in Nat
      /\ tasks'[Len(tasks) + 1] = Marker(b) /\ \A i \in 1..Len(tasks) : tasks'[i] = tasks[i]
  BY <1>1, <1>2
<1>4. Kept(tasks') = {i \in Kept(tasks) : i < b} /\ Marked(tasks')
  BY <1>1, <1>2, RewindMade
<1>5. Stored(tasks')
  <2>1. \A i \in DOMAIN tasks' : i \in DOMAIN tasks \/ i = Len(tasks) + 1
    BY <1>3
  <2>2. ~Marker(b).open
    BY DEF Marker
  <2> QED
    BY <1>1, <1>3, <1>4, <2>1, <2>2 DEF Stored
<1>6. Kept(tasks) \subseteq DOMAIN tasks
  BY DEF Kept
<1> QED
  BY <1>1, <1>2, <1>3, <1>4, <1>5, <1>6 DEF b

LEMMA BaseStep == TypeOK /\ Control /\ [Next]_vars => TypeOK' /\ Control'
<1> SUFFICES ASSUME TypeOK, Control, [Next]_vars PROVE TypeOK' /\ Control'
  OBVIOUS
<1> USE DEF Quiet
<1>e. <<>> \in Seq(Message)
  OBVIOUS
<1>0. Stored(tasks) /\ (live => cur \in DOMAIN tasks) /\ Kept(tasks) \subseteq DOMAIN tasks
      /\ \A i \in Kept(tasks) : tasks[i].before = 0
  BY DEF TypeOK, Control, Stored, Kept
<1>1. ASSUME NEW h \in BOOLEAN, Receive(h) PROVE TypeOK' /\ Control'
  <2>1. /\ Enter(Len(tasks) + 1) /\ Len(tasks) + 1 \in Nat /\ Stored(tasks')
        /\ DOMAIN tasks' = 1..Len(tasks) + 1 /\ Len(tasks) \in Nat
        /\ tasks'[Len(tasks) + 1] = Turn(h)
    BY <1>1, ReceiveFacts
  <2>2. live' = TRUE /\ cur' = Len(tasks) + 1 /\ messages' \in Seq(Message) /\ cstate' \in State
    BY <2>1, Entered
  <2>3. cur' \in DOMAIN tasks' /\ tasks'[cur'].before = 0
    BY <2>1, <2>2 DEF Turn
  <2> QED
    BY <1>1, <2>1, <2>2, <2>3 DEF Receive, TypeOK, Control, Stored
<1>2. ASSUME Continue PROVE TypeOK' /\ Control'
  <2> DEFINE t == Greatest(iter_all_tasks)
  <2>1. t \in Kept(tasks) /\ t \in Nat
    <3>1. iter_all_tasks = Kept(tasks)
      BY <1>0, VisibleKept, RowsOfType DEF Stored
    <3>2. Len(tasks) \in Nat /\ Kept(tasks) \subseteq 0..Len(tasks)
      BY <1>0 DEF Stored
    <3>3. Kept(tasks) # {}
      BY <1>2, <3>1 DEF Continue
    <3> QED
      BY <3>1, <3>2, <3>3, GreatestFacts
  <2>2. Enter(t) /\ tasks' = tasks
    BY <1>2 DEF Continue
  <2> HIDE DEF t
  <2>3. live' = TRUE /\ cur' = t /\ messages' \in Seq(Message) /\ cstate' \in State
    BY <2>1, <2>2, Entered
  <2> QED
    BY <1>0, <1>2, <2>1, <2>2, <2>3 DEF Continue, TypeOK, Control
<1>3. ASSUME PlanAsIs PROVE TypeOK' /\ Control'
  BY <1>3 DEF PlanAsIs, TypeOK, Control, sessionVars
<1>4. ASSUME CompactBegin PROVE TypeOK' /\ Control'
  <2>1. split(messages) > 0 /\ messages \in Seq(Message) /\ cstate \in State
    BY <1>4 DEF CompactBegin, TypeOK
  <2>2. compacted(messages) \in State /\ compacted(messages).set
        /\ SubSeq(messages, split(messages) + 1, Len(messages)) \in Seq(Message)
    BY <2>1, CompactedType, OldFacts
  <2>3. recent' \in [kept : Seq(Message), made : State] /\ recent'.made.set
    BY <1>4, <2>2 DEF CompactBegin
  <2> QED
    BY <1>4, <2>3 DEF CompactBegin, TypeOK, Control, sessionVars
<1>5. ASSUME CompactEnd PROVE TypeOK' /\ Control'
  <2>1. /\ recent.made \in State /\ messages' \in Seq(Message) /\ Stored(tasks')
        /\ DOMAIN tasks' = DOMAIN tasks /\ \A i \in DOMAIN tasks : tasks'[i].before = tasks[i].before
    BY <1>5, CompactFacts
  <2>2. recent' \in [kept : Seq(Message), made : State]
    BY <1>5, StateFacts DEF CompactEnd, NoFold
  <2> QED
    BY <1>0, <1>5, <2>1, <2>2 DEF CompactEnd, TypeOK, Control, Stored
<1>6. ASSUME Planned PROVE TypeOK' /\ Control'
  <2>1. live /\ Record(<<"user">>) /\ <<"user">> \in RoleLists
    BY <1>6 DEF Planned, Control, RoleLists
  <2>2. /\ recorded' \in Nat /\ messages' \in Seq(Message) /\ Stored(tasks')
        /\ DOMAIN tasks' = DOMAIN tasks /\ \A i \in DOMAIN tasks : tasks'[i].before = tasks[i].before
    BY <2>1, RecordFacts
  <2> QED
    BY <1>0, <1>6, <2>1, <2>2 DEF Planned, TypeOK, Control, Stored
<1>7. ASSUME NEW failed \in BOOLEAN, PlanEnds(failed) PROVE TypeOK' /\ Control'
  <2>1. recorded' \in Nat /\ row' \in Nat /\ Stored(tasks')
    BY <1>7, EndsFacts
  <2>2. /\ pc = "planning" /\ pc' = "idle" /\ live' = FALSE /\ running' = FALSE /\ messages' = <<>>
        /\ cur' = 0 /\ UNCHANGED <<world, cstate, recent, rw, folds>>
    BY <1>7 DEF PlanEnds, Forget
  <2> QED
    BY <1>e, <2>1, <2>2 DEF TypeOK, Control, Stored
<1>8. ASSUME NEW roles \in {<<"assistant">>, <<"assistant", "tool">>}, Decide(roles)
      PROVE  TypeOK' /\ Control'
  <2>1. live /\ Record(roles) /\ roles \in RoleLists
    BY <1>8 DEF Decide, Control, RoleLists
  <2>2. /\ recorded' \in Nat /\ messages' \in Seq(Message) /\ Stored(tasks') /\ Kept(tasks)' = Kept(tasks)
        /\ DOMAIN tasks' = DOMAIN tasks /\ \A i \in DOMAIN tasks : tasks'[i].before = tasks[i].before
    BY <2>1, RecordFacts
  <2> QED
    BY <1>0, <1>8, <2>1, <2>2 DEF Decide, TypeOK, Control, Stored
<1>9. ASSUME Persist PROVE TypeOK' /\ Control'
  <2>1. tasks' = Shoot(tasks, cur, recorded) /\ cur \in DOMAIN tasks /\ recorded \in Nat /\ tasks \in Seq(Task)
    BY <1>0, <1>9 DEF Persist, Shoot, Control, TypeOK
  <2>2. Alike(tasks, tasks') /\ tasks'[cur].open = tasks[cur].open
        /\ \A i \in 1..Len(tasks) : i # cur => tasks'[i] = tasks[i]
    BY ONLY <2>1, Shot
  <2>3. Stored(tasks') /\ DOMAIN tasks' = DOMAIN tasks
        /\ \A i \in DOMAIN tasks : tasks'[i].before = tasks[i].before
    BY ONLY <1>0, <2>1, <2>2, AlikeStored
  <2> QED
    BY <1>0, <1>9, <2>1, <2>3 DEF Persist, TypeOK, Control, Stored, sessionVars
<1>10. ASSUME Pause PROVE TypeOK' /\ Control'
  BY <1>10 DEF Pause, TypeOK, Control
<1>11. ASSUME Finish PROVE TypeOK' /\ Control'
  <2>1. tasks' = Close(tasks, cur) /\ cur \in DOMAIN tasks /\ tasks \in Seq(Task)
    BY <1>0, <1>11 DEF Finish, Close, Control, TypeOK
  <2>2. Alike(tasks, tasks') /\ ~tasks'[cur].open
        /\ \A i \in 1..Len(tasks) : i # cur => tasks'[i] = tasks[i]
    BY ONLY <2>1, Closed
  <2>3. Stored(tasks')
    BY ONLY <1>0, <2>1, <2>2, AlikeStored
  <2> QED
    BY <1>e, <1>11, <2>3 DEF Finish, Forget, TypeOK, Control, Stored
<1>12. ASSUME Restart PROVE TypeOK' /\ Control'
  BY <1>e, <1>12, StateFacts DEF Restart, Forget, NoFold, TypeOK, Control
<1>13. ASSUME Recover PROVE TypeOK' /\ Control'
  <2> DEFINE opened == {i \in iter_all_tasks : tasks[i].open /\ (tasks[i].snap # 0 \/ row # 0)}
             t == Greatest(opened)
  <2>1. /\ pc = "down" /\ pc' = "idle" /\ UNCHANGED <<world, tasks, row, recorded, recent, rw, folds>>
        /\ opened = {} => UNCHANGED <<messages, live, running, cur, cstate>>
        /\ opened # {} => Enter(t) /\ running' = TRUE
    BY <1>13 DEF Recover, sessionVars
  <2>2. opened # {} => t \in Kept(tasks) /\ t \in Nat
    <3>1. iter_all_tasks = Kept(tasks)
      BY <1>0, VisibleKept, RowsOfType DEF Stored
    <3>2. Len(tasks) \in Nat /\ opened \subseteq 0..Len(tasks) /\ opened \subseteq Kept(tasks)
      BY <1>0, <3>1 DEF Stored
    <3> HIDE DEF opened
    <3>3. opened # {} => Greatest(opened) \in opened
      BY <3>2, GreatestFacts
    <3>4. opened \subseteq Nat
      BY <3>2
    <3> QED
      BY ONLY <3>2, <3>3, <3>4, Zenon DEF t
  <2> HIDE DEF opened, t
  <2>3. CASE opened = {}
    BY <2>1, <2>3 DEF TypeOK, Control
  <2>4. CASE opened # {}
    <3>1. live' = TRUE /\ cur' = t /\ messages' \in Seq(Message) /\ cstate' \in State
      BY <2>1, <2>2, <2>4, Entered
    <3> QED
      BY <1>0, <2>1, <2>2, <2>4, <3>1 DEF TypeOK, Control
  <2> QED
    BY <2>3, <2>4
<1>14. ASSUME NEW b \in DOMAIN tasks, RewindBegin(b) PROVE TypeOK' /\ Control'
  <2>1. iter_all_tasks = Kept(tasks)
    BY <1>0, VisibleKept, RowsOfType DEF Stored
  <2>2. b \in Kept(tasks) /\ b \in Nat
    BY <1>0, <1>14, <2>1 DEF RewindBegin, Stored
  <2>3. checkpoint(b).snap \in Nat
    <3> DEFINE earlier == {i \in iter_all_tasks : i < b}
    <3>1. earlier # {} => Greatest(earlier) \in DOMAIN tasks
      <4>1. Len(tasks) \in Nat /\ earlier \subseteq 0..Len(tasks) /\ earlier \subseteq DOMAIN tasks
        BY <1>0, <2>1 DEF Stored
      <4> HIDE DEF earlier
      <4> QED
        BY <4>1, GreatestFacts
    <3>2. \A i \in DOMAIN tasks : tasks[i].snap \in Nat
      BY TaskFacts DEF TypeOK
    <3>3. checkpoint(b).snap = IF earlier = {} THEN 0 ELSE tasks[Greatest(earlier)].snap
      BY DEF checkpoint
    <3> HIDE DEF earlier
    <3> QED
      BY <3>1, <3>2, <3>3
  <2> QED
    BY <1>14, <2>2, <2>3 DEF RewindBegin, TypeOK, Control, sessionVars
<1>15. ASSUME RewindWrite PROVE TypeOK' /\ Control'
  BY <1>15 DEF RewindWrite, TypeOK, Control, sessionVars
<1>16. ASSUME RewindEnd PROVE TypeOK' /\ Control'
  <2>1. Stored(tasks')
    BY <1>16, RewindFacts
  <2> QED
    BY <1>e, <1>16, <2>1 DEF RewindEnd, Forget, TypeOK, Control, Stored
<1>17. CASE UNCHANGED vars
  BY <1>17 DEF vars, sessionVars, TypeOK, Control
<1> QED
  BY <1>1, <1>2, <1>3, <1>4, <1>5, <1>6, <1>7, <1>8, <1>9, <1>10, <1>11, <1>12, <1>13, <1>14, <1>15,
     <1>16, <1>17 DEF Next

(***************************************************************************)
(* Nothing is compacted.                                                   *)
(***************************************************************************)
LEMMA PlainReplay ==
  ASSUME NEW ts \in Seq(Task), \A i \in DOMAIN ts : ts[i].arts \in Seq(Plain), NEW e
  PROVE  /\ ~Latest(Replay(ts, e)).set /\ Rebuilt(Replay(ts, e)) \in Talk
<1> DEFINE x == Shares(ts, e)
           P == Seq(Plain)
           A == Replay(ts, e)
<1>1. P \subseteq Seq(Artifact) /\ <<>> \in P /\ \A y, z \in P : y \o z \in P
  <2>1. Plain \subseteq Artifact
    BY DEF Plain
  <2>2. P \subseteq Seq(Artifact)
    BY <2>1, SeqMonotonic
  <2> QED
    BY <2>2, ConcatProperties
<1>2. x \in Lists(Artifact) /\ A = Flat(x) /\ \A i \in DOMAIN x : x[i] \in P
  <2>1. /\ x \in Lists(Artifact) /\ DOMAIN x = 1..Len(ts) /\ DOMAIN ts = 1..Len(ts)
        /\ \A i \in 1..Len(ts) : x[i] = IF i \in Kept(ts) \ {e} THEN ts[i].arts ELSE <<>>
    BY SharesFacts
  <2> HIDE DEF x, P
  <2>2. \A i \in DOMAIN ts : ts[i].arts \in P
    BY DEF P
  <2> QED
    BY <1>1, <2>1, <2>2 DEF Replay, x
<1> HIDE DEF x, P, A
<1>3. A \in P
  BY ONLY <1>1, <1>2, FlatKeeps
<1>4. A \in Seq(Artifact) /\ \A k \in DOMAIN A : ~A[k].compaction.set
  <2>1. \A k \in DOMAIN A : A[k] \in Plain
    BY <1>3 DEF P
  <2> QED
    BY <1>1, <1>3, <2>1 DEF Plain
<1>5. ~Latest(A).set
  BY <1>4, LatestFacts
<1> QED
  BY <1>4, <1>5, RebuiltType DEF A

LEMMA UncompactedStep ==
  TypeOK /\ Control /\ "compact" \notin world.events /\ Uncompacted /\ [Next]_vars => Uncompacted'
<1> SUFFICES ASSUME TypeOK, Control, "compact" \notin world.events, Uncompacted, [Next]_vars
             PROVE  Uncompacted'
  OBVIOUS
<1> DEFINE Clear(ts) == \A i \in DOMAIN ts : ts[i].arts \in Seq(Plain)
<1>0. tasks \in Seq(Task) /\ Clear(tasks) /\ messages \in Seq(Message) /\ Paired(messages) /\ ~cstate.set
      /\ DOMAIN tasks = 1..Len(tasks)
  BY DEF TypeOK, Uncompacted
<1>a. Paired(<<>>)
  BY DEF Paired
<1>b. ASSUME NEW t \in Nat, Enter(t) PROVE ~cstate'.set /\ Paired(messages')
  <2>1. ~Latest(Replay(tasks, t)).set /\ Rebuilt(Replay(tasks, t)) \in Talk
    BY <1>0, PlainReplay
  <2> QED
    BY <1>0, <1>b, <2>1, Entered DEF Talk
<1>c. ASSUME NEW c \in DOMAIN tasks, NEW a \in Artifact, ~a.compaction.set,
             Alike(tasks, tasks'), tasks'[c].arts = Append(tasks[c].arts, a),
             \A i \in 1..Len(tasks) : i # c => tasks'[i] = tasks[i]
      PROVE  Clear(tasks')
  <2>1. DOMAIN tasks' = DOMAIN tasks /\ tasks[c].arts \in Seq(Plain) /\ a \in Plain
    BY <1>0, <1>c, AlikeFacts DEF Plain
  <2>2. Append(tasks[c].arts, a) \in Seq(Plain)
    BY ONLY <2>1, AppendProperties
  <2> QED
    BY <1>0, <1>c, <2>1, <2>2
<1>d. ASSUME NEW roles \in RoleLists, live, Record(roles)
      PROVE  Clear(tasks') /\ Paired(messages')
  <2> DEFINE a == MessageArtifact(Msgs(roles))
  <2>1. /\ a \in Artifact /\ ~a.compaction.set /\ Msgs(roles) \in Talk /\ messages' = messages \o Msgs(roles)
        /\ tasks' = Write(tasks, cur, a) /\ cur \in DOMAIN tasks
    BY <1>d, RecordFacts
  <2> HIDE DEF a
  <2>2. Alike(tasks, tasks') /\ tasks'[cur].arts = Append(tasks[cur].arts, a)
        /\ \A i \in 1..Len(tasks) : i # cur => tasks'[i] = tasks[i]
    BY ONLY <1>0, <2>1, Wrote
  <2>3. Paired(messages')
    <3>1. Msgs(roles) \in Seq(Message) /\ Paired(Msgs(roles))
      BY <2>1, SaidMessages DEF Talk
    <3> QED
      BY ONLY <1>0, <2>1, <3>1, PairedJoins
  <2> QED
    BY <1>c, <2>1, <2>2, <2>3
<1>e. ASSUME Alike(tasks, tasks'), NEW c \in DOMAIN tasks, tasks'[c].arts = tasks[c].arts,
             \A i \in 1..Len(tasks) : i # c => tasks'[i] = tasks[i]
      PROVE  Clear(tasks')
  <2>1. DOMAIN tasks' = DOMAIN tasks
    BY <1>0, <1>e, AlikeFacts
  <2> QED
    BY <1>0, <1>e, <2>1
<1>f. live => cur \in DOMAIN tasks
  BY DEF Control
<1> USE DEF Uncompacted
<1>1. ASSUME NEW h \in BOOLEAN, Receive(h) PROVE Uncompacted'
  <2>1. /\ Enter(Len(tasks) + 1) /\ Len(tasks) + 1 \in Nat /\ Len(tasks) \in Nat
        /\ DOMAIN tasks' = 1..Len(tasks) + 1
        /\ tasks'[Len(tasks) + 1] = Turn(h) /\ \A i \in 1..Len(tasks) : tasks'[i] = tasks[i]
    BY <1>1, ReceiveFacts
  <2>2. Turn(h).arts \in Seq(Plain)
    BY DEF Turn
  <2>3. Clear(tasks')
    <3>1. \A i \in DOMAIN tasks' : i \in DOMAIN tasks \/ i = Len(tasks) + 1
      BY <1>0, <2>1
    <3> QED
      BY <1>0, <2>1, <2>2, <3>1
  <2>4. ~cstate'.set /\ Paired(messages')
    BY <1>b, <2>1
  <2> QED
    BY <1>1, <2>3, <2>4 DEF Receive
<1>2. ASSUME Continue PROVE Uncompacted'
  <2>1. /\ Enter(Greatest(iter_all_tasks)) /\ tasks' = tasks
        /\ Greatest(iter_all_tasks) \in Nat /\ pc' = "routed"
    <3>1. Len(tasks) \in Nat /\ iter_all_tasks \subseteq 0..Len(tasks) /\ iter_all_tasks # {}
      BY <1>0, <1>2 DEF iter_all_tasks, Continue
    <3>2. Greatest(iter_all_tasks) \in iter_all_tasks
      BY ONLY <3>1, GreatestFacts
    <3>3. 0..Len(tasks) \subseteq Nat
      BY <3>1
    <3>4. Greatest(iter_all_tasks) \in Nat
      BY ONLY <3>1, <3>2, <3>3, Zenon
    <3> QED
      BY ONLY <1>2, <3>4, Zenon DEF Continue
  <2> QED
    BY <1>0, <1>b, <2>1
<1>3. ASSUME PlanAsIs PROVE Uncompacted'
  BY <1>3 DEF PlanAsIs, sessionVars
<1>4. ASSUME CompactBegin PROVE Uncompacted'
  BY <1>4 DEF CompactBegin
<1>5. ASSUME CompactEnd PROVE Uncompacted'
  BY <1>5 DEF CompactEnd
<1>6. ASSUME Planned PROVE Uncompacted'
  <2>1. live /\ Record(<<"user">>) /\ <<"user">> \in RoleLists
    BY <1>6 DEF Planned, Control, RoleLists
  <2>2. Clear(tasks') /\ Paired(messages')
    BY <1>d, <2>1
  <2> QED
    BY <1>6, <2>2 DEF Planned
<1>7. ASSUME NEW failed \in BOOLEAN, PlanEnds(failed) PROVE Uncompacted'
  <2>1. PICK roles \in RoleLists, n \in Nat :
          LET a == MessageArtifact(Msgs(roles))
          IN  a \in Artifact /\ n > 0 /\ cur \in DOMAIN tasks /\ tasks' = End(tasks, cur, n, a)
    BY <1>7, EndsFacts
  <2> DEFINE a == MessageArtifact(Msgs(roles))
  <2>2. ~a.compaction.set
    BY MsgsFacts DEF TypeOK
  <2>3. a \in Artifact /\ cur \in DOMAIN tasks /\ tasks' = End(tasks, cur, n, a)
    BY <2>1
  <2> HIDE DEF a
  <2>4. Alike(tasks, tasks') /\ tasks'[cur].arts = Append(tasks[cur].arts, a)
        /\ \A i \in 1..Len(tasks) : i # cur => tasks'[i] = tasks[i]
    BY ONLY <1>0, <2>3, n \in Nat, Ended
  <2>5. Clear(tasks')
    BY <1>c, <2>2, <2>3, <2>4
  <2>6. messages' = <<>> /\ pc' = "idle" /\ cstate' = cstate
    BY <1>7 DEF PlanEnds, Forget
  <2> QED
    BY <1>0, <1>a, <2>5, <2>6
<1>8. ASSUME NEW roles \in {<<"assistant">>, <<"assistant", "tool">>}, Decide(roles)
      PROVE  Uncompacted'
  <2>1. live /\ Record(roles) /\ roles \in RoleLists
    BY <1>8 DEF Decide, Control, RoleLists
  <2>2. Clear(tasks') /\ Paired(messages')
    BY <1>d, <2>1
  <2> QED
    BY <1>8, <2>2 DEF Decide
<1>9. ASSUME Persist PROVE Uncompacted'
  <2>1. tasks' = Shoot(tasks, cur, recorded) /\ cur \in DOMAIN tasks /\ recorded \in Nat
    BY <1>9 DEF Persist, Shoot, Control, TypeOK
  <2>2. Alike(tasks, tasks') /\ tasks'[cur].arts = tasks[cur].arts
        /\ \A i \in 1..Len(tasks) : i # cur => tasks'[i] = tasks[i]
    BY ONLY <1>0, <2>1, Shot
  <2>3. Clear(tasks')
    BY <1>e, <2>1, <2>2
  <2> QED
    BY <1>9, <2>3 DEF Persist, sessionVars
<1>10. ASSUME Pause PROVE Uncompacted'
  BY <1>10 DEF Pause
<1>11. ASSUME Finish PROVE Uncompacted'
  <2>1. tasks' = Close(tasks, cur) /\ cur \in DOMAIN tasks
    BY <1>11 DEF Finish, Close, Control
  <2>2. Alike(tasks, tasks') /\ tasks'[cur].arts = tasks[cur].arts
        /\ \A i \in 1..Len(tasks) : i # cur => tasks'[i] = tasks[i]
    BY ONLY <1>0, <2>1, Closed
  <2>3. Clear(tasks')
    BY <1>e, <2>1, <2>2
  <2> QED
    BY <1>11, <1>a, <2>3 DEF Finish, Forget
<1>12. ASSUME Restart PROVE Uncompacted'
  BY <1>12, <1>a, StateFacts DEF Restart, Forget
<1>13. ASSUME Recover PROVE Uncompacted'
  <2> DEFINE opened == {i \in iter_all_tasks : tasks[i].open /\ (tasks[i].snap # 0 \/ row # 0)}
             t == Greatest(opened)
  <2>1. /\ pc' = "idle" /\ UNCHANGED tasks
        /\ opened = {} => UNCHANGED <<messages, cstate>>
        /\ opened # {} => Enter(t)
    BY <1>13 DEF Recover, sessionVars
  <2>2. opened # {} => t \in Nat
    <3>1. Len(tasks) \in Nat /\ opened \subseteq 0..Len(tasks) /\ opened \subseteq Nat
      BY <1>0 DEF iter_all_tasks
    <3> HIDE DEF opened
    <3>2. opened # {} => Greatest(opened) \in opened
      BY ONLY <3>1, GreatestFacts
    <3> QED
      BY ONLY <3>1, <3>2, Zenon DEF t
  <2> HIDE DEF opened, t
  <2> QED
    BY <1>0, <1>b, <2>1, <2>2
<1>14. ASSUME NEW b \in DOMAIN tasks, RewindBegin(b) PROVE Uncompacted'
  BY <1>14 DEF RewindBegin, sessionVars
<1>15. ASSUME RewindWrite PROVE Uncompacted'
  BY <1>15 DEF RewindWrite, sessionVars
<1>16. ASSUME RewindEnd PROVE Uncompacted'
  <2>1. /\ DOMAIN tasks' = 1..Len(tasks) + 1 /\ Len(tasks) \in Nat
        /\ tasks'[Len(tasks) + 1] = Marker(rw.before) /\ \A i \in 1..Len(tasks) : tasks'[i] = tasks[i]
    BY <1>16, RewindFacts
  <2>2. Marker(rw.before).arts \in Seq(Plain)
    BY DEF Marker
  <2>3. Clear(tasks')
    <3>1. \A i \in DOMAIN tasks' : i \in DOMAIN tasks \/ i = Len(tasks) + 1
      BY <1>0, <2>1
    <3> QED
      BY <1>0, <2>1, <2>2, <3>1
  <2> QED
    BY <1>16, <1>a, <2>3 DEF RewindEnd, Forget
<1>17. CASE UNCHANGED vars
  BY <1>17 DEF vars, sessionVars
<1> QED
  BY <1>1, <1>2, <1>3, <1>4, <1>5, <1>6, <1>7, <1>8, <1>9, <1>10, <1>11, <1>12, <1>13, <1>14, <1>15,
     <1>16, <1>17 DEF Next

(***************************************************************************)
(* Where a session writes, and what may be open while it is not there.     *)
(***************************************************************************)
LEMMA KeptFacts ==
  ASSUME TypeOK, Control
  PROVE  /\ tasks \in Seq(Task) /\ Len(tasks) \in Nat /\ DOMAIN tasks = 1..Len(tasks)
         /\ iter_all_tasks = Kept(tasks)
         /\ Kept(tasks) \subseteq DOMAIN tasks /\ Kept(tasks) \subseteq Nat
         /\ \A S : S \subseteq Kept(tasks) /\ S # {} =>
              Greatest(S) \in S /\ Greatest(S) \in Nat /\ \A i \in S : i <= Greatest(S)
<1>1. tasks \in Seq(Task) /\ Len(tasks) \in Nat /\ DOMAIN tasks = 1..Len(tasks) /\ Marked(tasks)
  BY DEF TypeOK, Control
<1>2. iter_all_tasks = Kept(tasks)
  BY <1>1, VisibleKept, RowsOfType
<1>3. Kept(tasks) \subseteq DOMAIN tasks
  BY DEF Kept
<1>4. DOMAIN tasks \subseteq 0..Len(tasks) /\ DOMAIN tasks \subseteq Nat
  BY <1>1
<1>5. ASSUME NEW S, S \subseteq Kept(tasks), S # {}
      PROVE  Greatest(S) \in S /\ Greatest(S) \in Nat /\ \A i \in S : i <= Greatest(S)
  <2>1. S \subseteq 0..Len(tasks) /\ S \subseteq Nat
    BY <1>3, <1>4, <1>5
  <2>2. Greatest(S) \in S /\ \A i \in S : i <= Greatest(S)
    BY ONLY <1>1, <1>5, <2>1, GreatestFacts
  <2>3. Greatest(S) \in Nat
    BY ONLY <2>1, <2>2, Zenon
  <2> QED
    BY <2>2, <2>3
<1>6. Kept(tasks) \subseteq Nat
  BY <1>3, <1>4
<1> QED
  BY ONLY <1>1, <1>2, <1>3, <1>5, <1>6, Zenon

(* The task that recover_tasks enters. *)
Opened == {i \in iter_all_tasks : tasks[i].open /\ (tasks[i].snap # 0 \/ row # 0)}

LEMMA RecoverFacts ==
  ASSUME TypeOK, Control, Recover
  PROVE  /\ pc = "down" /\ pc' = "idle" /\ ~live
         /\ UNCHANGED <<world, tasks, row, recorded, recent, rw, folds>>
         /\ Opened = {} => UNCHANGED <<messages, live, running, cur, cstate>>
         /\ Opened # {} => /\ Enter(Greatest(Opened)) /\ Greatest(Opened) \in Nat
                           /\ Greatest(Opened) \in Kept(tasks) /\ tasks[Greatest(Opened)].open
<1>1. /\ pc = "down" /\ pc' = "idle" /\ UNCHANGED <<world, tasks, row, recorded, recent, rw, folds>>
      /\ Opened = {} => UNCHANGED <<messages, live, running, cur, cstate>>
      /\ Opened # {} => Enter(Greatest(Opened))
  BY DEF Recover, Opened, sessionVars
<1>2. ~live
  BY <1>1 DEF Control
<1>3. Opened \subseteq Kept(tasks) /\ \A i \in Opened : tasks[i].open
  BY KeptFacts DEF Opened
<1>4. Opened # {} => Greatest(Opened) \in Opened /\ Greatest(Opened) \in Nat
  BY <1>3, KeptFacts
<1> QED
  BY <1>1, <1>2, <1>3, <1>4

LEMMA ContinueFacts ==
  ASSUME TypeOK, Control, Continue
  PROVE  /\ tasks' = tasks /\ pc' = "routed" /\ Kept(tasks) # {}
         /\ Enter(Greatest(Kept(tasks))) /\ Greatest(Kept(tasks)) \in Nat
         /\ Greatest(Kept(tasks)) \in Kept(tasks) /\ tasks[Greatest(Kept(tasks))].open
         /\ live \/ "resume" \in world.events
<1>1. iter_all_tasks = Kept(tasks)
  BY KeptFacts
<1>2. /\ tasks' = tasks /\ pc' = "routed" /\ Kept(tasks) # {}
      /\ Enter(Greatest(Kept(tasks))) /\ tasks[Greatest(Kept(tasks))].open
      /\ live \/ "resume" \in world.events
  BY <1>1 DEF Continue
<1> QED
  BY <1>2, KeptFacts

(* A handler goes down in no other way. *)
LEMMA GoesDown ==
  ASSUME Control, [Next]_vars, pc' = "down"
  PROVE  Restart \/ UNCHANGED <<pc, tasks>>
<1> USE DEF Quiet
<1>1. ~Continue /\ ~PlanAsIs /\ ~CompactBegin /\ ~CompactEnd /\ ~Planned /\ ~Recover
  BY DEF Continue, PlanAsIs, CompactBegin, CompactEnd, Planned, Recover
<1>2. \A h \in BOOLEAN : ~Receive(h) /\ ~PlanEnds(h)
  BY DEF Receive, PlanEnds
<1>3. \A roles : ~Decide(roles)
  BY DEF Decide, Control
<1>4. ~Persist /\ ~Pause /\ ~Finish /\ ~RewindWrite /\ ~RewindEnd
  BY DEF Persist, Pause, Finish, RewindWrite, RewindEnd, Control
<1>5. \A b \in DOMAIN tasks : ~RewindBegin(b)
  BY DEF RewindBegin
<1>6. CASE UNCHANGED vars
  BY <1>6 DEF vars
<1> QED
  BY <1>1, <1>2, <1>3, <1>4, <1>5, <1>6 DEF Next

(* The steps that leave the session and the store alone, those that write  *)
(* to the task of a session in memory, and those that take it out.         *)
LEMMA StepKinds ==
  ASSUME TypeOK, Control, [Next]_vars
  PROVE  \/ \E h \in BOOLEAN : Receive(h)
         \/ Continue \/ Recover
         \/ UNCHANGED <<live, cur, tasks>>
         \/ live /\ live' = live /\ cur' = cur /\ Kept(tasks)' = Kept(tasks)
         \/ ~live' /\ (Restart \/ Finish \/ RewindEnd \/ \E failed \in BOOLEAN : PlanEnds(failed))
<1> USE DEF sessionVars
<1>1. CASE PlanAsIs \/ CompactBegin \/ Pause \/ RewindWrite \/ UNCHANGED vars
           \/ \E b \in DOMAIN tasks : RewindBegin(b)
  BY <1>1 DEF PlanAsIs, CompactBegin, Pause, RewindWrite, RewindBegin, vars
<1>2. CASE Finish \/ Restart \/ RewindEnd \/ \E failed \in BOOLEAN : PlanEnds(failed)
  <2>1. \A failed \in BOOLEAN : PlanEnds(failed) => ~live'
    BY DEF PlanEnds, Forget
  <2>2. Finish \/ Restart \/ RewindEnd => ~live'
    BY DEF Finish, Restart, RewindEnd, Forget
  <2> QED
    BY <1>2, <2>1, <2>2
<1>3. CASE Planned
  <2>1. live /\ Record(<<"user">>) /\ <<"user">> \in RoleLists /\ live' = live /\ cur' = cur
    BY <1>3 DEF Planned, Control, RoleLists
  <2> QED
    BY <2>1, RecordFacts
<1>4. ASSUME NEW roles \in {<<"assistant">>, <<"assistant", "tool">>}, Decide(roles)
      PROVE  live /\ live' = live /\ cur' = cur /\ Kept(tasks)' = Kept(tasks)
  <2>1. live /\ Record(roles) /\ roles \in RoleLists /\ live' = live /\ cur' = cur
    BY <1>4 DEF Decide, Control, RoleLists
  <2> QED
    BY <2>1, RecordFacts
<1>5. CASE CompactEnd
  <2>1. live /\ live' = live /\ cur' = cur
    BY <1>5 DEF CompactEnd, Control
  <2> QED
    BY <1>5, <2>1, CompactFacts
<1>6. CASE Persist
  <2>1. tasks' = Shoot(tasks, cur, recorded) /\ cur \in DOMAIN tasks /\ recorded \in Nat /\ tasks \in Seq(Task)
        /\ live /\ live' = live /\ cur' = cur
    BY <1>6 DEF Persist, Shoot, Control, TypeOK
  <2>2. Alike(tasks, tasks')
    BY ONLY <2>1, Shot
  <2>3. Kept(tasks)' = Kept(tasks)
    BY <2>1, <2>2, AlikeFacts
  <2> QED
    BY <2>1, <2>3
<1> QED
  BY <1>1, <1>2, <1>3, <1>4, <1>5, <1>6 DEF Next

LEMMA SeatStep ==
  TypeOK /\ Control /\ "restart" \notin world.events /\ Seated /\ Rested /\ [Next]_vars
    => Seated' /\ Rested'
<1> SUFFICES ASSUME TypeOK, Control, "restart" \notin world.events, Seated, Rested, [Next]_vars
             PROVE  Seated' /\ Rested'
  OBVIOUS
<1>1. Rested'
  <2> SUFFICES ASSUME pc' = "down"
               PROVE  \A i \in DOMAIN tasks' : tasks'[i].open => i = Len(tasks') /\ tasks'[i].arts = <<>>
    BY DEF Rested
  <2>1. CASE Restart
    BY <2>1 DEF Restart
  <2>2. CASE UNCHANGED <<pc, tasks>>
    BY <2>2 DEF Rested
  <2> QED
    BY <2>1, <2>2, GoesDown
<1>2. Seated'
  <2>1. ASSUME NEW h \in BOOLEAN, Receive(h) PROVE Seated'
    <3> DEFINE n == Len(tasks) + 1
    <3>1. /\ Enter(n) /\ Kept(tasks)' = Kept(tasks) \cup {n} /\ DOMAIN tasks = 1..Len(tasks) /\ Len(tasks) \in Nat
      BY <2>1, ReceiveFacts
    <3>2. cur' = n
      BY <3>1 DEF Enter
    <3>3. Kept(tasks) \subseteq DOMAIN tasks
      BY KeptFacts
    <3>4. Kept(tasks)' \subseteq Nat /\ n \in Kept(tasks)' /\ \A i \in Kept(tasks)' : i <= n
      BY <3>1, <3>3
    <3> HIDE DEF n
    <3>5. Greatest(Kept(tasks)') = n
      BY ONLY <3>4, GreatestIs
    <3> QED
      BY <3>2, <3>4, <3>5 DEF Seated
  <2>2. CASE Continue
    <3>1. Enter(Greatest(Kept(tasks))) /\ tasks' = tasks /\ Kept(tasks) # {}
      BY <2>2, ContinueFacts
    <3> QED
      BY <3>1 DEF Seated, Enter
  <2>3. CASE Recover
    <3>1. CASE Opened = {}
      BY <2>3, <3>1, RecoverFacts DEF Seated
    <3>2. CASE Opened # {}
      <4> DEFINE t == Greatest(Opened)
      <4>1. Enter(t) /\ t \in Kept(tasks) /\ tasks[t].open /\ tasks' = tasks /\ pc = "down"
        BY <2>3, <3>2, RecoverFacts
      <4> HIDE DEF t
      <4>2. t = Len(tasks)
        <5>1. t \in DOMAIN tasks
          BY <4>1, KeptFacts
        <5> QED
          BY <4>1, <5>1 DEF Rested
      <4>3. \A i \in Kept(tasks) : i <= t
        BY <4>2, KeptFacts
      <4>4. Greatest(Kept(tasks)) = t
        <5>1. Kept(tasks) \subseteq Nat
          BY KeptFacts
        <5> QED
          BY ONLY <4>1, <4>3, <5>1, GreatestIs
      <4> QED
        BY <4>1, <4>4 DEF Seated, Enter
    <3> QED
      BY <3>1, <3>2
  <2>4. CASE UNCHANGED <<live, cur, tasks>>
    BY <2>4 DEF Seated
  <2>5. CASE live /\ live' = live /\ cur' = cur /\ Kept(tasks)' = Kept(tasks)
    BY <2>5 DEF Seated
  <2>6. CASE ~live'
    BY <2>6 DEF Seated
  <2> QED
    BY <2>1, <2>2, <2>3, <2>4, <2>5, <2>6, StepKinds
<1> QED
  BY <1>1, <1>2

LEMMA ResumeStep ==
  TypeOK /\ Control /\ {"restart", "rewind"} \cap world.events = {} /\ Seated /\ Resumable /\ [Next]_vars
    => Resumable'
<1> SUFFICES ASSUME TypeOK, Control, {"restart", "rewind"} \cap world.events = {}, Seated, Resumable,
                    [Next]_vars, ~live'
             PROVE  Resumable'
  BY DEF Resumable
<1>1. Kept(tasks) # {} => Greatest(Kept(tasks)) \in DOMAIN tasks
  BY KeptFacts
<1>2. ASSUME tasks \in Seq(Task), cur \in DOMAIN tasks, live, Alike(tasks, tasks'), ~tasks'[cur].open
      PROVE  Resumable'
  <2>1. Kept(tasks)' = Kept(tasks)
    BY <1>2, AlikeFacts
  <2>2. cur = Greatest(Kept(tasks)')
    BY <1>2, <2>1 DEF Seated
  <2> QED
    BY <1>2, <2>2 DEF Resumable
<1>3. ASSUME NEW h \in BOOLEAN, Receive(h) PROVE FALSE
  BY <1>3 DEF Receive, Enter
<1>4. CASE Continue
  BY <1>4 DEF Continue, Enter
<1>5. CASE Recover
  <2>1. Opened = {} /\ tasks' = tasks /\ live' = live
    BY <1>5, RecoverFacts DEF Enter
  <2> QED
    BY <2>1 DEF Resumable
<1>6. CASE UNCHANGED <<live, cur, tasks>>
  BY <1>6 DEF Resumable
<1>7. CASE live /\ live' = live
  BY <1>7
<1>8. CASE Restart
  BY <1>1, <1>8 DEF Restart, Resumable
<1>9. CASE Finish
  <2>1. tasks' = Close(tasks, cur) /\ cur \in DOMAIN tasks /\ tasks \in Seq(Task) /\ live
    BY <1>9 DEF Finish, Close, Control, TypeOK
  <2>2. Alike(tasks, tasks') /\ ~tasks'[cur].open
    BY ONLY <2>1, Closed
  <2> QED
    BY <1>2, <2>1, <2>2
<1>10. ASSUME NEW failed \in BOOLEAN, PlanEnds(failed) PROVE Resumable'
  <2>1. PICK roles \in RoleLists, n \in Nat :
          LET a == MessageArtifact(Msgs(roles))
          IN  a \in Artifact /\ tasks \in Seq(Task) /\ cur \in DOMAIN tasks /\ live /\ tasks' = End(tasks, cur, n, a)
    BY <1>10, EndsFacts
  <2> DEFINE a == MessageArtifact(Msgs(roles))
  <2>2. a \in Artifact /\ tasks \in Seq(Task) /\ cur \in DOMAIN tasks /\ live /\ tasks' = End(tasks, cur, n, a)
    BY <2>1
  <2> HIDE DEF a
  <2>3. Alike(tasks, tasks') /\ ~tasks'[cur].open
    BY ONLY <2>2, n \in Nat, Ended
  <2> QED
    BY <1>2, <2>2, <2>3
<1>11. CASE RewindEnd
  BY <1>11 DEF RewindEnd, Control
<1> QED
  BY <1>3, <1>4, <1>5, <1>6, <1>7, <1>8, <1>9, <1>10, <1>11, StepKinds

(***************************************************************************)
(* The list and the replay.                                                *)
(***************************************************************************)
(* A session is entered whose task has nothing to replay. *)
LEMMA EnteredReplay ==
  ASSUME TypeOK, Control, Replayed, NEW t \in Nat, Enter(t),
         messages = <<>> => Replay(tasks, t) = Replay(tasks, 0)
  PROVE  messages' = Rebuilt(Replay(tasks, 0)) /\ cstate' = Latest(Replay(tasks, 0))
<1> DEFINE A == Replay(tasks, 0)
<1>1. A \in Seq(Artifact) /\ cstate \in State
  BY ReplayType DEF TypeOK
<1>2. Latest(A) \in State
  BY <1>1, LatestFacts
<1>3. /\ live => messages = Rebuilt(A) /\ cstate = Latest(A)
      /\ cstate.set => cstate = Latest(A)
  BY DEF Replayed
<1>4. CASE messages = <<>>
  <2>1. messages' = Rebuilt(A) /\ cstate' = IF Latest(A).set THEN Latest(A) ELSE cstate
    BY <1>4, Entered
  <2> HIDE DEF A
  <2>2. CASE Latest(A).set
    BY <2>1, <2>2 DEF A
  <2>3. CASE ~Latest(A).set
    <3>1. ~cstate.set /\ cstate' = cstate
      BY <1>3, <2>1, <2>3
    <3>2. cstate = NoCompaction /\ Latest(A) = NoCompaction
      BY ONLY <1>1, <1>2, <2>3, <3>1, StateFacts
    <3> QED
      BY <2>1, <3>1, <3>2 DEF A
  <2> QED
    BY <2>2, <2>3
<1>5. CASE messages # <<>>
  <2>1. live
    BY <1>5 DEF Control
  <2> QED
    BY <1>3, <1>5, <2>1, Entered
<1> QED
  BY <1>4, <1>5

(* An artifact is written to the task of the session. *)
LEMMA WrittenReplay ==
  ASSUME TypeOK, Control, Seated, live, NEW us, Alike(tasks, us), NEW a \in Artifact,
         us[cur].arts = Append(tasks[cur].arts, a),
         \A i \in 1..Len(tasks) : i # cur => us[i] = tasks[i]
  PROVE  Replay(us, 0) = Append(Replay(tasks, 0), a)
<1>1. tasks \in Seq(Task) /\ us \in Seq(Task) /\ Len(us) = Len(tasks) /\ Kept(us) = Kept(tasks)
  BY AlikeFacts, KeptFacts
<1>2. cur \in Kept(tasks) /\ \A i \in Kept(tasks) : i <= cur
  BY KeptFacts DEF Seated
<1>3. \A i \in 1..Len(tasks) : i # cur => us[i].arts = tasks[i].arts
  OBVIOUS
<1> QED
  BY ONLY <1>1, <1>2, <1>3, a \in Artifact, us[cur].arts = Append(tasks[cur].arts, a), ReplayAdded

(* Messages are recorded with the task of the session. *)
LEMMA RecordReplay ==
  ASSUME TypeOK, Control, Seated, Replayed, live, NEW roles \in RoleLists, Record(roles)
  PROVE  LET A == Replay(tasks, 0)
             B == Replay(tasks', 0)
         IN  /\ messages' = Rebuilt(B) /\ Latest(B) = Latest(A) /\ cstate = Latest(A)
             /\ Latest(B).set => Stands(Latest(B), Raw(B))
<1> DEFINE A == Replay(tasks, 0)
           B == Replay(tasks', 0)
           a == MessageArtifact(Msgs(roles))
<1>1. /\ a \in Artifact /\ ~a.compaction.set /\ a.ms = Msgs(roles)
      /\ messages' = messages \o Msgs(roles)
      /\ tasks \in Seq(Task) /\ cur \in DOMAIN tasks /\ tasks' = Write(tasks, cur, a)
  BY RecordFacts
<1>2. A \in Seq(Artifact) /\ messages = Rebuilt(A) /\ cstate = Latest(A)
      /\ (Latest(A).set => Stands(Latest(A), Raw(A)))
  BY <1>1, ReplayType DEF Replayed
<1> HIDE DEF a, A
<1>3. Alike(tasks, tasks') /\ tasks'[cur].arts = Append(tasks[cur].arts, a)
      /\ \A i \in 1..Len(tasks) : i # cur => tasks'[i] = tasks[i]
  BY ONLY <1>1, Wrote
<1>4. B = Append(A, a)
  BY <1>1, <1>3, WrittenReplay DEF A
<1> HIDE DEF B
<1>5. /\ Latest(B) = Latest(A) /\ Raw(B) = Raw(A) \o a.ms /\ Rebuilt(B) = Rebuilt(A) \o a.ms
      /\ Latest(A).set => Stands(Latest(A), Raw(A) \o a.ms)
  BY ONLY <1>1, <1>2, <1>4, RebuiltRecorded
<1>6. messages' = Rebuilt(B) /\ Latest(B) = Latest(A) /\ cstate = Latest(A)
      /\ (Latest(B).set => Stands(Latest(B), Raw(B)))
  BY ONLY <1>1, <1>2, <1>5, Zenon
<1> QED
  BY <1>6 DEF A, B

(* A step that leaves the replay alone. *)
LEMMA ReplayedOn ==
  ASSUME Replayed, Replay(tasks', 0) = Replay(tasks, 0), pc' # "compacting",
         live' => messages' = Rebuilt(Replay(tasks, 0)) /\ cstate' = Latest(Replay(tasks, 0)),
         cstate'.set => cstate' = Latest(Replay(tasks, 0))
  PROVE  Replayed'
BY DEF Replayed

LEMMA ReplayedStep ==
  ASSUME TypeOK, Control, Seated, Rested, Replayable(world.events), Replayed,
         "compact" \notin world.events => Uncompacted /\ Uncompacted',
         "resume" \in world.events => Resumable,
         TypeOK', Control', [Next]_vars
  PROVE  Replayed'
<1> DEFINE A == Replay(tasks, 0)
<1>0. /\ tasks \in Seq(Task) /\ tasks' \in Seq(Task) /\ DOMAIN tasks = 1..Len(tasks) /\ Len(tasks) \in Nat
      /\ cstate \in State /\ recent.made \in State
  BY DEF TypeOK
<1>a. A \in Seq(Artifact)
  BY <1>0, ReplayType
<1>b. /\ live => messages = Rebuilt(A) /\ cstate = Latest(A)
      /\ cstate.set => cstate = Latest(A)
      /\ Latest(A).set => Stands(Latest(A), Raw(A))
  BY DEF Replayed
<1> USE DEF Quiet, sessionVars
<1>c. ASSUME NEW t \in Nat, Enter(t), messages = <<>> => Replay(tasks, t) = A,
             Replay(tasks', 0) = A, pc' # "compacting"
      PROVE  Replayed'
  <2>1. messages' = Rebuilt(A) /\ cstate' = Latest(A)
    BY <1>c, EnteredReplay
  <2> QED
    BY <1>c, <2>1, ReplayedOn
<1>d. ASSUME UNCHANGED <<tasks, messages, cstate>>, live' => live, pc' # "compacting"
      PROVE  Replayed'
  BY <1>b, <1>d, ReplayedOn
<1>e. ASSUME Replay(tasks', 0) = A, ~live', cstate' = cstate, pc' # "compacting"
      PROVE  Replayed'
  BY <1>b, <1>e, ReplayedOn
<1>1. ASSUME NEW h \in BOOLEAN, Receive(h) PROVE Replayed'
  <2>1. /\ Enter(Len(tasks) + 1) /\ Len(tasks) + 1 \in Nat /\ tasks' = Append(tasks, Turn(h))
        /\ Len(tasks) + 1 \notin DOMAIN tasks /\ pc' = "routed"
    BY <1>1, ReceiveFacts DEF Receive
  <2>2. Replay(tasks', 0) = A
    BY <1>0, <2>1, TurnOpened
  <2>3. Replay(tasks, Len(tasks) + 1) = A
    BY <1>0, <2>1, ReplayWithout
  <2> QED
    BY <1>c, <2>1, <2>2, <2>3
<1>2. CASE Continue
  <2> DEFINE t == Greatest(Kept(tasks))
  <2>1. /\ tasks' = tasks /\ pc' = "routed" /\ Kept(tasks) # {} /\ Enter(t) /\ t \in Nat
        /\ t \in Kept(tasks) /\ tasks[t].open /\ (live \/ "resume" \in world.events)
    BY <1>2, ContinueFacts
  <2>2. messages = <<>> => Replay(tasks, t) = A
    <3>1. CASE live /\ messages = <<>>
      <4>1. A = <<>>
        BY <1>a, <1>b, <3>1, RebuiltType
      <4> QED
        BY <1>0, <4>1, ReplayNothing
    <3>2. CASE ~live
      <4>1. tasks[t].arts = <<>>
        BY <2>1, <3>2 DEF Resumable
      <4> QED
        BY <1>0, <4>1, ReplayWithout
    <3> QED
      BY <3>1, <3>2
  <2> QED
    BY <1>c, <2>1, <2>2
<1>3. CASE PlanAsIs
  BY <1>3, <1>d DEF PlanAsIs
<1>4. CASE CompactBegin
  <2>1. live /\ split(messages) > 0 /\ messages \in Seq(Message)
    BY <1>4 DEF CompactBegin, Control, TypeOK
  <2>2. recent'.made = compacted(messages)
        /\ recent'.kept = SubSeq(messages, split(messages) + 1, Len(messages))
    BY <1>4 DEF CompactBegin
  <2>3. messages = Rebuilt(A) /\ cstate = Latest(A)
    BY <1>b, <2>1
  <2> HIDE DEF A
  <2>4. /\ Stands(compacted(messages), Raw(A))
        /\ SubSeq(messages, split(messages) + 1, Len(messages))
             = SubSeq(Raw(A), compacted(messages).count + 1, Len(Raw(A)))
    BY <1>a, <1>b, <2>1, <2>3, CompactedStands
  <2>5. /\ Stands(recent'.made, Raw(A))
        /\ recent'.kept = SubSeq(Raw(A), recent'.made.count + 1, Len(Raw(A)))
    BY <2>2, <2>4
  <2>6. UNCHANGED <<tasks, messages, cstate, live>>
    BY <1>4 DEF CompactBegin
  <2>7. Replay(tasks', 0) = A
    BY <2>6 DEF A
  <2> QED
    BY ONLY <1>b, <2>5, <2>6, <2>7 DEF Replayed
<1>5. CASE CompactEnd
  <2> DEFINE B == Replay(tasks', 0)
             c == recent.made
             a == CompactionArtifact(recent.made)
  <2>1. /\ c \in State /\ c.set /\ a \in Artifact
        /\ messages' = <<Summary(c.covers)>> \o recent.kept
        /\ cur \in DOMAIN tasks /\ tasks' = Write(tasks, cur, a)
    BY <1>5, CompactFacts
  <2>2. live /\ cstate' = c /\ pc' # "compacting" /\ pc = "compacting"
    BY <1>5 DEF CompactEnd, Control
  <2>3. Stands(c, Raw(A)) /\ recent.kept = SubSeq(Raw(A), c.count + 1, Len(Raw(A)))
    BY <2>2 DEF Replayed
  <2> HIDE DEF a
  <2>4. Alike(tasks, tasks') /\ tasks'[cur].arts = Append(tasks[cur].arts, a)
        /\ \A i \in 1..Len(tasks) : i # cur => tasks'[i] = tasks[i]
    <3>1. tasks \in Seq(Task) /\ cur \in DOMAIN tasks /\ a \in Artifact /\ tasks' = Write(tasks, cur, a)
      BY <1>0, <2>1
    <3> QED
      BY ONLY <3>1, Wrote
  <2>5. B = Append(A, a)
    BY <2>1, <2>2, <2>4, WrittenReplay
  <2> HIDE DEF A, B
  <2>6. Latest(B) = c /\ Raw(B) = Raw(A) /\ Rebuilt(B) = Shortened(c, Raw(A))
    BY <1>a, <2>1, <2>5, RebuiltFolded DEF a
  <2>7. Rebuilt(B) = messages'
    BY <2>1, <2>3, <2>6 DEF Shortened
  <2>8. /\ messages' = Rebuilt(B) /\ cstate' = Latest(B) /\ Stands(Latest(B), Raw(B)) /\ pc' # "compacting"
    BY <2>2, <2>3, <2>6, <2>7
  <2> QED
    BY ONLY <2>8 DEF Replayed, B
<1>6. CASE Planned
  <2>1. live /\ Record(<<"user">>) /\ <<"user">> \in RoleLists /\ cstate' = cstate /\ pc' # "compacting"
    BY <1>6 DEF Planned, Control, RoleLists
  <2> QED
    BY <2>1, RecordReplay DEF Replayed
<1>7. ASSUME NEW failed \in BOOLEAN, PlanEnds(failed) PROVE Replayed'
  <2> DEFINE B == Replay(tasks', 0)
  <2>1. PICK roles \in RoleLists, n \in Nat :
          LET a == MessageArtifact(Msgs(roles))
          IN  a \in Artifact /\ cur \in DOMAIN tasks /\ live /\ tasks' = End(tasks, cur, n, a)
    BY <1>7, EndsFacts
  <2> DEFINE a == MessageArtifact(Msgs(roles))
  <2>2. ~a.compaction.set
    BY MsgsFacts DEF TypeOK
  <2>3. a \in Artifact /\ cur \in DOMAIN tasks /\ live /\ tasks' = End(tasks, cur, n, a)
    BY <2>1
  <2> HIDE DEF a
  <2>4. Alike(tasks, tasks') /\ tasks'[cur].arts = Append(tasks[cur].arts, a)
        /\ \A i \in 1..Len(tasks) : i # cur => tasks'[i] = tasks[i]
    <3>1. tasks \in Seq(Task) /\ cur \in DOMAIN tasks /\ a \in Artifact /\ n \in Nat
          /\ tasks' = End(tasks, cur, n, a)
      BY <1>0, <2>3
    <3> QED
      BY ONLY <3>1, Ended
  <2>5. B = Append(A, a)
    BY <2>3, <2>4, WrittenReplay
  <2> HIDE DEF A, B
  <2>6. /\ Latest(B) = Latest(A) /\ Raw(B) = Raw(A) \o a.ms
        /\ Latest(A).set => Stands(Latest(A), Raw(A) \o a.ms)
    BY ONLY <1>a, <1>b, <2>2, <2>3, <2>5, RebuiltRecorded
  <2>7. ~live' /\ cstate' = cstate /\ pc' # "compacting"
    BY <1>7 DEF PlanEnds, Forget
  <2>8. /\ ~live' /\ (cstate'.set => cstate' = Latest(B)) /\ pc' # "compacting"
        /\ (Latest(B).set => Stands(Latest(B), Raw(B)))
    BY ONLY <1>b, <2>6, <2>7
  <2> QED
    BY ONLY <2>8 DEF Replayed, B
<1>8. ASSUME NEW roles \in {<<"assistant">>, <<"assistant", "tool">>}, Decide(roles) PROVE Replayed'
  <2>1. live /\ Record(roles) /\ roles \in RoleLists /\ cstate' = cstate /\ pc' = pc
    BY <1>8 DEF Decide, Control, RoleLists
  <2>2. pc # "compacting"
    <3>1. CASE "compact" \in world.events
      BY <1>8, <3>1 DEF Decide, Replayable
    <3>2. CASE "compact" \notin world.events
      BY <3>2 DEF Uncompacted
    <3> QED
      BY <3>1, <3>2
  <2> QED
    BY <2>1, <2>2, RecordReplay DEF Replayed
<1>9. CASE Persist
  <2>1. tasks' = Shoot(tasks, cur, recorded) /\ cur \in DOMAIN tasks /\ recorded \in Nat
        /\ UNCHANGED <<messages, cstate, live, pc>> /\ pc # "compacting"
    BY <1>9 DEF Persist, Shoot, Control, TypeOK
  <2>2. Alike(tasks, tasks') /\ tasks'[cur].arts = tasks[cur].arts
        /\ \A i \in 1..Len(tasks) : i # cur => tasks'[i] = tasks[i]
    BY ONLY <1>0, <2>1, Shot
  <2>3. Replay(tasks', 0) = A
    <3>1. Len(tasks') = Len(tasks) /\ Kept(tasks') = Kept(tasks)
      BY ONLY <1>0, <2>2, AlikeFacts
    <3>2. \A i \in 1..Len(tasks) : tasks'[i].arts = tasks[i].arts
      BY ONLY <2>2
    <3> QED
      BY ONLY <1>0, <3>1, <3>2, ReplaySame
  <2> QED
    BY <1>b, <2>1, <2>3, ReplayedOn
<1>10. CASE Pause
  BY <1>10, <1>d DEF Pause
<1>11. CASE Finish
  <2>1. tasks' = Close(tasks, cur) /\ cur \in DOMAIN tasks
        /\ ~live' /\ cstate' = cstate /\ pc' # "compacting"
    BY <1>11 DEF Finish, Close, Control, Forget
  <2>2. Alike(tasks, tasks') /\ tasks'[cur].arts = tasks[cur].arts
        /\ \A i \in 1..Len(tasks) : i # cur => tasks'[i] = tasks[i]
    BY ONLY <1>0, <2>1, Closed
  <2>3. Replay(tasks', 0) = A
    <3>1. Len(tasks') = Len(tasks) /\ Kept(tasks') = Kept(tasks)
      BY ONLY <1>0, <2>2, AlikeFacts
    <3>2. \A i \in 1..Len(tasks) : tasks'[i].arts = tasks[i].arts
      BY ONLY <2>2
    <3> QED
      BY ONLY <1>0, <3>1, <3>2, ReplaySame
  <2> QED
    BY <1>e, <2>1, <2>3
<1>12. CASE Restart
  <2>1. ~live' /\ ~cstate'.set /\ tasks' = tasks /\ pc' # "compacting"
    BY <1>12, StateFacts DEF Restart, Forget
  <2> QED
    BY <2>1, ReplayedOn
<1>13. CASE Recover
  <2>1. /\ pc = "down" /\ pc' = "idle" /\ UNCHANGED tasks
    BY <1>13, RecoverFacts
  <2>2. CASE Opened = {}
    BY <1>13, <1>d, <2>1, <2>2, RecoverFacts
  <2>3. CASE Opened # {}
    <3> DEFINE t == Greatest(Opened)
    <3>1. Enter(t) /\ t \in Nat /\ t \in Kept(tasks) /\ tasks[t].open
      BY <1>13, <2>3, RecoverFacts
    <3> HIDE DEF t
    <3>2. tasks[t].arts = <<>>
      <4>1. t \in DOMAIN tasks
        BY <3>1, KeptFacts
      <4> QED
        BY <2>1, <3>1, <4>1 DEF Rested
    <3>3. Replay(tasks, t) = A
      BY <1>0, <3>2, ReplayWithout
    <3> QED
      BY <1>c, <2>1, <3>1, <3>3
  <2> QED
    BY <2>2, <2>3
<1>14. ASSUME NEW b \in DOMAIN tasks, RewindBegin(b) PROVE Replayed'
  BY <1>14, <1>d DEF RewindBegin
<1>15. CASE RewindWrite
  BY <1>15, <1>d DEF RewindWrite, Control
<1>16. CASE RewindEnd
  <2>1. "rewind" \in world.events /\ pc' # "compacting" /\ ~live'
    BY <1>16 DEF RewindEnd, Control, Forget
  <2>2. Uncompacted'
    BY <2>1 DEF Replayable
  <2>3. ~cstate'.set /\ ~Latest(Replay(tasks', 0)).set
    BY <1>0, <2>2, PlainReplay DEF Uncompacted
  <2> QED
    BY <2>1, <2>3 DEF Replayed
<1>17. CASE UNCHANGED vars
  BY <1>17 DEF vars, Replayed
<1> QED
  BY <1>1, <1>2, <1>3, <1>4, <1>5, <1>6, <1>7, <1>8, <1>9, <1>10, <1>11, <1>12, <1>13, <1>14, <1>15,
     <1>16, <1>17 DEF Next

(***************************************************************************)
(* The row and the snapshots of the turns.                                 *)
(***************************************************************************)
LEMMA NewestSame ==
  ASSUME NEW ts, NEW us, NEW S, NEW T, NEW n \in Nat, S \subseteq 0..n,
         Snapped(us, T) = Snapped(ts, S), \A i \in S : us[i].snap = ts[i].snap
  PROVE  Newest(us, T) = Newest(ts, S)
<1> DEFINE P == Snapped(ts, S)
<1>1. P \subseteq S /\ P \subseteq 0..n
  BY DEF Snapped
<1>2. Newest(ts, S) = IF P = {} THEN 0 ELSE ts[Greatest(P)].snap
  BY DEF Newest
<1>3. Newest(us, T) = IF P = {} THEN 0 ELSE us[Greatest(P)].snap
  BY DEF Newest
<1> HIDE DEF P
<1>4. P # {} => Greatest(P) \in P
  BY ONLY <1>1, n \in Nat, GreatestFacts
<1>5. P # {} => us[Greatest(P)].snap = ts[Greatest(P)].snap
  BY <1>1, <1>4
<1> QED
  BY ONLY <1>2, <1>3, <1>5

(* The same turns with the same snapshots. *)
LEMMA NewestKept ==
  ASSUME NEW ts, NEW us, NEW S, NEW n \in Nat, S \subseteq 0..n,
         \A i \in S : us[i].snap = ts[i].snap
  PROVE  Newest(us, S) = Newest(ts, S)
<1> DEFINE P == Snapped(ts, S)
<1>1. P \subseteq S /\ P \subseteq 0..n
  BY DEF Snapped
<1>2. Newest(ts, S) = IF P = {} THEN 0 ELSE ts[Greatest(P)].snap
  BY DEF Newest
<1>3. Newest(us, S) = IF P = {} THEN 0 ELSE us[Greatest(P)].snap
  <2>1. Snapped(us, S) = P
    BY DEF Snapped
  <2> QED
    BY <2>1 DEF Newest
<1> HIDE DEF P
<1>4. P # {} => Greatest(P) \in P
  BY ONLY <1>1, n \in Nat, GreatestFacts
<1>5. P # {} => us[Greatest(P)].snap = ts[Greatest(P)].snap
  BY <1>1, <1>4
<1> QED
  BY ONLY <1>2, <1>3, <1>5

(* The newest of them has a snapshot. *)
LEMMA NewestIs ==
  ASSUME NEW ts, NEW S, S \subseteq Nat, NEW c \in S, \A i \in S : i <= c, ts[c].snap # 0
  PROVE  Newest(ts, S) = ts[c].snap
<1> DEFINE P == Snapped(ts, S)
<1>1. P \subseteq Nat /\ c \in P /\ \A i \in P : i <= c
  BY DEF Snapped
<1>2. Newest(ts, S) = IF P = {} THEN 0 ELSE ts[Greatest(P)].snap
  BY DEF Newest
<1> HIDE DEF P
<1>3. Greatest(P) = c
  BY ONLY <1>1, GreatestIs
<1> QED
  BY <1>1, <1>2, <1>3

(* The snapshots stay, and so does what is to be written to the row. *)
LEMMA SnapshotsOn ==
  ASSUME TypeOK, Control, Snapshots, Kept(tasks)' = Kept(tasks), DOMAIN tasks' = DOMAIN tasks,
         \A i \in DOMAIN tasks : tasks'[i].snap = tasks[i].snap,
         row' = row, rw' = rw, recorded' = 0 => recorded = 0, running' => recorded' > 0
  PROVE  Snapshots'
<1>1. Len(tasks) \in Nat /\ Kept(tasks) \subseteq 0..Len(tasks) /\ Kept(tasks) \subseteq DOMAIN tasks
  BY KeptFacts
<1>2. ASSUME NEW S, S \subseteq Kept(tasks) PROVE Newest(tasks', S) = Newest(tasks, S)
  <2>1. S \subseteq 0..Len(tasks) /\ \A i \in S : tasks'[i].snap = tasks[i].snap
    BY <1>1, <1>2
  <2> QED
    BY ONLY <1>1, <2>1, NewestKept
<1>3. Newest(tasks', Kept(tasks')) = Newest(tasks, Kept(tasks))
  BY <1>2
<1> DEFINE before == {i \in Kept(tasks) : i < rw.before}
<1>4. Newest(tasks', before) = Newest(tasks, before) /\ before = {i \in Kept(tasks') : i < rw'.before}
  BY <1>2
<1>5. recorded' = 0 => \A i \in DOMAIN tasks' : tasks'[i].snap = 0
  BY DEF Snapshots
<1> QED
  BY <1>3, <1>4, <1>5 DEF Snapshots

(* A snapshot is taken in the turn of the session. *)
LEMMA SnapshotTaken ==
  ASSUME TypeOK, Control, Seated, live, NEW n \in Nat, n > 0, recorded' > 0, row' = n,
         Alike(tasks, tasks'), tasks'[cur].snap = n, rw' = rw, rw.at = "none"
  PROVE  Snapshots'
<1>1. Kept(tasks') = Kept(tasks)
  BY AlikeFacts, KeptFacts
<1>2. Kept(tasks) \subseteq Nat /\ cur \in Kept(tasks) /\ \A i \in Kept(tasks) : i <= cur
  BY KeptFacts DEF Seated
<1>3. Newest(tasks', Kept(tasks')) = n
  BY <1>1, <1>2, NewestIs
<1> QED
  BY <1>3 DEF Snapshots

LEMMA SnapshotsStep ==
  ASSUME TypeOK, Control, Seated, Rested, Checkpointed(world.events), Snapshots, [Next]_vars
  PROVE  Snapshots'
<1>0. /\ tasks \in Seq(Task) /\ DOMAIN tasks = 1..Len(tasks) /\ Len(tasks) \in Nat
      /\ iter_all_tasks = Kept(tasks) /\ recorded \in Nat
      /\ Kept(tasks) \subseteq DOMAIN tasks /\ Kept(tasks) \subseteq 0..Len(tasks)
  BY KeptFacts DEF TypeOK
<1>a. running => recorded > 0
  BY DEF Snapshots
<1> USE DEF Quiet, sessionVars
<1>b. ASSUME UNCHANGED <<tasks, row, rw, recorded>>, running' => recorded' > 0 PROVE Snapshots'
  BY <1>b, SnapshotsOn
<1>c. ASSUME NEW roles \in RoleLists, live, Record(roles), row' = row, rw' = rw PROVE Snapshots'
  <2> DEFINE a == MessageArtifact(Msgs(roles))
  <2>1. /\ a \in Artifact /\ cur \in DOMAIN tasks /\ tasks' = Write(tasks, cur, a)
        /\ Kept(tasks)' = Kept(tasks) /\ DOMAIN tasks' = DOMAIN tasks
    BY <1>c, RecordFacts
  <2> HIDE DEF a
  <2>2. tasks'[cur].snap = tasks[cur].snap /\ \A i \in 1..Len(tasks) : i # cur => tasks'[i] = tasks[i]
    BY ONLY <1>0, <2>1, Wrote
  <2>3. recorded' > 0
    <3>1. recorded' = recorded + Len(roles)
      BY <1>c DEF Record
    <3>2. Len(roles) \in {1, 2, 3}
      BY DEF RoleLists
    <3> DEFINE k == Len(roles)
    <3>3. recorded \in Nat /\ k \in {1, 2, 3} /\ recorded' = recorded + k
      BY <1>0, <3>1, <3>2
    <3> HIDE DEF k
    <3> QED
      BY ONLY <3>3
  <2>4. \A i \in DOMAIN tasks : tasks'[i].snap = tasks[i].snap
    BY <1>0, <2>2
  <2> QED
    BY <1>c, <2>1, <2>3, <2>4, SnapshotsOn
<1>1. ASSUME NEW h \in BOOLEAN, Receive(h) PROVE Snapshots'
  <2> DEFINE n == Len(tasks) + 1
  <2>1. /\ Kept(tasks)' = Kept(tasks) \cup {n} /\ DOMAIN tasks' = 1..Len(tasks) + 1
        /\ tasks'[n] = Turn(h) /\ \A i \in 1..Len(tasks) : tasks'[i] = tasks[i]
    BY <1>1, ReceiveFacts
  <2>2. UNCHANGED <<row, rw, recorded, running>> /\ rw.at = "none"
    BY <1>1 DEF Receive
  <2>3. tasks'[n].snap = 0
    BY <2>1 DEF Turn
  <2>4. \A i \in Kept(tasks) : tasks'[i].snap = tasks[i].snap
    BY <1>0, <2>1
  <2>5. Snapped(tasks', Kept(tasks')) = Snapped(tasks, Kept(tasks))
    BY <2>1, <2>3, <2>4 DEF Snapped
  <2>6. Newest(tasks', Kept(tasks')) = Newest(tasks, Kept(tasks))
    BY ONLY <1>0, <2>4, <2>5, NewestSame
  <2>7. recorded' = 0 => \A i \in DOMAIN tasks' : tasks'[i].snap = 0
    <3>1. \A i \in DOMAIN tasks' : i \in 1..Len(tasks) \/ i = n
      BY <1>0, <2>1
    <3> QED
      BY <1>0, <2>1, <2>2, <2>3, <3>1 DEF Snapshots
  <2> QED
    BY <1>a, <2>2, <2>6, <2>7 DEF Snapshots
<1>2. CASE Continue
  BY <1>2, <1>a, <1>b DEF Continue
<1>3. CASE PlanAsIs
  BY <1>3, <1>a, <1>b DEF PlanAsIs
<1>4. CASE CompactBegin
  BY <1>4, <1>a, <1>b DEF CompactBegin
<1>5. CASE CompactEnd
  <2> DEFINE a == CompactionArtifact(recent.made)
  <2>1. /\ a \in Artifact /\ cur \in DOMAIN tasks /\ tasks' = Write(tasks, cur, a)
        /\ Kept(tasks)' = Kept(tasks) /\ DOMAIN tasks' = DOMAIN tasks
    BY <1>5, CompactFacts
  <2> HIDE DEF a
  <2>2. tasks'[cur].snap = tasks[cur].snap /\ \A i \in 1..Len(tasks) : i # cur => tasks'[i] = tasks[i]
    BY ONLY <1>0, <2>1, Wrote
  <2>3. \A i \in DOMAIN tasks : tasks'[i].snap = tasks[i].snap
    BY <1>0, <2>2
  <2>4. UNCHANGED <<row, rw, recorded, running>>
    BY <1>5 DEF CompactEnd
  <2> QED
    BY <1>a, <2>1, <2>3, <2>4, SnapshotsOn
<1>6. CASE Planned
  <2>1. live /\ Record(<<"user">>) /\ <<"user">> \in RoleLists /\ row' = row /\ rw' = rw
    BY <1>6 DEF Planned, Control, RoleLists
  <2> QED
    BY <1>c, <2>1
<1>7. ASSUME NEW failed \in BOOLEAN, PlanEnds(failed) PROVE Snapshots'
  <2>1. PICK roles \in RoleLists, n \in Nat :
          LET a == MessageArtifact(Msgs(roles))
          IN  /\ a \in Artifact /\ n > 0 /\ row' = n /\ recorded' \in Nat /\ recorded' >= n
              /\ cur \in DOMAIN tasks /\ live /\ tasks' = End(tasks, cur, n, a)
    BY <1>7, EndsFacts
  <2> DEFINE a == MessageArtifact(Msgs(roles))
  <2>2. a \in Artifact /\ cur \in DOMAIN tasks /\ tasks' = End(tasks, cur, n, a)
    BY <2>1
  <2>3. row' = n /\ n > 0 /\ recorded' > 0 /\ live
    BY <2>1
  <2> HIDE DEF a
  <2>4. Alike(tasks, tasks') /\ tasks'[cur].snap = n
    BY ONLY <1>0, <2>2, n \in Nat, Ended
  <2>5. rw' = rw /\ rw.at = "none"
    BY <1>7 DEF PlanEnds, Control
  <2> QED
    BY <2>3, <2>4, <2>5, SnapshotTaken
<1>8. ASSUME NEW roles \in {<<"assistant">>, <<"assistant", "tool">>}, Decide(roles) PROVE Snapshots'
  <2>1. live /\ Record(roles) /\ roles \in RoleLists /\ row' = row /\ rw' = rw
    BY <1>8 DEF Decide, Control, RoleLists
  <2> QED
    BY <1>c, <2>1
<1>9. CASE Persist
  <2>1. tasks' = Shoot(tasks, cur, recorded) /\ cur \in DOMAIN tasks /\ live
        /\ UNCHANGED <<rw, recorded>> /\ rw.at = "none" /\ row' = recorded /\ recorded > 0
    BY <1>9, <1>a DEF Persist, Shoot, Control
  <2>2. Alike(tasks, tasks') /\ tasks'[cur].snap = recorded
    BY ONLY <1>0, <2>1, Shot
  <2> QED
    BY <1>0, <2>1, <2>2, SnapshotTaken
<1>10. CASE Pause
  BY <1>10, <1>b DEF Pause
<1>11. CASE Finish
  <2>1. tasks' = Close(tasks, cur) /\ cur \in DOMAIN tasks
        /\ UNCHANGED <<row, rw, recorded>> /\ ~running'
    BY <1>11 DEF Finish, Close, Control, Forget
  <2>2. Alike(tasks, tasks') /\ tasks'[cur].snap = tasks[cur].snap
        /\ \A i \in 1..Len(tasks) : i # cur => tasks'[i] = tasks[i]
    BY ONLY <1>0, <2>1, Closed
  <2>3. Kept(tasks') = Kept(tasks) /\ DOMAIN tasks' = DOMAIN tasks
    BY ONLY <1>0, <2>2, AlikeFacts
  <2>4. \A i \in DOMAIN tasks : tasks'[i].snap = tasks[i].snap
    BY <1>0, <2>2
  <2> QED
    BY <2>1, <2>3, <2>4, SnapshotsOn
<1>12. CASE Restart
  <2>1. UNCHANGED <<tasks, row, recorded>> /\ ~running' /\ rw'.at = "none"
    BY <1>12 DEF Restart, Forget
  <2>2. rw.at = "none"
    BY <1>12 DEF Restart, Checkpointed, Control
  <2> QED
    BY <2>1, <2>2 DEF Snapshots
<1>13. CASE Recover
  <2>1. /\ UNCHANGED <<tasks, row, recorded, rw>> /\ rw.at = "none"
        /\ Opened = {} => running' = running
        /\ Opened \subseteq Kept(tasks) /\ \A i \in Opened : tasks[i].snap # 0 \/ row # 0
    BY <1>0, <1>13, RecoverFacts DEF Control, Opened
  <2>2. recorded = 0 => Opened = {}
    <3> SUFFICES ASSUME recorded = 0 PROVE Opened = {}
      OBVIOUS
    <3>1. \A i \in Kept(tasks) : tasks[i].snap = 0
      BY <1>0 DEF Snapshots
    <3>2. Snapped(tasks, Kept(tasks)) = {}
      BY <3>1 DEF Snapped
    <3>3. row = 0
      BY <2>1, <3>2 DEF Snapshots, Newest
    <3> QED
      BY <2>1, <3>1, <3>3
  <2>3. running' => recorded' > 0
    <3>1. CASE recorded = 0
      <4>1. running' = running /\ ~running
        BY <1>a, <2>1, <2>2, <3>1
      <4> QED
        BY ONLY <4>1
    <3>2. CASE recorded # 0
      BY <1>0, <2>1, <3>2
    <3> QED
      BY <3>1, <3>2
  <2> QED
    BY <1>b, <2>1, <2>3
<1>14. ASSUME NEW b \in DOMAIN tasks, RewindBegin(b) PROVE Snapshots'
  <2> DEFINE earlier == {i \in Kept(tasks) : i < b}
  <2>1. /\ UNCHANGED <<tasks, row, recorded, running>> /\ rw.at = "none" /\ checkpoint(b).ok
        /\ rw'.at = "read" /\ rw'.before = b /\ rw'.snap = checkpoint(b).snap
    BY <1>14 DEF RewindBegin
  <2>2. /\ earlier = {} => checkpoint(b).snap = 0
        /\ earlier # {} => /\ checkpoint(b).ok => tasks[Greatest(earlier)].snap # 0
                           /\ checkpoint(b).snap = tasks[Greatest(earlier)].snap
    BY <1>0 DEF checkpoint
  <2>3. earlier # {} => /\ Greatest(earlier) \in earlier /\ \A i \in earlier : i <= Greatest(earlier)
    BY KeptFacts
  <2>4. earlier \subseteq Nat
    BY KeptFacts
  <2>5. {i \in Kept(tasks') : i < rw'.before} = earlier
    BY <2>1
  <2> HIDE DEF earlier
  <2>6. rw'.snap = Newest(tasks, earlier)
    <3>1. CASE earlier = {}
      <4>1. Snapped(tasks, {}) = {}
        BY DEF Snapped
      <4> QED
        BY <2>1, <2>2, <3>1, <4>1 DEF Newest
    <3>2. CASE earlier # {}
      <4>1. tasks[Greatest(earlier)].snap # 0 /\ rw'.snap = tasks[Greatest(earlier)].snap
        BY <2>1, <2>2, <3>2
      <4> QED
        BY ONLY <2>3, <2>4, <3>2, <4>1, NewestIs
    <3> QED
      BY <3>1, <3>2
  <2> QED
    BY <2>1, <2>5, <2>6 DEF Snapshots
<1>15. CASE RewindWrite
  <2>1. /\ UNCHANGED <<tasks, recorded, running>> /\ rw.at = "read" /\ row' = rw.snap
        /\ rw'.at = "written" /\ rw'.before = rw.before /\ rw'.snap = rw.snap
    BY <1>15 DEF RewindWrite, TypeOK
  <2> QED
    BY <2>1 DEF Snapshots
<1>16. CASE RewindEnd
  <2>1. /\ Kept(tasks)' = {i \in Kept(tasks) : i < rw.before}
        /\ \A i \in 1..Len(tasks) : tasks'[i] = tasks[i]
        /\ DOMAIN tasks' = 1..Len(tasks) + 1 /\ tasks'[Len(tasks) + 1] = Marker(rw.before)
    BY <1>16, RewindFacts
  <2>2. UNCHANGED <<row, recorded>> /\ rw.at = "written" /\ rw'.at = "none" /\ ~running'
    BY <1>16 DEF RewindEnd, Forget
  <2> DEFINE S == {i \in Kept(tasks) : i < rw.before}
  <2>3. S \subseteq 0..Len(tasks) /\ \A i \in S : tasks'[i].snap = tasks[i].snap
    BY <1>0, <2>1
  <2>4. row = Newest(tasks, S)
    BY <2>2 DEF Snapshots
  <2>5. Kept(tasks') = S
    BY <2>1
  <2> HIDE DEF S
  <2>6. Newest(tasks', S) = Newest(tasks, S)
    BY ONLY <1>0, <2>3, NewestKept
  <2>7. recorded' = 0 => \A i \in DOMAIN tasks' : tasks'[i].snap = 0
    <3>1. \A i \in DOMAIN tasks' : i \in 1..Len(tasks) \/ i = Len(tasks) + 1
      BY <1>0, <2>1
    <3> QED
      BY <1>0, <2>1, <2>2, <3>1 DEF Snapshots, Marker
  <2> QED
    BY <2>2, <2>4, <2>5, <2>6, <2>7 DEF Snapshots
<1>17. CASE UNCHANGED vars
  BY <1>17, <1>a, <1>b DEF vars
<1> QED
  BY <1>1, <1>2, <1>3, <1>4, <1>5, <1>6, <1>7, <1>8, <1>9, <1>10, <1>11, <1>12, <1>13, <1>14, <1>15,
     <1>16, <1>17 DEF Next

(***************************************************************************)
(* The invariants.                                                         *)
(***************************************************************************)
LEMMA WorldStays == [Next]_vars => world' = world
<1>1. \A failed \in BOOLEAN : PlanEnds(failed) => world' = world
  BY DEF PlanEnds
<1>2. CASE UNCHANGED vars
  BY <1>2 DEF vars
<1> QED
  BY <1>1, <1>2 DEF Next, Receive, Continue, PlanAsIs, CompactBegin, CompactEnd, Planned, Decide, Persist, Pause,
     Finish, Restart, Recover, RewindBegin, RewindWrite, RewindEnd

LEMMA InitInv == Init => IInv
<1> SUFFICES ASSUME Init PROVE IInv
  OBVIOUS
<1>0. /\ world \in Worlds /\ tasks = <<>> /\ row = 0 /\ recorded = 0 /\ messages = <<>> /\ cstate = NoCompaction
      /\ live = FALSE /\ running = FALSE /\ cur = 0 /\ pc = "idle" /\ recent = NoFold /\ folds = 0
      /\ rw = [at |-> "none", before |-> 0, snap |-> 0]
  BY DEF Init
<1>1. tasks \in Seq(Task) /\ DOMAIN tasks = {} /\ messages \in Seq(Message) /\ DOMAIN messages = {}
  BY <1>0
<1>2. Kept(tasks) = {}
  BY <1>1 DEF Kept
<1>3. Replay(tasks, 0) = <<>>
  <2> DEFINE ss == Shares(tasks, 0)
  <2>1. ss \in Lists(Artifact) /\ DOMAIN ss = {}
    BY <1>1, SharesFacts DEF Shares
  <2> HIDE DEF ss
  <2>2. Flat(ss) = <<>>
    BY ONLY <2>1, FlatEmpty
  <2> QED
    BY <2>2 DEF Replay, ss
<1>4. TypeOK
  BY <1>0, <1>1, StateFacts DEF TypeOK, NoFold
<1>5. Control
  BY <1>0, <1>1 DEF Control, Marked
<1>6. Uncompacted
  BY <1>0, <1>1, StateFacts DEF Uncompacted, Paired
<1>7. Seated /\ Rested /\ Resumable
  BY <1>0, <1>2 DEF Seated, Rested, Resumable
<1>8. Replayed
  <2>1. <<>> \in Seq(Artifact) /\ \A k \in DOMAIN <<>> : FALSE
    OBVIOUS
  <2>2. ~Latest(<<>>).set
    <3>1. {k \in DOMAIN <<>> : <<>>[k].compaction.set} = {}
      BY <2>1
    <3> QED
      BY <3>1, StateFacts DEF Latest
  <2> QED
    BY <1>0, <1>3, <2>2, StateFacts DEF Replayed
<1>9. Snapshots
  BY <1>0, <1>1, <1>2 DEF Snapshots, Newest, Snapped
<1> QED
  BY <1>4, <1>5, <1>6, <1>7, <1>8, <1>9 DEF IInv

LEMMA StepInv == IInv /\ [Next]_vars => IInv'
<1> SUFFICES ASSUME IInv, [Next]_vars PROVE IInv'
  OBVIOUS
<1>1. TypeOK /\ Control /\ TypeOK' /\ Control' /\ world' = world
  BY BaseStep, WorldStays DEF IInv
<1>2. "compact" \notin world.events => Uncompacted /\ Uncompacted'
  BY <1>1, UncompactedStep DEF IInv
<1>3. "restart" \notin world.events => Seated /\ Rested /\ Seated' /\ Rested'
  BY <1>1, SeatStep DEF IInv
<1>4. Replayable(world.events) => "restart" \notin world.events /\ Replayed
      /\ ("resume" \in world.events => Resumable /\ "rewind" \notin world.events)
  BY DEF IInv, Replayable
<1>5. Replayable(world.events) => Replayed'
  BY <1>1, <1>2, <1>3, <1>4, ReplayedStep
<1>6. Replayable(world.events) /\ "resume" \in world.events => Resumable'
  BY <1>1, <1>3, <1>4, ResumeStep
<1>7. Checkpointed(world.events) => Snapshots'
  <2>1. Checkpointed(world.events) => "restart" \notin world.events /\ Snapshots
    BY DEF IInv, Checkpointed
  <2> QED
    BY <1>1, <1>3, <2>1, SnapshotsStep
<1> QED
  BY <1>1, <1>2, <1>3, <1>5, <1>6, <1>7 DEF IInv

(* Types and control, a session that writes to the newest visible turn,    *)
(* a list that is the replay of the visible turns, a compaction that       *)
(* stands for a prefix of it, and a row that is the newest snapshot:       *)
(* together they are inductive.                                            *)
THEOREM InductiveInvariant == Spec => []IInv
<1>1. Init => IInv
  BY InitInv
<1>2. IInv /\ [Next]_vars => IInv'
  BY StepInv
<1> QED
  BY <1>1, <1>2, PTL DEF Spec

(* The skip stack of iter_all_tasks hides exactly what the rewinds took    *)
(* back, however many rewinds there are and whatever they name.            *)
THEOREM RewindsAreApplied == Spec => []VisibleIsApplied
<1>1. IInv => VisibleIsApplied
  <2> SUFFICES ASSUME IInv PROVE VisibleIsApplied
    OBVIOUS
  <2>1. iter_all_tasks = Kept(tasks)
    BY KeptFacts DEF IInv
  <2> QED
    BY <2>1 DEF VisibleIsApplied, Kept
<1> QED
  BY <1>1, InductiveInvariant, PTL

(* The list in memory is what rebuild would give: compactions, turns,      *)
(* evictions, resumed tasks and rewinds in any number and order.           *)
THEOREM MemoryIsReplay == Spec => [](Replayable(world.events) => RebuildExact)
<1>1. IInv => (Replayable(world.events) => RebuildExact)
  <2> SUFFICES ASSUME IInv, Replayable(world.events), live PROVE messages = rebuild(0)
    BY DEF RebuildExact
  <2>1. Rows /\ Marked(tasks)
    BY RowsOfType DEF IInv, TypeOK, Control
  <2>2. rebuild(0) = Rebuilt(Replay(tasks, 0))
    BY <2>1, ReplayIs
  <2> QED
    BY <2>2 DEF IInv, Replayed
<1> QED
  BY <1>1, InductiveInvariant, PTL

(* The list says everything that was recorded in a visible turn, in a      *)
(* message or in a summary, and nothing else.                              *)
THEOREM NothingIsForgotten == Spec => [](Replayable(world.events) => NothingForgotten)
<1>1. IInv => (Replayable(world.events) => NothingForgotten)
  <2> SUFFICES ASSUME IInv, Replayable(world.events), live PROVE Told(messages) = Told(rebuilt_raw(0))
    BY DEF NothingForgotten
  <2> DEFINE A == Replay(tasks, 0)
  <2>1. Rows /\ Marked(tasks) /\ tasks \in Seq(Task)
    BY RowsOfType DEF IInv, TypeOK, Control
  <2>2. rebuilt_raw(0) = Raw(A)
    BY <2>1, ReplayIs
  <2>3. A \in Seq(Artifact)
    BY <2>1, ReplayType
  <2>4. messages = Rebuilt(A) /\ (Latest(A).set => Stands(Latest(A), Raw(A)))
    BY DEF IInv, Replayed
  <2> HIDE DEF A
  <2> QED
    BY ONLY <2>2, <2>3, <2>4, RebuiltSays
<1> QED
  BY <1>1, InductiveInvariant, PTL

(* The result of a call follows the call in the list: the split of a       *)
(* compaction does not separate them, and neither does a replay that       *)
(* starts behind the compacted messages.                                   *)
THEOREM PairsStayTogether == Spec => [](Pairable(world.events) => ToolPairs)
<1>1. IInv => (Pairable(world.events) => ToolPairs)
  <2> SUFFICES ASSUME IInv, Pairable(world.events) PROVE Paired(messages)
    BY DEF ToolPairs, Paired
  <2> DEFINE A == Replay(tasks, 0)
  <2>1. CASE "compact" \notin world.events
    BY <2>1 DEF IInv, Uncompacted
  <2>2. CASE Replayable(world.events) /\ live
    <3>1. A \in Seq(Artifact)
      BY ReplayType DEF IInv, TypeOK
    <3>2. messages = Rebuilt(A) /\ (Latest(A).set => Stands(Latest(A), Raw(A)))
      BY <2>2 DEF IInv, Replayed
    <3> HIDE DEF A
    <3>3. Paired(Rebuilt(A))
      BY ONLY <3>1, <3>2, RebuiltSays
    <3> QED
      BY <3>2, <3>3
  <2>3. CASE ~live
    <3>1. messages = <<>>
      BY <2>3 DEF IInv, Control
    <3> QED
      BY <3>1 DEF Paired
  <2> QED
    BY <2>1, <2>2, <2>3 DEF Pairable
<1> QED
  BY <1>1, InductiveInvariant, PTL

(* The context store holds the last snapshot of the turns that are         *)
(* visible, through every save, rewind and eviction.                       *)
THEOREM RowFollowsRewinds == Spec => [](Checkpointed(world.events) => RowIsCheckpoint)
<1>1. IInv => (Checkpointed(world.events) => RowIsCheckpoint)
  <2> SUFFICES ASSUME IInv, Checkpointed(world.events), rw.at = "none"
               PROVE  row = Newest(tasks, iter_all_tasks)
    BY DEF RowIsCheckpoint, Newest, Snapped
  <2>1. iter_all_tasks = Kept(tasks)
    BY KeptFacts DEF IInv
  <2> QED
    BY <2>1 DEF IInv, Snapshots
<1> QED
  BY <1>1, InductiveInvariant, PTL
=============================================================================
