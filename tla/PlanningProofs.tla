--------------------------- MODULE PlanningProofs ---------------------------
(***************************************************************************)
(* Planning: what validate_plan computes, for every draft, and the         *)
(* invariants of an attempt to get a decision out of a model.              *)
(***************************************************************************)
EXTENDS Planning, Integers, DataLemmas, FiniteSetTheorems

(***************************************************************************)
(* A draft that passed the checks before the loop: ids are unique, and the *)
(* dependencies of a node are other nodes.                                 *)
(***************************************************************************)
Deps(d, n) == Elems(node_of(d, n).deps)
Ids(d)     == [i \in DOMAIN d |-> d[i].id]

Proper(d) ==
  /\ NoTwice(Ids(d))
  /\ \A i \in DOMAIN d : \A e \in Elems(d[i].deps) : e \in ids(d) /\ e # d[i].id

(* The node of an id that is not used twice is the one at its index. *)
LEMMA NodeOf ==
  ASSUME NEW d \in PlanDraft, NoTwice(Ids(d))
  PROVE  \A i \in DOMAIN d : node_of(d, d[i].id) = d[i]
<1> SUFFICES ASSUME NEW i \in DOMAIN d PROVE node_of(d, d[i].id) = d[i]
  OBVIOUS
<1> DEFINE j == CHOOSE j \in DOMAIN d : d[j].id = d[i].id
<1>1. j \in DOMAIN d /\ d[j].id = d[i].id
  OBVIOUS
<1>2. j = i
  BY <1>1 DEF NoTwice, Ids
<1> QED
  BY <1>2 DEF node_of

(* What the proofs below use of a draft. *)
LEMMA DraftFacts ==
  ASSUME NEW d \in PlanDraft
  PROVE  /\ Len(d) \in Nat /\ DOMAIN d = 1..Len(d)
         /\ Ids(d) \in Seq(ids(d)) /\ Elems(Ids(d)) = ids(d)
         /\ ids(d) \subseteq NodeId
         /\ IsFiniteSet(ids(d)) /\ Cardinality(ids(d)) \in Nat
         /\ Cardinality(ids(d)) = Len(d) <=> NoTwice(Ids(d))
         /\ \A i \in DOMAIN d : d[i].id \in ids(d) /\ d[i].deps \in Seq(NodeId)
<1>1. /\ Len(d) \in Nat /\ DOMAIN d = 1..Len(d)
      /\ \A i \in DOMAIN d : d[i] \in [id : NodeId, deps : Seq(NodeId)]
  <2> DEFINE R == [id : NodeId, deps : Seq(NodeId)]
  <2>1. d \in Seq(R)
    BY DEF PlanDraft
  <2> HIDE DEF R
  <2>2. Len(d) \in Nat /\ DOMAIN d = 1..Len(d) /\ \A i \in DOMAIN d : d[i] \in R
    BY <2>1, LenProperties, ElementOfSeq
  <2> QED
    BY <2>2 DEF R
<1>2. \A i \in DOMAIN d : d[i].id \in ids(d) /\ d[i].id \in NodeId /\ d[i].deps \in Seq(NodeId)
  BY <1>1 DEF ids
<1>3. Ids(d) \in [1..Len(d) -> ids(d)]
  BY <1>1, <1>2 DEF Ids
<1>4. Ids(d) \in Seq(ids(d))
  BY <1>1, <1>3
<1>5. Elems(Ids(d)) = ids(d)
  BY <1>1 DEF Elems, Ids, ids
<1>6. ids(d) \subseteq NodeId
  BY <1>2 DEF ids
<1>7. Ids(d) \in Surjection(1..Len(d), ids(d))
  <2>1. ASSUME NEW n \in ids(d) PROVE \E i \in 1..Len(d) : Ids(d)[i] = n
    BY <1>1, <2>1 DEF ids, Ids
  <2> QED
    BY <1>3, <2>1 DEF Surjection
<1>8. IsFiniteSet(1..Len(d)) /\ Cardinality(1..Len(d)) = Len(d)
  <2>1. Len(d) \in Int /\ 1 \in Int
    BY <1>1
  <2>2. /\ IsFiniteSet(1..Len(d))
        /\ Cardinality(1..Len(d)) = IF 1 > Len(d) THEN 0 ELSE Len(d) - 1 + 1
    BY <2>1, FS_Interval
  <2> QED
    BY <1>1, <2>2
<1>9. /\ IsFiniteSet(ids(d))
      /\ Cardinality(ids(d)) = Len(d) <=> Ids(d) \in Injection(1..Len(d), ids(d))
  BY <1>7, <1>8, FS_Surjection
<1>10. Cardinality(ids(d)) \in Nat
  BY <1>9, FS_CardinalityType
<1>11. Ids(d) \in Injection(1..Len(d), ids(d)) <=> NoTwice(Ids(d))
  <2>1. DOMAIN Ids(d) = 1..Len(d)
    BY <1>3
  <2> QED
    BY <1>3, <2>1 DEF Injection, IsInjective, NoTwice
<1> QED
  BY <1>1, <1>2, <1>4, <1>5, <1>6, <1>9, <1>10, <1>11

(* The nodes a node waits for, and the nodes that wait for it. *)
LEMMA ProperFacts ==
  ASSUME NEW d \in PlanDraft, Proper(d)
  PROVE  /\ \A n \in ids(d) : /\ Deps(d, n) \subseteq ids(d) /\ n \notin Deps(d, n)
                              /\ IsFiniteSet(Deps(d, n))
         /\ \A n \in ids(d) : /\ children(d, n) \in Seq(ids(d))
                              /\ NoTwice(children(d, n))
                              /\ Elems(children(d, n)) = {c \in ids(d) : n \in Deps(d, c)}
         /\ \A n \in ids(d) : indegree(d)[n] = Cardinality(Deps(d, n))
<1>1. /\ Ids(d) \in Seq(ids(d)) /\ Elems(Ids(d)) = ids(d)
      /\ IsFiniteSet(ids(d)) /\ NoTwice(Ids(d))
  BY DraftFacts DEF Proper
<1>2. ASSUME NEW n \in ids(d)
      PROVE  Deps(d, n) \subseteq ids(d) /\ n \notin Deps(d, n) /\ IsFiniteSet(Deps(d, n))
  <2>1. PICK i \in DOMAIN d : d[i].id = n
    BY DEF ids
  <2>2. Deps(d, n) = Elems(d[i].deps)
    BY <1>1, <2>1, NodeOf DEF Deps
  <2>3. Deps(d, n) \subseteq ids(d) /\ n \notin Deps(d, n)
    BY <2>1, <2>2 DEF Proper
  <2> QED
    BY <1>1, <2>3, FS_Subset
<1>3. ASSUME NEW n \in ids(d)
      PROVE  /\ children(d, n) \in Seq(ids(d))
             /\ NoTwice(children(d, n))
             /\ Elems(children(d, n)) = {c \in ids(d) : n \in Deps(d, c)}
  <2> DEFINE S == {c \in ids(d) : n \in Deps(d, c)}
  <2>1. children(d, n) = Those(Ids(d), S)
    BY DEF children, Ids, Deps
  <2> HIDE DEF S
  <2>2. /\ Those(Ids(d), S) \in Seq(ids(d))
        /\ Elems(Those(Ids(d), S)) = Elems(Ids(d)) \cap S
        /\ NoTwice(Ids(d)) => NoTwice(Those(Ids(d), S))
    BY <1>1, ThoseFacts
  <2>3. ids(d) \cap S = S
    BY DEF S
  <2> QED
    BY <1>1, <2>1, <2>2, <2>3 DEF S
<1>4. \A n \in ids(d) : indegree(d)[n] = Cardinality(Deps(d, n))
  BY DEF indegree, Deps
<1> QED
  BY <1>2, <1>3, <1>4

(***************************************************************************)
(* The loop.                                                               *)
(***************************************************************************)
State(d) == [queue : Seq(ids(d)), degree : [ids(d) -> Int], visited : Nat]

First(d) == [queue   |-> Those(Ids(d), {n \in ids(d) : indegree(d)[n] = 0}),
             degree  |-> indegree(d),
             visited |-> 0]

Taken(s) == s.queue[Len(s.queue)]

Released(d, s) == {c \in ids(d) : Taken(s) \in Deps(d, c) /\ s.degree[c] = 1}

Round(d, s) == IF s.queue = <<>> THEN s ELSE visit(d, s)

(* A sequence without its last element. *)
LEMMA WithoutLast ==
  ASSUME NEW T, NEW q \in Seq(T), q # <<>>
  PROVE  /\ q[Len(q)] \in T /\ q[Len(q)] \in Elems(q)
         /\ SubSeq(q, 1, Len(q) - 1) \in Seq(T)
         /\ NoTwice(q) => /\ NoTwice(SubSeq(q, 1, Len(q) - 1))
                          /\ Elems(SubSeq(q, 1, Len(q) - 1)) = Elems(q) \ {q[Len(q)]}
<1> DEFINE m == Len(q) - 1
           t == SubSeq(q, 1, m)
<1>1. Len(q) \in Nat /\ Len(q) # 0 /\ DOMAIN q = 1..Len(q) /\ \A i \in 1..Len(q) : q[i] \in T
  BY EmptySeq, LenProperties, ElementOfSeq
<1>2. m \in Nat /\ Len(q) = m + 1
  BY <1>1
<1>3. t \in Seq(T) /\ Len(t) = m /\ \A i \in 1..m : t[i] = q[i]
  BY <1>1, <1>2
<1> HIDE DEF m, t
<1>4. DOMAIN t = 1..m
  BY <1>3, LenProperties
<1>5. ASSUME NoTwice(q) PROVE NoTwice(t) /\ Elems(t) = Elems(q) \ {q[Len(q)]}
  <2>1. NoTwice(t)
    BY <1>1, <1>2, <1>3, <1>4, <1>5 DEF NoTwice
  <2>2. ASSUME NEW x \in Elems(t) PROVE x \in Elems(q) \ {q[Len(q)]}
    <3>1. PICK i \in 1..m : x = t[i]
      BY <1>4, <2>2 DEF Elems
    <3>2. x = q[i] /\ i \in DOMAIN q /\ i # Len(q) /\ Len(q) \in DOMAIN q
      BY <1>1, <1>2, <1>3, <3>1
    <3> QED
      BY <1>5, <3>2 DEF Elems, NoTwice
  <2>3. ASSUME NEW x \in Elems(q) \ {q[Len(q)]} PROVE x \in Elems(t)
    <3>1. PICK i \in 1..Len(q) : x = q[i]
      BY <1>1, <2>3 DEF Elems
    <3>2. i \in 1..m /\ t[i] = x
      BY <1>1, <1>2, <1>3, <2>3, <3>1
    <3> QED
      BY <1>4, <3>2 DEF Elems
  <2> QED
    BY <2>1, <2>2, <2>3
<1>6. q[Len(q)] \in T /\ q[Len(q)] \in Elems(q)
  BY <1>1, <1>2 DEF Elems
<1> QED
  BY <1>3, <1>5, <1>6 DEF m, t

(* What a round does to the state of the loop. *)
LEMMA VisitFacts ==
  ASSUME NEW d \in PlanDraft, Proper(d), NEW s \in State(d), s.queue # <<>>,
         NEW n, n = Taken(s), NEW u, u = visit(d, s), NEW R, R = Released(d, s)
  PROVE  /\ u \in State(d) /\ n \in ids(d) /\ n \in Elems(s.queue)
         /\ u.visited = s.visited + 1
         /\ \A c \in ids(d) : u.degree[c] = IF n \in Deps(d, c) THEN s.degree[c] - 1 ELSE s.degree[c]
         /\ NoTwice(s.queue) => Elems(u.queue) = (Elems(s.queue) \ {n}) \cup R
         /\ NoTwice(s.queue) /\ Elems(s.queue) \cap R = {} => NoTwice(u.queue)
<1> DEFINE q == s.queue
           front == SubSeq(q, 1, Len(q) - 1)
           S == {c \in ids(d) : s.degree[c] = 1}
           C == children(d, n)
           more == Those(C, S)
<1>1. q \in Seq(ids(d)) /\ s.degree \in [ids(d) -> Int] /\ s.visited \in Nat
  BY DEF State
<1>2. /\ u.queue = front \o more
      /\ u.degree = [c \in ids(d) |-> IF c \in Elems(C) THEN s.degree[c] - 1 ELSE s.degree[c]]
      /\ u.visited = s.visited + 1
      /\ u = [queue |-> u.queue, degree |-> u.degree, visited |-> u.visited]
  BY DEF visit, Taken
<1>11. R = {c \in ids(d) : n \in Deps(d, c) /\ s.degree[c] = 1}
  BY DEF Released
<1> HIDE DEF q, front, S, C, more
<1>3. /\ n \in ids(d) /\ n \in Elems(q) /\ front \in Seq(ids(d))
      /\ NoTwice(q) => NoTwice(front) /\ Elems(front) = Elems(q) \ {n}
  BY <1>1, WithoutLast DEF q, front, Taken
<1>4. /\ C \in Seq(ids(d)) /\ NoTwice(C)
      /\ Elems(C) = {c \in ids(d) : n \in Deps(d, c)}
  BY <1>3, ProperFacts DEF C
<1>5. more \in Seq(ids(d)) /\ NoTwice(more) /\ Elems(more) = Elems(C) \cap S
  BY <1>4, ThoseFacts DEF more
<1>6. Elems(more) = R
  BY <1>4, <1>5, <1>11 DEF S
<1>7. /\ u.queue \in Seq(ids(d))
      /\ Elems(u.queue) = Elems(front) \cup R
      /\ NoTwice(front) /\ Elems(front) \cap R = {} => NoTwice(u.queue)
  BY <1>2, <1>3, <1>5, <1>6, ElemsFacts
<1>8. u.degree \in [ids(d) -> Int] /\ u.visited \in Nat
  BY <1>1, <1>2
<1>9. u \in State(d)
  BY <1>2, <1>7, <1>8 DEF State
<1>10. \A c \in ids(d) : u.degree[c] = IF n \in Deps(d, c) THEN s.degree[c] - 1 ELSE s.degree[c]
  BY <1>2, <1>4
<1> QED
  BY <1>2, <1>3, <1>7, <1>9, <1>10 DEF q

(* The loop begins in a state of its own and stays in them. *)
LEMMA RoundType ==
  ASSUME NEW d \in PlanDraft, Proper(d)
  PROVE  First(d) \in State(d) /\ \A s \in State(d) : Round(d, s) \in State(d)
<1>1. First(d) \in State(d)
  <2> DEFINE S == {n \in ids(d) : indegree(d)[n] = 0}
             q == Those(Ids(d), S)
  <2>1. First(d) = [queue |-> q, degree |-> indegree(d), visited |-> 0]
    BY DEF First
  <2>2. q \in Seq(ids(d))
    <3> HIDE DEF S
    <3> QED
      BY DraftFacts, ThoseFacts
  <2>3. indegree(d) \in [ids(d) -> Int]
    <3>1. \A n \in ids(d) : Cardinality(Deps(d, n)) \in Int
      BY ProperFacts, FS_CardinalityType
    <3> QED
      BY <3>1 DEF indegree, Deps
  <2> HIDE DEF q
  <2> QED
    BY <2>1, <2>2, <2>3 DEF State
<1>2. ASSUME NEW s \in State(d) PROVE Round(d, s) \in State(d)
  <2>1. CASE s.queue = <<>>
    BY <2>1 DEF Round
  <2>2. CASE s.queue # <<>>
    BY <2>2, VisitFacts DEF Round
  <2> QED
    BY <2>1, <2>2
<1> QED
  BY <1>1, <1>2

Step(d, f, k) == IF k = 0 THEN First(d) ELSE Round(d, f[k - 1])

(* The recursion of loop has a solution, by induction over the rounds. *)
LEMMA LoopDef ==
  ASSUME NEW d \in PlanDraft, Proper(d)
  PROVE  /\ Len(d) \in Nat
         /\ loop(d)[0] = First(d)
         /\ \A k \in 1..Len(d) : loop(d)[k] = Round(d, loop(d)[k - 1])
<1> DEFINE L == Len(d)
           Good(n) == \E g \in [0..n -> State(d)] : \A i \in 0..n : g[i] = Step(d, g, i)
           P == {n \in Nat : Good(n)}
<1>0. L \in Nat /\ First(d) \in State(d) /\ \A s \in State(d) : Round(d, s) \in State(d)
  BY DraftFacts, RoundType
<1> HIDE DEF L
<1>1. 0 \in P
  <2> DEFINE g == [i \in 0..0 |-> First(d)]
  <2>1. g \in [0..0 -> State(d)] /\ \A i \in 0..0 : g[i] = Step(d, g, i)
    BY <1>0 DEF Step
  <2> QED
    BY <2>1
<1>2. ASSUME NEW n \in Nat, n \in P PROVE n + 1 \in P
  <2>1. PICK g \in [0..n -> State(d)] : \A i \in 0..n : g[i] = Step(d, g, i)
    BY <1>2
  <2> DEFINE h == [i \in 0..(n + 1) |-> IF i = n + 1 THEN Round(d, g[n]) ELSE g[i]]
  <2>2. h \in [0..(n + 1) -> State(d)]
    BY <1>0
  <2>3. ASSUME NEW i \in 0..(n + 1) PROVE h[i] = Step(d, h, i)
    <3>1. CASE i = n + 1
      BY <3>1 DEF Step
    <3>2. CASE i \in 0..n
      <4>1. h[i] = g[i] /\ (i # 0 => h[i - 1] = g[i - 1])
        BY <3>2
      <4>2. g[i] = Step(d, g, i)
        BY <2>1, <3>2
      <4> QED
        BY <4>1, <4>2 DEF Step
    <3> QED
      BY <3>1, <3>2
  <2>4. Good(n + 1)
    BY <2>2, <2>3
  <2> QED
    BY <2>4
<1> HIDE DEF P
<1>3. L \in P
  BY <1>0, <1>1, <1>2, Induction
<1>4. PICK g \in [0..L -> State(d)] : \A i \in 0..L : g[i] = Step(d, g, i)
  BY <1>3 DEF P
<1>5. g = [i \in 0..L |-> Step(d, g, i)]
  BY <1>4
<1>6. loop(d) = CHOOSE f : f = [i \in 0..L |-> Step(d, f, i)]
  BY DEF loop, Step, First, Round, Ids, L
<1>7. loop(d) = [i \in 0..L |-> Step(d, loop(d), i)]
  BY <1>5, <1>6
<1>8. \A i \in 0..L : loop(d)[i] = Step(d, loop(d), i)
  BY <1>7
<1>9. loop(d)[0] = First(d)
  BY <1>0, <1>8 DEF Step
<1>10. \A k \in 1..L : loop(d)[k] = Round(d, loop(d)[k - 1])
  BY <1>0, <1>8 DEF Step
<1> QED
  BY <1>0, <1>9, <1>10 DEF L

(***************************************************************************)
(* The invariant of the loop, for the set V of the nodes it has visited:   *)
(* a degree counts the dependencies not visited, the queue has the nodes   *)
(* of degree zero not visited, and a set of visited nodes has one that     *)
(* depends on none of the set.                                             *)
(***************************************************************************)
Grounded(d, V) ==
  \A S \in (SUBSET V) \ {{}} : \E n \in S : Deps(d, n) \cap S = {}

Walked(d, V, s) ==
  /\ s \in State(d) /\ V \subseteq ids(d)
  /\ s.visited = Cardinality(V)
  /\ NoTwice(s.queue) /\ Elems(s.queue) \cap V = {}
  /\ \A n \in ids(d) : s.degree[n] = Cardinality(Deps(d, n) \ V)
  /\ \A n \in ids(d) : n \in V \cup Elems(s.queue) <=> Deps(d, n) \subseteq V
  /\ Grounded(d, V)

(* The degree of a node is the number of dependencies not yet visited. *)
LEMMA Degree ==
  ASSUME NEW d \in PlanDraft, Proper(d), NEW V, NEW c \in ids(d), NEW n
  PROVE  /\ IsFiniteSet(Deps(d, c) \ V) /\ Cardinality(Deps(d, c) \ V) \in Nat
         /\ Cardinality(Deps(d, c) \ V) = 0 <=> Deps(d, c) \subseteq V
         /\ Cardinality(Deps(d, c) \ (V \cup {n})) =
              IF n \in Deps(d, c) \ V THEN Cardinality(Deps(d, c) \ V) - 1
              ELSE Cardinality(Deps(d, c) \ V)
<1> DEFINE D == Deps(d, c) \ V
<1>1. IsFiniteSet(Deps(d, c))
  BY ProperFacts
<1>2. IsFiniteSet(D)
  BY <1>1, FS_Subset
<1>3. Deps(d, c) \ (V \cup {n}) = D \ {n}
  OBVIOUS
<1>4. D = {} <=> Deps(d, c) \subseteq V
  OBVIOUS
<1> HIDE DEF D
<1>5. Cardinality(D) \in Nat /\ (Cardinality(D) = 0 <=> D = {})
  BY <1>2, FS_CardinalityType, FS_EmptySet
<1>6. Cardinality(D \ {n}) = IF n \in D THEN Cardinality(D) - 1 ELSE Cardinality(D)
  BY <1>2, FS_RemoveElement
<1> QED
  BY <1>2, <1>3, <1>4, <1>5, <1>6 DEF D

(* The degree before anything is visited. *)
LEMMA FirstDegree ==
  ASSUME NEW d \in PlanDraft, Proper(d), NEW c \in ids(d)
  PROVE  indegree(d)[c] = 0 <=> Deps(d, c) = {}
<1>1. IsFiniteSet(Deps(d, c)) /\ indegree(d)[c] = Cardinality(Deps(d, c))
  BY ProperFacts
<1> QED
  BY <1>1, FS_EmptySet

(* The state before the first round. *)
LEMMA WalkBegins ==
  ASSUME NEW d \in PlanDraft, Proper(d)
  PROVE  Walked(d, {}, First(d))
<1> DEFINE S == {n \in ids(d) : indegree(d)[n] = 0}
           q == Those(Ids(d), S)
<1>1. First(d).queue = q /\ First(d).degree = indegree(d) /\ First(d).visited = 0
  BY DEF First
<1> HIDE DEF q
<1>2. NoTwice(q) /\ Elems(q) = ids(d) \cap S
  <2> HIDE DEF S
  <2> QED
    BY DraftFacts, ThoseFacts DEF q, Proper
<1>3. First(d) \in State(d)
  BY RoundType
<1>4. Cardinality({}) = 0
  BY FS_EmptySet
<1>5. \A n \in ids(d) : indegree(d)[n] = Cardinality(Deps(d, n) \ {})
  <2>1. \A n \in ids(d) : Deps(d, n) \ {} = Deps(d, n)
    OBVIOUS
  <2> QED
    BY <2>1, ProperFacts
<1>6. ASSUME NEW n \in ids(d) PROVE n \in Elems(q) <=> Deps(d, n) \subseteq {}
  <2>1. indegree(d)[n] = 0 <=> Deps(d, n) = {}
    BY FirstDegree
  <2>2. n \in Elems(q) <=> indegree(d)[n] = 0
    BY <1>2
  <2> QED
    BY <2>1, <2>2
<1>7. Grounded(d, {})
  BY DEF Grounded
<1> HIDE DEF S
<1> QED
  BY <1>1, <1>2, <1>3, <1>4, <1>5, <1>6, <1>7 DEF Walked

(* A round adds the node it takes off the queue to the visited ones. *)
LEMMA WalkGoesOn ==
  ASSUME NEW d \in PlanDraft, Proper(d), NEW V, NEW s, Walked(d, V, s), s.queue # <<>>
  PROVE  \E n \in ids(d) \ V : Walked(d, V \cup {n}, Round(d, s))
<1> DEFINE n == Taken(s)
           u == visit(d, s)
           R == Released(d, s)
           W == V \cup {n}
<1>0. /\ s \in State(d) /\ V \subseteq ids(d) /\ s.visited = Cardinality(V)
      /\ NoTwice(s.queue) /\ Elems(s.queue) \cap V = {}
      /\ \A c \in ids(d) : s.degree[c] = Cardinality(Deps(d, c) \ V)
      /\ \A c \in ids(d) : c \in V \cup Elems(s.queue) <=> Deps(d, c) \subseteq V
      /\ Grounded(d, V)
  BY DEF Walked
<1>1. /\ u \in State(d) /\ n \in ids(d) /\ n \in Elems(s.queue)
      /\ u.visited = s.visited + 1
      /\ \A c \in ids(d) : u.degree[c] = IF n \in Deps(d, c) THEN s.degree[c] - 1 ELSE s.degree[c]
      /\ Elems(u.queue) = (Elems(s.queue) \ {n}) \cup R
      /\ Elems(s.queue) \cap R = {} => NoTwice(u.queue)
  BY <1>0, VisitFacts
<1>2. Round(d, s) = u
  BY DEF Round
<1> HIDE DEF u, n
<1>3. n \notin V /\ Deps(d, n) \subseteq V
  BY <1>0, <1>1
<1>4. ASSUME NEW c \in ids(d)
      PROVE  /\ u.degree[c] = Cardinality(Deps(d, c) \ W)
             /\ c \in R <=> Deps(d, c) \subseteq W /\ ~(Deps(d, c) \subseteq V)
  <2>1. /\ Cardinality(Deps(d, c) \ V) \in Nat
        /\ Cardinality(Deps(d, c) \ V) = 0 <=> Deps(d, c) \subseteq V
        /\ Cardinality(Deps(d, c) \ W) = 0 <=> Deps(d, c) \subseteq W
        /\ Cardinality(Deps(d, c) \ W) =
              IF n \in Deps(d, c) \ V THEN Cardinality(Deps(d, c) \ V) - 1
              ELSE Cardinality(Deps(d, c) \ V)
    BY Degree
  <2>2. n \in Deps(d, c) \ V <=> n \in Deps(d, c)
    BY <1>3
  <2>3. s.degree[c] = Cardinality(Deps(d, c) \ V)
    BY <1>0
  <2>4. u.degree[c] = Cardinality(Deps(d, c) \ W)
    BY <1>1, <2>1, <2>2, <2>3
  <2>5. c \in R <=> n \in Deps(d, c) /\ s.degree[c] = 1
    BY DEF Released, n
  <2>6. n \notin Deps(d, c) => (Deps(d, c) \subseteq W <=> Deps(d, c) \subseteq V)
    OBVIOUS
  <2> HIDE DEF R, W
  <2> QED
    BY <2>1, <2>2, <2>3, <2>4, <2>5, <2>6
<1>12. R \subseteq ids(d)
  BY DEF Released
<1> HIDE DEF R
<1>5. Elems(s.queue) \cap R = {}
  BY <1>0, <1>4, <1>12
<1>6. ASSUME NEW c \in ids(d)
      PROVE  c \in W \cup Elems(u.queue) <=> Deps(d, c) \subseteq W
  <2>1. c \in W \cup Elems(u.queue) <=> c \in V \cup Elems(s.queue) \cup R
    BY <1>1
  <2>2. Deps(d, c) \subseteq V => Deps(d, c) \subseteq W
    OBVIOUS
  <2> QED
    BY <1>0, <1>4, <2>1, <2>2
<1>7. Elems(u.queue) \cap W = {}
  <2>1. R \cap V = {} /\ n \notin R
    BY <1>0, <1>1, <1>3, <1>4, <1>12
  <2> QED
    BY <1>0, <1>1, <2>1
<1>8. u.visited = Cardinality(W)
  <2>1. IsFiniteSet(V)
    BY <1>0, DraftFacts, FS_Subset
  <2> QED
    BY <1>0, <1>1, <1>3, <2>1, FS_AddElement
<1>9. Grounded(d, W)
  <2> SUFFICES ASSUME NEW S \in (SUBSET W) \ {{}} PROVE \E m \in S : Deps(d, m) \cap S = {}
    BY DEF Grounded
  <2>1. CASE S \cap V = {}
    <3>1. S = {n}
      BY <2>1
    <3> QED
      BY <1>3, <3>1
  <2>2. CASE S \cap V # {}
    <3>1. PICK m \in S \cap V : Deps(d, m) \cap (S \cap V) = {}
      BY <1>0, <2>2 DEF Grounded
    <3>2. Deps(d, m) \subseteq V
      BY <1>0, <3>1
    <3> QED
      BY <3>1, <3>2
  <2> QED
    BY <2>1, <2>2
<1>10. W \subseteq ids(d)
  BY <1>0, <1>1
<1>11. Walked(d, W, u)
  <2> HIDE DEF W, R
  <2> QED
    BY <1>1, <1>4, <1>5, <1>6, <1>7, <1>8, <1>9, <1>10 DEF Walked
<1> QED
  BY <1>1, <1>2, <1>3, <1>11

(* After k rounds the queue is empty, or k nodes were visited. *)
LEMMA WalkTo ==
  ASSUME NEW d \in PlanDraft, Proper(d)
  PROVE  \E V : /\ Walked(d, V, loop(d)[Len(d)])
                /\ loop(d)[Len(d)].queue # <<>> => Cardinality(V) = Len(d)
<1> DEFINE At(k) == \E V : /\ Walked(d, V, loop(d)[k])
                           /\ loop(d)[k].queue # <<>> => Cardinality(V) = k
           P == {k \in Nat : k <= Len(d) => At(k)}
<1>0. /\ Len(d) \in Nat /\ loop(d)[0] = First(d)
      /\ \A k \in 1..Len(d) : loop(d)[k] = Round(d, loop(d)[k - 1])
  BY LoopDef
<1>1. 0 \in P
  <2>1. Walked(d, {}, loop(d)[0]) /\ Cardinality({}) = 0
    BY <1>0, WalkBegins, FS_EmptySet
  <2> QED
    BY <2>1
<1>2. ASSUME NEW k \in Nat, k \in P PROVE k + 1 \in P
  <2> SUFFICES ASSUME k + 1 <= Len(d) PROVE At(k + 1)
    OBVIOUS
  <2> DEFINE s == loop(d)[k]
             u == loop(d)[k + 1]
  <2>1. PICK V : Walked(d, V, s) /\ (s.queue # <<>> => Cardinality(V) = k)
    BY <1>0, <1>2
  <2>2. u = Round(d, s)
    <3>1. k + 1 \in 1..Len(d) /\ (k + 1) - 1 = k
      BY <1>0
    <3> QED
      BY <1>0, <3>1
  <2> HIDE DEF s, u
  <2>3. CASE s.queue = <<>>
    <3>1. u = s
      BY <2>2, <2>3 DEF Round
    <3>2. Walked(d, V, u) /\ u.queue = <<>>
      BY <2>1, <2>3, <3>1
    <3> QED
      BY <3>2 DEF u
  <2>4. CASE s.queue # <<>>
    <3>1. PICK n \in ids(d) \ V : Walked(d, V \cup {n}, Round(d, s))
      BY <2>1, <2>4, WalkGoesOn
    <3>2. IsFiniteSet(V)
      <4>1. V \in SUBSET ids(d)
        BY <2>1 DEF Walked
      <4> QED
        BY <4>1, DraftFacts, FS_Subset
    <3>3. Cardinality(V \cup {n}) = k + 1
      BY <2>1, <2>4, <3>2, FS_AddElement
    <3>4. Walked(d, V \cup {n}, u)
      BY <2>2, <3>1
    <3> QED
      BY <3>3, <3>4 DEF u
  <2> QED
    BY <2>3, <2>4
<1> HIDE DEF P
<1>3. Len(d) \in P
  BY <1>0, <1>1, <1>2, Induction
<1> QED
  BY <1>0, <1>3 DEF P

(* The queue is empty after Len(d) rounds: loop stops where the code does. *)
LEMMA LoopEnds ==
  ASSUME NEW d \in PlanDraft, Proper(d)
  PROVE  /\ loop(d)[Len(d)].queue = <<>>
         /\ \E V \in SUBSET ids(d) :
              /\ visited(d) = Len(d) <=> V = ids(d)
              /\ \A n \in ids(d) : n \in V <=> Deps(d, n) \subseteq V
              /\ Grounded(d, V)
<1> DEFINE s == loop(d)[Len(d)]
<1>1. PICK V : Walked(d, V, s) /\ (s.queue # <<>> => Cardinality(V) = Len(d))
  BY WalkTo
<1>2. visited(d) = s.visited
  BY DEF visited
<1> HIDE DEF s
<1>3. /\ s \in State(d) /\ V \in SUBSET ids(d) /\ s.visited = Cardinality(V)
      /\ Elems(s.queue) \cap V = {}
      /\ \A n \in ids(d) : n \in V \cup Elems(s.queue) <=> Deps(d, n) \subseteq V
      /\ Grounded(d, V)
  BY <1>1 DEF Walked
<1>4. IsFiniteSet(ids(d)) /\ Cardinality(ids(d)) = Len(d)
  BY DraftFacts DEF Proper
<1>5. Cardinality(V) = Len(d) <=> V = ids(d)
  BY <1>3, <1>4, FS_Subset
<1>6. s.queue \in Seq(ids(d))
  BY <1>3 DEF State
<1>7. Elems(s.queue) \subseteq ids(d) /\ (Elems(s.queue) = {} <=> s.queue = <<>>)
  BY <1>6, ElemsFacts
<1>8. s.queue = <<>>
  BY <1>1, <1>3, <1>5, <1>7
<1>9. Elems(s.queue) = {}
  BY <1>7, <1>8
<1> QED
  BY <1>2, <1>3, <1>5, <1>8, <1>9 DEF s

(* The plan as Sound sees it, by index, and as the loop sees it, by id. *)
LEMMA SoundById ==
  ASSUME NEW d \in PlanDraft, NoTwice(Ids(d))
  PROVE  (\A S \in (SUBSET DOMAIN d) \ {{}} :
            \E i \in S : \A j \in S : d[j].id \notin Elems(d[i].deps))
         <=> Grounded(d, ids(d))
<1>0. \A i \in DOMAIN d : Deps(d, d[i].id) = Elems(d[i].deps) /\ d[i].id \in ids(d)
  BY NodeOf, DraftFacts DEF Deps
<1>1. ASSUME \A S \in (SUBSET DOMAIN d) \ {{}} :
               \E i \in S : \A j \in S : d[j].id \notin Elems(d[i].deps)
      PROVE  Grounded(d, ids(d))
  <2> SUFFICES ASSUME NEW T \in (SUBSET ids(d)) \ {{}} PROVE \E n \in T : Deps(d, n) \cap T = {}
    BY DEF Grounded
  <2> DEFINE S == {i \in DOMAIN d : d[i].id \in T}
  <2>1. \A n \in T : \E i \in S : d[i].id = n
    BY DEF ids
  <2>2. S \in (SUBSET DOMAIN d) \ {{}}
    BY <2>1
  <2>3. PICK i \in S : \A j \in S : d[j].id \notin Elems(d[i].deps)
    BY <1>1, <2>2
  <2>4. d[i].id \in T /\ Deps(d, d[i].id) = Elems(d[i].deps)
    BY <1>0
  <2>5. Deps(d, d[i].id) \cap T = {}
    BY <2>1, <2>3, <2>4
  <2> QED
    BY <2>4, <2>5
<1>2. ASSUME Grounded(d, ids(d)), NEW S \in (SUBSET DOMAIN d) \ {{}}
      PROVE  \E i \in S : \A j \in S : d[j].id \notin Elems(d[i].deps)
  <2> DEFINE T == {d[i].id : i \in S}
  <2>1. T \in (SUBSET ids(d)) \ {{}}
    BY <1>0
  <2>2. PICK n \in T : Deps(d, n) \cap T = {}
    BY <1>2, <2>1 DEF Grounded
  <2>3. PICK i \in S : n = d[i].id
    BY <2>2
  <2>4. ASSUME NEW j \in S PROVE d[j].id \notin Elems(d[i].deps)
    BY <1>0, <2>2, <2>3
  <2> QED
    BY <2>4
<1> QED
  BY <1>1, <1>2

(* validate_plan accepts a draft if and only if it is sound, whatever the  *)
(* number of its nodes and their dependencies.                             *)
THEOREM ValidatesExactly ==
  ASSUME NEW d \in PlanDraft
  PROVE  validate_plan(d) <=> Sound(d)
<1> DEFINE Known == \A i \in DOMAIN d : \A e \in Elems(d[i].deps) : e \in ids(d)
           Other == \A i \in DOMAIN d : \A e \in Elems(d[i].deps) : e # d[i].id
           Fits  == Len(d) <= max_nodes
           Free  == \A S \in (SUBSET DOMAIN d) \ {{}} :
                      \E i \in S : \A j \in S : d[j].id \notin Elems(d[i].deps)
<1>1. validate_plan(d) <=> Fits /\ NoTwice(Ids(d)) /\ Known /\ Other /\ visited(d) = Len(d)
  BY DraftFacts DEF validate_plan
<1>2. Sound(d) <=> Fits /\ NoTwice(Ids(d)) /\ Known /\ Free
  <2>1. (\A i, j \in DOMAIN d : d[i].id = d[j].id => i = j) <=> NoTwice(Ids(d))
    BY DEF NoTwice, Ids
  <2>2. (\A i \in DOMAIN d : Elems(d[i].deps) \subseteq {d[j].id : j \in DOMAIN d}) <=> Known
    BY DEF ids
  <2> QED
    BY <2>1, <2>2 DEF Sound
<1>3. Free => Other
  <2> SUFFICES ASSUME Free, NEW i \in DOMAIN d PROVE d[i].id \notin Elems(d[i].deps)
    OBVIOUS
  <2>1. {i} \in (SUBSET DOMAIN d) \ {{}}
    OBVIOUS
  <2> QED
    BY <2>1
<1>4. Proper(d) <=> NoTwice(Ids(d)) /\ Known /\ Other
  BY DEF Proper
<1>5. NoTwice(Ids(d)) => (Free <=> Grounded(d, ids(d)))
  BY SoundById
<1>6. ASSUME Proper(d) PROVE visited(d) = Len(d) <=> Grounded(d, ids(d))
  <2>1. PICK V \in SUBSET ids(d) :
              /\ visited(d) = Len(d) <=> V = ids(d)
              /\ \A n \in ids(d) : n \in V <=> Deps(d, n) \subseteq V
              /\ Grounded(d, V)
    BY <1>6, LoopEnds
  <2>2. ASSUME Grounded(d, ids(d)) PROVE V = ids(d)
    <3>1. SUFFICES ASSUME ids(d) \ V # {} PROVE FALSE
      OBVIOUS
    <3>2. PICK n \in ids(d) \ V : Deps(d, n) \cap (ids(d) \ V) = {}
      BY <2>2, <3>1 DEF Grounded
    <3>3. Deps(d, n) \subseteq ids(d)
      BY <1>6, ProperFacts
    <3> QED
      BY <2>1, <3>2, <3>3
  <2> QED
    BY <2>1, <2>2
<1> HIDE DEF Known, Other, Fits, Free
<1> QED
  BY <1>1, <1>2, <1>3, <1>4, <1>5, <1>6

(***************************************************************************)
(* The attempts.  The inductive invariant says of the attempt at work that *)
(* it has an artifact for each kind it has said something of, of earlier   *)
(* ones that they are sealed, and of later ones that there is nothing.     *)
(***************************************************************************)
Art == [pieces : Seq(Nat), sealed : BOOLEAN]

Typed ==
  /\ role \in Roles /\ pc \in {"start", "stream", "done", "failed", "raised"}
  /\ attempt \in Attempts /\ id = attempt /\ chunks \in Nat
  /\ parts \in [Kinds -> Seq(Nat)]
  /\ shown \in [Attempts -> [Kinds -> Art]]
  /\ spoken \in [Attempts -> [Kinds -> Seq(Nat)]]

Current ==
  \A q \in Kinds : /\ spoken[attempt][q] = parts[q]
                   /\ parts[q] = <<>> => shown[attempt][q] = Absent
                   /\ pc = "start" => parts[q] = <<>>

Later ==
  \A i \in Attempts, q \in Kinds :
    i > attempt => shown[i][q] = Absent /\ spoken[i][q] = <<>>

Said == Typed /\ Current /\ Later /\ ShownIsSpoken /\ AttemptsSealed

(* An artifact that is absent has no pieces. *)
LEMMA AbsentArt == Absent \in Art /\ Absent.pieces = <<>> /\ <<>> \in Seq(Nat)
  BY DEF Absent, Art

(* The artifacts of one kind after a chunk k. *)
LEMMA StoredChunk ==
  ASSUME NEW a \in Art, NEW p \in Seq(Nat), NEW k \in Nat,
         p = a.pieces, p = <<>> => a = Absent
  PROVE  /\ stored(a, <<k>>, p # <<>>, FALSE) \in Art
         /\ stored(a, <<k>>, p # <<>>, FALSE).pieces = Append(p, k)
         /\ Append(p, k) \in Seq(Nat) /\ Append(p, k) # <<>>
<1> DEFINE b == stored(a, <<k>>, p # <<>>, FALSE)
<1>1. /\ <<k>> \in Seq(Nat) /\ p \o <<k>> \in Seq(Nat) /\ Append(p, k) \in Seq(Nat)
      /\ Append(p, k) # <<>> /\ p \o <<k>> = Append(p, k)
  OBVIOUS
<1>2. b = [pieces |-> Append(p, k), sealed |-> b.sealed] /\ b.sealed \in BOOLEAN
  <2>1. CASE p = <<>>
    <3>1. b = [pieces |-> <<k>>, sealed |-> FALSE]
      BY <2>1 DEF stored
    <3>2. <<k>> = Append(p, k)
      BY <2>1
    <3> HIDE DEF b
    <3> QED
      BY <3>1, <3>2
  <2>2. CASE p # <<>>
    <3>1. a # Absent
      BY <2>2, AbsentArt
    <3>2. b = [pieces |-> a.pieces \o <<k>>, sealed |-> a.sealed \/ FALSE]
      BY <2>2, <3>1 DEF stored
    <3>3. (a.sealed \/ FALSE) \in BOOLEAN
      OBVIOUS
    <3> HIDE DEF b
    <3> QED
      BY <1>1, <3>2, <3>3
  <2> QED
    BY <2>1, <2>2
<1> HIDE DEF b
<1>3. b \in Art /\ b.pieces = Append(p, k)
  <2> DEFINE x == Append(p, k)
             y == b.sealed
  <2>1. b = [pieces |-> x, sealed |-> y] /\ x \in Seq(Nat) /\ y \in BOOLEAN
    BY <1>1, <1>2
  <2> HIDE DEF x, y
  <2>2. b \in Art /\ b.pieces = x
    BY <2>1 DEF Art
  <2> QED
    BY <2>2 DEF x
<1> QED
  BY <1>1, <1>3 DEF b

(* The artifacts of an attempt when it is sealed. *)
LEMMA Sealed ==
  ASSUME Said, NEW t, t = _seal
  PROVE  /\ t \in [Attempts -> [Kinds -> Art]]
         /\ \A i \in Attempts, q \in Kinds : t[i][q].pieces = spoken[i][q]
         /\ \A i \in Attempts : i # attempt => t[i] = shown[i]
         /\ \A q \in Kinds : t[attempt][q] # Absent => t[attempt][q].sealed
<1>0. /\ attempt \in Attempts /\ id = attempt /\ parts \in [Kinds -> Seq(Nat)]
      /\ shown \in [Attempts -> [Kinds -> Art]]
  BY DEF Said, Typed
<1>1. ASSUME NEW q \in Kinds
      PROVE  /\ t[attempt][q] \in Art
             /\ t[attempt][q].pieces = spoken[attempt][q]
             /\ t[attempt][q] # Absent => t[attempt][q].sealed
  <2>1. /\ spoken[attempt][q] = parts[q] /\ parts[q] \in Seq(Nat)
        /\ parts[q] = <<>> => shown[attempt][q] = Absent
        /\ shown[attempt][q] \in Art /\ shown[attempt][q].pieces = spoken[attempt][q]
    BY <1>0 DEF Said, Current, ShownIsSpoken
  <2>2. CASE parts[q] = <<>>
    <3>1. t[attempt][q] = shown[attempt][q]
      BY <1>0, <2>2 DEF _seal
    <3> QED
      BY <2>1, <2>2, <3>1
  <2>3. CASE parts[q] # <<>>
    <3>1. t[attempt][q] = [pieces |-> parts[q], sealed |-> TRUE]
      BY <1>0, <2>3 DEF _seal, stored
    <3> QED
      BY <2>1, <3>1 DEF Art
  <2> QED
    BY <2>2, <2>3
<1>2. DOMAIN t = Attempts /\ \A i \in Attempts : i # attempt => t[i] = shown[i]
  BY <1>0 DEF _seal
<1>3. t[attempt] \in [Kinds -> Art]
  <2> DEFINE g(q) == IF parts[q] = <<>> THEN shown[id][q] ELSE stored(shown[id][q], parts[q], FALSE, TRUE)
  <2>1. t[attempt] = [q \in Kinds |-> g(q)]
    BY <1>0 DEF _seal
  <2> HIDE DEF g
  <2>2. \A q \in Kinds : g(q) \in Art
    BY <1>1, <2>1
  <2> QED
    BY <2>1, <2>2
<1>4. t \in [Attempts -> [Kinds -> Art]]
  <2>1. t = [shown EXCEPT ![attempt] = t[attempt]]
    BY <1>0 DEF _seal
  <2> QED
    BY <1>0, <1>3, <2>1
<1>5. ASSUME NEW i \in Attempts, NEW q \in Kinds PROVE t[i][q].pieces = spoken[i][q]
  <2>1. CASE i = attempt
    BY <1>1, <2>1
  <2>2. CASE i # attempt
    BY <1>2, <2>2 DEF Said, ShownIsSpoken
  <2> QED
    BY <2>1, <2>2
<1> QED
  BY <1>1, <1>2, <1>4, <1>5

(* A decision ends: done or failed. *)
LEMMA EndsKeeps ==
  ASSUME Said, NEW to, Ends(to), to \in {"done", "failed"}
  PROVE  Said'
<1>0. /\ pc' = to /\ shown' = _seal /\ role' = role /\ attempt' = attempt /\ chunks' = chunks
      /\ parts' = parts /\ id' = id /\ spoken' = spoken
  BY DEF Ends
<1>1. /\ shown' \in [Attempts -> [Kinds -> Art]]
      /\ \A i \in Attempts, q \in Kinds : shown'[i][q].pieces = spoken[i][q]
      /\ \A i \in Attempts : i # attempt => shown'[i] = shown[i]
      /\ \A q \in Kinds : shown'[attempt][q] # Absent => shown'[attempt][q].sealed
  BY <1>0, Sealed
<1>2. Typed'
  BY <1>0, <1>1 DEF Said, Typed
<1>3. attempt \in Attempts /\ Attempts \subseteq Nat
  BY PlanningAssumption DEF Said, Typed, Attempts
<1>4. Current'
  <2> SUFFICES ASSUME NEW q \in Kinds
               PROVE  /\ spoken[attempt][q] = parts[q]
                      /\ parts[q] = <<>> => shown'[attempt][q] = Absent
                      /\ pc' # "start"
    BY <1>0 DEF Current
  <2>1. /\ spoken[attempt][q] = parts[q]
        /\ parts[q] = <<>> => shown[attempt][q] = Absent
    BY DEF Said, Current
  <2>2. parts[q] = <<>> => shown'[attempt][q] = shown[attempt][q]
    BY <1>0, <1>3 DEF _seal, Said, Typed
  <2> QED
    BY <1>0, <2>1, <2>2
<1>5. Later'
  <2> SUFFICES ASSUME NEW i \in Attempts, NEW q \in Kinds, i > attempt
               PROVE  shown'[i][q] = Absent /\ spoken[i][q] = <<>>
    BY <1>0 DEF Later
  <2>1. i # attempt
    BY <1>3
  <2> QED
    BY <1>1, <2>1 DEF Said, Later
<1>6. ShownIsSpoken'
  BY <1>0, <1>1 DEF ShownIsSpoken
<1>7. AttemptsSealed'
  <2> SUFFICES ASSUME NEW i \in Attempts, NEW q \in Kinds, shown'[i][q] # Absent
               PROVE  shown'[i][q].sealed
    BY DEF AttemptsSealed
  <2>1. CASE i = attempt
    BY <1>1, <2>1
  <2>2. CASE i < attempt
    BY <1>1, <1>3, <2>2 DEF Said, AttemptsSealed
  <2>3. CASE i > attempt
    BY <1>1, <1>3, <2>3 DEF Said, Later
  <2> QED
    BY <1>3, <2>1, <2>2, <2>3
<1> QED
  BY <1>2, <1>4, <1>5, <1>6, <1>7 DEF Said

(* The next attempt begins. *)
LEMMA RetryKeeps ==
  ASSUME Said, pc = "stream", attempt < max_retries,
         next_attempt, UNCHANGED <<role, pc, spoken>>
  PROVE  Said'
<1>0. /\ pc' = pc /\ shown' = _seal /\ role' = role /\ attempt' = attempt + 1 /\ chunks' = 0
      /\ parts' = Silence /\ id' = id + 1 /\ spoken' = spoken
  BY DEF next_attempt
<1>1. /\ shown' \in [Attempts -> [Kinds -> Art]]
      /\ \A i \in Attempts, q \in Kinds : shown'[i][q].pieces = spoken[i][q]
      /\ \A i \in Attempts : i # attempt => shown'[i] = shown[i]
      /\ \A q \in Kinds : shown'[attempt][q] # Absent => shown'[attempt][q].sealed
  BY <1>0, Sealed
<1>2. attempt \in Attempts /\ attempt + 1 \in Attempts /\ attempt \in Nat /\ Attempts \subseteq Nat
  BY PlanningAssumption DEF Said, Typed, Attempts
<1>3. Silence \in [Kinds -> Seq(Nat)] /\ \A q \in Kinds : Silence[q] = <<>>
  BY AbsentArt DEF Silence
<1>4. Typed'
  BY <1>0, <1>1, <1>2, <1>3 DEF Said, Typed
<1>5. ASSUME NEW i \in Attempts, NEW q \in Kinds, i > attempt
      PROVE  shown'[i][q] = Absent /\ spoken[i][q] = <<>>
  <2>1. i # attempt
    BY <1>2, <1>5
  <2> QED
    BY <1>1, <1>5, <2>1 DEF Said, Later
<1>6. Current'
  BY <1>0, <1>2, <1>3, <1>5 DEF Current
<1>7. Later'
  <2> SUFFICES ASSUME NEW i \in Attempts, NEW q \in Kinds, i > attempt + 1
               PROVE  shown'[i][q] = Absent /\ spoken[i][q] = <<>>
    BY <1>0 DEF Later
  <2>1. i > attempt
    BY <1>2
  <2> QED
    BY <1>5, <2>1
<1>8. ShownIsSpoken'
  BY <1>0, <1>1 DEF ShownIsSpoken
<1>9. AttemptsSealed'
  <2> SUFFICES ASSUME NEW i \in Attempts, NEW q \in Kinds, shown'[i][q] # Absent
               PROVE  shown'[i][q].sealed
    BY DEF AttemptsSealed
  <2>1. CASE i = attempt
    BY <1>1, <2>1
  <2>2. CASE i < attempt
    BY <1>1, <1>2, <2>2 DEF Said, AttemptsSealed
  <2>3. CASE i > attempt
    BY <1>5, <2>3
  <2> QED
    BY <1>2, <2>1, <2>2, <2>3
<1> QED
  BY <1>4, <1>6, <1>7, <1>8, <1>9 DEF Said

(* A chunk arrives. *)
LEMMA ChunkKeeps ==
  ASSUME Said, NEW K \in SUBSET Kinds, NEW cs, Chunk(K, cs)
  PROVE  Said'
<1> DEFINE k == chunks + 1
<1>0. /\ pc = "stream" /\ pc' = pc /\ role' = role /\ attempt' = attempt /\ chunks' = k
      /\ id' = id
      /\ parts' = [q \in Kinds |-> IF q \in K THEN Append(parts[q], k) ELSE parts[q]]
      /\ spoken' = [spoken EXCEPT ![attempt] =
                      [q \in Kinds |-> IF q \in K THEN Append(@[q], k) ELSE @[q]]]
      /\ shown' = emit_chunks(K, k)
  BY DEF Chunk
<1>1. /\ attempt \in Attempts /\ id = attempt /\ parts \in [Kinds -> Seq(Nat)] /\ k \in Nat
      /\ shown \in [Attempts -> [Kinds -> Art]] /\ spoken \in [Attempts -> [Kinds -> Seq(Nat)]]
      /\ attempt \in Nat /\ Attempts \subseteq Nat
  BY PlanningAssumption DEF Said, Typed, Attempts
<1> HIDE DEF k
<1>2. shown' = [shown EXCEPT ![attempt] = [q \in Kinds |->
                  IF q \in K THEN stored(shown[attempt][q], <<k>>, parts[q] # <<>>, FALSE)
                  ELSE shown[attempt][q]]]
  BY <1>0, <1>1 DEF emit_chunks, append
<1>3. ASSUME NEW q \in Kinds
      PROVE  /\ shown'[attempt][q] \in Art /\ parts'[q] \in Seq(Nat)
             /\ spoken'[attempt][q] = parts'[q]
             /\ shown'[attempt][q].pieces = parts'[q]
             /\ parts'[q] = <<>> => shown'[attempt][q] = Absent
  <2>1. /\ spoken[attempt][q] = parts[q] /\ parts[q] \in Seq(Nat)
        /\ parts[q] = <<>> => shown[attempt][q] = Absent
        /\ shown[attempt][q] \in Art /\ shown[attempt][q].pieces = parts[q]
    BY <1>1 DEF Said, Current, ShownIsSpoken
  <2>2. CASE q \in K
    <3>1. /\ shown'[attempt][q] = stored(shown[attempt][q], <<k>>, parts[q] # <<>>, FALSE)
          /\ parts'[q] = Append(parts[q], k)
          /\ spoken'[attempt][q] = Append(spoken[attempt][q], k)
      BY <1>0, <1>1, <1>2, <2>2
    <3> DEFINE a == shown[attempt][q]
               p == parts[q]
    <3>2. a \in Art /\ p \in Seq(Nat) /\ p = a.pieces /\ (p = <<>> => a = Absent)
      BY <2>1
    <3> HIDE DEF a, p
    <3>3. /\ stored(a, <<k>>, p # <<>>, FALSE) \in Art
          /\ stored(a, <<k>>, p # <<>>, FALSE).pieces = Append(p, k)
          /\ Append(p, k) \in Seq(Nat) /\ Append(p, k) # <<>>
      BY <1>1, <3>2, StoredChunk
    <3> QED
      BY <2>1, <3>1, <3>3 DEF a, p
  <2>3. CASE q \notin K
    <3>1. /\ shown'[attempt][q] = shown[attempt][q] /\ parts'[q] = parts[q]
          /\ spoken'[attempt][q] = spoken[attempt][q]
      BY <1>0, <1>1, <1>2, <2>3
    <3> QED
      BY <2>1, <3>1
  <2> QED
    BY <2>2, <2>3
<1>4. \A i \in Attempts : i # attempt => shown'[i] = shown[i] /\ spoken'[i] = spoken[i]
  BY <1>0, <1>1, <1>2
<1>5. Typed'
  <2>1. parts' \in [Kinds -> Seq(Nat)]
    <3>1. parts' = [q \in Kinds |-> parts'[q]]
      BY <1>0
    <3> QED
      BY <1>3, <3>1
  <2>2. shown'[attempt] \in [Kinds -> Art] /\ spoken'[attempt] \in [Kinds -> Seq(Nat)]
    <3>1. /\ shown'[attempt] = [q \in Kinds |-> shown'[attempt][q]]
          /\ spoken'[attempt] = [q \in Kinds |-> spoken'[attempt][q]]
      BY <1>0, <1>1, <1>2
    <3>2. \A q \in Kinds : shown'[attempt][q] \in Art /\ spoken'[attempt][q] \in Seq(Nat)
      BY <1>3
    <3> QED
      BY <3>1, <3>2
  <2>3. /\ shown' = [shown EXCEPT ![attempt] = shown'[attempt]]
        /\ spoken' = [spoken EXCEPT ![attempt] = spoken'[attempt]]
    BY <1>0, <1>1, <1>2
  <2>4. shown' \in [Attempts -> [Kinds -> Art]] /\ spoken' \in [Attempts -> [Kinds -> Seq(Nat)]]
    BY <1>1, <2>2, <2>3
  <2> QED
    BY <1>0, <1>1, <2>1, <2>4 DEF Said, Typed
<1>6. Current'
  BY <1>0, <1>3 DEF Current
<1>7. Later'
  <2> SUFFICES ASSUME NEW i \in Attempts, NEW q \in Kinds, i > attempt
               PROVE  shown'[i][q] = Absent /\ spoken'[i][q] = <<>>
    BY <1>0 DEF Later
  <2>1. i # attempt
    BY <1>1
  <2> QED
    BY <1>4, <2>1 DEF Said, Later
<1>8. ShownIsSpoken'
  <2> SUFFICES ASSUME NEW i \in Attempts, NEW q \in Kinds
               PROVE  shown'[i][q].pieces = spoken'[i][q]
    BY DEF ShownIsSpoken
  <2>1. CASE i = attempt
    BY <1>3, <2>1
  <2>2. CASE i # attempt
    BY <1>4, <2>2 DEF Said, ShownIsSpoken
  <2> QED
    BY <2>1, <2>2
<1>9. AttemptsSealed'
  <2> SUFFICES ASSUME NEW i \in Attempts, NEW q \in Kinds, shown'[i][q] # Absent, i < attempt
               PROVE  shown'[i][q].sealed
    BY <1>0 DEF AttemptsSealed
  <2>1. i # attempt
    BY <1>1
  <2> QED
    BY <1>4, <2>1 DEF Said, AttemptsSealed
<1> QED
  BY <1>5, <1>6, <1>7, <1>8, <1>9 DEF Said

(* A step that changes nothing but where the decision stands. *)
LEMMA StandsKeeps ==
  ASSUME Said, UNCHANGED <<role, attempt, chunks, parts, id, shown, spoken>>,
         \/ pc' \in {"stream", "raised"}
         \/ pc = "start" /\ pc' = "failed"
  PROVE  Said'
<1>0. /\ role' = role /\ attempt' = attempt /\ chunks' = chunks /\ parts' = parts /\ id' = id
      /\ shown' = shown /\ spoken' = spoken
      /\ pc' \in {"start", "stream", "done", "failed", "raised"} /\ pc' # "start"
  OBVIOUS
<1>1. Typed' /\ Current' /\ Later' /\ ShownIsSpoken'
  BY <1>0 DEF Said, Typed, Current, Later, ShownIsSpoken
<1>2. AttemptsSealed'
  <2> SUFFICES ASSUME NEW i \in Attempts, NEW q \in Kinds, shown[i][q] # Absent,
                      pc' \in {"done", "failed"} \/ i < attempt
               PROVE  shown[i][q].sealed
    BY <1>0 DEF AttemptsSealed
  <2>1. CASE i < attempt
    BY <2>1 DEF Said, AttemptsSealed
  <2>2. CASE pc' \in {"done", "failed"}
    <3>1. pc = "start"
      BY <2>2
    <3>2. \A p \in Kinds : shown[attempt][p] = Absent
      BY <3>1 DEF Said, Current
    <3>3. attempt \in Nat /\ i \in Nat
      BY PlanningAssumption DEF Said, Typed, Attempts
    <3> QED
      BY <2>1, <3>2, <3>3 DEF Said, Later
  <2> QED
    BY <2>1, <2>2
<1> QED
  BY <1>1, <1>2 DEF Said

(* Every step keeps the artifacts in order. *)
LEMMA SaidStep == Said /\ [Next]_vars => Said'
<1> SUFFICES ASSUME Said, [Next]_vars PROVE Said'
  OBVIOUS
<1>1. CASE Start
  BY <1>1, StandsKeeps DEF Start
<1>2. CASE NoAgents
  BY <1>2, StandsKeeps DEF NoAgents
<1>3. CASE ModelRaises
  BY <1>3, StandsKeeps DEF ModelRaises
<1>4. CASE _run_text
  BY <1>4, EndsKeeps DEF _run_text
<1>5. ASSUME NEW K \in SUBSET Kinds, NEW cs \in Calls, Chunk(K, cs) PROVE Said'
  BY <1>5, ChunkKeeps
<1>6. ASSUME NEW a \in Args, PlanLaunched(a) PROVE Said'
  BY <1>6, EndsKeeps DEF PlanLaunched
<1>7. ASSUME NEW a \in Args, PlanRetry(a) PROVE Said'
  BY <1>7, RetryKeeps DEF PlanRetry
<1>8. ASSUME NEW a \in Args, PlanningFailed(a) PROVE Said'
  BY <1>8, EndsKeeps DEF PlanningFailed
<1>9. ASSUME NEW a \in Args, Decided(a) PROVE Said'
  BY <1>9, EndsKeeps DEF Decided
<1>10. ASSUME NEW a \in Args, AgentRetry(a) PROVE Said'
  BY <1>10, RetryKeeps DEF AgentRetry
<1>11. ASSUME NEW a \in Args, Exhausted(a) PROVE Said'
  BY <1>11, EndsKeeps DEF Exhausted
<1>12. CASE UNCHANGED vars
  BY <1>12 DEF vars, Said, Typed, Current, Later, ShownIsSpoken, AttemptsSealed
<1> QED
  BY <1>1, <1>2, <1>3, <1>4, <1>5, <1>6, <1>7, <1>8, <1>9, <1>10, <1>11, <1>12 DEF Next, Decide

(***************************************************************************)
(* What the model and the conversation are told of the attempts.           *)
(***************************************************************************)
Errors(n)  == [i \in 1..n |-> "error"]
Numbers(n) == [i \in 1..n |-> i - 1]

Asked ==
  /\ pc = "start" => attempt = 0
  /\ pc \in {"start", "stream", "raised"} =>
       /\ feedback = Numbers(attempt)
       /\ role = "planner" => told = Errors(attempt)

(* Adding the next number, or one more error. *)
LEMMA OneMore ==
  ASSUME NEW n \in Nat
  PROVE  /\ Append(Numbers(n), n) = Numbers(n + 1) /\ Append(Numbers(n), n) # <<>>
         /\ Append(Errors(n), "error") = Errors(n + 1)
<1>1. Numbers(n) \in Seq(Nat) /\ Len(Numbers(n)) = n
  BY DEF Numbers
<1>2. Errors(n) \in Seq({"error"}) /\ Len(Errors(n)) = n
  BY DEF Errors
<1>3. Append(Numbers(n), n) = Numbers(n + 1)
  BY <1>1 DEF Numbers
<1>4. Append(Errors(n), "error") = Errors(n + 1)
  BY <1>2 DEF Errors
<1>5. Append(Numbers(n), n) # <<>>
  BY <1>1
<1> QED
  BY <1>3, <1>4, <1>5

Told ==
  /\ pc \in {"stream", "raised"} => feedback = Numbers(attempt)
  /\ role = "planner" =>
       /\ pc \in {"stream", "raised"} => told = Errors(attempt)
       /\ pc = "failed" => told = Append(Errors(attempt), "failed")
       /\ pc = "done" => told = Errors(attempt) \o launched(result.value) /\ Sound(result.value)
       /\ pc = "failed" /\ feedback # <<>> => attempt = max_retries

(* FailuresTold, with the abbreviations. *)
LEMMA ToldParts == FailuresTold <=> Told
  BY DEF FailuresTold, Told, Errors, Numbers

IInv == Said /\ Asked /\ FailuresTold

(* Every step keeps the two records of the attempts. *)
LEMMA ToldStep == IInv /\ [Next]_vars => Asked' /\ FailuresTold'
<1> SUFFICES ASSUME IInv, [Next]_vars PROVE Asked' /\ FailuresTold'
  OBVIOUS
<1>a. FailuresTold <=> Told
  BY ToldParts
<1>b. FailuresTold' <=> Told'
  BY ToldParts, PTL
<1>c. attempt \in Nat /\ Asked /\ Told
  BY <1>a, PlanningAssumption DEF IInv, Said, Typed, Attempts
<1>d. SUFFICES Asked' /\ Told'
  BY <1>b
<1>1. CASE Start
  BY <1>1, <1>c DEF Start, Asked, Told
<1>2. CASE NoAgents
  <2>1. /\ pc = "start" /\ role = "planner" /\ pc' = "failed" /\ told' = Append(told, "failed")
        /\ feedback' = feedback /\ attempt' = attempt /\ role' = role
    BY <1>2 DEF NoAgents
  <2>2. attempt = 0 /\ feedback = Numbers(0) /\ told = Errors(0)
    BY <1>c, <2>1 DEF Asked, Told
  <2>3. Numbers(0) = <<>>
    BY DEF Numbers
  <2> QED
    BY <2>1, <2>2, <2>3 DEF Asked, Told
<1>3. CASE ModelRaises
  BY <1>3, <1>c DEF ModelRaises, Asked, Told
<1>4. CASE _run_text
  BY <1>4 DEF _run_text, Ends, Asked, Told
<1>5. ASSUME NEW K \in SUBSET Kinds, NEW cs \in Calls, Chunk(K, cs) PROVE Asked' /\ Told'
  BY <1>5, <1>c DEF Chunk, Asked, Told
<1>6. ASSUME NEW a \in Args, PlanLaunched(a) PROVE Asked' /\ Told'
  <2>1. /\ pc = "stream" /\ role = "planner" /\ pc' = "done" /\ attempt' = attempt
        /\ result' = Result("draft", a.draft) /\ told' = told \o launched(a.draft)
        /\ validate_plan(a.draft)
    BY <1>6 DEF PlanLaunched, Ends, planned
  <2>2. told = Errors(attempt) /\ result'.value = a.draft
    BY <1>c, <2>1 DEF Result, Told
  <2>3. Sound(a.draft)
    <3>1. a.draft \in PlanDraft
      BY PlanningAssumption DEF Args
    <3> QED
      BY <2>1, <3>1, ValidatesExactly
  <2> QED
    BY <2>1, <2>2, <2>3 DEF Asked, Told
<1>7. ASSUME NEW a \in Args, PlanRetry(a) PROVE Asked' /\ Told'
  <2>1. /\ pc = "stream" /\ role = "planner" /\ pc' = pc /\ attempt' = attempt + 1
        /\ feedback' = Append(feedback, attempt) /\ told' = Append(told, "error")
    BY <1>7 DEF PlanRetry, next_attempt, with_feedback
  <2> QED
    BY <1>c, <2>1, OneMore DEF Asked, Told
<1>8. ASSUME NEW a \in Args, PlanningFailed(a) PROVE Asked' /\ Told'
  <2>1. /\ pc = "stream" /\ role = "planner" /\ pc' = "failed" /\ attempt' = attempt
        /\ attempt = max_retries /\ told' = Append(told, "failed")
    BY <1>8 DEF PlanningFailed, Ends
  <2> QED
    BY <1>c, <2>1 DEF Asked, Told
<1>9. ASSUME NEW a \in Args, Decided(a) PROVE Asked' /\ Told'
  BY <1>9 DEF Decided, Ends, Asked, Told
<1>10. ASSUME NEW a \in Args, AgentRetry(a) PROVE Asked' /\ Told'
  <2>1. /\ pc = "stream" /\ role = "agent" /\ pc' = pc /\ attempt' = attempt + 1 /\ role' = role
        /\ feedback' = Append(feedback, attempt)
    BY <1>10 DEF AgentRetry, next_attempt, with_feedback
  <2> QED
    BY <1>c, <2>1, OneMore DEF Asked, Told
<1>11. ASSUME NEW a \in Args, Exhausted(a) PROVE Asked' /\ Told'
  BY <1>11 DEF Exhausted, Ends, Asked, Told
<1>12. CASE UNCHANGED vars
  BY <1>12, <1>c DEF vars, Asked, Told
<1> QED
  BY <1>1, <1>2, <1>3, <1>4, <1>5, <1>6, <1>7, <1>8, <1>9, <1>10, <1>11, <1>12 DEF Next, Decide

(* The first state. *)
LEMMA InitSatisfies == Init => IInv
<1> SUFFICES ASSUME Init PROVE IInv
  OBVIOUS
<1>0. 0 \in Attempts /\ Attempts \subseteq Nat
  BY PlanningAssumption DEF Attempts
<1>1. Absent \in Art /\ Absent.pieces = <<>> /\ <<>> \in Seq(Nat)
  BY AbsentArt
<1>2. Silence \in [Kinds -> Seq(Nat)] /\ \A q \in Kinds : Silence[q] = <<>>
  BY <1>1 DEF Silence
<1>3. /\ \A i \in Attempts, q \in Kinds : shown[i][q] = Absent /\ spoken[i][q] = <<>>
      /\ shown \in [Attempts -> [Kinds -> Art]] /\ spoken \in [Attempts -> [Kinds -> Seq(Nat)]]
  BY <1>1, <1>2 DEF Init
<1>4. Typed
  BY <1>0, <1>2, <1>3 DEF Init, Typed
<1>5. attempt = 0 /\ pc = "start" /\ parts = Silence
  BY DEF Init
<1>9. Current /\ Later /\ ShownIsSpoken
  BY <1>0, <1>1, <1>2, <1>3, <1>5 DEF Current, Later, ShownIsSpoken
<1>10. AttemptsSealed
  BY <1>3 DEF AttemptsSealed
<1>6. Numbers(0) = <<>> /\ Errors(0) = <<>>
  BY DEF Numbers, Errors
<1>7. Asked
  BY <1>6 DEF Init, Asked
<1>8. FailuresTold
  BY ToldParts DEF Init, Told
<1> QED
  BY <1>4, <1>7, <1>8, <1>9, <1>10 DEF IInv, Said

(* The artifacts, the feedback and the conversation stay in step with the  *)
(* attempts, in every state of a decision.                                 *)
THEOREM InductiveInvariant == Spec => []IInv
<1>1. Init => IInv
  BY InitSatisfies
<1>2. IInv /\ [Next]_vars => IInv'
  BY SaidStep, ToldStep DEF IInv
<1> QED
  BY <1>1, <1>2, PTL DEF Spec

(* What the user sees of an attempt is what the model said in it.          *)
THEOREM UserSeesWhatIsSaid == Spec => []ShownIsSpoken
<1>1. IInv => ShownIsSpoken
  BY DEF IInv, Said
<1> QED
  BY <1>1, InductiveInvariant, PTL

(* No artifact is left open behind the attempt it belongs to.              *)
THEOREM ArtifactsAreSealed == Spec => []AttemptsSealed
<1>1. IInv => AttemptsSealed
  BY DEF IInv, Said
<1> QED
  BY <1>1, InductiveInvariant, PTL

(* Every failed attempt is told, and a plan that is launched is sound.     *)
THEOREM LaunchedPlansAreSound == Spec => []FailuresTold
<1>1. IInv => FailuresTold
  BY DEF IInv
<1> QED
  BY <1>1, InductiveInvariant, PTL

(* validate_plan accepts exactly the sound ones among the drafts that the  *)
(* runs compare it on, and so among any.                                   *)
THEOREM ValidationIsExact == Spec => []ValidationExact
<1>1. ValidationExact
  BY ValidatesExactly, PlanningAssumption DEF ValidationExact
<1> QED
  BY <1>1, PTL

=============================================================================
