--------------------------- MODULE WorkflowProofs ---------------------------
(***************************************************************************)
(* Proofs about Workflow, for every graph that validate_graph accepts, any *)
(* number of nodes and any limit of concurrency.                           *)
(*                                                                         *)
(* First what the methods do to a loop state (NextFacts, Downstream,       *)
(* HandleFacts, StartFacts), then that each of them keeps the invariant,   *)
(* and the folds over triggers and completions by induction.               *)
(***************************************************************************)
EXTENDS Workflow, DataLemmas

Status    == {"inactive", "running", "completed"}
Result    == [kind : {"running", "ok", "error"}, out : BOOLEAN, route : Routes \cup {NONE}]
Input     == UNION {[S -> Nat] : S \in SUBSET (Node \cup {START})}

LoopState ==
  [buffer : [Node -> Seq(Input)], keys : Seq(Node), pending : Seq(Node), status : [Node -> Status],
   outputs : [Node -> Nat], runs : [Node -> Nat], result : [Node -> Result], log : [Node -> Seq(Input)]]

Preds(g, n) == {g[i].from : i \in {j \in DOMAIN g : g[j].to = n}}

(* What the validation says of the edges, for the proofs below. *)
Sound(g) ==
  /\ g \in Seq(Edge)
  /\ _validate_duplicate_edges(g)
  /\ \A i \in DOMAIN g : g[i].to # START

(***************************************************************************)
(* The invariant of a loop state between two methods.                      *)
(***************************************************************************)

(* The keys of the buffer, and statuses. *)
Keyed(l) == Elems(l.keys) = {n \in Node : l.buffer[n] # <<>>}

Counted(l) ==
  \A n \in Node : /\ n \in Elems(l.pending) <=> l.status[n] = "running"
                  /\ l.status[n] = "inactive" <=> l.runs[n] = 0

Handled(l, n) == IF l.status[n] = "running" THEN l.runs[n] - 1 ELSE l.runs[n]

(* One trigger for each handled run, along every edge without a route. *)
InOrder(g, l) ==
  \A e \in Elems(g) :
    e.route = {} /\ e.from # START /\ e.to \notin Joins =>
      Those(l.log[e.to] \o l.buffer[e.to], [{e.from} -> Nat])
        = [k \in 1..Handled(l, e.from) |-> [p \in {e.from} |-> k]]

(* The predecessors of a join have all completed, what it then gets, and   *)
(* a join that is bound without routes only.                               *)
Complete(g, l, j) == \A p \in Preds(g, j) : p = START \/ l.status[p] = "completed"
Joined(g, l, j)   == [p \in Preds(g, j) |-> IF p = START THEN 0 ELSE l.outputs[p]]
Plain(g, j)       == Preds(g, j) # {} /\ \A e \in Elems(g) : e.to = j => e.route = {}

(* As long as no predecessor has started twice, the join is triggered once *)
(* all have completed, and not before.                                     *)
Barrier(g, l) ==
  \A j \in Joins :
    Plain(g, j) /\ (\A p \in Preds(g, j) \ {START} : l.runs[p] <= 1) =>
      l.log[j] \o l.buffer[j] = IF Complete(g, l, j) THEN << Joined(g, l, j) >> ELSE <<>>

(* At most one node is running or triggered, and triggered once. *)
Busy(l, n)  == n \in Elems(l.pending) \/ l.buffer[n] # <<>>
OneToken(l) ==
  /\ \A n, m \in Node : Busy(l, n) /\ Busy(l, m) => n = m
  /\ \A n \in Node : Len(l.buffer[n]) <= 1
  /\ \A n \in Elems(l.pending) : l.buffer[n] = <<>>

Good(g, l) ==
  /\ l \in LoopState /\ NoTwice(l.keys) /\ NoTwice(l.pending)
  /\ Keyed(l) /\ Counted(l) /\ InOrder(g, l) /\ Barrier(g, l)
  /\ g = build_workflow => OneToken(l)

(* The inductive invariant.  A workflow that has failed or was cancelled   *)
(* has nothing more to keep.                                               *)
IInv ==
  /\ edges \in Graphs /\ validate_graph(edges)
  /\ at \in {"run", "done", "failed", "cancelled"}
  /\ at \in {"run", "done"} =>
       /\ Good(edges, ls)
       /\ at = "run" <=> ls.pending # <<>>
       /\ ls.pending = <<>> => ls.keys = <<>>

(***************************************************************************)
(* The graph.                                                              *)
(***************************************************************************)

(* The assumption on the constants, piece by piece. *)
LEMMA Constants ==
  /\ Node \subseteq Nat /\ START \notin Node /\ Joins \subseteq Node
  /\ MaxConcurrency \in Nat /\ DEFAULT_ROUTE \notin Routes /\ NONE \notin Routes
  /\ \A g \in Graphs : g \in Seq(Edge)
BY WorkflowAssumption DEF START

(* A graph that is validated has no edge twice, and no edge to START. *)
LEMMA SoundGraph ==
  ASSUME NEW g \in Graphs, validate_graph(g)
  PROVE  Sound(g) /\ NoTwice(g)
<1>1. g \in Seq(Edge)
  BY Constants
<1>2. Sound(g)
  BY <1>1 DEF validate_graph, _validate_connectivity, Sound
<1>3. ASSUME NEW i \in DOMAIN g, NEW j \in DOMAIN g, g[i] = g[j], i # j PROVE FALSE
  BY <1>2, <1>3 DEF Sound, _validate_duplicate_edges
<1> QED
  BY <1>2, <1>3 DEF NoTwice

(* The next nodes are successors, none is there twice, and those along     *)
(* edges without a route are among them.                                   *)
LEMMA NextFacts ==
  ASSUME Sound(edges), NoTwice(edges), NEW n \in Node \cup {START}, NEW r \in Routes \cup {NONE},
         NEW next, next = get_next_pending_nodes(n, r)
  PROVE  /\ next \in Seq(Edge)
         /\ \A i \in DOMAIN next : next[i].to \in Node /\ next[i].from = n /\ next[i] \in Elems(edges)
         /\ \A i, j \in DOMAIN next : next[i].to = next[j].to => i = j
         /\ \A e \in Elems(edges) : e.from = n /\ e.route = {} => e \in Elems(next)
<1> DEFINE hits    == {e \in Elems(edges) : e.from = n /\ (e.route = {} \/ r \in e.route)}
           default == {e \in Elems(edges) : e.from = n /\ e.route = {DEFAULT_ROUTE}}
           h == Those(edges, hits)
           d == Those(edges, default)
<1>1. edges \in Seq(Edge)
  BY DEF Sound
<1>2. h \in Seq(Edge) /\ Elems(h) = hits /\ NoTwice(h)
  <2>1. Elems(edges) \cap hits = hits
    OBVIOUS
  <2> HIDE DEF hits
  <2> QED
    BY <1>1, <2>1, ThoseFacts
<1>3. d \in Seq(Edge) /\ Elems(d) = default /\ NoTwice(d)
  <2>1. Elems(edges) \cap default = default
    OBVIOUS
  <2> HIDE DEF default
  <2> QED
    BY <1>1, <2>1, ThoseFacts
<1>4. next = IF \E e \in hits : e.route # {} THEN h ELSE h \o d
  BY DEF get_next_pending_nodes
<1>5. \A e \in Elems(edges) : e \in Edge /\ e.to # START
  BY <1>1 DEF Sound, Elems
<1>6. ASSUME NEW e \in Elems(edges), NEW f \in Elems(edges), e.from = f.from, e.to = f.to, e # f
      PROVE  e.route # {} /\ f.route # {} /\ e.route \cap f.route = {}
  BY <1>6 DEF Elems, Sound, _validate_duplicate_edges
<1> HIDE DEF h, d
<1>7. next \in Seq(Edge) /\ NoTwice(next) /\ hits \subseteq Elems(next)
      /\ (Elems(next) = hits \/ (Elems(next) = hits \cup default /\ \A e \in hits : e.route = {}))
  <2>1. CASE \E e \in hits : e.route # {}
    <3> HIDE DEF hits, default
    <3> QED
      BY <1>2, <1>4, <2>1
  <2>2. CASE ~(\E e \in hits : e.route # {})
    <3>1. Elems(h) \cap Elems(d) = {}
      BY <1>2, <1>3, <2>2
    <3> HIDE DEF hits, default
    <3>2. next = h \o d
      BY <1>4, <2>2
    <3> QED
      BY <1>2, <1>3, <2>2, <3>1, <3>2, ElemsFacts
  <2> QED
    BY <2>1, <2>2
<1>8. ASSUME NEW e \in Elems(next), NEW f \in Elems(next), e.to = f.to PROVE e = f
  <2>1. e \in Elems(edges) /\ f \in Elems(edges) /\ e.from = n /\ f.from = n
    BY <1>7, <1>8
  <2>2. SUFFICES ASSUME e # f PROVE FALSE
    OBVIOUS
  <2>3. e.route # {} /\ f.route # {} /\ e.route \cap f.route = {}
    BY <1>6, <1>8, <2>1, <2>2
  <2>4. CASE Elems(next) = hits
    BY <1>8, <2>3, <2>4
  <2>5. CASE Elems(next) = hits \cup default /\ \A x \in hits : x.route = {}
    BY <1>8, <2>3, <2>5
  <2> QED
    BY <1>7, <2>4, <2>5
<1>9. \A i \in DOMAIN next : next[i] \in Elems(next)
  BY DEF Elems
<1>10. ASSUME NEW i \in DOMAIN next PROVE next[i].to \in Node /\ next[i].from = n /\ next[i] \in Elems(edges)
  <2>1. next[i] \in Elems(edges) /\ next[i].from = n
    BY <1>7, <1>9
  <2> QED
    BY <1>5, <2>1 DEF Edge
<1>11. ASSUME NEW i \in DOMAIN next, NEW j \in DOMAIN next, next[i].to = next[j].to PROVE i = j
  BY <1>7, <1>8, <1>9, <1>11 DEF NoTwice
<1>12. \A e \in Elems(edges) : e.from = n /\ e.route = {} => e \in Elems(next)
  BY <1>7
<1> QED
  BY <1>7, <1>10, <1>11, <1>12

(***************************************************************************)
(* Triggers.                                                               *)
(***************************************************************************)

(* The fields of a loop state. *)
LEMMA LoopTypes ==
  ASSUME NEW l \in LoopState
  PROVE  /\ l.buffer \in [Node -> Seq(Input)] /\ l.keys \in Seq(Node) /\ l.pending \in Seq(Node)
         /\ l.status \in [Node -> Status] /\ l.outputs \in [Node -> Nat] /\ l.runs \in [Node -> Nat]
         /\ l.result \in [Node -> Result] /\ l.log \in [Node -> Seq(Input)]
BY DEF LoopState

(* All but the triggers is the same. *)
SameRuns(k, l) ==
  /\ k.pending = l.pending /\ k.status = l.status /\ k.outputs = l.outputs
  /\ k.runs = l.runs /\ k.result = l.result /\ k.log = l.log

(* One trigger more. *)
LEMMA TriggerFacts ==
  ASSUME NEW l \in LoopState, NEW m \in Node, NEW x \in Input,
         NEW k, k = buffer_trigger(l, m, x)
  PROVE  /\ k \in LoopState /\ SameRuns(k, l)
         /\ k.buffer = [l.buffer EXCEPT ![m] = Append(@, x)]
         /\ Elems(k.keys) = Elems(l.keys) \cup {m}
         /\ NoTwice(l.keys) => NoTwice(k.keys)
<1> DEFINE b  == [l.buffer EXCEPT ![m] = Append(@, x)]
           ks == IF m \in Elems(l.keys) THEN l.keys ELSE Append(l.keys, m)
<1>1. l.buffer \in [Node -> Seq(Input)] /\ l.keys \in Seq(Node)
  BY DEF LoopState
<1>2. b \in [Node -> Seq(Input)]
  BY <1>1
<1>3. ks \in Seq(Node) /\ Elems(ks) = Elems(l.keys) \cup {m} /\ (NoTwice(l.keys) => NoTwice(ks))
  <2>1. CASE m \in Elems(l.keys)
    BY <1>1, <2>1
  <2>2. CASE m \notin Elems(l.keys)
    <3>1. ks = l.keys \o <<m>> /\ <<m>> \in Seq(Node)
      BY <1>1, <2>2
    <3>2. Elems(<<m>>) = {m} /\ NoTwice(<<m>>)
      BY DEF Elems, NoTwice
    <3> DEFINE u == l.keys
               v == <<m>>
    <3>3. u \in Seq(Node) /\ v \in Seq(Node) /\ Elems(u) \cap Elems(v) = {}
      BY <1>1, <2>2, <3>1, <3>2
    <3>4. ks = u \o v /\ Elems(v) = {m} /\ NoTwice(v)
      BY <3>1, <3>2
    <3> HIDE DEF ks, u, v
    <3>5. ks \in Seq(Node) /\ Elems(ks) = Elems(u) \cup {m} /\ (NoTwice(u) => NoTwice(ks))
      BY <3>3, <3>4, ElemsFacts
    <3> QED
      BY <3>5 DEF u
  <2> QED
    BY <2>1, <2>2
<1>4. k = [l EXCEPT !.buffer = b, !.keys = ks]
  BY DEF buffer_trigger, LoopState
<1> HIDE DEF b, ks
<1>5. k.buffer = b /\ k.keys = ks /\ SameRuns(k, l) /\ k \in LoopState
  BY <1>2, <1>3, <1>4 DEF SameRuns, LoopState
<1> QED
  BY <1>3, <1>5 DEF b

(* Whether a next node is triggered, and with what. *)
Ready(l, m)    == m \in Joins => Complete(edges, l, m)
Given(l, n, m) == IF m \in Joins THEN Joined(edges, l, m) ELSE Output(l, n)

(* What a node is given is an input. *)
LEMMA GivenType ==
  ASSUME Sound(edges), NEW l \in LoopState, NEW n \in Node \cup {START}, NEW m \in Node
  PROVE  Given(l, n, m) \in Input /\ Output(l, n) \in [{n} -> Nat]
<1>1. l.runs \in [Node -> Nat] /\ l.outputs \in [Node -> Nat]
  BY LoopTypes
<1>2. Preds(edges, m) \subseteq Node \cup {START}
  <2>1. edges \in Seq(Edge)
    BY DEF Sound
  <2>2. \A i \in DOMAIN edges : edges[i] \in Edge
    BY <2>1
  <2>3. \A i \in DOMAIN edges : edges[i].from \in Node \cup {START}
    BY <2>2 DEF Edge
  <2> QED
    BY <2>3 DEF Preds
<1>3. Joined(edges, l, m) \in [Preds(edges, m) -> Nat]
  <2>1. \A p \in Preds(edges, m) : (IF p = START THEN 0 ELSE l.outputs[p]) \in Nat
    BY <1>1, <1>2
  <2> QED
    BY <2>1 DEF Joined
<1>4. Output(l, n) \in [{n} -> Nat]
  BY <1>1 DEF Output
<1>5. ASSUME NEW S \in SUBSET (Node \cup {START}), NEW f \in [S -> Nat] PROVE f \in Input
  BY DEF Input
<1>6. Joined(edges, l, m) \in Input /\ Output(l, n) \in Input
  BY <1>2, <1>3, <1>4, <1>5
<1> QED
  BY <1>4, <1>6 DEF Given

(* The triggers of the first i next nodes, as the function that the        *)
(* definition recurses on.                                                 *)
Buffered(l, n, next) ==
  LET f[i \in 0..Len(next)] ==
        IF i = 0 THEN l
        ELSE IF next[i].to \in Joins THEN _buffer_barrier_trigger(f[i - 1], next[i].to)
        ELSE buffer_trigger(f[i - 1], next[i].to, Output(l, n))
  IN  f

BufferedStep(l, n, next, f, i) ==
  IF i = 0 THEN l
  ELSE IF next[i].to \in Joins THEN _buffer_barrier_trigger(f[i - 1], next[i].to)
  ELSE buffer_trigger(f[i - 1], next[i].to, Output(l, n))

(* The recursion has a solution. *)
LEMMA BufferedDef ==
  ASSUME NEW l, NEW n, NEW T, NEW next \in Seq(T)
  PROVE  \A i \in 0..Len(next) : Buffered(l, n, next)[i] = BufferedStep(l, n, next, Buffered(l, n, next), i)
<1> DEFINE Step(f, i) == BufferedStep(l, n, next, f, i)
           Has(m) == \E g : g = [i \in 0..m |-> Step(g, i)]
           P == {m \in Nat : Has(m)}
<1>0. Len(next) \in Nat
  OBVIOUS
<1>a. ASSUME NEW f, NEW g, NEW i \in Nat, i # 0 => f[i - 1] = g[i - 1] PROVE Step(f, i) = Step(g, i)
  BY <1>a DEF BufferedStep
<1> HIDE DEF Step
<1>1. 0 \in P
  <2> DEFINE g == [i \in 0..0 |-> Step([j \in {} |-> j], i)]
  <2>1. g = [i \in 0..0 |-> Step(g, i)]
    <3>1. \A i \in 0..0 : Step([j \in {} |-> j], i) = Step(g, i)
      <4> HIDE DEF g
      <4> QED
        BY <1>a
    <3> QED
      BY <3>1
  <2> HIDE DEF g
  <2>2. Has(0)
    BY <2>1
  <2> QED
    BY <2>2
<1>2. ASSUME NEW m \in Nat, m \in P PROVE m + 1 \in P
  <2>1. PICK g : g = [i \in 0..m |-> Step(g, i)]
    BY <1>2
  <2> DEFINE h == [i \in 0..(m + 1) |-> IF i = m + 1 THEN Step(g, i) ELSE g[i]]
  <2>2. ASSUME NEW i \in 0..(m + 1) PROVE h[i] = Step(h, i)
    <3>1. h[i] = Step(g, i)
      <4>1. CASE i = m + 1
        BY <4>1
      <4>2. CASE i \in 0..m
        <5>1. h[i] = g[i]
          BY <4>2
        <5>2. g[i] = Step(g, i)
          BY <2>1, <4>2
        <5> QED
          BY <5>1, <5>2
      <4> QED
        BY <4>1, <4>2
    <3>2. i # 0 => h[i - 1] = g[i - 1]
      OBVIOUS
    <3> HIDE DEF h
    <3>3. Step(g, i) = Step(h, i)
      BY <1>a, <3>2
    <3> QED
      BY <3>1, <3>3
  <2>3. h = [i \in 0..(m + 1) |-> Step(h, i)]
    BY <2>2
  <2> HIDE DEF h
  <2>4. Has(m + 1)
    BY <2>3
  <2> QED
    BY <2>4
<1> HIDE DEF P
<1>3. Len(next) \in P
  BY <1>0, <1>1, <1>2, Induction
<1>4. PICK g : g = [i \in 0..Len(next) |-> Step(g, i)]
  BY <1>3 DEF P
<1>5. Buffered(l, n, next) = CHOOSE f : f = [i \in 0..Len(next) |-> Step(f, i)]
  BY DEF Buffered, Step, BufferedStep
<1>6. Buffered(l, n, next) = [i \in 0..Len(next) |-> Step(Buffered(l, n, next), i)]
  BY <1>4, <1>5
<1>7. \A i \in 0..Len(next) : Buffered(l, n, next)[i] = Step(Buffered(l, n, next), i)
  BY <1>6
<1> QED
  BY <1>7 DEF Step

(* The state after the triggers of the first i next nodes. *)
Upto(l, n, next, i, k) ==
  /\ k \in LoopState /\ SameRuns(k, l)
  /\ \A m \in Node : k.buffer[m] = IF (\E j \in 1..i : next[j].to = m) /\ Ready(l, m)
                                   THEN Append(l.buffer[m], Given(l, n, m)) ELSE l.buffer[m]
  /\ Keyed(l) => Keyed(k)
  /\ NoTwice(l.keys) => NoTwice(k.keys)

(* One next node more. *)
LEMMA UptoStep ==
  ASSUME Sound(edges), NEW l \in LoopState, NEW n \in Node \cup {START}, NEW next \in Seq(Edge),
         \A i \in DOMAIN next : next[i].to \in Node,
         \A i, j \in DOMAIN next : next[i].to = next[j].to => i = j,
         NEW i \in Nat, i + 1 \in 1..Len(next), NEW k, Upto(l, n, next, i, k),
         NEW q, q = IF next[i + 1].to \in Joins THEN _buffer_barrier_trigger(k, next[i + 1].to)
                    ELSE buffer_trigger(k, next[i + 1].to, Output(l, n))
  PROVE  Upto(l, n, next, i + 1, q)
<1> DEFINE m == next[i + 1].to
           x == Given(l, n, m)
<1>0. Len(next) \in Nat /\ DOMAIN next = 1..Len(next)
  OBVIOUS
<1>1. m \in Node /\ k \in LoopState /\ SameRuns(k, l)
  BY <1>0 DEF Upto
<1>2. k.buffer \in [Node -> Seq(Input)] /\ l.buffer \in [Node -> Seq(Input)] /\ l.status = k.status
      /\ k.outputs = l.outputs
  BY <1>1, LoopTypes DEF SameRuns
<1>3. x \in Input
  BY <1>1, GivenType
<1>4. ~(\E j \in 1..i : next[j].to = m)
  BY <1>0
<1>5. k.buffer[m] = l.buffer[m]
  BY <1>1, <1>4 DEF Upto
<1>6. \A o \in Node \ {m} : (\E j \in 1..(i + 1) : next[j].to = o) <=> (\E j \in 1..i : next[j].to = o)
  <2>1. \A j \in 1..(i + 1) : j \in 1..i \/ j = i + 1
    BY <1>0
  <2>2. \A j \in 1..i : j \in 1..(i + 1)
    BY <1>0
  <2> QED
    BY <2>1, <2>2
<1>7. \E j \in 1..(i + 1) : next[j].to = m
  <2>1. i + 1 \in 1..(i + 1)
    OBVIOUS
  <2> QED
    BY <2>1
<1>8. q = IF Ready(l, m) THEN buffer_trigger(k, m, x) ELSE k
  <2>1. CASE m \in Joins
    <3>1. Preds(edges, m) = predecessors(m)
      BY DEF Preds, predecessors
    <3>2. Ready(l, m) <=> \A p \in predecessors(m) : p = START \/ k.status[p] = "completed"
      BY <1>2, <2>1, <3>1 DEF Ready, Complete
    <3>3. x = [p \in predecessors(m) |-> IF p = START THEN 0 ELSE k.outputs[p]]
      BY <1>2, <2>1, <3>1 DEF Given, Joined
    <3>4. q = _buffer_barrier_trigger(k, m)
      BY <2>1
    <3> HIDE DEF m, x
    <3> QED
      BY <3>2, <3>3, <3>4 DEF _buffer_barrier_trigger
  <2>2. CASE m \notin Joins
    BY <2>2 DEF Ready, Given
  <2> QED
    BY <2>1, <2>2
<1> HIDE DEF m, x
<1>9. CASE ~Ready(l, m)
  <2>1. q = k
    BY <1>8, <1>9
  <2>2. ASSUME NEW o \in Node
        PROVE  k.buffer[o] = IF (\E j \in 1..(i + 1) : next[j].to = o) /\ Ready(l, o)
                             THEN Append(l.buffer[o], Given(l, n, o)) ELSE l.buffer[o]
    <3>1. CASE o = m
      BY <1>5, <1>9, <3>1
    <3>2. CASE o # m
      BY <1>6, <3>2 DEF Upto
    <3> QED
      BY <3>1, <3>2
  <2> QED
    BY <2>1, <2>2 DEF Upto
<1>10. CASE Ready(l, m)
  <2>1. q = buffer_trigger(k, m, x)
    BY <1>8, <1>10
  <2>2. /\ q \in LoopState /\ SameRuns(q, k)
        /\ q.buffer = [k.buffer EXCEPT ![m] = Append(@, x)]
        /\ Elems(q.keys) = Elems(k.keys) \cup {m}
        /\ NoTwice(k.keys) => NoTwice(q.keys)
    BY <1>1, <1>3, <2>1, TriggerFacts
  <2>3. ASSUME NEW o \in Node
        PROVE  q.buffer[o] = IF (\E j \in 1..(i + 1) : next[j].to = o) /\ Ready(l, o)
                             THEN Append(l.buffer[o], Given(l, n, o)) ELSE l.buffer[o]
    <3>1. CASE o = m
      <4>1. q.buffer[m] = Append(l.buffer[m], x)
        BY <1>1, <1>2, <1>5, <2>2
      <4> QED
        BY <1>7, <1>10, <3>1, <4>1 DEF x
    <3>2. CASE o # m
      <4>1. q.buffer[o] = k.buffer[o]
        BY <1>1, <1>2, <2>2, <3>2
      <4> QED
        BY <1>6, <3>2, <4>1 DEF Upto
    <3> QED
      BY <3>1, <3>2
  <2>4. SameRuns(q, l)
    BY <1>1, <2>2 DEF SameRuns
  <2>5. ASSUME Keyed(l) PROVE Keyed(q)
    <3>1. Elems(k.keys) = {o \in Node : k.buffer[o] # <<>>}
      BY <2>5 DEF Upto, Keyed
    <3>2. q.buffer[m] # <<>> /\ \A o \in Node \ {m} : q.buffer[o] = k.buffer[o]
      BY <1>1, <1>2, <1>3, <2>2
    <3> QED
      BY <1>1, <2>2, <3>1, <3>2 DEF Keyed
  <2>6. NoTwice(l.keys) => NoTwice(q.keys)
    BY <2>2 DEF Upto
  <2> QED
    BY <2>2, <2>3, <2>4, <2>5, <2>6 DEF Upto
<1> QED
  BY <1>9, <1>10

(* What _buffer_downstream_triggers does, by induction over the next nodes. *)
LEMMA Downstream ==
  ASSUME Sound(edges), NEW l \in LoopState, NEW n \in Node \cup {START}, NEW next \in Seq(Edge),
         \A i \in DOMAIN next : next[i].to \in Node,
         \A i, j \in DOMAIN next : next[i].to = next[j].to => i = j
  PROVE  Upto(l, n, next, Len(next), _buffer_downstream_triggers(l, n, next))
<1> DEFINE f == Buffered(l, n, next)
           P == {i \in Nat : i <= Len(next) => Upto(l, n, next, i, f[i])}
<1>0. Len(next) \in Nat
  OBVIOUS
<1>1. \A i \in 0..Len(next) : f[i] = BufferedStep(l, n, next, f, i)
  BY BufferedDef
<1>2. _buffer_downstream_triggers(l, n, next) = f[Len(next)]
  BY DEF _buffer_downstream_triggers, Buffered
<1> HIDE DEF f
<1>3. 0 \in P
  <2>1. f[0] = l
    BY <1>0, <1>1 DEF BufferedStep
  <2>2. Upto(l, n, next, 0, l)
    BY DEF Upto, SameRuns
  <2> QED
    BY <2>1, <2>2
<1>4. ASSUME NEW i \in Nat, i \in P PROVE i + 1 \in P
  <2>1. SUFFICES ASSUME i + 1 <= Len(next) PROVE Upto(l, n, next, i + 1, f[i + 1])
    OBVIOUS
  <2>2. Upto(l, n, next, i, f[i]) /\ i + 1 \in 1..Len(next) /\ i + 1 \in 0..Len(next)
    BY <1>0, <1>4, <2>1
  <2>3. f[i + 1] = IF next[i + 1].to \in Joins THEN _buffer_barrier_trigger(f[i], next[i + 1].to)
                   ELSE buffer_trigger(f[i], next[i + 1].to, Output(l, n))
    <3>1. f[i + 1] = BufferedStep(l, n, next, f, i + 1)
      BY <1>1, <2>2
    <3>2. i + 1 # 0 /\ (i + 1) - 1 = i
      OBVIOUS
    <3> QED
      BY <3>1, <3>2 DEF BufferedStep
  <2> QED
    BY <2>2, <2>3, UptoStep
<1> HIDE DEF P
<1>5. Len(next) \in P
  BY <1>0, <1>3, <1>4, Induction
<1> QED
  BY <1>0, <1>2, <1>5 DEF P

(* The next nodes, as a set. *)
Targets(n, r) == {e.to : e \in Elems(get_next_pending_nodes(n, r))}

(* They are successors of n, and all along edges without a route are there. *)
LEMMA TargetFacts ==
  ASSUME Sound(edges), NoTwice(edges), NEW n \in Node \cup {START}, NEW r \in Routes \cup {NONE}
  PROVE  /\ Targets(n, r) \subseteq Node
         /\ \A m \in Targets(n, r) : \E e \in Elems(edges) : e.from = n /\ e.to = m
         /\ \A e \in Elems(edges) : e.from = n /\ e.route = {} => e.to \in Targets(n, r)
<1> DEFINE next == get_next_pending_nodes(n, r)
<1>1. /\ \A i \in DOMAIN next : next[i].to \in Node /\ next[i].from = n /\ next[i] \in Elems(edges)
      /\ \A e \in Elems(edges) : e.from = n /\ e.route = {} => e \in Elems(next)
  BY NextFacts
<1>2. Targets(n, r) = {e.to : e \in Elems(next)}
  BY DEF Targets
<1> HIDE DEF next
<1> QED
  BY <1>1, <1>2 DEF Elems

(* The triggers of a run that has ended, or of START. *)
LEMMA DownstreamFacts ==
  ASSUME Sound(edges), NoTwice(edges), NEW l \in LoopState, NEW n \in Node \cup {START},
         NEW r \in Routes \cup {NONE},
         NEW k, k = _buffer_downstream_triggers(l, n, get_next_pending_nodes(n, r))
  PROVE  /\ k \in LoopState /\ SameRuns(k, l)
         /\ \A m \in Node : k.buffer[m] = IF m \in Targets(n, r) /\ Ready(k, m)
                                          THEN Append(l.buffer[m], Given(k, n, m)) ELSE l.buffer[m]
         /\ Keyed(l) => Keyed(k)
         /\ NoTwice(l.keys) => NoTwice(k.keys)
<1> DEFINE next == get_next_pending_nodes(n, r)
<1>1. /\ next \in Seq(Edge)
      /\ \A i \in DOMAIN next : next[i].to \in Node
      /\ \A i, j \in DOMAIN next : next[i].to = next[j].to => i = j
  BY NextFacts
<1>2. Targets(n, r) = {e.to : e \in Elems(next)} /\ k = _buffer_downstream_triggers(l, n, next)
  BY DEF Targets
<1> HIDE DEF next
<1>3. Upto(l, n, next, Len(next), k)
  BY <1>1, <1>2, Downstream
<1>4. \A m \in Node : (\E j \in 1..Len(next) : next[j].to = m) <=> m \in Targets(n, r)
  <2>1. DOMAIN next = 1..Len(next)
    BY <1>1
  <2> QED
    BY <1>2, <2>1 DEF Elems
<1>5. \A m \in Node : Ready(l, m) <=> Ready(k, m)
  BY <1>3 DEF Upto, SameRuns, Ready, Complete
<1>6. \A m \in Node : Given(l, n, m) = Given(k, n, m)
  BY <1>3 DEF Upto, SameRuns, Given, Joined, Output
<1>7. ASSUME NEW m \in Node
      PROVE  k.buffer[m] = IF m \in Targets(n, r) /\ Ready(k, m)
                           THEN Append(l.buffer[m], Given(k, n, m)) ELSE l.buffer[m]
  <2>1. k.buffer[m] = IF (\E j \in 1..Len(next) : next[j].to = m) /\ Ready(l, m)
                      THEN Append(l.buffer[m], Given(l, n, m)) ELSE l.buffer[m]
    BY <1>3 DEF Upto
  <2> QED
    BY <1>4, <1>5, <1>6, <2>1
<1> QED
  BY <1>3, <1>7 DEF Upto

(***************************************************************************)
(* A completion.                                                           *)
(***************************************************************************)

(* What _handle_completion does to each field. *)
Handles(l, n, k) ==
  /\ k \in LoopState
  /\ k.pending = Those(l.pending, Node \ {n})
  /\ k.status = [l.status EXCEPT ![n] = "completed"]
  /\ k.outputs = [l.outputs EXCEPT ![n] = IF l.result[n].out THEN l.runs[n] ELSE @]
  /\ k.runs = l.runs /\ k.result = l.result /\ k.log = l.log
  /\ \A m \in Node : k.buffer[m] = IF m \in Targets(n, l.result[n].route) /\ Ready(k, m)
                                   THEN Append(l.buffer[m], Given(k, n, m)) ELSE l.buffer[m]
  /\ Keyed(l) => Keyed(k)
  /\ NoTwice(l.keys) => NoTwice(k.keys)
  /\ l.result[n].route \in Routes \cup {NONE}

(* The method does that. *)
LEMMA HandleFacts ==
  ASSUME Sound(edges), NoTwice(edges), NEW l \in LoopState, NEW n \in Node,
         NEW k, k = _handle_completion(l, n)
  PROVE  Handles(l, n, k)
<1> DEFINE pe == Those(l.pending, Node \ {n})
           st == [l.status EXCEPT ![n] = "completed"]
           ou == [l.outputs EXCEPT ![n] = IF l.result[n].out THEN l.runs[n] ELSE @]
           l1 == [l EXCEPT !.pending = pe, !.status = st, !.outputs = ou]
           r  == l.result[n].route
<1>1. /\ l.pending \in Seq(Node) /\ l.status \in [Node -> Status] /\ l.outputs \in [Node -> Nat]
      /\ l.runs \in [Node -> Nat] /\ l.result \in [Node -> Result]
  BY LoopTypes
<1>2. pe \in Seq(Node)
  BY <1>1, ThoseFacts
<1>3. st \in [Node -> Status]
  BY <1>1 DEF Status
<1>4. l.result[n].out \in BOOLEAN /\ r \in Routes \cup {NONE}
  BY <1>1 DEF Result
<1>5. ou \in [Node -> Nat]
  BY <1>1
<1>6. k = _buffer_downstream_triggers(l1, n, get_next_pending_nodes(n, r))
  <2>1. [l EXCEPT !.pending = Those(@, Node \ {n}), !.status[n] = "completed",
                  !.outputs[n] = IF l.result[n].out THEN l.runs[n] ELSE @] = l1
    BY DEF LoopState
  <2> QED
    BY <2>1 DEF _handle_completion
<1> HIDE DEF pe, st, ou, r
<1>7. /\ l1 \in LoopState /\ l1.pending = pe /\ l1.status = st /\ l1.outputs = ou
      /\ l1.runs = l.runs /\ l1.result = l.result /\ l1.log = l.log
      /\ l1.buffer = l.buffer /\ l1.keys = l.keys
  BY <1>2, <1>3, <1>5 DEF LoopState
<1> HIDE DEF l1
<1>8. /\ k \in LoopState /\ SameRuns(k, l1)
      /\ \A m \in Node : k.buffer[m] = IF m \in Targets(n, r) /\ Ready(k, m)
                                       THEN Append(l1.buffer[m], Given(k, n, m)) ELSE l1.buffer[m]
      /\ Keyed(l1) => Keyed(k)
      /\ NoTwice(l1.keys) => NoTwice(k.keys)
  BY <1>4, <1>6, <1>7, DownstreamFacts
<1>9. Keyed(l) => Keyed(k)
  BY <1>7, <1>8 DEF Keyed
<1> QED
  BY <1>4, <1>7, <1>8, <1>9 DEF SameRuns, Handles, pe, st, ou, r

(* An edge has its ends among the nodes, and its source is a predecessor. *)
LEMMA EdgeFacts ==
  ASSUME Sound(edges), NEW e \in Elems(edges)
  PROVE  e \in Edge /\ e.to \in Node /\ e.from \in Node \cup {START} /\ e.from \in Preds(edges, e.to)
<1>1. PICK i \in DOMAIN edges : e = edges[i]
  BY DEF Elems
<1>2. e \in Edge /\ e.to # START
  BY <1>1 DEF Sound
<1>3. e.from \in Preds(edges, e.to)
  BY <1>1 DEF Preds
<1> QED
  BY <1>2, <1>3 DEF Edge

(* A trigger that comes from elsewhere is not counted for p. *)
LEMMA OtherTrigger ==
  ASSUME NEW n, NEW p, n # p, NEW x \in [{n} -> Nat]
  PROVE  x \notin [{p} -> Nat]
<1>1. DOMAIN x = {n} /\ {n} # {p}
  OBVIOUS
<1>2. \A f \in [{p} -> Nat] : DOMAIN f = {p}
  OBVIOUS
<1> QED
  BY <1>1, <1>2

(* A completion triggers along each edge without a route once, with the    *)
(* number of the run.                                                      *)
LEMMA HandleInOrder ==
  ASSUME Sound(edges), NoTwice(edges), NEW l \in LoopState, NEW n \in Node, l.status[n] = "running",
         l.runs[n] # 0, InOrder(edges, l), NEW k, k = _handle_completion(l, n)
  PROVE  InOrder(edges, k)
<1>0. /\ k \in LoopState
      /\ k.status = [l.status EXCEPT ![n] = "completed"]
      /\ k.outputs = [l.outputs EXCEPT ![n] = IF l.result[n].out THEN l.runs[n] ELSE @]
      /\ k.runs = l.runs /\ k.log = l.log
      /\ \A m \in Node : k.buffer[m] = IF m \in Targets(n, l.result[n].route) /\ Ready(k, m)
                                       THEN Append(l.buffer[m], Given(k, n, m)) ELSE l.buffer[m]
      /\ l.result[n].route \in Routes \cup {NONE}
  <2>1. Handles(l, n, k)
    BY HandleFacts
  <2> QED
    BY <2>1 DEF Handles
<1> SUFFICES ASSUME NEW e \in Elems(edges), e.route = {}, e.from # START, e.to \notin Joins
             PROVE  Those(k.log[e.to] \o k.buffer[e.to], [{e.from} -> Nat])
                      = [i \in 1..Handled(k, e.from) |-> [q \in {e.from} |-> i]]
  BY DEF InOrder
<1> DEFINE p == e.from
           m == e.to
           r == l.result[n].route
           x == Output(k, n)
           o == l.log[m] \o l.buffer[m]
           F == [{p} -> Nat]
<1>1. p \in Node /\ m \in Node /\ m \notin Joins
  BY EdgeFacts
<1>2. /\ k \in LoopState /\ k.status = [l.status EXCEPT ![n] = "completed"]
      /\ k.runs = l.runs /\ k.log = l.log /\ r \in Routes \cup {NONE}
      /\ \A j \in Node : k.buffer[j] = IF j \in Targets(n, r) /\ Ready(k, j)
                                       THEN Append(l.buffer[j], Given(k, n, j)) ELSE l.buffer[j]
  BY <1>0
<1>3. /\ l.buffer \in [Node -> Seq(Input)] /\ l.log \in [Node -> Seq(Input)]
      /\ l.status \in [Node -> Status] /\ l.runs \in [Node -> Nat]
  BY LoopTypes
<1>4. x \in Input /\ x \in [{n} -> Nat] /\ x = [q \in {n} |-> l.runs[n]]
  <2>1. Given(k, n, m) = x /\ x = [q \in {n} |-> l.runs[n]]
    BY <1>1, <1>2, Constants DEF Given, Output
  <2>2. Given(k, n, m) \in Input /\ Output(k, n) \in [{n} -> Nat]
    <3>1. n \in Node \cup {START} /\ k \in LoopState /\ m \in Node
      BY <1>1, <1>2
    <3> HIDE DEF m
    <3> QED
      BY <3>1, GivenType
  <2> QED
    BY <2>1, <2>2
<1>5. k.buffer[m] = IF m \in Targets(n, r) THEN Append(l.buffer[m], x) ELSE l.buffer[m]
  BY <1>1, <1>2 DEF Ready, Given
<1>6. o \in Seq(Input) /\ l.log[m] \o Append(l.buffer[m], x) = Append(o, x)
  <2>1. l.log[m] \in Seq(Input) /\ l.buffer[m] \in Seq(Input)
    BY <1>1, <1>3
  <2> DEFINE u == l.log[m]
             v == l.buffer[m]
  <2>2. u \in Seq(Input) /\ v \in Seq(Input) /\ x \in Input
    BY <1>4, <2>1
  <2> HIDE DEF u, v, x
  <2>3. u \o v \in Seq(Input) /\ u \o Append(v, x) = Append(u \o v, x)
    BY <2>2, Concatenated, ElemsFacts
  <2> QED
    BY <2>3 DEF u, v
<1>7. Those(o, F) = [i \in 1..Handled(l, p) |-> [q \in {p} |-> i]]
  BY DEF InOrder
<1> HIDE DEF p, m, r, x, o, F
<1>8. Those(Append(o, x), F) = IF x \in F THEN Append(Those(o, F), x) ELSE Those(o, F)
  BY <1>4, <1>6, ThoseAppend
<1>9. CASE p = n
  <2>1. m \in Targets(n, r)
    BY <1>2, <1>9, TargetFacts DEF p, m
  <2>2. Those(k.log[m] \o k.buffer[m], F) = Append(Those(o, F), x)
    BY <1>2, <1>4, <1>5, <1>6, <1>8, <1>9, <2>1 DEF F
  <2> DEFINE c == l.runs[n]
  <2>3. c \in Nat \ {0} /\ Handled(l, p) = c - 1 /\ Handled(k, p) = c
    BY <1>1, <1>2, <1>3, <1>9 DEF Handled
  <2>4. x = [q \in {p} |-> c]
    BY <1>4, <1>9
  <2> HIDE DEF c
  <2>5. Append([i \in 1..(c - 1) |-> [q \in {p} |-> i]], [q \in {p} |-> c]) = [i \in 1..c |-> [q \in {p} |-> i]]
    BY <2>3
  <2> QED
    BY <1>7, <2>2, <2>3, <2>4, <2>5 DEF p, m, F
<1>10. CASE p # n
  <2>1. x \notin F
    BY <1>4, <1>10, OtherTrigger DEF F
  <2>2. Those(k.log[m] \o k.buffer[m], F) = Those(o, F)
    <3>1. CASE m \in Targets(n, r)
      BY <1>2, <1>5, <1>6, <1>8, <2>1, <3>1
    <3>2. CASE m \notin Targets(n, r)
      BY <1>2, <1>5, <3>2 DEF o
    <3> QED
      BY <3>1, <3>2
  <2>3. Handled(k, p) = Handled(l, p)
    BY <1>1, <1>2, <1>3, <1>10 DEF Handled
  <2> QED
    BY <1>7, <2>2, <2>3 DEF p, m, F
<1> QED
  BY <1>9, <1>10

(* A completion triggers a join if it is the last of its predecessors. *)
LEMMA HandleBarrier ==
  ASSUME Sound(edges), NoTwice(edges), NEW l \in LoopState, NEW n \in Node, l.status[n] = "running",
         Barrier(edges, l), NEW k, k = _handle_completion(l, n)
  PROVE  Barrier(edges, k)
<1>0. /\ k \in LoopState
      /\ k.status = [l.status EXCEPT ![n] = "completed"]
      /\ k.outputs = [l.outputs EXCEPT ![n] = IF l.result[n].out THEN l.runs[n] ELSE @]
      /\ k.runs = l.runs /\ k.log = l.log
      /\ \A m \in Node : k.buffer[m] = IF m \in Targets(n, l.result[n].route) /\ Ready(k, m)
                                       THEN Append(l.buffer[m], Given(k, n, m)) ELSE l.buffer[m]
      /\ l.result[n].route \in Routes \cup {NONE}
  <2>1. Handles(l, n, k)
    BY HandleFacts
  <2> QED
    BY <2>1 DEF Handles
<1> SUFFICES ASSUME NEW j \in Joins, Plain(edges, j),
                    \A p \in Preds(edges, j) \ {START} : k.runs[p] <= 1
             PROVE  k.log[j] \o k.buffer[j]
                      = IF Complete(edges, k, j) THEN << Joined(edges, k, j) >> ELSE <<>>
  BY DEF Barrier
<1> DEFINE r == l.result[n].route
<1>1. j \in Node /\ START # n
  BY Constants
<1>2. /\ k \in LoopState /\ k.status = [l.status EXCEPT ![n] = "completed"]
      /\ k.outputs = [l.outputs EXCEPT ![n] = IF l.result[n].out THEN l.runs[n] ELSE @]
      /\ k.runs = l.runs /\ k.log = l.log /\ r \in Routes \cup {NONE}
      /\ \A m \in Node : k.buffer[m] = IF m \in Targets(n, r) /\ Ready(k, m)
                                       THEN Append(l.buffer[m], Given(k, n, m)) ELSE l.buffer[m]
  BY <1>0
<1>3. /\ l.buffer \in [Node -> Seq(Input)] /\ l.log \in [Node -> Seq(Input)]
      /\ l.status \in [Node -> Status] /\ l.outputs \in [Node -> Nat]
  BY LoopTypes
<1>4. l.log[j] \o l.buffer[j] = IF Complete(edges, l, j) THEN << Joined(edges, l, j) >> ELSE <<>>
  BY <1>2 DEF Barrier
<1>5. \A p \in Preds(edges, j) : \E e \in Elems(edges) : e.from = p /\ e.to = j /\ e.route = {}
  BY DEF Preds, Plain, Elems
<1> HIDE DEF r
<1>6. CASE n \in Preds(edges, j)
  <2>1. j \in Targets(n, r)
    BY <1>2, <1>5, <1>6, TargetFacts
  <2>2. ~Complete(edges, l, j)
    BY <1>1, <1>6 DEF Complete
  <2>3. l.log[j] \o l.buffer[j] = <<>>
    BY <1>4, <2>2
  <2>4. CASE Complete(edges, k, j)
    <3> DEFINE x == Joined(edges, k, j)
    <3>1. k.buffer[j] = Append(l.buffer[j], x)
      BY <1>1, <1>2, <2>1, <2>4 DEF Ready, Given
    <3>2. x \in Input
      BY <1>1, <1>2, GivenType DEF Given
    <3>3. l.log[j] \in Seq(Input) /\ l.buffer[j] \in Seq(Input)
      BY <1>1, <1>3
    <3> DEFINE u == l.log[j]
               v == l.buffer[j]
    <3>4. u \in Seq(Input) /\ v \in Seq(Input) /\ u \o v = <<>> /\ k.log[j] \o k.buffer[j] = u \o Append(v, x)
      BY <1>2, <2>3, <3>1, <3>3
    <3> HIDE DEF x, u, v
    <3>6. k.log[j] \o k.buffer[j] = Append(<<>>, x)
      BY <3>2, <3>4, Concatenated
    <3>5. Append(<<>>, x) = <<x>>
      OBVIOUS
    <3> QED
      BY <2>4, <3>5, <3>6 DEF x
  <2>5. CASE ~Complete(edges, k, j)
    <3>1. k.buffer[j] = l.buffer[j]
      BY <1>1, <1>2, <2>5 DEF Ready
    <3> QED
      BY <1>2, <2>3, <2>5, <3>1
  <2> QED
    BY <2>4, <2>5
<1>7. CASE n \notin Preds(edges, j)
  <2>1. j \notin Targets(n, r)
    BY <1>2, <1>7, TargetFacts, EdgeFacts
  <2>2. k.buffer[j] = l.buffer[j]
    BY <1>1, <1>2, <2>1
  <2>3. \A p \in Preds(edges, j) : p = START \/ p \in Node
    <3>1. \A e \in Elems(edges) : e.from \in Node \cup {START}
      BY EdgeFacts
    <3> QED
      BY <1>5, <3>1
  <2>4. \A p \in Preds(edges, j) : p = START \/ (k.status[p] = l.status[p] /\ k.outputs[p] = l.outputs[p])
    BY <1>2, <1>3, <1>7, <2>3
  <2>5. Complete(edges, k, j) <=> Complete(edges, l, j)
    BY <2>4 DEF Complete
  <2>6. Joined(edges, k, j) = Joined(edges, l, j)
    BY <2>4 DEF Joined
  <2> QED
    BY <1>2, <1>4, <2>2, <2>5, <2>6
<1> QED
  BY <1>6, <1>7

(* In the orchestrator's graph a node has one next node at most. *)
LEMMA OneTarget ==
  ASSUME Sound(edges), NoTwice(edges), edges = build_workflow,
         NEW n \in Node \cup {START}, NEW r \in Routes \cup {NONE},
         NEW a \in Targets(n, r), NEW b \in Targets(n, r)
  PROVE  a = b
<1> DEFINE hits    == {e \in Elems(edges) : e.from = n /\ (e.route = {} \/ r \in e.route)}
           default == {e \in Elems(edges) : e.from = n /\ e.route = {DEFAULT_ROUTE}}
           next    == get_next_pending_nodes(n, r)
<1>1. edges \in Seq(Edge)
  BY DEF Sound
<1>2. /\ Those(edges, hits) \in Seq(Edge) /\ Elems(Those(edges, hits)) = hits
      /\ Those(edges, default) \in Seq(Edge) /\ Elems(Those(edges, default)) = default
  <2>1. Elems(edges) \cap hits = hits /\ Elems(edges) \cap default = default
    OBVIOUS
  <2> HIDE DEF hits, default
  <2> QED
    BY <1>1, <2>1, ThoseFacts, ZenonT(30)
<1>3. Elems(next) = IF \E e \in hits : e.route # {} THEN hits ELSE hits \cup default
  <2>1. next = IF \E e \in hits : e.route # {} THEN Those(edges, hits)
               ELSE Those(edges, hits) \o Those(edges, default)
    BY DEF get_next_pending_nodes
  <2>2. Elems(Those(edges, hits) \o Those(edges, default)) = hits \cup default
    <3> DEFINE u == Those(edges, hits)
               v == Those(edges, default)
    <3>1. u \in Seq(Edge) /\ v \in Seq(Edge) /\ Elems(u) = hits /\ Elems(v) = default
      BY <1>2
    <3> HIDE DEF u, v, hits, default
    <3>2. Elems(u \o v) = hits \cup default
      BY <3>1, ElemsFacts
    <3> QED
      BY <3>2 DEF u, v
  <2> HIDE DEF hits, default, next
  <2> QED
    BY <1>2, <2>1, <2>2
<1>4. \A e \in Elems(edges) :
         \/ e.from = 0 /\ e.to = 1 /\ e.route = {}
         \/ e.from = 1 /\ e.to = 2 /\ e.route = {}
         \/ e.from = 2 /\ e.to = 3 /\ e.route = {"judge"}
         \/ e.from = 2 /\ e.to = 4 /\ e.route = {DEFAULT_ROUTE}
         \/ e.from = 3 /\ e.to = 2 /\ e.route = {"execute"}
         \/ e.from = 3 /\ e.to = 1 /\ e.route = {DEFAULT_ROUTE}
  <2>1. DOMAIN build_workflow = 1..6
    BY DEF build_workflow
  <2>2. ASSUME NEW i \in 1..6
        PROVE  LET e == build_workflow[i]
               IN  \/ e.from = 0 /\ e.to = 1 /\ e.route = {}
                   \/ e.from = 1 /\ e.to = 2 /\ e.route = {}
                   \/ e.from = 2 /\ e.to = 3 /\ e.route = {"judge"}
                   \/ e.from = 2 /\ e.to = 4 /\ e.route = {DEFAULT_ROUTE}
                   \/ e.from = 3 /\ e.to = 2 /\ e.route = {"execute"}
                   \/ e.from = 3 /\ e.to = 1 /\ e.route = {DEFAULT_ROUTE}
    BY DEF build_workflow, START
  <2> QED
    BY <2>1, <2>2 DEF Elems
<1>5. r # DEFAULT_ROUTE /\ DEFAULT_ROUTE # "judge" /\ DEFAULT_ROUTE # "execute"
  BY Constants DEF DEFAULT_ROUTE, NONE
<1>6. PICK e \in Elems(next), f \in Elems(next) : e.to = a /\ f.to = b
  BY DEF Targets
<1>7. e \in Elems(edges) /\ f \in Elems(edges) /\ e.from = n /\ f.from = n
  BY <1>3, <1>6
<1> HIDE DEF next
<1>8. CASE \E x \in hits : x.route # {}
  <2>1. e \in hits /\ f \in hits
    BY <1>3, <1>6, <1>8
  <2> QED
    BY <1>4, <1>5, <1>6, <1>7, <2>1
<1>9. CASE ~(\E x \in hits : x.route # {})
  <2>1. e \in hits \cup default /\ f \in hits \cup default
    BY <1>3, <1>6, <1>9
  <2>2. e.route = {} \/ e.route = {DEFAULT_ROUTE}
    BY <1>9, <2>1
  <2>3. f.route = {} \/ f.route = {DEFAULT_ROUTE}
    BY <1>9, <2>1
  <2> QED
    BY <1>4, <1>5, <1>6, <1>7, <2>2, <2>3
<1> QED
  BY <1>8, <1>9

(* In a graph with one next node at most, a completion hands the one token *)
(* on.                                                                     *)
LEMMA HandleToken ==
  ASSUME Sound(edges), NoTwice(edges), edges = build_workflow,
         NEW l \in LoopState, NEW n \in Node, n \in Elems(l.pending), OneToken(l),
         NEW k, k = _handle_completion(l, n)
  PROVE  OneToken(k) /\ k.pending = <<>>
<1>1. Handles(l, n, k)
  BY HandleFacts
<1> DEFINE r == l.result[n].route
<1>2. /\ k \in LoopState /\ k.pending = Those(l.pending, Node \ {n}) /\ r \in Routes \cup {NONE}
      /\ \A m \in Node : k.buffer[m] = IF m \in Targets(n, r) /\ Ready(k, m)
                                       THEN Append(l.buffer[m], Given(k, n, m)) ELSE l.buffer[m]
  BY <1>1 DEF Handles
<1>3. l.pending \in Seq(Node) /\ Elems(l.pending) \subseteq Node /\ k.pending \in Seq(Node)
  BY <1>2, LoopTypes, ElemsFacts
<1>4. Elems(k.pending) = Elems(l.pending) \cap (Node \ {n})
  BY <1>2, <1>3, ThoseFacts
<1>5. \A m \in Node : l.buffer[m] = <<>>
  BY <1>3 DEF OneToken, Busy
<1>6. Elems(l.pending) = {n}
  BY <1>3 DEF OneToken, Busy
<1>7. k.pending = <<>>
  BY <1>3, <1>4, <1>6, ElemsFacts
<1>8. \A a, b \in Targets(n, r) : a = b
  BY <1>2, OneTarget
<1> HIDE DEF r
<1>9. \A m \in Node : k.buffer[m] # <<>> => m \in Targets(n, r)
  BY <1>2, <1>5
<1>10. \A m \in Node : Len(k.buffer[m]) <= 1
  <2> TAKE m \in Node
  <2>1. k.buffer[m] = <<>> \/ k.buffer[m] = Append(<<>>, Given(k, n, m))
    BY <1>2, <1>5
  <2>2. Len(Append(<<>>, Given(k, n, m))) = 1 /\ Len(<<>>) = 0
    OBVIOUS
  <2>3. CASE k.buffer[m] = <<>>
    BY <2>2, <2>3
  <2>4. CASE k.buffer[m] = Append(<<>>, Given(k, n, m))
    <3>1. Len(k.buffer[m]) = 1
      BY <2>2, <2>4
    <3> QED
      BY <3>1
  <2> QED
    BY <2>1, <2>3, <2>4
<1>11. Elems(k.pending) = {}
  BY <1>4, <1>6
<1> QED
  BY <1>7, <1>8, <1>9, <1>10, <1>11 DEF OneToken, Busy

(* A completion keeps the invariant. *)
LEMMA HandleKeeps ==
  ASSUME Sound(edges), NoTwice(edges), NEW l, Good(edges, l), NEW n \in Elems(l.pending),
         NEW k, k = _handle_completion(l, n)
  PROVE  Good(edges, k) /\ k.result = l.result /\ Elems(k.pending) = Elems(l.pending) \ {n}
<1>1. /\ l \in LoopState /\ NoTwice(l.keys) /\ NoTwice(l.pending) /\ Keyed(l) /\ Counted(l)
      /\ InOrder(edges, l) /\ Barrier(edges, l) /\ (edges = build_workflow => OneToken(l))
  BY DEF Good
<1>2. l.pending \in Seq(Node) /\ l.status \in [Node -> Status] /\ Elems(l.pending) \subseteq Node
  BY <1>1, LoopTypes, ElemsFacts
<1>3. n \in Node /\ l.status[n] = "running" /\ l.runs[n] # 0
  BY <1>1, <1>2 DEF Counted
<1>4. Handles(l, n, k)
  BY <1>1, <1>3, HandleFacts
<1>5. /\ k \in LoopState /\ k.pending = Those(l.pending, Node \ {n})
      /\ k.status = [l.status EXCEPT ![n] = "completed"] /\ k.runs = l.runs /\ k.result = l.result
      /\ Keyed(k) /\ NoTwice(k.keys)
  BY <1>1, <1>4 DEF Handles
<1>6. Elems(k.pending) = Elems(l.pending) \ {n} /\ NoTwice(k.pending)
  <2>1. Elems(k.pending) = Elems(l.pending) \cap (Node \ {n}) /\ NoTwice(k.pending)
    BY <1>1, <1>2, <1>5, ThoseFacts
  <2> QED
    BY <1>2, <2>1
<1>7. Counted(k)
  <2> SUFFICES ASSUME NEW m \in Node
               PROVE  /\ m \in Elems(k.pending) <=> k.status[m] = "running"
                      /\ k.status[m] = "inactive" <=> k.runs[m] = 0
    BY DEF Counted
  <2>1. /\ m \in Elems(l.pending) <=> l.status[m] = "running"
        /\ l.status[m] = "inactive" <=> l.runs[m] = 0
    BY <1>1 DEF Counted
  <2>2. CASE m = n
    BY <1>2, <1>3, <1>5, <1>6, <2>2
  <2>3. CASE m # n
    BY <1>2, <1>5, <1>6, <2>1, <2>3
  <2> QED
    BY <2>2, <2>3
<1>8. InOrder(edges, k)
  BY <1>1, <1>3, HandleInOrder
<1>9. Barrier(edges, k)
  BY <1>1, <1>3, HandleBarrier
<1>10. edges = build_workflow => OneToken(k)
  BY <1>1, <1>3, HandleToken
<1> QED
  BY <1>5, <1>6, <1>7, <1>8, <1>9, <1>10 DEF Good

(* The states after the first i completions, as the function that the      *)
(* definition recurses on.                                                 *)
After(l, ns) ==
  LET f[i \in 0..Len(ns)] == IF i = 0 THEN {l} ELSE {_handle_completion(k, ns[i]) : k \in f[i - 1]}
  IN  f

AfterStep(l, ns, f, i) == IF i = 0 THEN {l} ELSE {_handle_completion(k, ns[i]) : k \in f[i - 1]}

(* The recursion has a solution. *)
LEMMA AfterDef ==
  ASSUME NEW l, NEW T, NEW ns \in Seq(T)
  PROVE  \A i \in 0..Len(ns) : After(l, ns)[i] = AfterStep(l, ns, After(l, ns), i)
<1> DEFINE Step(f, i) == AfterStep(l, ns, f, i)
           Has(m) == \E g : g = [i \in 0..m |-> Step(g, i)]
           P == {m \in Nat : Has(m)}
<1>0. Len(ns) \in Nat
  OBVIOUS
<1>a. ASSUME NEW f, NEW g, NEW i \in Nat, i # 0 => f[i - 1] = g[i - 1] PROVE Step(f, i) = Step(g, i)
  BY <1>a DEF AfterStep
<1>b. After(l, ns) = CHOOSE f : f = [i \in 0..Len(ns) |-> Step(f, i)]
  BY DEF After, AfterStep
<1> HIDE DEF Step
<1>1. 0 \in P
  <2> DEFINE g == [i \in 0..0 |-> Step([j \in {} |-> j], i)]
  <2>1. g = [i \in 0..0 |-> Step(g, i)]
    <3>1. \A i \in 0..0 : Step([j \in {} |-> j], i) = Step(g, i)
      <4> HIDE DEF g
      <4> QED
        BY <1>a
    <3> QED
      BY <3>1
  <2> HIDE DEF g
  <2>2. Has(0)
    BY <2>1
  <2> QED
    BY <2>2
<1>2. ASSUME NEW m \in Nat, m \in P PROVE m + 1 \in P
  <2>1. PICK g : g = [i \in 0..m |-> Step(g, i)]
    BY <1>2
  <2> DEFINE h == [i \in 0..(m + 1) |-> IF i = m + 1 THEN Step(g, i) ELSE g[i]]
  <2>2. ASSUME NEW i \in 0..(m + 1) PROVE h[i] = Step(h, i)
    <3>1. h[i] = Step(g, i)
      <4>1. CASE i = m + 1
        BY <4>1
      <4>2. CASE i \in 0..m
        <5>1. h[i] = g[i]
          BY <4>2
        <5>2. g[i] = Step(g, i)
          BY <2>1, <4>2
        <5> QED
          BY <5>1, <5>2
      <4> QED
        BY <4>1, <4>2
    <3>2. i # 0 => h[i - 1] = g[i - 1]
      OBVIOUS
    <3> HIDE DEF h
    <3>3. Step(g, i) = Step(h, i)
      BY <1>a, <3>2
    <3> QED
      BY <3>1, <3>3
  <2>3. h = [i \in 0..(m + 1) |-> Step(h, i)]
    BY <2>2
  <2> HIDE DEF h
  <2>4. Has(m + 1)
    BY <2>3
  <2> QED
    BY <2>4
<1> HIDE DEF P
<1>3. Len(ns) \in P
  BY <1>0, <1>1, <1>2, Induction
<1>4. PICK g : g = [i \in 0..Len(ns) |-> Step(g, i)]
  BY <1>3 DEF P
<1>5. After(l, ns) = [i \in 0..Len(ns) |-> Step(After(l, ns), i)]
  BY <1>4, <1>b
<1>6. \A i \in 0..Len(ns) : After(l, ns)[i] = Step(After(l, ns), i)
  BY <1>5
<1> QED
  BY <1>6 DEF Step

(* The completions of a batch keep the invariant, by induction over it. *)
LEMMA CompletedKeeps ==
  ASSUME Sound(edges), NoTwice(edges), NEW l, Good(edges, l),
         NEW ns \in Seq(Node), NoTwice(ns), Elems(ns) \subseteq Elems(l.pending),
         NEW k \in Completed(l, ns)
  PROVE  Good(edges, k)
<1> DEFINE f == After(l, ns)
           Left(i) == Elems(l.pending) \ {ns[j] : j \in 1..i}
           P == {i \in Nat : i <= Len(ns) => \A q \in f[i] : Good(edges, q) /\ Elems(q.pending) = Left(i)}
<1>0. Len(ns) \in Nat /\ DOMAIN ns = 1..Len(ns)
  OBVIOUS
<1>1. \A i \in 0..Len(ns) : f[i] = AfterStep(l, ns, f, i)
  BY AfterDef
<1>2. Completed(l, ns) = f[Len(ns)]
  BY DEF Completed, After
<1> HIDE DEF f
<1>3. 0 \in P
  <2>1. f[0] = {l}
    <3>1. 0 \in 0..Len(ns)
      BY <1>0
    <3>2. f[0] = AfterStep(l, ns, f, 0)
      BY <1>1, <3>1
    <3>3. AfterStep(l, ns, f, 0) = {l}
      BY DEF AfterStep
    <3> QED
      BY <3>2, <3>3
  <2>2. Left(0) = Elems(l.pending)
    OBVIOUS
  <2> HIDE DEF Left
  <2> QED
    BY <2>1, <2>2
<1>4. ASSUME NEW i \in Nat, i \in P PROVE i + 1 \in P
  <2>1. SUFFICES ASSUME i + 1 <= Len(ns), NEW q \in f[i + 1]
                 PROVE  Good(edges, q) /\ Elems(q.pending) = Left(i + 1)
    OBVIOUS
  <2>2. i + 1 \in 0..Len(ns) /\ i + 1 \in DOMAIN ns /\ i + 1 # 0 /\ (i + 1) - 1 = i
    BY <1>0, <2>1
  <2>3. f[i + 1] = {_handle_completion(p, ns[i + 1]) : p \in f[i]}
    BY <1>1, <2>2 DEF AfterStep
  <2>4. PICK p \in f[i] : q = _handle_completion(p, ns[i + 1])
    BY <2>1, <2>3
  <2>5. Good(edges, p) /\ Elems(p.pending) = Left(i)
    <3>1. i <= Len(ns)
      BY <1>0, <2>1
    <3>2. \A x \in f[i] : Good(edges, x) /\ Elems(x.pending) = Left(i)
      BY <1>4, <3>1
    <3> QED
      BY <2>4, <3>2
  <2>6. ns[i + 1] \in Elems(ns) /\ \A j \in 1..i : ns[j] # ns[i + 1]
    BY <1>0, <2>2 DEF Elems, NoTwice
  <2>7. ns[i + 1] \in Elems(p.pending)
    BY <2>5, <2>6
  <2>8. Good(edges, q) /\ Elems(q.pending) = Elems(p.pending) \ {ns[i + 1]}
    BY <2>4, <2>5, <2>7, HandleKeeps
  <2>9. Left(i + 1) = Left(i) \ {ns[i + 1]}
    <3>1. \A j \in 1..(i + 1) : j \in 1..i \/ j = i + 1
      OBVIOUS
    <3>2. \A j \in 1..i : j \in 1..(i + 1)
      OBVIOUS
    <3>3. i + 1 \in 1..(i + 1)
      OBVIOUS
    <3>4. {ns[j] : j \in 1..(i + 1)} = {ns[j] : j \in 1..i} \cup {ns[i + 1]}
      BY <3>1, <3>2, <3>3
    <3> QED
      BY <3>4
  <2> QED
    BY <2>5, <2>8, <2>9
<1> HIDE DEF P
<1>5. Len(ns) \in P
  BY <1>0, <1>3, <1>4, Induction
<1> QED
  BY <1>0, <1>2, <1>5 DEF P

(***************************************************************************)
(* Starting runs.                                                          *)
(***************************************************************************)

(* What is started is triggered and not running, each node once, and       *)
(* something is started if nothing runs and something is triggered.        *)
LEMMA StartableFacts ==
  ASSUME NEW l, Good(edges, l), NEW start, start = below_limit(l, startable(l))
  PROVE  /\ start \in Seq(Node) /\ NoTwice(start)
         /\ Elems(start) \subseteq Elems(l.keys) \ Elems(l.pending)
         /\ l.pending = <<>> /\ start = <<>> => l.keys = <<>>
<1> DEFINE ready == startable(l)
           able  == {n \in Node : n \notin Elems(l.pending) /\ l.status[n] # "running"}
           slots == IF Len(l.pending) < MaxConcurrency THEN MaxConcurrency - Len(l.pending) ELSE 0
<1>1. l.keys \in Seq(Node) /\ l.pending \in Seq(Node) /\ NoTwice(l.keys) /\ Counted(l)
  BY LoopTypes DEF Good
<1>2. ready \in Seq(Node) /\ NoTwice(ready) /\ Elems(ready) = Elems(l.keys) \cap able
  <2>1. ready = Those(l.keys, able)
    BY DEF startable
  <2> HIDE DEF ready, able
  <2> QED
    BY <1>1, <2>1, ThoseFacts
<1>3. slots \in Nat
  BY <1>1, Constants
<1>4. start = IF MaxConcurrency = 0 \/ Len(ready) <= slots THEN ready ELSE SubSeq(ready, 1, slots)
  BY DEF below_limit
<1>5. start \in Seq(Node) /\ NoTwice(start) /\ Elems(start) \subseteq Elems(ready)
  <2> HIDE DEF ready, slots
  <2>1. CASE start = ready
    BY <1>2, <2>1
  <2>2. CASE start = SubSeq(ready, 1, slots) /\ slots < Len(ready)
    <3>1. start \in Seq(Node) /\ Len(start) = slots /\ \A i \in 1..slots : start[i] = ready[i]
      BY <1>2, <1>3, <2>2
    <3>2. DOMAIN start = 1..slots /\ 1..slots \subseteq DOMAIN ready
      BY <1>2, <1>3, <2>2, <3>1
    <3> QED
      BY <1>2, <3>1, <3>2 DEF Elems, NoTwice
  <2>3. start = ready \/ (start = SubSeq(ready, 1, slots) /\ slots < Len(ready))
    BY <1>2, <1>3, <1>4
  <2> QED
    BY <2>1, <2>2, <2>3
<1>6. Elems(start) \subseteq Elems(l.keys) \ Elems(l.pending)
  BY <1>2, <1>5
<1>7. ASSUME l.pending = <<>>, start = <<>> PROVE l.keys = <<>>
  <2>1. slots = MaxConcurrency
    BY <1>7, Constants
  <2>2. ready = <<>>
    <3> HIDE DEF ready, slots
    <3>1. CASE start = ready
      BY <1>7, <3>1
    <3>2. CASE start # ready
      <4>1. MaxConcurrency # 0 /\ slots < Len(ready) /\ start = SubSeq(ready, 1, slots)
        BY <1>2, <1>3, <1>4, <3>2
      <4>2. Len(start) = slots
        BY <1>2, <1>3, <4>1
      <4> QED
        BY <1>3, <1>7, <2>1, <4>1, <4>2
    <3> QED
      BY <3>1, <3>2
  <2>3. Elems(l.pending) = {} /\ Elems(ready) = {}
    BY <1>7, <2>2 DEF Elems
  <2>4. Elems(l.keys) \subseteq able
    BY <1>1, <2>3, ElemsFacts DEF Counted
  <2>5. Elems(l.keys) = {}
    BY <1>2, <2>3, <2>4
  <2> QED
    BY <1>1, <2>5, ElemsFacts
<1> QED
  BY <1>5, <1>6, <1>7

(* What starting the nodes of S does to each field. *)
Starts(l, start, k) ==
  LET S == Elems(start)
  IN  /\ k \in LoopState
      /\ \A n \in Node :
           IF n \in S
           THEN /\ k.buffer[n] = Tail(l.buffer[n]) /\ k.log[n] = Append(l.log[n], Head(l.buffer[n]))
                /\ k.runs[n] = l.runs[n] + 1 /\ k.status[n] = "running"
           ELSE /\ k.buffer[n] = l.buffer[n] /\ k.log[n] = l.log[n]
                /\ k.runs[n] = l.runs[n] /\ k.status[n] = l.status[n]
      /\ k.outputs = l.outputs /\ k.pending = l.pending \o start
      /\ k.keys = Those(l.keys, {n \in Node : k.buffer[n] # <<>>})

(* _start_node_task does that. *)
LEMMA StartFacts ==
  ASSUME NEW l \in LoopState, NEW start \in Seq(Node),
         \A n \in Elems(start) : l.buffer[n] # <<>>,
         NEW k, k = _start_node_task(l, start)
  PROVE  Starts(l, start, k)
<1> DEFINE S  == Elems(start)
           bu == [n \in Node |-> IF n \in S THEN _pop_trigger(l.buffer[n]).rest ELSE l.buffer[n]]
           ke == Those(l.keys, {n \in Node : bu[n] # <<>>})
           ru == [n \in Node |-> IF n \in S THEN l.runs[n] + 1 ELSE l.runs[n]]
           st == [n \in Node |-> IF n \in S THEN "running" ELSE l.status[n]]
           re == [n \in Node |-> IF n \in S THEN Running ELSE l.result[n]]
           lo == [n \in Node |-> IF n \in S THEN Append(l.log[n], _pop_trigger(l.buffer[n]).first) ELSE l.log[n]]
           pe == l.pending \o start
<1>1. /\ l.buffer \in [Node -> Seq(Input)] /\ l.keys \in Seq(Node) /\ l.pending \in Seq(Node)
      /\ l.status \in [Node -> Status] /\ l.runs \in [Node -> Nat]
      /\ l.result \in [Node -> Result] /\ l.log \in [Node -> Seq(Input)]
  BY LoopTypes
<1>2. \A n \in Node : n \in S => Head(l.buffer[n]) \in Input /\ Tail(l.buffer[n]) \in Seq(Input)
  BY <1>1
<1>3. bu \in [Node -> Seq(Input)] /\ \A n \in Node : bu[n] = IF n \in S THEN Tail(l.buffer[n]) ELSE l.buffer[n]
  BY <1>1, <1>2 DEF _pop_trigger
<1>4. lo \in [Node -> Seq(Input)]
      /\ \A n \in Node : lo[n] = IF n \in S THEN Append(l.log[n], Head(l.buffer[n])) ELSE l.log[n]
  BY <1>1, <1>2 DEF _pop_trigger
<1>5. ru \in [Node -> Nat] /\ st \in [Node -> Status]
  BY <1>1 DEF Status
<1>6. re \in [Node -> Result]
  <2>1. Running \in Result
    BY DEF Running, Result
  <2> QED
    BY <1>1, <2>1
<1>7. ke \in Seq(Node)
  <2> HIDE DEF bu
  <2> QED
    BY <1>1, ThoseFacts
<1>8. pe \in Seq(Node)
  BY <1>1, ElemsFacts
<1>9. k = [l EXCEPT !.buffer = bu, !.keys = ke, !.runs = ru, !.status = st, !.result = re, !.log = lo, !.pending = pe]
  BY DEF _start_node_task, LoopState
<1>10. \A n \in Node : /\ ru[n] = IF n \in S THEN l.runs[n] + 1 ELSE l.runs[n]
                       /\ st[n] = IF n \in S THEN "running" ELSE l.status[n]
  OBVIOUS
<1>11. ke = Those(l.keys, {n \in Node : bu[n] # <<>>})
  OBVIOUS
<1> HIDE DEF S, bu, ke, ru, st, re, lo
<1>12. /\ k \in LoopState /\ k.buffer = bu /\ k.keys = ke /\ k.runs = ru /\ k.status = st
       /\ k.log = lo /\ k.pending = pe /\ k.outputs = l.outputs
  BY <1>3, <1>4, <1>5, <1>6, <1>7, <1>8, <1>9 DEF LoopState
<1>13. \A n \in Node :
         IF n \in S
         THEN /\ k.buffer[n] = Tail(l.buffer[n]) /\ k.log[n] = Append(l.log[n], Head(l.buffer[n]))
              /\ k.runs[n] = l.runs[n] + 1 /\ k.status[n] = "running"
         ELSE /\ k.buffer[n] = l.buffer[n] /\ k.log[n] = l.log[n]
              /\ k.runs[n] = l.runs[n] /\ k.status[n] = l.status[n]
  BY <1>3, <1>4, <1>10, <1>12
<1>14. k.keys = Those(l.keys, {n \in Node : k.buffer[n] # <<>>})
  BY <1>11, <1>12
<1> QED
  BY <1>12, <1>13, <1>14 DEF Starts, S

(* Starting a run takes a trigger from the buffer to the log. *)
LEMMA StartTriggers ==
  ASSUME NEW l \in LoopState, NEW start \in Seq(Node), NEW k, Starts(l, start, k),
         \A n \in Elems(start) : l.buffer[n] # <<>>, NEW m \in Node
  PROVE  k.log[m] \o k.buffer[m] = l.log[m] \o l.buffer[m]
<1> DEFINE u == l.log[m]
           v == l.buffer[m]
<1>1. u \in Seq(Input) /\ v \in Seq(Input)
  BY LoopTypes
<1>2. CASE m \in Elems(start)
  <2>1. k.log[m] = Append(u, Head(v)) /\ k.buffer[m] = Tail(v) /\ v # <<>>
    BY <1>2 DEF Starts
  <2> HIDE DEF u, v
  <2>2. Head(v) \in Input
    BY <1>1, <2>1
  <2>3. Append(u, Head(v)) \o Tail(v) = u \o v
    BY <1>1, <2>1, <2>2, Concatenated
  <2> QED
    BY <2>1, <2>3 DEF u, v
<1>3. CASE m \notin Elems(start)
  BY <1>3 DEF Starts
<1> QED
  BY <1>2, <1>3

(* Starting runs keeps the invariant, and leaves no trigger behind if      *)
(* nothing runs.                                                           *)
LEMMA StartKeeps ==
  ASSUME Sound(edges), NEW l, Good(edges, l), NEW k \in _schedule_ready_nodes(l)
  PROVE  Good(edges, k) /\ (k.pending = <<>> => k.keys = <<>>)
<1> DEFINE start == below_limit(l, startable(l))
           S == Elems(start)
<1>1. /\ l \in LoopState /\ NoTwice(l.keys) /\ NoTwice(l.pending) /\ Keyed(l) /\ Counted(l)
      /\ InOrder(edges, l) /\ Barrier(edges, l) /\ (edges = build_workflow => OneToken(l))
  BY DEF Good
<1>2. /\ start \in Seq(Node) /\ NoTwice(start) /\ S \subseteq Elems(l.keys) \ Elems(l.pending)
      /\ l.pending = <<>> /\ start = <<>> => l.keys = <<>>
  BY StartableFacts
<1>3. k = _start_node_task(l, start)
  BY DEF _schedule_ready_nodes
<1> HIDE DEF start
<1>4. /\ l.buffer \in [Node -> Seq(Input)] /\ l.keys \in Seq(Node) /\ l.pending \in Seq(Node)
      /\ l.status \in [Node -> Status] /\ l.runs \in [Node -> Nat] /\ l.log \in [Node -> Seq(Input)]
  BY <1>1, LoopTypes
<1>5. S \subseteq Node /\ \A n \in S : l.buffer[n] # <<>> /\ l.status[n] # "running"
  BY <1>1, <1>2, <1>4 DEF Keyed, Counted
<1>6. Starts(l, start, k)
  BY <1>1, <1>2, <1>3, <1>5, StartFacts
<1>7. /\ k \in LoopState /\ k.outputs = l.outputs /\ k.pending = l.pending \o start
      /\ k.keys = Those(l.keys, {n \in Node : k.buffer[n] # <<>>})
  BY <1>6 DEF Starts
<1>8. \A n \in Node :
        IF n \in S
        THEN /\ k.buffer[n] = Tail(l.buffer[n]) /\ k.log[n] = Append(l.log[n], Head(l.buffer[n]))
             /\ k.runs[n] = l.runs[n] + 1 /\ k.status[n] = "running"
        ELSE /\ k.buffer[n] = l.buffer[n] /\ k.log[n] = l.log[n]
             /\ k.runs[n] = l.runs[n] /\ k.status[n] = l.status[n]
  BY <1>6 DEF Starts
<1>9. \A m \in Node : k.log[m] \o k.buffer[m] = l.log[m] \o l.buffer[m]
  BY <1>1, <1>2, <1>5, <1>6, StartTriggers
<1>10. NoTwice(k.pending) /\ Elems(k.pending) = Elems(l.pending) \cup S
  <2> DEFINE u == l.pending
  <2>1. u \in Seq(Node) /\ NoTwice(u) /\ Elems(u) \cap Elems(start) = {} /\ k.pending = u \o start
    BY <1>1, <1>2, <1>4, <1>7
  <2> HIDE DEF u
  <2>2. NoTwice(u \o start) /\ Elems(u \o start) = Elems(u) \cup Elems(start)
    BY <1>2, <2>1, ElemsFacts
  <2> QED
    BY <2>1, <2>2 DEF u
<1>11. NoTwice(k.keys) /\ Elems(k.keys) = Elems(l.keys) \cap {n \in Node : k.buffer[n] # <<>>}
  <2> DEFINE T == {n \in Node : k.buffer[n] # <<>>}
  <2>1. k.keys = Those(l.keys, T)
    BY <1>7
  <2> HIDE DEF T
  <2>2. NoTwice(k.keys) /\ Elems(k.keys) = Elems(l.keys) \cap T
    BY <1>1, <1>4, <2>1, ThoseFacts
  <2> QED
    BY <2>2 DEF T
<1>12. Keyed(k)
  <2>1. \A n \in Node : k.buffer[n] # <<>> => l.buffer[n] # <<>>
    BY <1>5, <1>8
  <2> QED
    BY <1>1, <1>11, <2>1 DEF Keyed
<1>13. Counted(k)
  <2> SUFFICES ASSUME NEW n \in Node
               PROVE  /\ n \in Elems(k.pending) <=> k.status[n] = "running"
                      /\ k.status[n] = "inactive" <=> k.runs[n] = 0
    BY DEF Counted
  <2>1. /\ n \in Elems(l.pending) <=> l.status[n] = "running"
        /\ l.status[n] = "inactive" <=> l.runs[n] = 0
    BY <1>1 DEF Counted
  <2>2. CASE n \in S
    BY <1>4, <1>8, <1>10, <2>2
  <2>3. CASE n \notin S
    BY <1>8, <1>10, <2>1, <2>3
  <2> QED
    BY <2>2, <2>3
<1>14. \A n \in Node : Handled(k, n) = Handled(l, n)
  <2> TAKE n \in Node
  <2>1. CASE n \in S
    <3>1. Handled(l, n) = l.runs[n] /\ Handled(k, n) = (l.runs[n] + 1) - 1
      BY <1>5, <1>8, <2>1 DEF Handled
    <3> QED
      BY <1>4, <3>1
  <2>2. CASE n \notin S
    BY <1>8, <2>2 DEF Handled
  <2> QED
    BY <2>1, <2>2
<1>15. InOrder(edges, k)
  <2> SUFFICES ASSUME NEW e \in Elems(edges), e.route = {}, e.from # START, e.to \notin Joins
               PROVE  Those(k.log[e.to] \o k.buffer[e.to], [{e.from} -> Nat])
                        = [i \in 1..Handled(k, e.from) |-> [q \in {e.from} |-> i]]
    BY DEF InOrder
  <2>1. e.to \in Node /\ e.from \in Node
    BY EdgeFacts
  <2>2. Those(l.log[e.to] \o l.buffer[e.to], [{e.from} -> Nat])
          = [i \in 1..Handled(l, e.from) |-> [q \in {e.from} |-> i]]
    BY <1>1 DEF InOrder
  <2>3. Handled(k, e.from) = Handled(l, e.from)
    BY <1>14, <2>1
  <2> QED
    BY <1>9, <2>1, <2>2, <2>3
<1>16. Barrier(edges, k)
  <2> SUFFICES ASSUME NEW j \in Joins, Plain(edges, j),
                      \A p \in Preds(edges, j) \ {START} : k.runs[p] <= 1
               PROVE  k.log[j] \o k.buffer[j]
                        = IF Complete(edges, k, j) THEN << Joined(edges, k, j) >> ELSE <<>>
    BY DEF Barrier
  <2>1. j \in Node /\ START \notin Node
    BY Constants
  <2>2. Preds(edges, j) \subseteq Node \cup {START}
    <3>1. \A i \in DOMAIN edges : edges[i].from \in Node \cup {START}
      BY EdgeFacts DEF Elems
    <3> QED
      BY <3>1 DEF Preds
  <2>3. \A p \in Preds(edges, j) \ {START} : l.runs[p] <= 1 /\ (p \in S => l.status[p] = "inactive")
    <3> TAKE p \in Preds(edges, j) \ {START}
    <3>1. p \in Node /\ k.runs[p] <= 1 /\ l.runs[p] \in Nat
      BY <1>4, <2>2
    <3>2. CASE p \in S
      <4>1. l.runs[p] = 0
        BY <1>8, <3>1, <3>2
      <4> QED
        BY <1>1, <3>1, <4>1 DEF Counted
    <3>3. CASE p \notin S
      BY <1>8, <3>1, <3>3
    <3> QED
      BY <3>2, <3>3
  <2>4. l.log[j] \o l.buffer[j] = IF Complete(edges, l, j) THEN << Joined(edges, l, j) >> ELSE <<>>
    BY <1>1, <2>3 DEF Barrier
  <2>5. Joined(edges, k, j) = Joined(edges, l, j)
    BY <1>7 DEF Joined
  <2>6. Complete(edges, k, j) <=> Complete(edges, l, j)
    <3>1. \A p \in Preds(edges, j) : p = START \/ p \in Node
      BY <2>2
    <3>2. ASSUME NEW p \in Preds(edges, j), p # START
          PROVE  k.status[p] = "completed" <=> l.status[p] = "completed"
      <4>1. CASE p \in S
        BY <1>8, <2>3, <3>1, <3>2, <4>1
      <4>2. CASE p \notin S
        BY <1>8, <3>1, <3>2, <4>2
      <4> QED
        BY <4>1, <4>2
    <3> QED
      BY <3>2 DEF Complete
  <2> QED
    BY <1>9, <2>1, <2>4, <2>5, <2>6
<1>17. ASSUME edges = build_workflow PROVE OneToken(k)
  <2>1. OneToken(l)
    BY <1>1, <1>17
  <2>2. \A n \in Node : l.buffer[n] \in Seq(Input) /\ Len(l.buffer[n]) <= 1
    BY <1>4, <2>1 DEF OneToken
  <2>3. \A n \in S : k.buffer[n] = <<>>
    <3> TAKE n \in S
    <3> DEFINE v == l.buffer[n]
    <3>1. k.buffer[n] = Tail(v) /\ v \in Seq(Input) /\ Len(v) <= 1 /\ v # <<>>
      BY <1>5, <1>8, <2>2
    <3> HIDE DEF v
    <3>2. Tail(v) \in Seq(Input) /\ Len(Tail(v)) = Len(v) - 1
      BY <3>1, HeadTailProperties
    <3>3. Len(v) = 1
      <4>1. Len(v) \in Nat \ {0}
        BY <3>1, EmptySeq
      <4> DEFINE c == Len(v)
      <4>2. c \in Nat \ {0} /\ c <= 1
        BY <3>1, <4>1
      <4> HIDE DEF c
      <4>3. c = 1
        BY <4>2
      <4> QED
        BY <4>3 DEF c
    <3>4. Len(Tail(v)) = 0
      BY <3>2, <3>3
    <3>5. Tail(v) = <<>>
      BY <3>2, <3>4, EmptySeq
    <3> QED
      BY <3>1, <3>5
  <2>4. \A n \in Node : Busy(k, n) => Busy(l, n)
    BY <1>5, <1>8, <1>10, <2>3 DEF Busy
  <2>5. \A n \in Node : Len(k.buffer[n]) <= 1
    <3> TAKE n \in Node
    <3>1. CASE n \in S
      <4>1. k.buffer[n] = <<>> /\ Len(<<>>) = 0
        BY <2>3, <3>1
      <4>2. Len(k.buffer[n]) = 0
        BY <4>1
      <4> QED
        BY <4>2
    <3>2. CASE n \notin S
      BY <1>8, <2>2, <3>2
    <3> QED
      BY <3>1, <3>2
  <2>6. ASSUME NEW n \in Elems(k.pending) PROVE k.buffer[n] = <<>>
    <3>1. CASE n \in S
      BY <2>3, <3>1
    <3>2. CASE n \notin S
      <4>1. n \in Elems(l.pending) /\ n \in Node
        BY <1>4, <1>10, <2>6, <3>2, ElemsFacts
      <4> QED
        BY <1>8, <2>1, <3>2, <4>1 DEF OneToken
    <3> QED
      BY <3>1, <3>2
  <2> QED
    BY <2>1, <2>4, <2>5, <2>6 DEF OneToken
<1>18. ASSUME k.pending = <<>> PROVE k.keys = <<>>
  <2>1. Elems(k.pending) = {}
    BY <1>18 DEF Elems
  <2>2. Elems(l.pending) = {} /\ S = {}
    BY <1>10, <2>1
  <2>3. l.pending = <<>> /\ start = <<>>
    <3> DEFINE u == l.pending
    <3>1. u \in Seq(Node) /\ start \in Seq(Node) /\ Elems(u) = {} /\ Elems(start) = {}
      BY <1>2, <1>4, <2>2
    <3> HIDE DEF u
    <3>2. u = <<>> /\ start = <<>>
      BY <3>1, ElemsFacts
    <3> QED
      BY <3>2 DEF u
  <2>4. Elems(l.keys) = {}
    BY <1>2, <2>3 DEF Elems
  <2>5. Elems(k.keys) = {} /\ k.keys \in Seq(Node)
    BY <1>7, <1>11, <2>4, LoopTypes
  <2> QED
    BY <2>5, ElemsFacts
<1> QED
  BY <1>1, <1>7, <1>10, <1>11, <1>12, <1>13, <1>15, <1>16, <1>17, <1>18 DEF Good

(***************************************************************************)
(* The steps of the specification.                                         *)
(***************************************************************************)

(* No trigger, no run: filtering finds nothing. *)
LEMMA ThoseNone ==
  ASSUME NEW S
  PROVE  Those(<<>>, S) = <<>>
<1> DEFINE s == <<>>
<1>1. s \in Seq(Input) /\ Elems(s) = {}
  BY DEF Elems
<1> HIDE DEF s
<1>2. Those(s, S) \in Seq(Input) /\ Elems(Those(s, S)) = {}
  BY <1>1, ThoseFacts
<1>3. Those(s, S) = <<>>
  BY <1>2, ElemsFacts
<1> QED
  BY <1>3 DEF s

(* The state before the first trigger. *)
LEMMA EmptyFacts ==
  /\ empty \in LoopState /\ empty.keys = <<>> /\ empty.pending = <<>>
  /\ \A n \in Node : /\ empty.buffer[n] = <<>> /\ empty.log[n] = <<>> /\ empty.runs[n] = 0
                     /\ empty.status[n] = "inactive"
<1>1. Running \in Result
  BY DEF Running, Result
<1>2. [n \in Node |-> <<>>] \in [Node -> Seq(Input)] /\ <<>> \in Seq(Node)
  OBVIOUS
<1>3. [n \in Node |-> "inactive"] \in [Node -> Status]
  BY DEF Status
<1>4. [n \in Node |-> 0] \in [Node -> Nat] /\ [n \in Node |-> Running] \in [Node -> Result]
  BY <1>1
<1> QED
  BY <1>2, <1>3, <1>4 DEF empty, LoopState

(* The triggers of START establish the invariant. *)
LEMMA SeedGood ==
  ASSUME Sound(edges), NoTwice(edges)
  PROVE  Good(edges, _seed_start_triggers(empty))
<1> DEFINE k == _seed_start_triggers(empty)
           T == Targets(START, NONE)
<1>1. /\ k \in LoopState /\ SameRuns(k, empty)
      /\ \A m \in Node : k.buffer[m] = IF m \in T /\ Ready(k, m)
                                       THEN Append(empty.buffer[m], Given(k, START, m)) ELSE empty.buffer[m]
      /\ Keyed(empty) => Keyed(k)
      /\ NoTwice(empty.keys) => NoTwice(k.keys)
  <2>1. k = _buffer_downstream_triggers(empty, START, get_next_pending_nodes(START, NONE))
    BY DEF _seed_start_triggers
  <2>2. empty \in LoopState /\ START \in Node \cup {START} /\ NONE \in Routes \cup {NONE}
    BY EmptyFacts
  <2> HIDE DEF k
  <2> QED
    BY <2>1, <2>2, DownstreamFacts
<1> HIDE DEF k, T
<1>2. \A m \in Node : k.buffer[m] = IF m \in T /\ Ready(k, m) THEN << Given(k, START, m) >> ELSE <<>>
  <2> TAKE m \in Node
  <2>1. empty.buffer[m] = <<>> /\ Append(<<>>, Given(k, START, m)) = << Given(k, START, m) >>
    BY EmptyFacts
  <2> QED
    BY <1>1, <2>1
<1>3. \A m \in Node : k.log[m] = <<>> /\ k.runs[m] = 0 /\ k.status[m] = "inactive"
  BY <1>1, EmptyFacts DEF SameRuns
<1>4. k.pending = <<>> /\ Elems(<<>>) = {} /\ NoTwice(<<>>)
  BY <1>1, EmptyFacts DEF SameRuns, Elems, NoTwice
<1>5. Keyed(k) /\ NoTwice(k.keys)
  <2>1. Keyed(empty) /\ NoTwice(empty.keys)
    BY <1>4, EmptyFacts DEF Keyed
  <2> QED
    BY <1>1, <2>1
<1>6. Counted(k)
  BY <1>3, <1>4 DEF Counted
<1>7. \A m \in Node : Given(k, START, m) \in Input
  BY <1>1, GivenType
<1>8. InOrder(edges, k)
  <2> SUFFICES ASSUME NEW e \in Elems(edges), e.route = {}, e.from # START, e.to \notin Joins
               PROVE  Those(k.log[e.to] \o k.buffer[e.to], [{e.from} -> Nat])
                        = [i \in 1..Handled(k, e.from) |-> [q \in {e.from} |-> i]]
    BY DEF InOrder
  <2> DEFINE m == e.to
             p == e.from
             F == [{p} -> Nat]
             x == Given(k, START, m)
  <2>1. m \in Node /\ p \in Node /\ m \notin Joins /\ p # START
    BY EdgeFacts
  <2>2. x \in Input /\ x \notin F
    <3>1. x = Output(k, START) /\ Output(k, START) \in [{START} -> Nat]
      BY <1>1, <2>1, GivenType DEF Given
    <3>2. x \in [{START} -> Nat] /\ START # p
      BY <2>1, <3>1
    <3> HIDE DEF x, p
    <3>3. x \notin [{p} -> Nat]
      BY <3>2, OtherTrigger
    <3> QED
      BY <1>7, <2>1, <3>3 DEF x
  <2>3. Handled(k, p) = 0
    BY <1>3, <2>1 DEF Handled
  <2>4. k.log[m] \o k.buffer[m] = <<>> \/ k.log[m] \o k.buffer[m] = Append(<<>>, x)
    <3>1. k.log[m] = <<>> /\ (k.buffer[m] = <<>> \/ k.buffer[m] = <<x>>)
      BY <1>2, <1>3, <2>1
    <3>2. <<>> \o <<>> = <<>> /\ <<>> \o <<x>> = Append(<<>>, x)
      OBVIOUS
    <3> QED
      BY <3>1, <3>2
  <2>5. <<>> \in Seq(Input)
    OBVIOUS
  <2> HIDE DEF m, p, F, x
  <2>6. Those(<<>>, F) = <<>> /\ Those(Append(<<>>, x), F) = <<>>
    BY <2>2, <2>5, ThoseNone, ThoseAppend, ZenonT(30)
  <2>7. Those(k.log[m] \o k.buffer[m], F) = <<>>
    BY <2>4, <2>6
  <2>8. [i \in 1..0 |-> [q \in {p} |-> i]] = <<>>
    OBVIOUS
  <2> QED
    BY <2>3, <2>7, <2>8 DEF m, p, F
<1>9. Barrier(edges, k)
  <2> SUFFICES ASSUME NEW j \in Joins, Plain(edges, j)
               PROVE  k.log[j] \o k.buffer[j]
                        = IF Complete(edges, k, j) THEN << Joined(edges, k, j) >> ELSE <<>>
    BY DEF Barrier
  <2>1. j \in Node /\ START \notin Node
    BY Constants
  <2>2. \A p \in Preds(edges, j) : \E e \in Elems(edges) : e.from = p /\ e.to = j /\ e.route = {}
    BY DEF Preds, Plain, Elems
  <2>3. k.log[j] \o k.buffer[j] = k.buffer[j]
    <3> DEFINE v == k.buffer[j]
    <3>1. v \in Seq(Input) /\ k.log[j] = <<>>
      BY <1>1, <1>3, <2>1, LoopTypes
    <3> HIDE DEF v
    <3>2. <<>> \o v = v
      BY <3>1
    <3> QED
      BY <3>1, <3>2 DEF v
  <2>4. CASE Complete(edges, k, j)
    <3>1. PICK p \in Preds(edges, j) : TRUE
      BY DEF Plain
    <3>2. PICK e \in Elems(edges) : e.from = p /\ e.to = j /\ e.route = {}
      BY <2>2
    <3>3. p = START
      <4>1. p \in Node \cup {START}
        BY <3>2, EdgeFacts
      <4> QED
        BY <1>3, <2>4, <4>1 DEF Complete
    <3>4. j \in T
      <4>1. START \in Node \cup {START} /\ NONE \in Routes \cup {NONE}
        OBVIOUS
      <4> QED
        BY <3>2, <3>3, <4>1, TargetFacts DEF T
    <3>5. Ready(k, j) /\ Given(k, START, j) = Joined(edges, k, j)
      BY <2>4 DEF Ready, Given
    <3> QED
      BY <1>2, <2>1, <2>3, <2>4, <3>4, <3>5
  <2>5. CASE ~Complete(edges, k, j)
    <3>1. ~Ready(k, j)
      BY <2>5 DEF Ready
    <3> QED
      BY <1>2, <2>1, <2>3, <2>5, <3>1
  <2> QED
    BY <2>4, <2>5
<1>10. ASSUME edges = build_workflow PROVE OneToken(k)
  <2>1. \A a, b \in T : a = b
    <3>1. START \in Node \cup {START} /\ NONE \in Routes \cup {NONE}
      OBVIOUS
    <3> QED
      BY <1>10, <3>1, OneTarget DEF T
  <2>2. \A m \in Node : k.buffer[m] # <<>> => m \in T
    BY <1>2
  <2>3. \A m \in Node : Len(k.buffer[m]) <= 1
    <3> TAKE m \in Node
    <3>1. Len(<<>>) = 0 /\ Len(<< Given(k, START, m) >>) = 1
      OBVIOUS
    <3>2. CASE k.buffer[m] = <<>>
      BY <3>1, <3>2
    <3>3. CASE k.buffer[m] = << Given(k, START, m) >>
      <4>1. Len(k.buffer[m]) = 1
        BY <3>1, <3>3
      <4> QED
        BY <4>1
    <3> QED
      BY <1>2, <3>2, <3>3
  <2> QED
    BY <1>4, <2>1, <2>2, <2>3 DEF OneToken, Busy
<1> QED
  BY <1>1, <1>4, <1>5, <1>6, <1>8, <1>9, <1>10 DEF Good, k

(* The end of a run changes its result only. *)
LEMMA ResultKeeps ==
  ASSUME NEW l, Good(edges, l), NEW n \in Node, NEW r \in Result,
         NEW k, k = [l EXCEPT !.result[n] = r]
  PROVE  Good(edges, k) /\ k.pending = l.pending /\ k.keys = l.keys
<1>1. l \in LoopState /\ l.result \in [Node -> Result]
  BY LoopTypes DEF Good
<1> DEFINE re == [l.result EXCEPT ![n] = r]
<1>2. re \in [Node -> Result]
  BY <1>1
<1>3. k = [l EXCEPT !.result = re]
  BY <1>1 DEF LoopState
<1> HIDE DEF re
<1>4. /\ k \in LoopState /\ k.buffer = l.buffer /\ k.keys = l.keys /\ k.pending = l.pending
      /\ k.status = l.status /\ k.outputs = l.outputs /\ k.runs = l.runs /\ k.log = l.log
  BY <1>1, <1>2, <1>3 DEF LoopState
<1>5. \A p : Handled(k, p) = Handled(l, p)
  BY <1>4 DEF Handled
<1>6. InOrder(edges, k)
  BY <1>4, <1>5 DEF Good, InOrder
<1>7. \A j : (Complete(edges, k, j) <=> Complete(edges, l, j)) /\ Joined(edges, k, j) = Joined(edges, l, j)
  BY <1>4 DEF Complete, Joined
<1>8. Barrier(edges, k)
  BY <1>4, <1>7 DEF Good, Barrier
<1>9. Keyed(k) /\ Counted(k) /\ (edges = build_workflow => OneToken(k))
  BY <1>4 DEF Good, Keyed, Counted, OneToken, Busy
<1> QED
  BY <1>4, <1>6, <1>8, <1>9 DEF Good

(* IInv is an invariant, whatever graph is built and however its nodes end. *)
THEOREM InductiveInvariant == Spec => []IInv
<1>1. Init => IInv
  <2> SUFFICES ASSUME Init PROVE IInv
    OBVIOUS
  <2>1. edges \in Graphs /\ validate_graph(edges) /\ at = ToEnd(ls)
    BY DEF Init
  <2>2. Sound(edges) /\ NoTwice(edges)
    BY <2>1, SoundGraph
  <2>3. ls \in _schedule_ready_nodes(_seed_start_triggers(empty))
    BY DEF Init
  <2>4. Good(edges, ls) /\ (ls.pending = <<>> => ls.keys = <<>>)
    BY <2>2, <2>3, SeedGood, StartKeeps
  <2> QED
    BY <2>1, <2>4 DEF IInv, ToEnd, loop_ends
<1>2. IInv /\ [Next]_vars => IInv'
  <2> SUFFICES ASSUME IInv, [Next]_vars PROVE IInv'
    OBVIOUS
  <2>1. edges \in Graphs /\ validate_graph(edges) /\ Sound(edges) /\ NoTwice(edges)
    BY SoundGraph DEF IInv
  <2>2. ASSUME at = "run"
        PROVE  Good(edges, ls) /\ ls.pending # <<>> /\ ls.pending \in Seq(Node)
    BY <2>2, LoopTypes DEF IInv, Good
  <2>3. ASSUME UNCHANGED edges, Good(edges, ls'), ls'.pending = <<>> => ls'.keys = <<>>,
               at' \in {"run", "done", "failed"}, at' = "run" <=> ls'.pending # <<>>
        PROVE  IInv'
    <3>1. edges' \in Graphs /\ validate_graph(edges')
      BY <2>1, <2>3
    <3>2. Good(edges', ls')
      BY <2>3
    <3>3. validate_graph(edges)' = validate_graph(edges')
      OBVIOUS
    <3> QED
      BY <2>3, <3>1, <3>2, <3>3 DEF IInv
  <2>4. ASSUME UNCHANGED edges, at' \in {"failed", "cancelled"} PROVE IInv'
    BY <2>1, <2>4 DEF IInv
  <2>5. ASSUME NEW n \in Node, NEW r \in Outcomes(n), NodeEnds(n, r) PROVE IInv'
    <3>1. at = "run" /\ ls' = [ls EXCEPT !.result[n] = r] /\ UNCHANGED <<edges, at>>
      BY <2>5 DEF NodeEnds
    <3>2. r \in Result
      <4>1. RoutesOf(n) \subseteq Routes
        BY DEF RoutesOf
      <4>2. {NONE} \cup (IF ls.runs[n] < MaxRuns THEN RoutesOf(n) ELSE {}) \subseteq Routes \cup {NONE}
        BY <4>1
      <4> DEFINE R == {NONE} \cup (IF ls.runs[n] < MaxRuns THEN RoutesOf(n) ELSE {})
      <4>3. \/ r = [kind |-> "ok", out |-> TRUE, route |-> NONE]
            \/ r = [kind |-> "error", out |-> FALSE, route |-> NONE]
            \/ r \in [kind : {"ok"}, out : BOOLEAN, route : R]
        BY <2>5 DEF Outcomes
      <4> HIDE DEF R
      <4>4. R \subseteq Routes \cup {NONE}
        BY <4>2 DEF R
      <4>5. CASE r \in [kind : {"ok"}, out : BOOLEAN, route : R]
        <5>1. r = [kind |-> r.kind, out |-> r.out, route |-> r.route]
          BY <4>5
        <5>2. r.kind \in {"running", "ok", "error"} /\ r.out \in BOOLEAN /\ r.route \in Routes \cup {NONE}
          BY <4>4, <4>5
        <5> QED
          BY <5>1, <5>2 DEF Result
      <4>6. CASE r = [kind |-> "ok", out |-> TRUE, route |-> NONE]
        BY <4>6 DEF Result
      <4>7. CASE r = [kind |-> "error", out |-> FALSE, route |-> NONE]
        BY <4>7 DEF Result
      <4> QED
        BY <4>3, <4>5, <4>6, <4>7
    <3>3. Good(edges, ls') /\ ls'.pending = ls.pending /\ ls'.keys = ls.keys
      BY <2>2, <3>1, <3>2, ResultKeeps
    <3> QED
      BY <2>2, <2>3, <3>1, <3>3
  <2>6. ASSUME Loop PROVE IInv'
    <3> DEFINE done == Ended(ls)
    <3>1. /\ at = "run" /\ UNCHANGED edges /\ at' = ToEnd(ls')
          /\ \E l \in Completed(ls, done) : ls' \in _schedule_ready_nodes(l)
      BY <2>6 DEF Loop
    <3>2. done \in Seq(Node) /\ NoTwice(done) /\ Elems(done) \subseteq Elems(ls.pending)
      BY <2>2, <3>1, ThoseFacts DEF Ended, Good
    <3> HIDE DEF done
    <3>3. PICK l \in Completed(ls, done) : ls' \in _schedule_ready_nodes(l)
      BY <3>1
    <3>4. Good(edges, l)
      BY <2>1, <2>2, <3>1, <3>2, <3>3, CompletedKeeps
    <3>5. Good(edges, ls') /\ (ls'.pending = <<>> => ls'.keys = <<>>)
      BY <2>1, <3>3, <3>4, StartKeeps
    <3>6. at' \in {"run", "done", "failed"} /\ (at' = "run" <=> ls'.pending # <<>>)
      BY <3>1 DEF ToEnd, loop_ends
    <3> QED
      BY <2>3, <3>1, <3>5, <3>6
  <2>7. ASSUME LoopFails \/ Cancel PROVE IInv'
    <3>1. UNCHANGED edges /\ at' \in {"failed", "cancelled"}
      BY <2>7 DEF LoopFails, Cancel
    <3> QED
      BY <2>4, <3>1
  <2>8. ASSUME UNCHANGED vars PROVE IInv'
    <3>1. edges' = edges /\ ls' = ls /\ at' = at
      BY <2>8 DEF vars
    <3>2. CASE at \in {"run", "done"}
      <4>1. /\ Good(edges, ls) /\ (at = "run" <=> ls.pending # <<>>)
            /\ (ls.pending = <<>> => ls.keys = <<>>)
        BY <3>2 DEF IInv
      <4> QED
        BY <2>3, <3>1, <3>2, <4>1
    <3>3. CASE at \notin {"run", "done"}
      BY <2>4, <3>1, <3>3 DEF IInv
    <3> QED
      BY <3>2, <3>3
  <2> QED
    BY <2>5, <2>6, <2>7, <2>8 DEF Next
<1> QED
  BY <1>1, <1>2, PTL DEF Spec

(* Along an edge without a route every handled run of the source triggers  *)
(* the target once and in order, in every graph: from InOrder.             *)
THEOREM NoTriggerLost == Spec => []TriggersInOrder
<1>1. IInv => TriggersInOrder
  <2> SUFFICES ASSUME IInv, at \in {"run", "done"}, NEW i \in DOMAIN edges, edges[i].route = {},
                      edges[i].from # START, edges[i].to \notin Joins
               PROVE  Those(ls.log[edges[i].to] \o ls.buffer[edges[i].to], [{edges[i].from} -> Nat])
                        = [k \in 1..completed(edges[i].from) |-> [p \in {edges[i].from} |-> k]]
    BY DEF TriggersInOrder
  <2> DEFINE e == edges[i]
  <2>1. Good(edges, ls) /\ Sound(edges)
    BY SoundGraph DEF IInv
  <2>2. e \in Elems(edges)
    BY DEF Elems
  <2>3. e.from \in Node
    BY <2>1, <2>2, EdgeFacts
  <2> HIDE DEF e
  <2>4. completed(e.from) = Handled(ls, e.from)
    BY <2>1, <2>3 DEF Good, Counted, completed, Handled
  <2>5. Those(ls.log[e.to] \o ls.buffer[e.to], [{e.from} -> Nat])
          = [k \in 1..Handled(ls, e.from) |-> [p \in {e.from} |-> k]]
    BY <2>1, <2>2 DEF Good, InOrder, e
  <2> QED
    BY <2>4, <2>5 DEF e
<1> QED
  BY <1>1, InductiveInvariant, PTL

(* A workflow that has ended by itself has served every trigger: what is   *)
(* left behind by a start is left while something runs.                    *)
THEOREM EveryTriggerServed == Spec => []AllServed
<1>1. IInv => AllServed
  <2> SUFFICES ASSUME IInv, at = "done", NEW n \in Node PROVE ls.buffer[n] = <<>>
    BY DEF AllServed
  <2>1. Good(edges, ls) /\ ls.keys = <<>>
    BY DEF IInv
  <2>2. Elems(ls.keys) = {}
    BY <2>1 DEF Elems
  <2> QED
    BY <2>1, <2>2 DEF Good, Keyed
<1> QED
  BY <1>1, InductiveInvariant, PTL

(* A node of a graph is START or has a predecessor: it is reached from     *)
(* START.                                                                  *)
LEMMA Reached ==
  ASSUME NEW g, _validate_start(g), _validate_connectivity(g), NEW n \in Names(g), n # START
  PROVE  Preds(g, n) # {}
<1>1. SUFFICES ASSUME Preds(g, n) = {} PROVE FALSE
  OBVIOUS
<1> DEFINE S == Names(g) \ {n}
<1>2. \A i \in DOMAIN g : g[i].to # n
  BY <1>1 DEF Preds
<1>3. START \in S
  BY DEF _validate_start
<1>4. \A m \in S : Succ(g, m) \subseteq S
  BY <1>2 DEF Succ, Names
<1>5. S \in SUBSET Names(g) /\ S # Names(g)
  OBVIOUS
<1> QED
  BY <1>3, <1>4, <1>5 DEF _validate_connectivity

(* A join behind predecessors that run once each is run once, with the     *)
(* output of all of them.                                                  *)
THEOREM JoinsRunOnce == Spec => []JoinOnce
<1>1. IInv => JoinOnce
  <2> SUFFICES ASSUME IInv, at = "done", NEW j \in Joins \cap Names(edges),
                      \A p \in predecessors(j) \ {START} : ls.runs[p] = 1,
                      \A i \in DOMAIN edges : edges[i].to = j => edges[i].route = {}
               PROVE  ls.log[j] = << [p \in predecessors(j) |-> IF p = START THEN 0 ELSE ls.outputs[p]] >>
    BY DEF JoinOnce
  <2>1. Good(edges, ls) /\ ls.pending = <<>> /\ ls.keys = <<>> /\ Sound(edges)
    BY SoundGraph DEF IInv
  <2>2. predecessors(j) = Preds(edges, j) /\ j \in Node /\ START \notin Node
    BY Constants DEF predecessors, Preds
  <2>3. Elems(ls.keys) = {} /\ Elems(ls.pending) = {}
    BY <2>1 DEF Elems
  <2>4. ls.buffer[j] = <<>>
    BY <2>1, <2>2, <2>3 DEF Good, Keyed
  <2>5. Plain(edges, j)
    <3>1. Preds(edges, j) # {}
      BY <2>2, Reached DEF IInv, validate_graph
    <3> QED
      BY <3>1 DEF Plain, Elems
  <2>6. \A p \in Preds(edges, j) : p = START \/ p \in Node
    <3>1. \A i \in DOMAIN edges : edges[i].from \in Node \cup {START}
      BY <2>1, EdgeFacts DEF Elems
    <3> QED
      BY <3>1 DEF Preds
  <2>7. \A p \in Preds(edges, j) \ {START} : ls.runs[p] <= 1 /\ ls.status[p] = "completed"
    <3> TAKE p \in Preds(edges, j) \ {START}
    <3>1. p \in Node /\ ls.runs[p] = 1 /\ ls.status \in [Node -> Status]
      BY <2>1, <2>2, <2>6, LoopTypes DEF Good
    <3>2. ls.status[p] # "running" /\ ls.status[p] # "inactive"
      BY <2>1, <2>3, <3>1 DEF Good, Counted
    <3> QED
      BY <3>1, <3>2 DEF Status
  <2>8. Complete(edges, ls, j)
    BY <2>7 DEF Complete
  <2>9. ls.log[j] \o ls.buffer[j] = << Joined(edges, ls, j) >>
    BY <2>1, <2>5, <2>7, <2>8 DEF Good, Barrier
  <2>10. ls.log[j] \in Seq(Input)
    BY <2>1, <2>2, LoopTypes DEF Good
  <2>11. ls.log[j] \o <<>> = ls.log[j]
    BY <2>10
  <2> QED
    BY <2>2, <2>4, <2>9, <2>11 DEF Joined
<1> QED
  BY <1>1, InductiveInvariant, PTL

(* In the orchestrator's graph one node runs at a time and no trigger      *)
(* waits: planner, executor and helper never run beside each other.        *)
THEOREM OrchestratorIsSequential == Spec => []OneAtATime
<1>1. IInv => OneAtATime
  <2> SUFFICES ASSUME IInv, edges = build_workflow, at = "run"
               PROVE  Len(ls.pending) = 1 /\ \A n \in Node : ls.buffer[n] = <<>>
    BY DEF OneAtATime
  <2> DEFINE s == ls.pending
  <2>1. Good(edges, ls) /\ s # <<>> /\ s \in Seq(Node) /\ OneToken(ls) /\ NoTwice(s)
    BY LoopTypes DEF IInv, Good
  <2>2. \A n, m \in Elems(s) : n = m
    <3>1. Elems(s) \subseteq Node
      BY <2>1, ElemsFacts
    <3> QED
      BY <2>1, <3>1 DEF OneToken, Busy
  <2>3. PICK n \in Elems(s) : n \in Node
    <3>1. Elems(s) # {} /\ Elems(s) \subseteq Node
      <4> HIDE DEF s
      <4> QED
        BY <2>1, ElemsFacts
    <3> QED
      BY <3>1
  <2>4. \A m \in Node : ls.buffer[m] = <<>>
    BY <2>1, <2>3 DEF OneToken, Busy
  <2>5. Len(s) = 1
    <3> HIDE DEF s
    <3>1. Len(s) \in Nat \ {0} /\ DOMAIN s = 1..Len(s)
      BY <2>1, EmptySeq
    <3>2. \A i, j \in 1..Len(s) : i = j
      BY <2>1, <2>2, <3>1 DEF NoTwice, Elems
    <3> DEFINE c == Len(s)
    <3>3. c \in Nat \ {0} /\ \A i, j \in 1..c : i = j
      BY <3>1, <3>2
    <3> HIDE DEF c
    <3>4. 1 \in 1..c /\ c \in 1..c
      BY <3>3
    <3>5. c = 1
      BY <3>3, <3>4
    <3> QED
      BY <3>5 DEF c
  <2> QED
    BY <2>4, <2>5
<1> QED
  BY <1>1, InductiveInvariant, PTL
=============================================================================
