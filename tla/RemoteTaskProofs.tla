-------------------------- MODULE RemoteTaskProofs --------------------------
(***************************************************************************)
(* Proofs about RemoteTask, for every number of attempts and every world:  *)
(* Followed, WholeOutput and AnswerOnce.  They need one inductive          *)
(* invariant, IInv: where execute_node is and what it then knows of its    *)
(* task (Places), what the copies of the node may say (Copies), and that   *)
(* the chunks under way, read from where the node stands, tell the state   *)
(* and the pieces of the task they are of (Tells).                         *)
(***************************************************************************)
EXTENDS RemoteTask, TLAPS, SequenceTheorems, FiniteSetTheorems, FunctionTheorems

(***************************************************************************)
(* The types.                                                              *)
(***************************************************************************)
TaskState  == {"submitted", "working", "input_required", "completed", "failed", "canceled"}
TaskRec    == [state : TaskState, made : Nat]
NodeStatus == {"pending", "ready"} \cup InFlight \cup settled
NodeRec    == [status : NodeStatus, attempt : Nat, a2a : Nat, answer : BOOLEAN, output : Nat]
Chunk      == [kind : {"task", "status", "artifact", "message"},
               state : TaskState \cup {"none"}, made : Nat]
Calling    == {"text", "send", "answer"}
Busy       == Calling \cup {"stream", "poll", "subscribe", "settle"}

StreamRec(n) == [via : {"none", "send", "subscribe"}, task : 0..n, chunks : Seq(Chunk)]

TypeOK ==
  /\ world \in Worlds
  /\ remote \in Seq(TaskRec)
  /\ node \in NodeRec /\ node.a2a \in 0..Len(remote)
  /\ row \in NodeRec /\ row.a2a \in 0..Len(remote)
  /\ saving = None \/ (saving \in NodeRec /\ saving.a2a \in 0..Len(remote))
  /\ pc \in Busy \cup {"none", "down"}
  /\ mode \in {"dispatch", "continue", "recover"}
  /\ stream \in StreamRec(Len(remote))
  /\ current \in TaskState \cup {"none"}
  /\ got \in Nat
  /\ counts \in [given : Nat, answered : Nat, asked : Nat, crashes : Nat]

(***************************************************************************)
(* The chunks ch, read by consume_chunks with g pieces and the status c so *)
(* far, tell of the task r: at most the first is a snapshot, the pieces    *)
(* add up, and the last status is that of the task.                        *)
(***************************************************************************)
HeadIsTask(ch) == ch # <<>> /\ ch[1].kind = "task"
Pieces(ch)     == {i \in DOMAIN ch : ch[i].kind = "artifact"}

Tells(ch, g, c, r) ==
  /\ \A i \in DOMAIN ch : /\ ch[i].kind \in {"status", "artifact"} \/ (i = 1 /\ ch[i].kind = "task")
                          /\ ch[i].kind = "status" => ch[i].made = 0
                          /\ ch[i].kind = "artifact" => ch[i].made = 1
                          /\ ch[i].kind # "artifact" => ch[i].state \in TaskState
  /\ HeadIsTask(ch) => g = 0
  /\ r.made = (IF HeadIsTask(ch) THEN ch[1].made ELSE g) + Cardinality(Pieces(ch))
  /\ \/ \E i \in DOMAIN ch : /\ ch[i].kind # "artifact" /\ ch[i].state = r.state
                             /\ \A j \in DOMAIN ch : j > i => ch[j].kind = "artifact"
     \/ (\A i \in DOMAIN ch : ch[i].kind = "artifact") /\ c = r.state

(***************************************************************************)
(* The inductive invariant.  A task is loose when nobody has to follow it  *)
(* any more: it has ended, or it was let go of.                            *)
(***************************************************************************)
Loose(k) == k = 0 \/ k \in left \/ Ended(k)

(* What a copy of the node may say, in memory, in the store or on its way. *)
CopyOK(r) ==
  /\ r.status = "pending" => r.a2a = 0
  /\ r.status \in {"failed", "canceled"} => Loose(r.a2a)
  /\ r.status = "completed" => Whole(r)
  /\ r.status = "recover" => r.a2a # 0 /\ counts.crashes > 0

Copies == CopyOK(node) /\ CopyOK(row) /\ (saving # None => CopyOK(saving))

(* Where execute_node is. *)
Places ==
  /\ pc # "stream" => stream = NoStream
  /\ pc \in Calling => /\ current = "working" /\ mode # "recover"
                       /\ mode = "dispatch" => Loose(node.a2a)
  /\ pc \in {"poll", "subscribe"} => current \notin settled
  /\ pc \in Busy => node.status \in InFlight \cup {"canceled"}
  /\ pc = "down" => node = row /\ saving = None /\ counts.crashes > 0

(* What the stream brings; without a task it brings a bare message. *)
Streams ==
  LET t  == stream.task
      ch == stream.chunks
  IN  pc = "stream" =>
        /\ stream.via # "none"
        /\ t = 0 => /\ stream.via = "send" /\ Allowed("bare") /\ current = "working"
                    /\ ch \in {<<>>, <<Bare>>}
        /\ t # 0 =>
             /\ Tells(ch, got, current, remote[t])
             /\ node.a2a = t \/ Loose(node.a2a)
             /\ \/ node.a2a = t
                \/ HeadIsTask(ch) /\ stream.via = "send"
                \/ node.status = "canceled" /\ Loose(t)
             /\ node.status = "canceled" =>
                  Loose(t) \/ (stream.via = "send" /\ HeadIsTask(ch) /\ ch[1].state = "submitted")

(* While the task is looked at, the node has no more output than the task. *)
Behind ==
  /\ counts.crashes = 0 /\ ~Allowed("bare") /\ node.status # "canceled"
  /\ pc \in {"poll", "subscribe"} \/ (pc = "stream" /\ stream.via = "subscribe")
  => node.a2a # 0 /\ node.output <= remote[node.a2a].made

(* What the end of execute_node finds. *)
Outcome ==
  pc = "settle" =>
    /\ current # "input_required" => Loose(node.a2a)
    /\ current = "completed" /\ node.status # "canceled" => Whole(node)

IInv == TypeOK /\ Copies /\ Places /\ Streams /\ Behind /\ Outcome /\ Followed

(* The answer of the user is with the node until it is put into a message. *)
AnswerInv ==
  /\ pc \in {"send", "answer"} /\ counts.crashes = 0 => ~node.answer
  /\ AnswerOnce

(***************************************************************************)
(* Reading and extending the chunks.                                       *)
(***************************************************************************)
(* The pieces under way are finitely many. *)
LEMMA PiecesFinite ==
  ASSUME NEW ch \in Seq(Chunk)
  PROVE  IsFiniteSet(Pieces(ch)) /\ Cardinality(Pieces(ch)) \in Nat
<1>1. IsFiniteSet(1..Len(ch))
  BY FS_Interval, LenProperties
<1>2. Pieces(ch) \subseteq 1..Len(ch)
  BY LenProperties DEF Pieces
<1> QED
  BY <1>1, <1>2, FS_Subset, FS_CardinalityType

(* A chunk at the end adds the piece that it is. *)
LEMMA PiecesAppend ==
  ASSUME NEW ch \in Seq(Chunk), NEW c \in Chunk
  PROVE  Cardinality(Pieces(Append(ch, c)))
           = Cardinality(Pieces(ch)) + (IF c.kind = "artifact" THEN 1 ELSE 0)
<1> DEFINE n == Len(ch) + 1
<1>1. /\ Append(ch, c) \in Seq(Chunk) /\ Len(Append(ch, c)) = n
      /\ \A i \in 1..Len(ch) : Append(ch, c)[i] = ch[i]
      /\ Append(ch, c)[n] = c /\ Len(ch) \in Nat
  BY AppendProperties, LenProperties
<1>2. DOMAIN ch = 1..Len(ch) /\ DOMAIN Append(ch, c) = 1..n
  BY <1>1, LenProperties
<1>3. n \notin Pieces(ch)
  BY <1>1, <1>2 DEF Pieces
<1>4. Pieces(Append(ch, c)) = IF c.kind = "artifact" THEN Pieces(ch) \cup {n} ELSE Pieces(ch)
  BY <1>1, <1>2 DEF Pieces
<1>5. IsFiniteSet(Pieces(ch)) /\ Cardinality(Pieces(ch)) \in Nat
  BY PiecesFinite
<1>6. Cardinality(Pieces(ch) \cup {n}) = Cardinality(Pieces(ch)) + 1
  BY <1>3, <1>5, FS_AddElement
<1> QED
  BY <1>4, <1>5, <1>6

(* Taking the first chunk takes the piece that it is. *)
LEMMA PiecesTail ==
  ASSUME NEW ch \in Seq(Chunk), ch # <<>>
  PROVE  Cardinality(Pieces(ch))
           = Cardinality(Pieces(Tail(ch))) + (IF ch[1].kind = "artifact" THEN 1 ELSE 0)
<1> DEFINE A == Pieces(ch) \ {1}
           B == Pieces(Tail(ch))
           f == [i \in B |-> i + 1]
<1>1. /\ Tail(ch) \in Seq(Chunk) /\ Len(Tail(ch)) = Len(ch) - 1 /\ Len(ch) \in Nat \ {0}
      /\ DOMAIN ch = 1..Len(ch) /\ DOMAIN Tail(ch) = 1..(Len(ch) - 1)
      /\ \A i \in 1..(Len(ch) - 1) : Tail(ch)[i] = ch[i + 1]
  BY HeadTailProperties, LenProperties, EmptySeq
<1>2. f \in Bijection(B, A)
  <2>1. f \in [B -> A]
    BY <1>1 DEF Pieces
  <2>2. \A x, y \in B : f[x] = f[y] => x = y
    BY <1>1 DEF Pieces
  <2>3. ASSUME NEW a \in A
        PROVE  \E x \in B : f[x] = a
    <3>1. a \in 2..Len(ch) /\ ch[a].kind = "artifact"
      BY <1>1 DEF Pieces
    <3>2. a - 1 \in B /\ f[a - 1] = a
      BY <1>1, <3>1 DEF Pieces
    <3> QED
      BY <3>2
  <2> QED
    BY <2>1, <2>2, <2>3, Fun_IsBij
<1>3. IsFiniteSet(B) /\ IsFiniteSet(Pieces(ch)) /\ IsFiniteSet(A)
  BY <1>1, PiecesFinite, FS_Subset
<1>4. Cardinality(A) = Cardinality(B)
  <2>1. ExistsBijection(B, A)
    BY <1>2 DEF ExistsBijection
  <2> QED
    BY <1>3, <2>1, FS_Bijection
<1>5. CASE ch[1].kind = "artifact"
  <2>1. 1 \in Pieces(ch)
    BY <1>1, <1>5 DEF Pieces
  <2>2. Cardinality(A) = Cardinality(Pieces(ch)) - 1 /\ Cardinality(Pieces(ch)) \in Nat
    BY <1>3, <2>1, FS_RemoveElement, FS_CardinalityType
  <2> QED
    BY <1>4, <1>5, <2>2
<1>6. CASE ch[1].kind # "artifact"
  <2>1. A = Pieces(ch)
    BY <1>6 DEF Pieces
  <2>2. Cardinality(Pieces(ch)) \in Nat
    BY <1>3, FS_CardinalityType
  <2>3. Cardinality(Pieces(ch)) = Cardinality(B)
    BY <1>4, <2>1, Zenon
  <2> QED
    BY <1>6, <2>2, <2>3
<1> QED
  BY <1>5, <1>6

(* A new stream, which starts with a snapshot, tells of its task. *)
LEMMA TellsSnapshot ==
  ASSUME NEW r \in TaskRec, NEW c,
         NEW ch, ch = <<[kind |-> "task", state |-> r.state, made |-> r.made]>>
  PROVE  ch \in Seq(Chunk) /\ HeadIsTask(ch) /\ Tells(ch, 0, c, r)
<1>1. ch \in Seq(Chunk) /\ Len(ch) = 1 /\ DOMAIN ch = {1} /\ ch[1].kind = "task"
      /\ ch[1].state = r.state /\ ch[1].made = r.made /\ r.made \in Nat
  BY DEF Chunk, TaskRec
<1>2. Pieces(ch) = {}
  BY <1>1 DEF Pieces
<1>3. Cardinality(Pieces(ch)) = 0
  BY <1>2, FS_EmptySet
<1>4. HeadIsTask(ch)
  BY <1>1 DEF HeadIsTask
<1> QED
  BY <1>1, <1>3, <1>4 DEF Tells, TaskRec

(* A stream read to its end has told the state and the pieces of its task. *)
LEMMA TellsEmpty ==
  ASSUME NEW g \in Nat, NEW c, NEW r, Tells(<<>>, g, c, r)
  PROVE  g = r.made /\ c = r.state
<1>1. Pieces(<<>>) = {} /\ ~HeadIsTask(<<>>)
  BY DEF Pieces, HeadIsTask
<1>2. Cardinality(Pieces(<<>>)) = 0
  BY <1>1, FS_EmptySet
<1> QED
  BY <1>1, <1>2 DEF Tells

(* A change of the task and the chunk that reports it keep the stream true *)
(* to the task.                                                            *)
LEMMA TellsAppend ==
  ASSUME NEW ch \in Seq(Chunk), NEW g \in Nat, NEW c, NEW r \in TaskRec, Tells(ch, g, c, r),
         NEW x \in Chunk, NEW q \in TaskRec,
         \/ x.kind = "status" /\ x.made = 0 /\ q.made = r.made /\ q.state = x.state
         \/ x.kind = "artifact" /\ x.made = 1 /\ q.made = r.made + 1 /\ q.state = r.state
  PROVE  /\ Append(ch, x) \in Seq(Chunk)
         /\ Tells(Append(ch, x), g, c, q)
         /\ HeadIsTask(ch) => HeadIsTask(Append(ch, x)) /\ Append(ch, x)[1] = ch[1]
<1> DEFINE n  == Len(ch) + 1
           cx == Append(ch, x)
<1>1. /\ cx \in Seq(Chunk) /\ Len(ch) \in Nat
      /\ DOMAIN ch = 1..Len(ch) /\ DOMAIN cx = 1..n
      /\ (\A i \in 1..Len(ch) : cx[i] = ch[i]) /\ cx[n] = x
  BY AppendProperties, LenProperties
<1>2. ch # <<>> => Len(ch) # 0
  BY EmptySeq
<1>3. (HeadIsTask(cx) <=> HeadIsTask(ch)) /\ (HeadIsTask(ch) => cx[1] = ch[1])
  BY <1>1, <1>2 DEF HeadIsTask
<1>4. Cardinality(Pieces(cx)) = Cardinality(Pieces(ch)) + (IF x.kind = "artifact" THEN 1 ELSE 0)
      /\ Cardinality(Pieces(ch)) \in Nat
  BY PiecesAppend, PiecesFinite
<1> HIDE DEF cx
<1>5. \A i \in DOMAIN cx : /\ cx[i].kind \in {"status", "artifact"} \/ (i = 1 /\ cx[i].kind = "task")
                           /\ cx[i].kind = "status" => cx[i].made = 0
                           /\ cx[i].kind = "artifact" => cx[i].made = 1
                           /\ cx[i].kind # "artifact" => cx[i].state \in TaskState
  <2>1. TAKE i \in DOMAIN cx
  <2>2. CASE i \in DOMAIN ch
    BY <1>1, <2>2 DEF Tells
  <2>3. CASE i = n
    BY <1>1, <2>3 DEF TaskRec
  <2> QED
    BY <1>1, <2>2, <2>3
<1>6. HeadIsTask(ch) => ch[1].made \in Nat
  <2>1. HeadIsTask(ch) => ch[1] \in Chunk
    BY <1>1, <1>2, ElementOfSeq DEF HeadIsTask
  <2> QED
    BY <2>1 DEF Chunk
<1>7. q.made = (IF HeadIsTask(cx) THEN cx[1].made ELSE g) + Cardinality(Pieces(cx))
  BY <1>3, <1>4, <1>6, SMTT(30) DEF Tells, TaskRec
<1>8. \/ \E i \in DOMAIN cx : /\ cx[i].kind # "artifact" /\ cx[i].state = q.state
                              /\ \A j \in DOMAIN cx : j > i => cx[j].kind = "artifact"
      \/ (\A i \in DOMAIN cx : cx[i].kind = "artifact") /\ c = q.state
  <2>1. CASE x.kind = "status"
    <3>1. cx[n].kind # "artifact" /\ cx[n].state = q.state /\ n \in DOMAIN cx
      BY <1>1, <2>1
    <3>2. \A j \in DOMAIN cx : ~(j > n)
      BY <1>1
    <3> QED
      BY <3>1, <3>2
  <2>2. CASE x.kind = "artifact" /\ \E i \in DOMAIN ch : /\ ch[i].kind # "artifact" /\ ch[i].state = r.state
                             /\ \A j \in DOMAIN ch : j > i => ch[j].kind = "artifact"
    <3>1. PICK i \in DOMAIN ch : /\ ch[i].kind # "artifact" /\ ch[i].state = r.state
                             /\ \A j \in DOMAIN ch : j > i => ch[j].kind = "artifact"
      BY <2>2
    <3>2. i \in DOMAIN cx /\ cx[i].kind # "artifact" /\ cx[i].state = q.state
      BY <1>1, <2>2, <3>1
    <3>3. \A j \in DOMAIN cx : j > i => cx[j].kind = "artifact"
      BY <1>1, <2>2, <3>1
    <3> QED
      BY <3>2, <3>3
  <2>3. CASE x.kind = "artifact" /\ (\A i \in DOMAIN ch : ch[i].kind = "artifact") /\ c = r.state
    BY <1>1, <2>3
  <2> QED
    BY <2>1, <2>2, <2>3 DEF Tells
<1>9. HeadIsTask(cx) => g = 0
  BY <1>3 DEF Tells
<1> QED
  BY <1>1, <1>3, <1>5, <1>7, <1>8, <1>9 DEF Tells, cx

(* consume_chunks takes the first chunk: what is left, from the pieces and *)
(* the status it then has, tells of the same task.                         *)
LEMMA TellsTail ==
  ASSUME NEW ch \in Seq(Chunk), ch # <<>>, NEW g \in Nat, NEW c, NEW r, Tells(ch, g, c, r),
         NEW h, h = Head(ch),
         NEW gg, gg = IF h.kind = "task" THEN IF h.made > 0 THEN h.made ELSE g ELSE g + h.made,
         NEW cc, cc = IF h.kind = "artifact" THEN c ELSE h.state
  PROVE  /\ Tail(ch) \in Seq(Chunk) /\ ~HeadIsTask(Tail(ch))
         /\ gg \in Nat
         /\ Tells(Tail(ch), gg, cc, r)
<1> DEFINE n  == Len(ch) - 1
           ct == Tail(ch)
<1>1. /\ ct \in Seq(Chunk) /\ Len(ch) \in Nat \ {0} /\ h = ch[1]
      /\ DOMAIN ch = 1..Len(ch) /\ DOMAIN ct = 1..n
      /\ (\A i \in 1..n : ct[i] = ch[i + 1])
  BY HeadTailProperties, LenProperties, EmptySeq
<1>2. ct # <<>> => 1 \in DOMAIN ct
  BY <1>1, EmptySeq
<1>3. \A i \in DOMAIN ct : i + 1 \in DOMAIN ch /\ i + 1 # 1 /\ ct[i] = ch[i + 1]
  BY <1>1
<1>4. Cardinality(Pieces(ch)) = Cardinality(Pieces(ct)) + (IF h.kind = "artifact" THEN 1 ELSE 0)
      /\ Cardinality(Pieces(ct)) \in Nat
  BY <1>1, PiecesTail, PiecesFinite
<1> HIDE DEF ct
<1>5. \A i \in DOMAIN ct : /\ ct[i].kind \in {"status", "artifact"}
                           /\ ct[i].kind = "status" => ct[i].made = 0
                           /\ ct[i].kind = "artifact" => ct[i].made = 1
                           /\ ct[i].kind # "artifact" => ct[i].state \in TaskState
  BY <1>3 DEF Tells
<1>6. ~HeadIsTask(ct)
  BY <1>2, <1>5 DEF HeadIsTask
<1>7. h \in Chunk /\ h.made \in Nat /\ 1 \in DOMAIN ch
  <2>1. 1 \in DOMAIN ch /\ ch[1] \in Chunk
    BY <1>1, ElementOfSeq
  <2> QED
    BY <1>1, <2>1 DEF Chunk
<1>8. /\ h.kind \in {"task", "status", "artifact"} /\ (h.kind = "status" => h.made = 0)
      /\ (h.kind = "artifact" => h.made = 1) /\ (h.kind # "artifact" => h.state \in TaskState)
  BY <1>1, <1>7 DEF Tells
<1>9. gg \in Nat
  BY <1>7, <1>8
<1>10. HeadIsTask(ch) <=> h.kind = "task"
  BY <1>1 DEF HeadIsTask
<1>11. r.made = gg + Cardinality(Pieces(ct))
  <2>1. /\ r.made = (IF HeadIsTask(ch) THEN ch[1].made ELSE g) + Cardinality(Pieces(ch))
        /\ HeadIsTask(ch) => g = 0
    BY DEF Tells
  <2>2. r.made = (IF h.kind = "task" THEN h.made ELSE g) + Cardinality(Pieces(ch))
    BY <1>1, <1>10, <2>1
  <2> QED
    BY <1>4, <1>7, <1>8, <1>10, <2>1, <2>2
<1>12. \/ \E i \in DOMAIN ct : /\ ct[i].kind # "artifact" /\ ct[i].state = r.state
                              /\ \A j \in DOMAIN ct : j > i => ct[j].kind = "artifact"
       \/ (\A i \in DOMAIN ct : ct[i].kind = "artifact") /\ cc = r.state
  <2>1. CASE \E i \in DOMAIN ch : /\ ch[i].kind # "artifact" /\ ch[i].state = r.state
                                 /\ \A j \in DOMAIN ch : j > i => ch[j].kind = "artifact"
    <3>1. PICK i \in DOMAIN ch : /\ ch[i].kind # "artifact" /\ ch[i].state = r.state
                                 /\ \A j \in DOMAIN ch : j > i => ch[j].kind = "artifact"
      BY <2>1
    <3>2. CASE i = 1
      <4>1. \A j \in DOMAIN ct : j + 1 > i
        BY <1>1, <3>2
      <4> QED
        BY <1>1, <1>3, <3>1, <3>2, <4>1
    <3>3. CASE i # 1
      <4>1. i - 1 \in DOMAIN ct /\ ct[i - 1] = ch[i]
        BY <1>1, <3>3
      <4>2. \A j \in DOMAIN ct : j > i - 1 => ct[j].kind = "artifact"
        BY <1>1, <1>3, <3>1
      <4> QED
        BY <3>1, <4>1, <4>2
    <3> QED
      BY <3>2, <3>3
  <2>2. CASE (\A i \in DOMAIN ch : ch[i].kind = "artifact") /\ c = r.state
    BY <1>1, <1>3, <1>7, <2>2
  <2> QED
    BY <2>1, <2>2 DEF Tells
<1> QED
  BY <1>1, <1>5, <1>6, <1>9, <1>11, <1>12 DEF Tells, ct

(***************************************************************************)
(* Types.                                                                  *)
(***************************************************************************)
(* A task that changes leaves a list of tasks, as long as before. *)
LEMMA RemoteExcept ==
  ASSUME TypeOK, NEW k \in 1..Len(remote), NEW q \in TaskRec
  PROVE  /\ [remote EXCEPT ![k] = q] \in Seq(TaskRec)
         /\ Len([remote EXCEPT ![k] = q]) = Len(remote)
         /\ [remote EXCEPT ![k] = q][k] = q
         /\ \A j \in 1..Len(remote) : j # k => [remote EXCEPT ![k] = q][j] = remote[j]
<1>1. remote \in Seq(TaskRec) /\ DOMAIN remote = 1..Len(remote)
  BY LenProperties DEF TypeOK
<1> QED
  BY <1>1, ExceptSeq

(* A stream to which a chunk is added. *)
LEMMA StreamAppend ==
  ASSUME NEW n, NEW st \in StreamRec(n), NEW x \in Chunk
  PROVE  /\ Append(st.chunks, x) \in Seq(Chunk)
         /\ [st EXCEPT !.chunks = Append(@, x)] \in StreamRec(n)
         /\ [st EXCEPT !.chunks = Append(@, x)].via = st.via
         /\ [st EXCEPT !.chunks = Append(@, x)].task = st.task
         /\ [st EXCEPT !.chunks = Append(@, x)].chunks = Append(st.chunks, x)
<1> DEFINE y == Append(st.chunks, x)
<1>1. y \in Seq(Chunk)
  BY AppendProperties DEF StreamRec
<1> HIDE DEF y
<1>2. /\ [st EXCEPT !.chunks = y] \in StreamRec(n)
      /\ [st EXCEPT !.chunks = y].via = st.via
      /\ [st EXCEPT !.chunks = y].task = st.task
      /\ [st EXCEPT !.chunks = y].chunks = y
  BY <1>1 DEF StreamRec
<1> QED
  BY <1>1, <1>2 DEF y

(* A change of the state of a task, with the chunk that reports it. *)
LEMMA RemoteStateTypes ==
  ASSUME TypeOK, NEW k \in 1..Len(remote), NEW s \in TaskState, RemoteState(k, s)
  PROVE  /\ remote' \in Seq(TaskRec) /\ Len(remote') = Len(remote)
         /\ remote'[k].state = s /\ remote'[k].made = remote[k].made
         /\ \A j \in 1..Len(remote) : j # k => remote'[j] = remote[j]
         /\ stream' \in StreamRec(Len(remote))
         /\ stream'.via = stream.via /\ stream'.task = stream.task
<1> DEFINE q == [state |-> s, made |-> remote[k].made]
           x == [kind |-> "status", state |-> s, made |-> 0]
<1>1. remote[k] \in TaskRec
  BY ElementOfSeq DEF TypeOK
<1>2. q \in TaskRec /\ [remote[k] EXCEPT !.state = s] = q /\ x \in Chunk
  BY <1>1 DEF TaskRec, Chunk
<1>3. remote' = [remote EXCEPT ![k] = q]
  BY <1>2 DEF RemoteState
<1>4. stream' = stream \/ stream' = [stream EXCEPT !.chunks = Append(@, x)]
  BY DEF RemoteState, Streamed
<1> HIDE DEF x
<1>5. /\ stream' \in StreamRec(Len(remote))
      /\ stream'.via = stream.via /\ stream'.task = stream.task
  <2>1. stream \in StreamRec(Len(remote))
    BY DEF TypeOK
  <2>2. CASE stream' = [stream EXCEPT !.chunks = Append(@, x)]
    BY <1>2, <2>1, <2>2, StreamAppend
  <2> QED
    BY <1>4, <2>1, <2>2
<1> HIDE DEF q
<1> QED
  BY <1>2, <1>3, <1>5, RemoteExcept DEF q

(* The same for a piece of output. *)
LEMMA ProduceTypes ==
  ASSUME TypeOK, NEW k \in 1..Len(remote), Produce(k)
  PROVE  /\ remote' \in Seq(TaskRec) /\ Len(remote') = Len(remote)
         /\ remote'[k].state = remote[k].state /\ remote'[k].made = remote[k].made + 1
         /\ \A j \in 1..Len(remote) : j # k => remote'[j] = remote[j]
         /\ stream' \in StreamRec(Len(remote))
         /\ stream'.via = stream.via /\ stream'.task = stream.task
<1> DEFINE q == [state |-> remote[k].state, made |-> remote[k].made + 1]
           x == [kind |-> "artifact", state |-> "none", made |-> 1]
<1>1. remote[k] \in TaskRec
  BY ElementOfSeq DEF TypeOK
<1>2. q \in TaskRec /\ [remote[k] EXCEPT !.made = @ + 1] = q /\ x \in Chunk
  BY <1>1 DEF TaskRec, Chunk
<1>3. remote' = [remote EXCEPT ![k] = q]
  BY <1>2 DEF Produce
<1>4. stream' = stream \/ stream' = [stream EXCEPT !.chunks = Append(@, x)]
  BY DEF Produce, Streamed
<1> HIDE DEF x
<1>5. /\ stream' \in StreamRec(Len(remote))
      /\ stream'.via = stream.via /\ stream'.task = stream.task
  <2>1. stream \in StreamRec(Len(remote))
    BY DEF TypeOK
  <2>2. CASE stream' = [stream EXCEPT !.chunks = Append(@, x)]
    BY <1>2, <2>1, <2>2, StreamAppend
  <2> QED
    BY <1>4, <2>1, <2>2
<1> HIDE DEF q
<1> QED
  BY <1>2, <1>3, <1>5, RemoteExcept DEF q

(***************************************************************************)
(* What every step keeps: the world, the tasks that ended, the pieces of   *)
(* the others, what was let go of, and that the process has stopped.       *)
(***************************************************************************)
Grows ==
  /\ world' = world /\ left \subseteq left' /\ counts.crashes <= counts'.crashes
  /\ Len(remote) <= Len(remote')
  /\ \A k \in 1..Len(remote) : /\ Ended(k) => remote'[k] = remote[k]
                               /\ remote[k].made <= remote'[k].made

(* Every task has a state and a number of pieces. *)
LEMMA TaskTypes ==
  ASSUME TypeOK
  PROVE  /\ Len(remote) \in Nat /\ DOMAIN remote = 1..Len(remote)
         /\ \A j \in 1..Len(remote) : /\ remote[j] \in TaskRec
                                      /\ remote[j].made \in Nat /\ remote[j].state \in TaskState
<1>1. Len(remote) \in Nat /\ DOMAIN remote = 1..Len(remote)
  BY LenProperties DEF TypeOK
<1>2. ASSUME NEW j \in 1..Len(remote)
      PROVE  remote[j] \in TaskRec
  BY ElementOfSeq DEF TypeOK
<1>3. \A q \in TaskRec : q.made \in Nat /\ q.state \in TaskState
  BY DEF TaskRec
<1> QED
  BY <1>1, <1>2, <1>3

(* A step of the agent keeps the types, and so does a cancellation that    *)
(* reaches it.                                                             *)
LEMMA AgentTypes ==
  ASSUME TypeOK, NEW k \in DOMAIN remote, Agent(k)
  PROVE  TypeOK' /\ Grows
<1>1. k \in 1..Len(remote) /\ Len(remote) \in Nat
  BY TaskTypes
<1>2. \A j \in 1..Len(remote) : remote[j].made \in Nat /\ remote[j].state \in TaskState
  BY TaskTypes
<1>3. CASE Produce(k)
  <2>1. /\ remote' \in Seq(TaskRec) /\ Len(remote') = Len(remote)
        /\ remote'[k].made = remote[k].made + 1
        /\ \A j \in 1..Len(remote) : j # k => remote'[j] = remote[j]
        /\ stream' \in StreamRec(Len(remote))
    BY <1>1, <1>3, ProduceTypes
  <2>2. ~Ended(k) /\ UNCHANGED <<world, node, row, saving, pc, mode, current, got, left, counts>>
    BY <1>3 DEF Produce, Ended
  <2>3. TypeOK'
    BY <2>1, <2>2 DEF TypeOK
  <2>4. counts.crashes <= counts'.crashes
    BY <2>2 DEF TypeOK
  <2> QED
    BY <1>1, <1>2, <2>1, <2>2, <2>3, <2>4 DEF Grows
<1>4. CASE Work(k) \/ Ask(k) \/ \E s \in {"completed", "failed"} : End(k, s)
  <2>1. PICK s \in TaskState : RemoteState(k, s)
    BY <1>4 DEF Work, Ask, End, TaskState
  <2>2. /\ remote' \in Seq(TaskRec) /\ Len(remote') = Len(remote)
        /\ remote'[k].made = remote[k].made
        /\ \A j \in 1..Len(remote) : j # k => remote'[j] = remote[j]
        /\ stream' \in StreamRec(Len(remote))
    BY <1>1, <2>1, RemoteStateTypes
  <2>3. /\ ~Ended(k) /\ UNCHANGED <<world, node, row, saving, pc, mode, current, got, left>>
        /\ counts' = counts \/ counts' = [counts EXCEPT !.asked = @ + 1]
    BY <1>4 DEF Work, Ask, End, Ended
  <2>4. counts' \in [given : Nat, answered : Nat, asked : Nat, crashes : Nat] /\ counts'.crashes = counts.crashes
    BY <2>3 DEF TypeOK
  <2>5. TypeOK'
    BY <2>2, <2>3, <2>4 DEF TypeOK
  <2>6. counts.crashes <= counts'.crashes
    BY <2>4 DEF TypeOK
  <2> QED
    BY <1>1, <1>2, <2>2, <2>3, <2>5, <2>6 DEF Grows
<1> QED
  BY <1>3, <1>4 DEF Agent

(* A step that leaves the tasks and their stream's chunks alone. *)
LEMMA StillGrows ==
  ASSUME TypeOK, UNCHANGED <<world, remote>>, left \subseteq left', counts.crashes <= counts'.crashes
  PROVE  Grows
<1>1. Len(remote) \in Nat /\ \A j \in 1..Len(remote) : remote[j].made \in Nat
  BY TaskTypes
<1> QED
  BY <1>1 DEF Grows

(* The step of Next that SendNew, SendOn and a passed cancellation make on *)
(* the list of tasks.                                                      *)
LEMMA SendTypes ==
  ASSUME TypeOK, SendNew \/ SendOn
  PROVE  /\ remote' \in Seq(TaskRec) /\ Len(remote) <= Len(remote') /\ Grows
         /\ stream' \in StreamRec(Len(remote')) /\ Len(remote') \in Nat
         /\ stream'.via = "send" /\ stream'.task # 0
         /\ HeadIsTask(stream'.chunks) /\ Tells(stream'.chunks, 0, current', remote'[stream'.task])
<1>1. /\ Len(remote) \in Nat /\ node.a2a \in 0..Len(remote)
      /\ \A j \in 1..Len(remote) : /\ remote[j] \in TaskRec
                                   /\ remote[j].made \in Nat /\ remote[j].state \in TaskState
  BY TaskTypes DEF TypeOK
<1>2. UNCHANGED <<world, left>> /\ counts'.crashes = counts.crashes /\ counts.crashes \in Nat
  BY DEF SendNew, SendOn, Sent, TypeOK
<1>3. CASE SendNew
  <2> DEFINE q == [state |-> "submitted", made |-> 0]
             ch == <<[kind |-> "task", state |-> q.state, made |-> q.made]>>
             n  == Len(remote) + 1
  <2>1. q \in TaskRec
    BY DEF TaskRec, TaskState
  <2>2. remote' = Append(remote, q) /\ stream' = [via |-> "send", task |-> n, chunks |-> ch]
    BY <1>3 DEF SendNew
  <2>3. ch \in Seq(Chunk) /\ HeadIsTask(ch) /\ Tells(ch, 0, current', q)
    BY <2>1, TellsSnapshot
  <2> HIDE DEF q, ch
  <2>4. /\ remote' \in Seq(TaskRec) /\ Len(remote') = n /\ remote'[n] = q
        /\ \A j \in 1..Len(remote) : remote'[j] = remote[j]
    BY <2>1, <2>2, AppendProperties DEF TypeOK
  <2>5. Grows
    BY <1>1, <1>2, <2>4 DEF Grows
  <2>6. stream' \in StreamRec(n)
    BY <1>1, <2>2, <2>3 DEF StreamRec
  <2> QED
    BY <1>1, <2>2, <2>3, <2>4, <2>5, <2>6
<1>4. CASE SendOn
  <2> DEFINE t == node.a2a
             q == [state |-> "working", made |-> remote[t].made]
             ch == <<[kind |-> "task", state |-> q.state, made |-> q.made]>>
  <2>1. t \in 1..Len(remote) /\ q \in TaskRec /\ [remote[t] EXCEPT !.state = "working"] = q
    BY <1>1, <1>4, SMTT(30) DEF SendOn, TaskRec, TaskState
  <2>2. remote' = [remote EXCEPT ![t] = q] /\ stream' = [via |-> "send", task |-> t, chunks |-> ch]
    <3>1. [Snapshot(t) EXCEPT !.state = "working"] = [kind |-> "task", state |-> q.state, made |-> q.made]
      BY DEF Snapshot
    <3>2. stream' = [via |-> "send", task |-> t, chunks |-> <<[Snapshot(t) EXCEPT !.state = "working"]>>]
      BY <1>4 DEF SendOn
    <3>3. remote' = [remote EXCEPT ![t] = [remote[t] EXCEPT !.state = "working"]]
      BY <1>4 DEF SendOn
    <3> HIDE DEF t, q
    <3> QED
      BY <2>1, <3>1, <3>2, <3>3
  <2>3. ch \in Seq(Chunk) /\ HeadIsTask(ch) /\ Tells(ch, 0, current', q)
    BY <2>1, TellsSnapshot
  <2>4. ~Ended(t) /\ q.made = remote[t].made
    BY <1>4 DEF SendOn, Ended
  <2> HIDE DEF q, ch, t
  <2>5. /\ remote' \in Seq(TaskRec) /\ Len(remote') = Len(remote) /\ remote'[t] = q
        /\ \A j \in 1..Len(remote) : j # t => remote'[j] = remote[j]
    BY <2>1, <2>2, RemoteExcept
  <2>6. Grows
    BY <1>1, <1>2, <2>1, <2>4, <2>5 DEF Grows
  <2>7. stream' \in StreamRec(Len(remote))
    BY <1>1, <2>1, <2>2, <2>3 DEF StreamRec
  <2> QED
    BY <1>1, <2>1, <2>2, <2>3, <2>5, <2>6, <2>7
<1> QED
  BY <1>3, <1>4

(* The types hold in the next state when those of the parts do. *)
LEMMA TypesKept ==
  ASSUME TypeOK, UNCHANGED <<world, remote>>,
         node' \in NodeRec, node'.a2a \in 0..Len(remote), row' \in {row, node, node', saving},
         row' \in NodeRec, row'.a2a \in 0..Len(remote),
         saving' = None \/ saving' = saving \/ (saving' \in NodeRec /\ saving'.a2a \in 0..Len(remote)),
         pc' \in Busy \cup {"none", "down"}, mode' \in {"dispatch", "continue", "recover"},
         stream' \in StreamRec(Len(remote)), current' \in TaskState \cup {"none"}, got' \in Nat,
         counts' \in [given : Nat, answered : Nat, asked : Nat, crashes : Nat]
  PROVE  TypeOK'
BY DEF TypeOK

(* No stream is a stream. *)
LEMMA NoStreamType ==
  ASSUME NEW n \in Nat
  PROVE  NoStream \in StreamRec(n)
<1>1. <<>> \in Seq(Chunk)
  BY EmptySeq
<1> QED
  BY <1>1 DEF NoStream, StreamRec

(* The changes that are made to the node leave a node. *)
LEMMA NodeEdits ==
  ASSUME NEW r \in NodeRec
  PROVE  /\ r.answer \in BOOLEAN
         /\ \A s \in NodeStatus : [r EXCEPT !.status = s] \in NodeRec
         /\ \A k \in Nat : [r EXCEPT !.a2a = k] \in NodeRec
         /\ \A k \in Nat : [r EXCEPT !.output = k] \in NodeRec
         /\ \A k \in Nat : [r EXCEPT !.attempt = k] \in NodeRec
         /\ \A b \in BOOLEAN : [r EXCEPT !.answer = b] \in NodeRec
BY DEF NodeRec

(* Every step of Next keeps the types and what Grows says. *)
LEMMA StepTypes ==
  ASSUME TypeOK, Next
  PROVE  TypeOK' /\ Grows
<1> DEFINE Count == [given : Nat, answered : Nat, asked : Nat, crashes : Nat]
<1>1. /\ Len(remote) \in Nat /\ 0 \in 0..Len(remote) /\ NoStream \in StreamRec(Len(remote))
      /\ \A j \in 1..Len(remote) : /\ remote[j] \in TaskRec
                                   /\ remote[j].made \in Nat /\ remote[j].state \in TaskState
  BY TaskTypes, NoStreamType
<1>2. /\ node \in NodeRec /\ node.a2a \in 0..Len(remote) /\ row \in NodeRec /\ row.a2a \in 0..Len(remote)
      /\ saving = None \/ (saving \in NodeRec /\ saving.a2a \in 0..Len(remote))
      /\ pc \in Busy \cup {"none", "down"} /\ mode \in {"dispatch", "continue", "recover"}
      /\ stream \in StreamRec(Len(remote)) /\ current \in TaskState \cup {"none"} /\ got \in Nat
      /\ counts \in Count
  BY DEF TypeOK
<1>3. CASE \E k \in DOMAIN remote : Agent(k)
  BY <1>3, AgentTypes
<1>4. CASE SendNew \/ SendOn
  <2>1. /\ UNCHANGED <<world, node, row, saving, mode, current>> /\ pc' = "stream" /\ got' = 0
        /\ Sent
    BY <1>4 DEF SendNew, SendOn
  <2>3. counts' \in Count
    BY <1>2, <2>1 DEF Sent
  <2>2. TypeOK'
    BY <1>1, <1>2, <1>4, <2>1, <2>3, SendTypes, SMTT(30) DEF TypeOK, Busy
  <2> QED
    BY <1>4, <2>2, SendTypes
<1>5. CASE build_node_text
  <2>1. node' \in NodeRec /\ node'.a2a = node.a2a
    BY <1>2, <1>5, NodeEdits DEF build_node_text, NodeRec
  <2> QED
    BY <1>1, <1>2, <1>5, <2>1, TypesKept, StillGrows DEF build_node_text, Busy, Calling
<1>6. CASE StreamEnds \/ PollNothing \/ SubscribeFails
  <2>1. node' \in NodeRec /\ node'.a2a = node.a2a
    BY <1>2, <1>6 DEF StreamEnds, PollNothing, SubscribeFails, NodeRec
  <2> QED
    BY <1>1, <1>2, <1>6, <2>1, TypesKept, StillGrows DEF StreamEnds, PollNothing, SubscribeFails, Busy, TaskState
<1>7. CASE SendRefused \/ SendFails \/ Timeout
  BY <1>1, <1>2, <1>7, TypesKept, StillGrows DEF SendRefused, SendFails, Timeout, LetGo, Busy, TaskState
<1>8. CASE Save \/ PersistOthers
  BY <1>1, <1>2, <1>8, TypesKept, StillGrows DEF Save, PersistOthers
<1>9. CASE Answer
  <2>1. node' \in NodeRec /\ node'.a2a = node.a2a /\ row' = node'
    BY <1>2, <1>9 DEF Answer, NodeRec, NodeStatus
  <2>2. counts' \in Count /\ counts'.crashes = counts.crashes
    BY <1>2, <1>9 DEF Answer
  <2>3. UNCHANGED <<world, remote, saving, pc, mode, stream, current, got, left>>
    BY <1>9 DEF Answer
  <2> QED
    BY <1>1, <1>2, <2>1, <2>2, <2>3, TypesKept, StillGrows
<1>10. CASE recover_session
  <2>1. node' \in NodeRec /\ node'.a2a = row.a2a /\ row' = node'
    BY <1>2, <1>10 DEF recover_session, NodeRec, NodeStatus, InFlight, ACTIVE_NODE_STATUSES
  <2>2. UNCHANGED <<world, remote, saving, mode, stream, current, got, left, counts>> /\ pc' = "none"
    BY <1>10 DEF recover_session
  <2> QED
    BY <1>1, <1>2, <2>1, <2>2, TypesKept, StillGrows
<1>11. CASE SendBare
  <2>1. stream' \in StreamRec(Len(remote))
    <3>1. <<Bare>> \in Seq(Chunk)
      BY DEF Bare, Chunk
    <3> QED
      BY <1>1, <1>11, <3>1 DEF SendBare, StreamRec
  <2>2. UNCHANGED <<world, remote, node, row, saving, mode, current, left>> /\ pc' = "stream" /\ got' = 0
        /\ Sent
    BY <1>11 DEF SendBare
  <2>3. counts' \in Count /\ counts'.crashes = counts.crashes
    BY <1>2, <2>2 DEF Sent
  <2> QED
    BY <1>1, <1>2, <2>1, <2>2, <2>3, TypesKept, StillGrows DEF Busy
<1>12. CASE Consume
  <2> DEFINE c == Head(stream.chunks)
  <2>1. stream.chunks \in Seq(Chunk) /\ stream.chunks # <<>> /\ stream.task \in 0..Len(remote)
    BY <1>2, <1>12 DEF Consume, StreamRec
  <2>2. c \in Chunk /\ Tail(stream.chunks) \in Seq(Chunk)
    BY <2>1, HeadTailProperties
  <2>3. stream' \in StreamRec(Len(remote))
    <3> DEFINE y == Tail(stream.chunks)
    <3> HIDE DEF y
    <3>1. stream' = [stream EXCEPT !.chunks = y] /\ y \in Seq(Chunk)
      BY <1>12, <2>2 DEF Consume, y
    <3> QED
      BY <1>2, <3>1 DEF StreamRec
  <2>4. /\ got' = IF c.kind = "task" THEN IF c.made > 0 THEN c.made ELSE got ELSE got + c.made
        /\ CASE c.kind = "task" ->
                  /\ current' = c.state
                  /\ node' = [node EXCEPT !.a2a = stream.task,
                                          !.status = IF c.state = "submitted" THEN c.state ELSE @]
             [] c.kind = "status" -> current' = c.state /\ UNCHANGED node
             [] OTHER -> UNCHANGED <<current, node>>
        /\ UNCHANGED <<world, remote, row, saving, pc, mode, left, counts>>
    BY <1>12 DEF Consume
  <2> HIDE DEF c
  <2>5. got' \in Nat /\ current' \in TaskState \cup {"none"}
    BY <1>2, <2>2, <2>4 DEF Chunk
  <2>6. node' \in NodeRec /\ node'.a2a \in 0..Len(remote)
    <3>1. \/ node' = node
          \/ \E x \in {node.status, "submitted"} : node' = [node EXCEPT !.a2a = stream.task, !.status = x]
      BY <2>4
    <3>2. {node.status, "submitted"} \subseteq NodeStatus
      BY <1>2 DEF NodeRec, NodeStatus, InFlight, ACTIVE_NODE_STATUSES
    <3>3. stream.task \in Nat
      BY <1>1, <2>1
    <3> QED
      BY <1>2, <2>1, <3>1, <3>2, <3>3 DEF NodeRec
  <2> QED
    BY <1>1, <1>2, <2>3, <2>4, <2>5, <2>6, TypesKept, StillGrows
<1>13. CASE ConsumeRaises
  <2>1. stream.task \in 0..Len(remote)
    BY <1>2 DEF StreamRec
  <2>2. node' \in NodeRec /\ node'.a2a \in 0..Len(remote)
    BY <1>1, <1>2, <1>13, <2>1, SMTT(30) DEF ConsumeRaises, NodeRec
  <2> QED
    BY <1>1, <1>2, <1>13, <2>2, TypesKept, StillGrows DEF ConsumeRaises, LetGo, Busy, TaskState
<1>14. CASE \E found \in BOOLEAN : Poll(found)
  <2>1. node.a2a \in 1..Len(remote)
    BY <1>2, <1>14 DEF Poll
  <2>2. node' \in NodeRec /\ node'.a2a = node.a2a
    BY <1>1, <1>2, <1>14, <2>1 DEF Poll, NodeRec
  <2> QED
    BY <1>1, <1>2, <1>14, <2>1, <2>2, TypesKept, StillGrows DEF Poll, Busy
<1>15. CASE subscribe_task
  <2>1. node.a2a \in 1..Len(remote)
    BY <1>2, <1>15 DEF subscribe_task
  <2>2. <<Snapshot(node.a2a)>> \in Seq(Chunk)
    BY <1>1, <2>1 DEF Snapshot, Chunk
  <2>3. stream' \in StreamRec(Len(remote))
    BY <1>2, <1>15, <2>2 DEF subscribe_task, StreamRec
  <2> QED
    BY <1>1, <1>2, <1>15, <2>3, TypesKept, StillGrows DEF subscribe_task, Busy, TaskState
<1>16. CASE \E ask \in BOOLEAN : Settle(ask)
  <2>1. PICK ask \in BOOLEAN : Settle(ask)
    BY <1>16
  <2>2. node' \in NodeRec /\ node'.a2a \in 0..Len(remote)
    BY <1>1, <1>2, <2>1 DEF Settle, NodeRec, NodeStatus, settled
  <2>3. counts' \in Count /\ counts'.crashes = counts.crashes
    BY <1>2, <2>1 DEF Settle
  <2>4. /\ (row' = row \/ row' = node') /\ saving' \in {saving, None}
        /\ UNCHANGED <<world, remote, mode, stream, left>> /\ current' = "working" /\ got' = 0 /\ pc' = "none"
    BY <2>1 DEF Settle
  <2> QED
    BY <1>1, <1>2, <2>2, <2>3, <2>4, TypesKept, StillGrows DEF TaskState
<1>17. CASE Dispatch
  <2> DEFINE due == [node EXCEPT !.status = IF @ = "recover" THEN @ ELSE "submitted"]
  <2>1. due \in NodeRec /\ due.a2a = node.a2a
    BY <1>2 DEF NodeRec, NodeStatus, InFlight, ACTIVE_NODE_STATUSES
  <2>2. saving' = due /\ node' = [due EXCEPT !.attempt = IF mode' = "recover" THEN @ ELSE @ + 1]
    BY <1>17 DEF Dispatch
  <2> HIDE DEF due
  <2>3. node' \in NodeRec /\ node'.a2a = node.a2a
    BY <2>1, <2>2 DEF NodeRec
  <2>4. /\ mode' \in {"dispatch", "continue", "recover"} /\ pc' \in Busy
        /\ current' \in TaskState /\ UNCHANGED <<world, remote, row, stream, got, left, counts>>
    BY <1>17 DEF Dispatch, Busy, Calling, TaskState
  <2> QED
    BY <1>1, <1>2, <2>1, <2>2, <2>3, <2>4, TypesKept, StillGrows
<1>18. CASE Crash
  <2>1. counts' \in Count /\ counts'.crashes = counts.crashes + 1 /\ counts.crashes \in Nat
    BY <1>2, <1>18 DEF Crash
  <2>2. /\ pc' = "down" /\ saving' = None /\ stream' = NoStream /\ node' = row
        /\ current' = "working" /\ got' = 0 /\ UNCHANGED <<world, remote, row, mode>> /\ left \subseteq left'
    BY <1>18 DEF Crash, LetGo
  <2>3. counts.crashes <= counts'.crashes
    BY <2>1
  <2> QED
    BY <1>1, <1>2, <2>1, <2>2, <2>3, TypesKept, StillGrows DEF TaskState
<1>19. CASE \E passed \in BOOLEAN : cancel_node(passed)
  <2>1. /\ node' \in NodeRec /\ node'.a2a = 0 /\ row' = node' /\ saving' = None
        /\ UNCHANGED <<world, pc, mode, current, got, counts>> /\ left \subseteq left'
    <3>1. PICK passed \in BOOLEAN : cancel_node(passed)
      BY <1>19
    <3>2. node' \in NodeRec /\ node'.a2a = 0
      <4>1. node' = [node EXCEPT !.status = "canceled", !.a2a = 0]
        BY <3>1 DEF cancel_node
      <4>2. "canceled" \in NodeStatus
        BY DEF NodeStatus, settled
      <4> QED
        BY <1>2, <4>1, <4>2 DEF NodeRec
    <3>3. LetGo({stream.task} \ {node.a2a}) \/ LetGo({stream.task, node.a2a})
      BY <3>1 DEF cancel_node
    <3>4. left \subseteq left'
      BY <3>3 DEF LetGo
    <3> QED
      BY <3>1, <3>2, <3>4 DEF cancel_node
  <2>2. CASE UNCHANGED <<remote, stream>>
    BY <1>1, <1>2, <2>1, <2>2, TypesKept, StillGrows
  <2>3. CASE node.a2a # 0 /\ ~Ended(node.a2a) /\ RemoteState(node.a2a, "canceled")
    <3> DEFINE k == node.a2a
    <3>1. k \in 1..Len(remote) /\ "canceled" \in TaskState
      BY <1>2, <2>3 DEF TaskState
    <3>2. /\ remote' \in Seq(TaskRec) /\ Len(remote') = Len(remote)
          /\ remote'[k].made = remote[k].made
          /\ \A j \in 1..Len(remote) : j # k => remote'[j] = remote[j]
          /\ stream' \in StreamRec(Len(remote))
      BY <2>3, <3>1, RemoteStateTypes
    <3>3. ~Ended(k)
      BY <2>3
    <3> HIDE DEF k
    <3>4. Grows
      BY <1>1, <1>2, <2>1, <3>1, <3>2, <3>3 DEF Grows
    <3>5. TypeOK'
      BY <1>1, <1>2, <2>1, <3>2 DEF TypeOK
    <3> QED
      BY <3>4, <3>5
  <2> QED
    BY <1>19, <2>2, <2>3 DEF cancel_node, cancel_task
<1> QED
  BY <1>3, <1>4, <1>5, <1>6, <1>7, <1>8, <1>9, <1>10, <1>11, <1>12, <1>13, <1>14, <1>15, <1>16,
     <1>17, <1>18, <1>19 DEF Next, NodeTask

(***************************************************************************)
(* What is loose stays loose, and what a copy may say it may go on saying. *)
(***************************************************************************)
LEMMA LooseStays ==
  ASSUME TypeOK, Grows, NEW k \in 0..Len(remote), Loose(k)
  PROVE  Loose(k)'
<1>1. Len(remote) \in Nat
  BY TaskTypes
<1>2. CASE k = 0 \/ k \in left
  BY <1>2 DEF Grows, Loose
<1>3. CASE k # 0 /\ Ended(k)
  BY <1>1, <1>3 DEF Grows, Loose, Ended
<1> QED
  BY <1>2, <1>3 DEF Loose

(* The same for the output of a delivered copy. *)
LEMMA WholeStays ==
  ASSUME TypeOK, Grows, NEW r \in NodeRec, r.a2a \in 0..Len(remote), Whole(r)
  PROVE  Whole(r)'
<1>1. r.a2a \in 1..Len(remote) /\ Ended(r.a2a)
  BY TaskTypes DEF Whole, Ended
<1>2. remote'[r.a2a] = remote[r.a2a] /\ world' = world
  BY <1>1 DEF Grows
<1>3. counts.crashes \in Nat
  BY DEF TypeOK
<1>4. counts'.crashes = 0 => counts.crashes = 0
  BY <1>3 DEF Grows
<1>5. counts'.crashes = 0 /\ ~Allowed("bare")' => counts.crashes = 0 /\ ~Allowed("bare")
  BY <1>2, <1>4 DEF Allowed
<1>6. remote[r.a2a].made > 0 \/ (counts'.crashes = 0 /\ ~Allowed("bare")') => r.output = remote[r.a2a].made
  BY <1>5 DEF Whole
<1> QED
  BY <1>1, <1>2, <1>6 DEF Whole

LEMMA CopyStays ==
  ASSUME TypeOK, TypeOK', Grows, NEW r \in NodeRec, r.a2a \in 0..Len(remote), CopyOK(r)
  PROVE  CopyOK(r)'
<1>1. r.status \in {"failed", "canceled"} => Loose(r.a2a)'
  BY LooseStays DEF CopyOK
<1>2. r.status = "completed" => Whole(r)'
  BY WholeStays DEF CopyOK
<1>3. counts.crashes > 0 => counts'.crashes > 0
  BY DEF Grows, TypeOK
<1> QED
  BY <1>1, <1>2, <1>3 DEF CopyOK

(***************************************************************************)
(* An answer is sent at most once: only build_node_text takes it, into a   *)
(* message that is then sent or dropped.                                   *)
(***************************************************************************)
Quiet ==
  /\ counts'.given = counts.given /\ counts'.answered = counts.answered
  /\ counts'.crashes = counts.crashes
  /\ node'.answer = node.answer
  /\ pc' = pc \/ pc' \notin {"send", "answer"}

LEMMA AnswerStep ==
  ASSUME TypeOK, Places, AnswerInv, [Next]_vars
  PROVE  AnswerInv'
<1>1. /\ counts.crashes \in Nat /\ counts.given \in Nat /\ counts.answered \in Nat
      /\ counts \in [given : Nat, answered : Nat, asked : Nat, crashes : Nat]
      /\ node \in NodeRec /\ row \in NodeRec
  BY DEF TypeOK
<1>2. CASE Quiet
  BY <1>1, <1>2 DEF Quiet, AnswerInv, AnswerOnce
<1>3. ASSUME NEW k \in DOMAIN remote, Agent(k)
      PROVE  Quiet
  BY <1>1, <1>3 DEF Quiet, Agent, Work, Produce, Ask, End
<1>4. ASSUME UNCHANGED vars
      PROVE  Quiet
  BY <1>4 DEF Quiet, vars
<1>5. ASSUME Save \/ PersistOthers \/ SendRefused \/ PollNothing \/ subscribe_task \/ Timeout
      PROVE  Quiet
  BY <1>5 DEF Quiet, Save, PersistOthers, SendRefused, PollNothing, subscribe_task, Timeout
<1>6. ASSUME SendFails \/ SubscribeFails
      PROVE  Quiet
  BY <1>6 DEF Quiet, SendFails, SubscribeFails
<1>7. ASSUME StreamEnds \/ ConsumeRaises \/ Dispatch \/ (\E passed \in BOOLEAN : cancel_node(passed))
      PROVE  Quiet
  <2>1. UNCHANGED counts /\ (pc' = pc \/ pc' \notin {"send", "answer"})
    BY <1>7 DEF StreamEnds, ConsumeRaises, Dispatch, cancel_node
  <2>2. node'.answer = node.answer
    BY <1>1, <1>7 DEF StreamEnds, ConsumeRaises, Dispatch, cancel_node, NodeRec
  <2> QED
    BY <2>1, <2>2 DEF Quiet
<1>8. ASSUME Consume \/ \E found \in BOOLEAN : Poll(found)
      PROVE  Quiet
  <2>1. UNCHANGED counts /\ (pc' = pc \/ pc' \notin {"send", "answer"})
    BY <1>8 DEF Consume, Poll
  <2>2. node'.answer = node.answer
    BY <1>1, <1>8 DEF Consume, Poll, NodeRec
  <2> QED
    BY <2>1, <2>2 DEF Quiet
<1>9. ASSUME \E ask \in BOOLEAN : Settle(ask)
      PROVE  Quiet
  <2>1. pc' = "none" /\ node'.answer = node.answer
    BY <1>1, <1>9 DEF Settle, NodeRec
  <2>2. /\ counts'.given = counts.given /\ counts'.answered = counts.answered
        /\ counts'.crashes = counts.crashes
    BY <1>1, <1>9 DEF Settle
  <2> QED
    BY <2>1, <2>2 DEF Quiet
<1>10. CASE build_node_text
  <2>1. /\ pc = "text" /\ pc' = (IF node.answer THEN "answer" ELSE "send")
        /\ node' = [node EXCEPT !.answer = FALSE] /\ UNCHANGED counts
    BY <1>10 DEF build_node_text
  <2>2. ~node'.answer
    BY <1>1, <2>1 DEF NodeRec
  <2> QED
    BY <1>1, <2>1, <2>2 DEF AnswerInv, AnswerOnce
<1>11. CASE SendNew \/ SendOn \/ SendBare
  <2>1. pc' = "stream" /\ UNCHANGED node /\ pc \in {"send", "answer"} /\ Sent
    BY <1>11 DEF SendNew, SendOn, SendBare
  <2>2. /\ counts'.answered = counts.answered + (IF pc = "answer" THEN 1 ELSE 0)
        /\ counts'.given = counts.given /\ counts'.crashes = counts.crashes
    BY <1>1, <2>1 DEF Sent
  <2> QED
    BY <1>1, <2>1, <2>2 DEF AnswerInv, AnswerOnce
<1>12. CASE Answer
  <2>1. pc = "none" /\ pc' = "none"
    BY <1>12 DEF Answer
  <2>2. /\ counts'.given = counts.given + 1 /\ counts'.answered = counts.answered
        /\ counts'.crashes = counts.crashes
    BY <1>1, <1>12 DEF Answer
  <2> QED
    BY <1>1, <2>1, <2>2 DEF AnswerInv, AnswerOnce
<1>13. CASE Crash \/ recover_session
  <2>1. counts'.crashes # 0
    BY <1>1, <1>13 DEF Crash, recover_session, Places
  <2> QED
    BY <2>1 DEF AnswerInv, AnswerOnce
<1> QED
  BY <1>2, <1>3, <1>4, <1>5, <1>6, <1>7, <1>8, <1>9, <1>10, <1>11, <1>12, <1>13 DEF Next, NodeTask

(***************************************************************************)
(* Only the stream of a task hears of its changes, and goes on telling.    *)
(***************************************************************************)
Hears ==
  /\ stream'.via = stream.via /\ stream'.task = stream.task
  /\ stream.task = 0 => stream' = stream
  /\ stream.task # 0 /\ Tells(stream.chunks, got, current, remote[stream.task]) =>
       /\ Tells(stream'.chunks, got, current, remote'[stream.task])
       /\ HeadIsTask(stream.chunks) =>
            HeadIsTask(stream'.chunks) /\ stream'.chunks[1] = stream.chunks[1]

LEMMA StateHeard ==
  ASSUME TypeOK, NEW k \in 1..Len(remote), NEW s \in TaskState, RemoteState(k, s)
  PROVE  Hears
<1> DEFINE x == [kind |-> "status", state |-> s, made |-> 0]
<1>1. /\ remote' \in Seq(TaskRec) /\ Len(remote') = Len(remote)
      /\ remote'[k].state = s /\ remote'[k].made = remote[k].made
      /\ \A j \in 1..Len(remote) : j # k => remote'[j] = remote[j]
      /\ stream'.via = stream.via /\ stream'.task = stream.task
  BY RemoteStateTypes
<1>2. stream.task \in 0..Len(remote) /\ stream.chunks \in Seq(Chunk) /\ got \in Nat /\ Len(remote) \in Nat
  BY TaskTypes DEF TypeOK, StreamRec
<1>3. CASE stream.task # k
  <2>1. stream' = stream
    BY <1>3 DEF RemoteState, Streamed
  <2> QED
    BY <1>1, <1>2, <1>3, <2>1 DEF Hears
<1>4. CASE stream.task = k
  <2>1. remote[k] \in TaskRec /\ remote'[k] \in TaskRec
    BY <1>1, ElementOfSeq DEF TypeOK
  <2>2. x \in Chunk /\ x.kind = "status" /\ x.made = 0 /\ x.state = s
    BY DEF Chunk
  <2>3. stream' = [stream EXCEPT !.chunks = Append(@, x)]
    BY <1>4 DEF RemoteState, Streamed
  <2> HIDE DEF x
  <2>4. stream \in StreamRec(Len(remote))
    BY DEF TypeOK
  <2>5. stream'.chunks = Append(stream.chunks, x)
    BY <2>2, <2>3, <2>4, StreamAppend
  <2>6. Tells(stream.chunks, got, current, remote[k]) =>
          /\ Tells(Append(stream.chunks, x), got, current, remote'[k])
          /\ HeadIsTask(stream.chunks) => /\ HeadIsTask(Append(stream.chunks, x))
                                          /\ Append(stream.chunks, x)[1] = stream.chunks[1]
    BY <1>1, <1>2, <2>1, <2>2, TellsAppend
  <2> QED
    BY <1>1, <1>4, <2>5, <2>6 DEF Hears
<1> QED
  BY <1>3, <1>4

LEMMA PieceHeard ==
  ASSUME TypeOK, NEW k \in 1..Len(remote), Produce(k)
  PROVE  Hears
<1> DEFINE x == [kind |-> "artifact", state |-> "none", made |-> 1]
<1>1. /\ remote' \in Seq(TaskRec) /\ Len(remote') = Len(remote)
      /\ remote'[k].state = remote[k].state /\ remote'[k].made = remote[k].made + 1
      /\ \A j \in 1..Len(remote) : j # k => remote'[j] = remote[j]
      /\ stream'.via = stream.via /\ stream'.task = stream.task
  BY ProduceTypes
<1>2. stream.task \in 0..Len(remote) /\ stream.chunks \in Seq(Chunk) /\ got \in Nat /\ Len(remote) \in Nat
  BY TaskTypes DEF TypeOK, StreamRec
<1>3. CASE stream.task # k
  <2>1. stream' = stream
    BY <1>3 DEF Produce, Streamed
  <2> QED
    BY <1>1, <1>2, <1>3, <2>1 DEF Hears
<1>4. CASE stream.task = k
  <2>1. remote[k] \in TaskRec /\ remote'[k] \in TaskRec
    BY <1>1, ElementOfSeq DEF TypeOK
  <2>2. x \in Chunk /\ x.kind = "artifact" /\ x.made = 1
    BY DEF Chunk
  <2>3. stream' = [stream EXCEPT !.chunks = Append(@, x)]
    BY <1>4 DEF Produce, Streamed
  <2> HIDE DEF x
  <2>4. stream \in StreamRec(Len(remote))
    BY DEF TypeOK
  <2>5. stream'.chunks = Append(stream.chunks, x)
    BY <2>2, <2>3, <2>4, StreamAppend
  <2>6. Tells(stream.chunks, got, current, remote[k]) =>
          /\ Tells(Append(stream.chunks, x), got, current, remote'[k])
          /\ HeadIsTask(stream.chunks) => /\ HeadIsTask(Append(stream.chunks, x))
                                          /\ Append(stream.chunks, x)[1] = stream.chunks[1]
    <3>1. x.kind = "artifact" /\ x.made = 1 /\ remote'[k].made = remote[k].made + 1
          /\ remote'[k].state = remote[k].state
      BY <1>1, <2>2
    <3> QED
      BY <1>2, <2>1, <2>2, <3>1, TellsAppend
  <2> QED
    BY <1>1, <1>4, <2>5, <2>6 DEF Hears
<1> QED
  BY <1>3, <1>4

(* Every step keeps the inductive invariant. *)
LEMMA StepInv ==
  ASSUME IInv, Next
  PROVE  IInv'
<1>1. /\ TypeOK' /\ Grows
      /\ TypeOK /\ Copies /\ Places /\ Streams /\ Behind /\ Outcome /\ Followed
  BY StepTypes DEF IInv
<1>2. /\ Len(remote) \in Nat /\ Len(remote') \in Nat
      /\ \A j \in 1..Len(remote) : remote[j].made \in Nat /\ remote[j].state \in TaskState
      /\ DOMAIN remote = 1..Len(remote) /\ DOMAIN remote' = 1..Len(remote')
      /\ \A j \in 1..Len(remote') : remote'[j].made \in Nat
  <2>1. remote' \in Seq(TaskRec)
    BY <1>1 DEF TypeOK
  <2>2. \A j \in 1..Len(remote') : remote'[j] \in TaskRec
    BY <2>1, ElementOfSeq
  <2>3. \A q \in TaskRec : q.made \in Nat
    BY DEF TaskRec
  <2> QED
    BY <1>1, <2>1, <2>2, <2>3, TaskTypes, LenProperties
<1>3. /\ node \in NodeRec /\ node.a2a \in 0..Len(remote) /\ row \in NodeRec /\ row.a2a \in 0..Len(remote)
      /\ saving = None \/ (saving \in NodeRec /\ saving.a2a \in 0..Len(remote))
      /\ stream.task \in 0..Len(remote) /\ counts.crashes \in Nat /\ got \in Nat
  BY <1>1 DEF TypeOK, StreamRec
<1>4. /\ \A k \in 0..Len(remote) : Loose(k) => Loose(k)'
      /\ \A r \in NodeRec : r.a2a \in 0..Len(remote) /\ CopyOK(r) => CopyOK(r)'
  BY <1>1, LooseStays, CopyStays
<1>5. ASSUME NEW k \in DOMAIN remote, Agent(k)
      PROVE  IInv'
  <2>1. k \in 1..Len(remote) /\ UNCHANGED <<world, node, row, saving, pc, mode, current, got, left>>
        /\ counts'.crashes = counts.crashes
    BY <1>1, <1>2, <1>5 DEF Agent, Work, Produce, Ask, End, TypeOK
  <2>2. Hears
    <3>1. Produce(k) \/ \E s \in TaskState : RemoteState(k, s)
      BY <1>5 DEF Agent, Work, Ask, End, TaskState
    <3> QED
      BY <1>1, <2>1, <3>1, StateHeard, PieceHeard
  <2>3. Len(remote') = Len(remote)
    <3>1. Produce(k) \/ \E s \in TaskState : RemoteState(k, s)
      BY <1>5 DEF Agent, Work, Ask, End, TaskState
    <3> QED
      BY <1>1, <2>1, <3>1, RemoteStateTypes, ProduceTypes
  <2>4. Copies'
    BY <1>1, <1>3, <1>4, <2>1, SMTT(30) DEF Copies, CopyOK, Whole, Loose, Ended, Allowed
  <2>5. Places'
    BY <1>1, <1>2, <1>3, <1>4, <2>1, <2>2 DEF Places, Hears, NoStream, Loose, Ended
  <2>6. Streams'
    BY <1>1, <1>2, <1>3, <1>4, <2>1, <2>2 DEF Streams, Hears, Loose, Ended, Allowed
  <2>7. Behind'
    <3>1. node.a2a # 0 => node.a2a \in 1..Len(remote)
      BY <1>2, <1>3
    <3>2. node.a2a # 0 => remote[node.a2a].made <= remote'[node.a2a].made
      BY <1>1, <3>1 DEF Grows
    <3>3. node.a2a # 0 => remote'[node.a2a].made \in Nat /\ remote[node.a2a].made \in Nat /\ node.output \in Nat
      BY <1>2, <1>3, <2>3, <3>1 DEF NodeRec
    <3> QED
      BY <1>1, <2>1, <2>2, <3>2, <3>3 DEF Behind, Hears, Allowed
  <2>8. Outcome'
    <3>1. Whole(node) => Whole(node)'
      <4>1. \A r \in NodeRec : r.a2a \in 0..Len(remote) /\ Whole(r) => Whole(r)'
        BY <1>1, WholeStays
      <4> QED
        BY <1>3, <2>1, <4>1 DEF Whole, Allowed
    <3> QED
      BY <1>1, <1>3, <1>4, <2>1, <3>1 DEF Outcome, Loose, Ended
  <2>9. Followed'
    BY <1>1, <1>2, <2>1, <2>2, <2>3 DEF Followed, Grows, Hears, Ended
  <2> QED
    BY <1>1, <2>4, <2>5, <2>6, <2>7, <2>8, <2>9 DEF IInv
<1>6. CASE SendNew \/ SendOn
  <2>1. /\ stream'.via = "send" /\ stream'.task # 0 /\ HeadIsTask(stream'.chunks)
        /\ Tells(stream'.chunks, 0, current', remote'[stream'.task])
    BY <1>1, <1>6, SendTypes
  <2>2. /\ UNCHANGED <<world, node, row, saving, mode, current, left>> /\ got' = 0
        /\ pc \in {"send", "answer"} /\ pc' = "stream" /\ counts'.crashes = counts.crashes
    BY <1>1, <1>6 DEF SendNew, SendOn, Sent, TypeOK
  <2>3. SendNew => /\ Loose(node.a2a) /\ stream'.task = Len(remote) + 1
                   /\ stream'.chunks[1].state = "submitted" /\ Len(remote') = Len(remote) + 1
    BY <1>1, <1>6, AppendProperties DEF SendNew, Places, Calling, Loose, TypeOK
  <2>4. SendOn => stream'.task = node.a2a /\ Len(remote') = Len(remote)
    BY <1>1, <1>3, ExceptSeq DEF SendOn
  <2>5. Copies'
    BY <1>1, <1>3, <1>4, <2>2 DEF Copies, CopyOK, Whole, Loose, Ended, Allowed
  <2>6. Places'
    BY <1>1, <2>2 DEF Places, Calling, Busy
  <2>7. Loose(node.a2a) => Loose(node.a2a)'
    BY <1>3, <1>4, <2>2 DEF Loose, Ended
  <2>8. Streams'
    <3>1. CASE SendNew
      BY <1>6, <2>1, <2>2, <2>3, <2>7, <3>1 DEF Streams
    <3>2. CASE SendOn
      <4>1. node.status = "canceled" => Loose(node.a2a)'
        BY <1>1, <2>7 DEF Copies, CopyOK
      <4>2. Loose(node.a2a)' => Loose(stream.task)'
        BY <2>2, <2>4, <3>2 DEF Loose, Ended
      <4> QED
        BY <2>1, <2>2, <2>4, <3>2, <4>1, <4>2 DEF Streams
    <3> QED
      BY <1>6, <3>1, <3>2
  <2>9. Behind' /\ Outcome'
    BY <2>1, <2>2 DEF Behind, Outcome
  <2>10. Followed'
    <3>1. stream.task = 0
      BY <1>1, <2>2 DEF Places, NoStream
    <3>2. \A k \in 1..Len(remote') : k \in 1..Len(remote) \/ k = stream'.task
      <4>1. CASE SendNew
        BY <1>2, <2>3, <4>1
      <4>2. CASE SendOn
        BY <2>4, <4>2
      <4> QED
        BY <1>6, <4>1, <4>2
    <3> QED
      BY <1>1, <1>2, <2>2, <3>1, <3>2 DEF Followed, Grows, Ended
  <2> QED
    BY <1>1, <2>5, <2>6, <2>8, <2>9, <2>10 DEF IInv
<1>7. CASE Consume
  <2> DEFINE t  == stream.task
             ch == stream.chunks
             c  == Head(ch)
  <2>1. /\ pc = "stream" /\ ch # <<>> /\ stream' = [stream EXCEPT !.chunks = Tail(@)]
        /\ got' = IF c.kind = "task" THEN IF c.made > 0 THEN c.made ELSE got ELSE got + c.made
        /\ c.kind = "task" => /\ current' = c.state
                              /\ node' = [node EXCEPT !.a2a = t, !.status = IF c.state = "submitted" THEN c.state ELSE @]
                              /\ c.state # "submitted" \/ can_transition("submitted")
        /\ c.kind = "status" => current' = c.state /\ UNCHANGED node
        /\ c.kind \notin {"task", "status"} => UNCHANGED <<current, node>>
        /\ UNCHANGED <<world, remote, row, saving, pc, mode, left, counts>>
    BY <1>7 DEF Consume
  <2>2. /\ ch \in Seq(Chunk) /\ stream' \in StreamRec(Len(remote)) /\ c = ch[1]
        /\ stream'.via = stream.via /\ stream'.task = t /\ stream'.chunks = Tail(ch)
    <3>1. stream \in StreamRec(Len(remote)) /\ stream' \in StreamRec(Len(remote'))
      BY <1>1 DEF TypeOK
    <3> DEFINE y == Tail(ch)
    <3>2. stream' = [stream EXCEPT !.chunks = y]
      BY <2>1
    <3> HIDE DEF y
    <3>3. stream'.via = stream.via /\ stream'.task = t /\ stream'.chunks = y
      BY <3>1, <3>2 DEF StreamRec
    <3>4. ch \in Seq(Chunk)
      BY <3>1 DEF StreamRec
    <3> QED
      BY <2>1, <3>1, <3>3, <3>4, HeadTailProperties DEF y
  <2>3. CASE t = 0
    <3>1. ch = <<Bare>>
      BY <1>1, <2>1, <2>3 DEF Streams
    <3>2. c.kind = "message" /\ Tail(ch) = <<>>
      BY <3>1 DEF Bare
    <3>3. UNCHANGED <<current, node>>
      BY <2>1, <3>2
    <3>4. Streams' /\ Places'
      BY <1>1, <2>1, <2>2, <2>3, <3>2, <3>3 DEF Streams, Places, Allowed, Loose, Ended
    <3>5. Copies' /\ Outcome' /\ Behind' /\ Followed'
      BY <1>1, <2>1, <2>2, <3>3 DEF Copies, CopyOK, Whole, Outcome, Behind, Followed, Allowed, Loose, Ended
    <3> QED
      BY <1>1, <3>4, <3>5 DEF IInv
  <2>4. CASE t # 0
    <3>1. /\ Tells(ch, got, current, remote[t]) /\ (node.a2a = t \/ Loose(node.a2a))
          /\ \/ node.a2a = t
             \/ HeadIsTask(ch) /\ stream.via = "send"
             \/ node.status = "canceled" /\ Loose(t)
          /\ node.status = "canceled" =>
               Loose(t) \/ (stream.via = "send" /\ HeadIsTask(ch) /\ ch[1].state = "submitted")
          /\ stream.via # "none" /\ node.status \in InFlight \cup {"canceled"}
      <4>1. node.status \in InFlight \cup {"canceled"}
        BY <1>1, <2>1 DEF Places, Busy
      <4>2. /\ Tells(ch, got, current, remote[t]) /\ (node.a2a = t \/ Loose(node.a2a))
            /\ stream.via # "none"
        BY <1>1, <2>1, <2>4 DEF Streams
      <4>3. \/ node.a2a = t
            \/ HeadIsTask(ch) /\ stream.via = "send"
            \/ node.status = "canceled" /\ Loose(t)
        BY <1>1, <2>1, <2>4 DEF Streams
      <4>4. node.status = "canceled" =>
              Loose(t) \/ (stream.via = "send" /\ HeadIsTask(ch) /\ ch[1].state = "submitted")
        BY <1>1, <2>1, <2>4 DEF Streams
      <4> QED
        BY <4>1, <4>2, <4>3, <4>4
    <3>2. (HeadIsTask(ch) <=> c.kind = "task") /\ c.kind \in {"task", "status", "artifact"}
      <4>1. 1 \in DOMAIN ch
        BY <2>1, <2>2, LenProperties, EmptySeq
      <4> QED
        BY <2>1, <2>2, <3>1, <4>1 DEF HeadIsTask, Tells
    <3>3. current' = IF c.kind = "artifact" THEN current ELSE c.state
      BY <2>1, <3>2
    <3>4. ~HeadIsTask(Tail(ch)) /\ Tells(Tail(ch), got', current', remote[t])
      <4>1. /\ ch \in Seq(Chunk) /\ ch # <<>> /\ got \in Nat
            /\ got' = IF c.kind = "task" THEN IF c.made > 0 THEN c.made ELSE got ELSE got + c.made
        BY <1>3, <2>1, <2>2
      <4>2. Tells(ch, got, current, remote[t])
        BY <3>1
      <4> HIDE DEF t, ch
      <4> QED
        BY <3>3, <4>1, <4>2, TellsTail
    <3>5. node.status = "canceled" => Loose(t)
      BY <2>1, <2>2, <3>1, <3>2 DEF can_transition, InFlight, ACTIVE_NODE_STATUSES
    <3>6. /\ node' \in NodeRec /\ node'.a2a = IF c.kind = "task" THEN t ELSE node.a2a
          /\ node'.status \in {node.status, "submitted"} /\ (node'.status = "canceled" <=> node.status = "canceled")
          /\ node'.output = node.output
      <4>1. CASE c.kind = "task"
        BY <1>1, <1>3, <2>1, <3>1, <4>1 DEF TypeOK, NodeRec, can_transition, InFlight, ACTIVE_NODE_STATUSES
      <4>2. CASE c.kind # "task"
        <5>1. node' = node
          BY <2>1, <4>2
        <5> QED
          BY <1>3, <4>2, <5>1
      <4> QED
        BY <4>1, <4>2
    <3> HIDE DEF t, ch, c
    <3>7. Streams'
      <4>1. Loose(node.a2a) /\ node'.a2a = node.a2a => Loose(node.a2a)'
        BY <2>1 DEF Loose, Ended
      <4>2. Loose(t) => Loose(stream.task)'
        BY <2>1, <2>2 DEF Loose, Ended
      <4> QED
        BY <2>1, <2>2, <2>4, <3>1, <3>2, <3>4, <3>5, <3>6, <4>1, <4>2 DEF Streams
    <3>8. Places'
      BY <1>1, <2>1, <3>1, <3>6 DEF Places, Calling, InFlight, ACTIVE_NODE_STATUSES
    <3>9. Copies'
      <4>1. CopyOK(row)' /\ (saving' # None => CopyOK(saving)')
        BY <1>1, <2>1 DEF Copies, CopyOK, Whole, Loose, Ended, Allowed
      <4>2. CopyOK(node)'
        BY <1>1, <2>1, <2>4, <3>1, <3>5, <3>6 DEF Copies, CopyOK, Loose, Ended, InFlight, ACTIVE_NODE_STATUSES, t
      <4> QED
        BY <4>1, <4>2 DEF Copies
    <3>10. Behind' /\ Outcome'
      BY <1>1, <2>1, <2>2, <2>4, <3>1, <3>6 DEF Behind, Outcome, Allowed
    <3>11. Followed'
      BY <1>1, <2>1, <2>2, <3>1, <3>6 DEF Followed, Loose, Ended, t
    <3> QED
      BY <1>1, <3>7, <3>8, <3>9, <3>10, <3>11 DEF IInv
  <2> QED
    BY <2>3, <2>4
<1>8. CASE StreamEnds
  <2> DEFINE t == stream.task
  <2>1. /\ pc = "stream" /\ stream.chunks = <<>> /\ stream' = NoStream
        /\ node' = [node EXCEPT !.output = got]
        /\ pc' = IF current \in settled \/ node.a2a = 0 THEN "settle" ELSE "poll"
        /\ UNCHANGED <<world, remote, row, saving, mode, current, got, left, counts>>
    BY <1>8 DEF StreamEnds
  <2>2. node'.a2a = node.a2a /\ node'.status = node.status /\ node'.output = got
    BY <1>3, <2>1 DEF NodeRec
  <2>3. node.status \in InFlight \cup {"canceled"}
    BY <1>1, <2>1 DEF Places, Busy
  <2>4. t = 0 => Allowed("bare") /\ current = "working"
    BY <1>1, <2>1 DEF Streams
  <2>5. t # 0 => /\ got = remote[t].made /\ current = remote[t].state
                 /\ node.a2a = t \/ Loose(node.a2a)
                 /\ node.a2a = t \/ (node.status = "canceled" /\ Loose(t))
    <3>1. ~HeadIsTask(<<>>)
      BY DEF HeadIsTask
    <3>2. t # 0 => Tells(<<>>, got, current, remote[t])
      BY <1>1, <2>1 DEF Streams
    <3> QED
      BY <1>1, <1>3, <2>1, <3>1, <3>2, TellsEmpty DEF Streams
  <2>6. Copies'
    BY <1>1, <2>1, <2>2, <2>3 DEF Copies, CopyOK, Whole, Loose, Ended, Allowed, InFlight, ACTIVE_NODE_STATUSES
  <2>7. Places' /\ Streams'
    BY <1>1, <2>1, <2>2, <2>3 DEF Places, Streams, Calling
  <2>8. Behind'
    <3>1. t # 0 => t \in 1..Len(remote)
      BY <1>2, <1>3
    <3> QED
      BY <1>2, <2>1, <2>2, <2>4, <2>5, <3>1 DEF Behind, Allowed, NoStream
  <2>9. Outcome'
    <3>1. ASSUME pc' = "settle", current # "input_required"
          PROVE  Loose(node.a2a)
      <4>1. CASE node.a2a = 0
        BY <4>1 DEF Loose
      <4>2. CASE node.a2a # 0
        <5>1. current \in {"completed", "failed", "canceled"}
          BY <2>1, <3>1, <4>2 DEF settled
        <5> QED
          BY <2>4, <2>5, <5>1 DEF Loose, Ended
      <4> QED
        BY <4>1, <4>2
    <3>2. ASSUME current = "completed", node.status # "canceled"
          PROVE  Whole(node)'
      <4>1. t # 0 /\ node.a2a = t /\ got = remote[t].made /\ remote[t].state = "completed"
        BY <2>4, <2>5, <3>2
      <4> QED
        BY <2>1, <2>2, <4>1 DEF Whole
    <3>3. Loose(node.a2a) => Loose(node.a2a)'
      BY <2>1, <2>2 DEF Loose, Ended
    <3> QED
      BY <2>1, <2>2, <3>1, <3>2, <3>3 DEF Outcome
  <2>10. Followed'
    BY <1>1, <2>1, <2>2, <2>5 DEF Followed, Loose, Ended, NoStream, settled
  <2> QED
    BY <1>1, <2>6, <2>7, <2>8, <2>9, <2>10 DEF IInv
<1>9. CASE subscribe_task
  <2> DEFINE t == node.a2a
  <2>1. /\ pc = "subscribe" /\ t # 0 /\ pc' = "stream" /\ current' = "working" /\ got' = 0
        /\ stream' = [via |-> "subscribe", task |-> t, chunks |-> <<Snapshot(t)>>]
        /\ UNCHANGED <<world, remote, node, row, saving, mode, left, counts>>
    BY <1>9 DEF subscribe_task
  <2>2. Tells(<<Snapshot(t)>>, 0, current', remote[t])
    <3>1. t \in 1..Len(remote)
      BY <1>2, <1>3, <2>1
    <3>2. remote[t] \in TaskRec
      BY <1>1, <3>1, TaskTypes
    <3> QED
      BY <3>2, TellsSnapshot DEF Snapshot
  <2>3. Streams'
    <3> DEFINE ss == <<Snapshot(t)>>
    <3> HIDE DEF ss
    <3>1. /\ stream'.via = "subscribe" /\ stream'.task = t /\ stream'.chunks = ss
          /\ Tells(ss, 0, current', remote[t])
      BY <2>1, <2>2 DEF ss
    <3>2. node.status = "canceled" => Loose(t)
      BY <1>1 DEF Copies, CopyOK
    <3>3. node.status = "canceled" => Loose(stream.task)'
      BY <2>1, <3>1, <3>2 DEF Loose, Ended
    <3> QED
      BY <2>1, <3>1, <3>3 DEF Streams
  <2>4. Places' /\ Outcome'
    BY <1>1, <2>1 DEF Places, Outcome, Calling, Busy
  <2>5. Copies'
    BY <1>1, <2>1 DEF Copies, CopyOK, Whole, Loose, Ended, Allowed
  <2>6. Behind'
    BY <1>1, <2>1 DEF Behind, Allowed
  <2>7. Followed'
    BY <1>1, <2>1 DEF Followed, Ended, Places, NoStream
  <2> QED
    BY <1>1, <2>3, <2>4, <2>5, <2>6, <2>7 DEF IInv
<1>10. CASE Dispatch
  <2>1. /\ pc = "none" /\ pc' \in {"text", "settle", "subscribe"}
        /\ (pc' = "text" <=> node.status # "recover")
        /\ (pc' = "settle" <=> node.status = "recover" /\ node.a2a = 0)
        /\ mode' = "dispatch" => node.status \in {"pending", "failed"}
        /\ pc' = "text" => mode' # "recover"
        /\ current' = IF pc' = "settle" THEN "failed" ELSE "working"
        /\ UNCHANGED <<world, remote, row, stream, got, left, counts>>
    BY <1>10 DEF Dispatch, can_retry
  <2>2. /\ node'.a2a = node.a2a /\ node'.output = node.output
        /\ node'.status = IF node.status = "recover" THEN "recover" ELSE "submitted"
        /\ saving'.a2a = node.a2a /\ saving'.status = node'.status
    BY <1>3, <1>10 DEF Dispatch, NodeRec
  <2>3. Copies'
    BY <1>1, <2>1, <2>2 DEF Copies, CopyOK, Whole, Loose, Ended, Allowed
  <2>4. Places'
    BY <1>1, <2>1, <2>2 DEF Places, Copies, CopyOK, Loose, Ended, Calling, InFlight, ACTIVE_NODE_STATUSES, settled, NoStream
  <2>5. Streams' /\ Behind'
    BY <1>1, <2>1, <2>2 DEF Streams, Behind, Copies, CopyOK, Places, NoStream
  <2>6. Outcome'
    BY <2>1, <2>2 DEF Outcome, Loose
  <2>7. Followed'
    BY <1>1, <2>1, <2>2 DEF Followed, Ended
  <2> QED
    BY <1>1, <2>3, <2>4, <2>5, <2>6, <2>7 DEF IInv
<1>11. CASE \E ask \in BOOLEAN : Settle(ask)
  <2>1. PICK ask \in BOOLEAN : Settle(ask)
    BY <1>11
  <2> DEFINE to == IF ask THEN "input_required" ELSE IF current \in settled THEN current ELSE "failed"
  <2>2. /\ pc = "settle" /\ pc' = "none" /\ (ask => current = "completed")
        /\ row' = IF can_transition(to) THEN node' ELSE row
        /\ saving' = IF can_transition(to) THEN None ELSE saving
        /\ UNCHANGED <<world, remote, mode, stream, left>>
    BY <2>1 DEF Settle
  <2>3. /\ node'.status = IF can_transition(to) THEN to ELSE node.status
        /\ node'.a2a = IF ask THEN 0 ELSE node.a2a
        /\ node'.output = node.output /\ counts'.crashes = counts.crashes
    BY <1>1, <1>3, <2>1 DEF Settle, NodeRec, TypeOK
  <2>4. node.status \in InFlight \cup {"canceled"}
    BY <1>1, <2>2 DEF Places, Busy
  <2>5. CopyOK(node)'
    <3>1. to \in settled /\ (to = "input_required" => ask \/ current = "input_required")
          /\ (to = "completed" => ~ask /\ current = "completed")
          /\ (to \in {"failed", "canceled"} => current # "input_required")
      BY DEF settled
    <3>2. ~can_transition(to) => node.status = "canceled"
      BY <2>4 DEF can_transition
    <3>3. can_transition(to) /\ to = "completed" => node.status # "canceled"
      BY DEF can_transition, InFlight, ACTIVE_NODE_STATUSES
    <3> HIDE DEF to
    <3>4. current # "input_required" => Loose(node.a2a)
      BY <1>1, <2>2 DEF Outcome
    <3>5. current = "completed" /\ node.status # "canceled" => Whole(node)
      BY <1>1, <2>2 DEF Outcome
    <3>6. node.status = "canceled" => Loose(node.a2a)
      BY <1>1 DEF Copies, CopyOK
    <3>7. node'.status \in {"failed", "canceled"} => Loose(node.a2a)
      BY <2>2, <2>3, <3>1, <3>2, <3>4, <3>6
    <3>8. Loose(node.a2a) => Loose(node.a2a)'
      BY <2>2, <2>3 DEF Loose, Ended
    <3>9. node'.status = "completed" => Whole(node)'
      BY <2>2, <2>3, <3>1, <3>2, <3>3, <3>5 DEF Whole, Allowed
    <3>10. node'.status \notin {"pending", "recover"}
      BY <2>3, <3>1, <3>2 DEF settled
    <3> QED
      BY <3>7, <3>8, <3>9, <3>10 DEF CopyOK
  <2>6. Copies'
    <3>1. CopyOK(row) => /\ row' = row => CopyOK(row)'
                         /\ row' = node' => CopyOK(row)'
      BY <2>2, <2>3, <2>5 DEF CopyOK, Whole, Loose, Ended, Allowed
    <3>2. saving' # None => CopyOK(saving)'
      BY <1>1, <2>2, <2>3 DEF Copies, CopyOK, Whole, Loose, Ended, Allowed
    <3> QED
      BY <1>1, <2>2, <2>5, <3>1, <3>2 DEF Copies
  <2>7. Places' /\ Streams' /\ Behind' /\ Outcome'
    BY <1>1, <2>2 DEF Places, Streams, Behind, Outcome, Calling, Busy
  <2>8. Followed'
    <3>1. ask => Loose(node.a2a)
      BY <1>1, <2>2 DEF Outcome
    <3> QED
      BY <1>1, <2>2, <2>3, <3>1 DEF Followed, Loose, Ended
  <2> QED
    BY <1>1, <2>6, <2>7, <2>8 DEF IInv
<1>12. CASE \E passed \in BOOLEAN : cancel_node(passed)
  <2>1. PICK passed \in BOOLEAN : cancel_node(passed)
    BY <1>12
  <2> DEFINE k == node.a2a
             t == stream.task
  <2>2. /\ node' = [node EXCEPT !.status = "canceled", !.a2a = 0] /\ row' = node' /\ saving' = None
        /\ pc # "down" /\ UNCHANGED <<world, pc, mode, current, got, counts>>
    BY <2>1 DEF cancel_node
  <2>3. node'.status = "canceled" /\ node'.a2a = 0
    BY <1>3, <2>2 DEF NodeRec
  <2>4. /\ Hears /\ Len(remote') = Len(remote)
        /\ \A j \in {k, t} : j = 0 \/ j \in left' \/ remote'[j].state \in {"completed", "failed", "canceled"}
    <3>1. CASE passed /\ k # 0 /\ ~Ended(k)
      <4>1. RemoteState(k, "canceled") /\ LetGo({t} \ {k})
        BY <2>1, <3>1 DEF cancel_node, cancel_task
      <4>2. k \in 1..Len(remote) /\ "canceled" \in TaskState
        BY <1>2, <1>3, <3>1 DEF TaskState
      <4>3. Hears /\ Len(remote') = Len(remote) /\ remote'[k].state = "canceled"
            /\ \A j \in 1..Len(remote) : j # k => remote'[j] = remote[j]
        BY <1>1, <4>1, <4>2, StateHeard, RemoteStateTypes
      <4>4. t # k => t = 0 \/ t \in left' \/ Ended(t)
        BY <4>1 DEF LetGo
      <4> HIDE DEF k, t
      <4>5. t \in 0..Len(remote)
        BY <1>3 DEF t
      <4> QED
        BY <1>2, <4>3, <4>4, <4>5 DEF Ended
    <3>2. CASE ~(passed /\ k # 0 /\ ~Ended(k))
      <4>1. UNCHANGED <<remote, stream>> /\ LetGo({t, k})
        BY <2>1, <3>2 DEF cancel_node
      <4> QED
        BY <4>1 DEF LetGo, Hears, Ended
    <3> QED
      BY <3>1, <3>2
  <2>5. Loose(stream.task)' /\ Loose(node.a2a)'
    BY <2>3, <2>4 DEF Loose, Ended, Hears
  <2>6. Copies'
    BY <2>2, <2>3, <2>5 DEF Copies, CopyOK
  <2>7. Places'
    BY <1>1, <2>2, <2>3, <2>4, <2>5 DEF Places, Hears, NoStream
  <2>8. Streams'
    BY <1>1, <2>2, <2>3, <2>4, <2>5 DEF Streams, Hears, Allowed
  <2>9. Behind' /\ Outcome'
    BY <2>3, <2>5 DEF Behind, Outcome
  <2>10. Followed'
    BY <1>1, <1>2, <2>2, <2>4 DEF Followed, Grows, Ended, Hears
  <2> QED
    BY <1>1, <2>6, <2>7, <2>8, <2>9, <2>10 DEF IInv
<1>13. CASE SendBare
  <2>1. /\ pc \in {"send", "answer"} /\ pc' = "stream" /\ got' = 0 /\ Allowed("bare")
        /\ stream' = [via |-> "send", task |-> 0, chunks |-> <<Bare>>]
        /\ UNCHANGED <<world, remote, node, row, saving, mode, current, left>>
    BY <1>13 DEF SendBare
  <2>2. counts'.crashes = counts.crashes
    BY <1>1, <1>13 DEF SendBare, Sent, TypeOK
  <2>3. current = "working" /\ node.status \in InFlight \cup {"canceled"} /\ stream.task = 0
    BY <1>1, <2>1 DEF Places, Calling, Busy, NoStream
  <2>4. Copies'
    BY <1>1, <2>1, <2>2 DEF Copies, CopyOK, Whole, Loose, Ended, Allowed
  <2>5. Places' /\ Behind' /\ Outcome'
    BY <1>1, <2>1, <2>2, <2>3 DEF Places, Behind, Outcome, Calling
  <2>6. Streams'
    <3> DEFINE bb == <<Bare>>
    <3> HIDE DEF bb
    <3>1. stream'.via = "send" /\ stream'.task = 0 /\ stream'.chunks = bb
      BY <2>1 DEF bb
    <3> QED
      BY <2>1, <2>3, <3>1 DEF Streams, Allowed, bb
  <2>7. Followed'
    BY <1>1, <2>1, <2>3 DEF Followed, Ended
  <2> QED
    BY <1>1, <2>4, <2>5, <2>6, <2>7 DEF IInv
<1>14. CASE Save \/ PersistOthers
  <2>1. /\ UNCHANGED <<world, remote, node, pc, mode, stream, current, got, left, counts>>
        /\ saving' = None \/ saving' = saving
        /\ row' = node \/ (row' = saving /\ saving # None)
        /\ pc # "down"
    BY <1>1, <1>14 DEF Save, PersistOthers, Places
  <2>2. Copies'
    BY <1>1, <2>1 DEF Copies, CopyOK, Whole, Loose, Ended, Allowed
  <2>3. Places' /\ Behind' /\ Outcome' /\ Followed'
    BY <1>1, <2>1 DEF Places, Behind, Outcome, Followed, Whole, Loose, Ended, Allowed
  <2>4. Streams'
    BY <1>1, <2>1 DEF Streams, Loose, Ended, Allowed
  <2> QED
    BY <1>1, <2>2, <2>3, <2>4 DEF IInv
<1>15. CASE build_node_text
  <2>1. /\ pc = "text" /\ pc' \in {"send", "answer"}
        /\ UNCHANGED <<world, remote, row, saving, mode, stream, current, got, left, counts>>
    BY <1>15 DEF build_node_text
  <2>2. node'.status = node.status /\ node'.a2a = node.a2a /\ node'.output = node.output
    BY <1>3, <1>15 DEF build_node_text, NodeRec
  <2>3. Copies'
    BY <1>1, <2>1, <2>2 DEF Copies, CopyOK, Whole, Loose, Ended, Allowed
  <2>4. Places'
    BY <1>1, <2>1, <2>2 DEF Places, Calling, Busy, Loose, Ended
  <2>5. Streams' /\ Behind' /\ Outcome'
    BY <2>1 DEF Streams, Behind, Outcome
  <2>6. Followed'
    BY <1>1, <2>1, <2>2 DEF Followed, Ended
  <2> QED
    BY <1>1, <2>3, <2>4, <2>5, <2>6 DEF IInv
<1>16. CASE SendRefused \/ SendFails \/ Timeout
  <2>1. /\ UNCHANGED <<world, remote, node, row, saving, mode, got, counts>>
        /\ pc' = "settle" /\ current' = "working" /\ pc \in Busy /\ stream' = NoStream
    BY <1>1, <1>16 DEF SendRefused, SendFails, Timeout, Places, NoStream, Calling, Busy
  <2>2. LetGo({stream.task, node.a2a}) \/ (LetGo({node.a2a}) /\ stream.task = 0)
    BY <1>1, <1>16 DEF SendRefused, SendFails, Timeout, Places, NoStream
  <2>3. \A k \in {stream.task, node.a2a} : k = 0 \/ k \in left' \/ Ended(k)
    BY <2>2 DEF LetGo
  <2>4. Copies'
    BY <1>1, <1>3, <1>4, <2>1 DEF Copies, CopyOK, Whole, Loose, Ended, Allowed
  <2>5. Places' /\ Streams' /\ Behind'
    BY <1>1, <2>1 DEF Places, Streams, Behind, Calling, Busy
  <2>6. Outcome'
    BY <2>1, <2>3 DEF Outcome, Loose, Ended
  <2>7. Followed'
    BY <1>1, <1>2, <2>1, <2>3 DEF Followed, Grows, Ended, Busy, Calling
  <2> QED
    BY <1>1, <2>4, <2>5, <2>6, <2>7 DEF IInv
<1>17. CASE ConsumeRaises
  <2>1. /\ pc = "stream" /\ stream.chunks # <<>> /\ Head(stream.chunks).kind = "task"
        /\ pc' = IF stream.via = "send" THEN "settle" ELSE "poll"
        /\ LetGo(IF stream.via = "send" THEN {stream.task} ELSE {})
        /\ current' = "working" /\ stream' = NoStream
        /\ UNCHANGED <<world, remote, row, saving, mode, got, counts>>
    BY <1>17 DEF ConsumeRaises
  <2>2. node'.a2a = stream.task /\ node'.status = node.status
    BY <1>3, <1>17 DEF ConsumeRaises, NodeRec
  <2>3. node.status = "canceled"
    BY <1>1, <1>17 DEF ConsumeRaises, Places, Busy, can_transition
  <2>4. stream.task # 0 => Loose(stream.task) \/ stream.via = "send"
    BY <1>1, <2>1, <2>3 DEF Streams
  <2>5. left \subseteq left' /\ (stream.via = "send" => stream.task = 0 \/ stream.task \in left' \/ Ended(stream.task))
    BY <2>1 DEF LetGo
  <2>6. Loose(node.a2a)'
    BY <2>1, <2>2, <2>4, <2>5 DEF Loose, Ended
  <2>7. Loose(node.a2a) => node.a2a = 0 \/ node.a2a \in left' \/ Ended(node.a2a)
    BY <2>5 DEF Loose
  <2>8. Copies'
    <3>1. CopyOK(node)'
      BY <2>2, <2>3, <2>6 DEF CopyOK
    <3>2. CopyOK(row)' /\ (saving' # None => CopyOK(saving)')
      BY <1>1, <1>3, <1>4, <2>1 DEF Copies, CopyOK, Whole, Loose, Ended, Allowed
    <3> QED
      BY <3>1, <3>2 DEF Copies
  <2>9. Places' /\ Streams' /\ Behind' /\ Outcome'
    BY <2>1, <2>2, <2>3, <2>6 DEF Places, Streams, Behind, Outcome, Calling, settled
  <2>10. Followed'
    <3>1. CopyOK(node)
      BY <1>1 DEF Copies
    <3>2. Loose(node.a2a)
      BY <2>3, <3>1 DEF CopyOK
    <3>3. SUFFICES ASSUME NEW k \in DOMAIN remote, k \notin left', ~Ended(k)
                   PROVE  node'.a2a = k
      BY <2>1 DEF Followed, Ended
    <3>4. k # 0
      BY <1>1, <3>3 DEF TypeOK
    <3>5. stream.task = k \/ node.a2a = k
      BY <1>1, <2>1, <2>5, <3>3 DEF Followed
    <3>6. node.a2a # k
      BY <2>5, <3>2, <3>3, <3>4 DEF Loose
    <3> QED
      BY <2>2, <3>5, <3>6
  <2> QED
    BY <1>1, <2>8, <2>9, <2>10 DEF IInv
<1>18. CASE \E found \in BOOLEAN : Poll(found)
  <2>1. PICK found \in BOOLEAN : Poll(found)
    BY <1>18
  <2>2. /\ pc = "poll" /\ node.a2a # 0
        /\ current' = IF found THEN remote[node.a2a].state ELSE current
        /\ pc' = IF current' \in settled THEN "settle" ELSE "subscribe"
        /\ UNCHANGED <<world, remote, row, saving, mode, stream, got, left, counts>>
    BY <2>1 DEF Poll
  <2>3. /\ node'.a2a = node.a2a /\ node'.status = node.status
        /\ node'.output = IF found /\ remote[node.a2a].state = "completed" /\ remote[node.a2a].made > 0
                          THEN remote[node.a2a].made ELSE node.output
    BY <1>3, <2>1 DEF Poll, NodeRec
  <2>4. /\ node.a2a \in 1..Len(remote) /\ current \notin settled
        /\ node.status \in InFlight \cup {"canceled"} /\ stream = NoStream
    BY <1>1, <1>2, <1>3, <2>2 DEF Places, Busy
  <2>5. Copies'
    BY <1>1, <2>2, <2>3, <2>4 DEF Copies, CopyOK, Whole, Loose, Ended, Allowed, InFlight, ACTIVE_NODE_STATUSES
  <2>6. Places' /\ Streams'
    BY <1>1, <2>2, <2>3, <2>4 DEF Places, Streams, Calling
  <2>7. Behind'
    BY <1>1, <2>2, <2>3, <2>4 DEF Behind, Allowed, settled
  <2>8. Outcome'
    <3>1. pc' = "settle" => found /\ current' = remote[node.a2a].state
      BY <2>2, <2>4
    <3>2. pc' = "settle" /\ current' # "input_required" => Loose(node.a2a)'
      BY <2>2, <2>3, <3>1 DEF Loose, Ended, settled
    <3>3. ASSUME pc' = "settle", current' = "completed", node.status # "canceled"
          PROVE  Whole(node)'
      <4>1. remote[node.a2a].made \in Nat /\ node.output \in Nat
        BY <1>2, <1>3, <2>4 DEF NodeRec
      <4>2. counts.crashes = 0 /\ ~Allowed("bare") => node.output <= remote[node.a2a].made
        BY <1>1, <2>2, <3>3 DEF Behind
      <4> QED
        BY <2>2, <2>3, <3>1, <3>3, <4>1, <4>2 DEF Whole, Allowed
    <3> QED
      BY <2>3, <3>2, <3>3 DEF Outcome
  <2>9. Followed'
    BY <1>1, <2>2, <2>3 DEF Followed, Ended
  <2> QED
    BY <1>1, <2>5, <2>6, <2>7, <2>8, <2>9 DEF IInv
<1>19. CASE PollNothing \/ SubscribeFails
  <2>1. UNCHANGED <<world, remote, node, row, saving, mode, got, left, counts>>
    BY <1>19 DEF PollNothing, SubscribeFails
  <2>2. Copies'
    BY <1>1, <2>1 DEF Copies, CopyOK, Whole, Loose, Ended, Allowed
  <2>3. CASE PollNothing
    <3>1. /\ pc \in {"poll", "subscribe"} /\ pc' = "settle" /\ node.a2a = 0
          /\ UNCHANGED <<stream, current>>
      BY <2>3 DEF PollNothing
    <3>2. current \notin settled /\ node.status \in InFlight \cup {"canceled"} /\ stream = NoStream
      BY <1>1, <3>1 DEF Places, Busy
    <3>3. Places' /\ Streams' /\ Behind' /\ Outcome' /\ Followed'
      BY <1>1, <2>1, <3>1, <3>2 DEF Places, Streams, Behind, Outcome, Followed, Calling, Loose, Ended, settled
    <3> QED
      BY <1>1, <2>2, <3>3 DEF IInv
  <2>4. CASE SubscribeFails
    <3>1. /\ pc' = "poll" /\ current' = "working" /\ stream' = NoStream
          /\ pc = "subscribe" \/ (pc = "stream" /\ stream.via = "subscribe")
      BY <1>1, <2>4 DEF SubscribeFails, Places, NoStream
    <3>2. node.status \in InFlight \cup {"canceled"}
      BY <1>1, <3>1 DEF Places, Busy
    <3>3. Places' /\ Streams' /\ Outcome'
      BY <2>1, <3>1, <3>2 DEF Places, Streams, Outcome, Calling, settled
    <3>4. Behind'
      BY <1>1, <2>1, <3>1 DEF Behind, Allowed
    <3>5. stream.task # 0 => node.a2a = stream.task \/ Loose(stream.task)
      BY <1>1, <3>1 DEF Streams, Places, NoStream
    <3>6. Followed'
      <4>1. SUFFICES ASSUME NEW k \in DOMAIN remote, k \notin left, ~Ended(k)
                     PROVE  node.a2a = k
        BY <2>1, <3>1 DEF Followed, Ended
      <4>2. k # 0
        BY <1>1, <4>1 DEF TypeOK
      <4>3. stream.task = k \/ node.a2a = k
        BY <1>1, <3>1, <4>1 DEF Followed
      <4> QED
        BY <3>5, <4>1, <4>2, <4>3 DEF Loose
    <3> QED
      BY <1>1, <2>2, <3>3, <3>4, <3>6 DEF IInv
  <2> QED
    BY <1>19, <2>3, <2>4
<1>20. CASE Answer
  <2>1. /\ pc = "none" /\ row' = node' /\ UNCHANGED <<world, remote, saving, pc, mode, stream, current, got, left>>
        /\ counts'.crashes = counts.crashes
    BY <1>1, <1>20 DEF Answer, TypeOK
  <2>2. node'.status = "ready" /\ node'.a2a = node.a2a
    BY <1>3, <1>20 DEF Answer, NodeRec
  <2>3. Copies'
    BY <1>1, <2>1, <2>2 DEF Copies, CopyOK, Whole, Loose, Ended, Allowed
  <2>4. Places' /\ Streams' /\ Behind' /\ Outcome'
    BY <1>1, <2>1 DEF Places, Streams, Behind, Outcome, Calling, Busy
  <2>5. Followed'
    BY <1>1, <2>1, <2>2 DEF Followed, Ended
  <2> QED
    BY <1>1, <2>3, <2>4, <2>5 DEF IInv
<1>21. CASE Crash
  <2>1. /\ pc' = "down" /\ saving' = None /\ stream' = NoStream /\ node' = row
        /\ LetGo(DOMAIN remote \ {row.a2a}) /\ UNCHANGED <<world, remote, row, mode>>
    BY <1>21 DEF Crash
  <2>2. counts'.crashes > 0
    BY <1>1, <1>21 DEF Crash, TypeOK
  <2>3. Copies'
    BY <1>1, <1>3, <1>4, <2>1 DEF Copies, CopyOK, Whole, Loose, Ended, Allowed
  <2>4. Places' /\ Streams' /\ Behind' /\ Outcome'
    BY <2>1, <2>2 DEF Places, Streams, Behind, Outcome, Calling, Busy
  <2>5. Followed'
    BY <1>2, <2>1 DEF Followed, LetGo, Ended
  <2> QED
    BY <1>1, <2>3, <2>4, <2>5 DEF IInv
<1>22. CASE recover_session
  <2>1. /\ pc = "down" /\ pc' = "none" /\ row' = node'
        /\ UNCHANGED <<world, remote, saving, mode, stream, current, got, left, counts>>
    BY <1>22 DEF recover_session
  <2>2. /\ node'.a2a = row.a2a /\ node'.output = row.output
        /\ node'.status = IF row.status \notin ACTIVE_NODE_STATUSES THEN row.status
                          ELSE IF row.a2a # 0 THEN "recover" ELSE "pending"
    BY <1>3, <1>22 DEF recover_session, NodeRec
  <2>3. counts.crashes > 0 /\ saving = None /\ stream = NoStream
    BY <1>1, <2>1 DEF Places
  <2>4. Copies'
    BY <1>1, <2>1, <2>2, <2>3 DEF Copies, CopyOK, Whole, Loose, Ended, Allowed
  <2>5. Places' /\ Streams' /\ Behind' /\ Outcome'
    BY <2>1, <2>3 DEF Places, Streams, Behind, Outcome, Calling, Busy
  <2>6. Followed'
    BY <1>1, <2>1, <2>2 DEF Followed, Ended
  <2> QED
    BY <1>1, <2>4, <2>5, <2>6 DEF IInv
<1> QED
  BY <1>5, <1>6, <1>7, <1>8, <1>9, <1>10, <1>11, <1>12, <1>13, <1>14, <1>15, <1>16, <1>17, <1>18,
     <1>19, <1>20, <1>21, <1>22 DEF Next, NodeTask

(* The invariant depends on the variables only. *)
LEMMA StutterInv ==
  ASSUME IInv, UNCHANGED vars
  PROVE  IInv'
<1>1. UNCHANGED <<world, remote, node, row, saving, pc, mode, stream, current, got, left, counts>>
  BY DEF vars
<1>2. TypeOK' /\ Copies' /\ Places'
  BY <1>1 DEF IInv, TypeOK, Copies, CopyOK, Whole, Places, Loose, Ended, Allowed
<1>3. Streams' /\ Behind'
  BY <1>1 DEF IInv, Streams, Behind, Loose, Ended, Allowed
<1>4. Outcome' /\ Followed'
  BY <1>1 DEF IInv, Outcome, Followed, Whole, Loose, Ended, Allowed
<1> QED
  BY <1>2, <1>3, <1>4 DEF IInv

(* Nothing has happened yet. *)
LEMMA InitInv ==
  ASSUME Init
  PROVE  IInv /\ AnswerInv
<1>1. TypeOK
  <2>1. <<>> \in Seq(TaskRec) /\ <<>> \in Seq(Chunk) /\ Len(<<>>) = 0
    BY EmptySeq
  <2>2. node \in NodeRec /\ stream \in StreamRec(Len(remote))
    BY <2>1 DEF Init, NodeRec, NodeStatus, StreamRec, NoStream
  <2> QED
    BY <2>1, <2>2 DEF Init, TypeOK, TaskState
<1>2. Copies /\ Places /\ Streams
  BY DEF Init, Copies, CopyOK, Places, Streams, Calling, Busy
<1>3. Behind /\ Outcome /\ Followed
  BY DEF Init, Behind, Outcome, Followed
<1> QED
  BY <1>1, <1>2, <1>3 DEF IInv, AnswerInv, AnswerOnce, Init

(***************************************************************************)
(* The theorems.                                                           *)
(***************************************************************************)
(* IInv and AnswerInv hold in every state, whatever the number of attempts *)
(* and whatever faults come together.                                      *)
THEOREM InductiveInvariant == Spec => [](IInv /\ AnswerInv)
<1>1. Init => IInv /\ AnswerInv
  BY InitInv
<1>2. IInv /\ AnswerInv /\ [Next]_vars => (IInv /\ AnswerInv)'
  <2> SUFFICES ASSUME IInv, AnswerInv, [Next]_vars
               PROVE  IInv' /\ AnswerInv'
    OBVIOUS
  <2>1. IInv'
    BY StepInv, StutterInv
  <2>2. AnswerInv'
    BY AnswerStep DEF IInv
  <2> QED
    BY <2>1, <2>2
<1> QED
  BY <1>1, <1>2, PTL DEF Spec

(* An open task of the agent is followed by the node task, by the node or  *)
(* by the row in the store, unless a fault let go of it: stream_remote,    *)
(* ensure_terminal, cancel_node and recover_session lose none.             *)
THEOREM TasksFollowed == Spec => []Followed
<1>1. IInv => Followed
  BY DEF IInv
<1> QED
  BY <1>1, InductiveInvariant, PTL

(* A node that is delivered has the whole output of a task that completed, *)
(* however often consume_chunks and ensure_terminal cut, polled and opened *)
(* its stream.                                                             *)
THEOREM OutputIsWhole == Spec => []WholeOutput
<1>1. IInv => WholeOutput
  BY DEF IInv, Copies, CopyOK, WholeOutput
<1> QED
  BY <1>1, InductiveInvariant, PTL

(* build_node_text hands an answer of the user to at most one message.     *)
THEOREM AnswerSentOnce == Spec => []AnswerOnce
<1>1. AnswerInv => AnswerOnce
  BY DEF AnswerInv
<1> QED
  BY <1>1, InductiveInvariant, PTL
=============================================================================
