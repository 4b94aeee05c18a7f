------------------------- MODULE AgentStreamProofs -------------------------
(***************************************************************************)
(* What holds of an agent and the node that waits for it for every value   *)
(* of the constants: the safety properties of AgentStream.                 *)
(***************************************************************************)
EXTENDS AgentStream, DataLemmas

Kinds == {"text", "thought", "call", "response"}
Parts == [kind : Kinds, of : Seq(Nat)]
States == {"none", "submitted", "working"} \cup TASK_RESPONSE_BOUNDARY_STATES
Events == [type : {"artifact", "status", "message"}, id : Nat, parts : Seq(Parts),
           append : BOOLEAN, last : BOOLEAN, state : States]
Tasks == [type : {"task"}, state : States, arts : Seq(Parts), parts : Seq(Parts), history : Seq(Parts)]
Artifacts == [id : Nat, parts : Seq(Parts)]
Results == [output : Seq(Nat), promoted : BOOLEAN, failure : BOOLEAN, pause : BOOLEAN]

LLMStates == {"start", "ask", "stream", "tools", "refuse", "done", "raised",
              "completed", "failed", "canceled"}

(* Where the agent may still ask the model. *)
Going == {"start", "ask", "stream", "tools", "refuse"}

TypeOK ==
  /\ world \in Worlds
  /\ pc \in LLMStates \cup TaskStates
  /\ turn \in [n : Nat, bad : Nat]
  /\ buf \in [thought : Seq(Nat), text : Seq(Nat), calls : Seq(Nat), error : BOOLEAN]
  /\ todo \in Seq(Nat)
  /\ made \in [piece : Nat, call : Nat, id : Nat]
  /\ events \in Seq(Events)
  /\ store \in [state : States, arts : Seq(Artifacts)]
  /\ wire \in Seq(Events \cup Tasks)
  /\ DOMAIN buffers \subseteq Nat /\ \A i \in DOMAIN buffers : buffers[i] \in Seq(Parts)
  /\ result \in Results
  /\ node \in {"running", "delivered", "failed"}

(* The agent's state and the task's. *)
Phases ==
  /\ IF world.agent = "llm" THEN pc \in LLMStates
     ELSE pc \in {"start"} \cup TaskStates
  /\ IF pc \in TaskStates THEN store.state = pc
     ELSE store.state \in {"submitted", "working"}
  /\ node = "delivered" => (pc \in TASK_RESPONSE_BOUNDARY_STATES /\ wire = <<>>) \/ EndsEarly
  /\ node = "failed" /\ ~Fault("cut") => pc \in TASK_RESPONSE_BOUNDARY_STATES

(* What tells the node that the task failed or waits. *)
Notices(e) ==
  \/ e.type = "status" /\ e.state \in FAILURE_STATES \cup PAUSE_STATES
  \/ e.type = "task" /\ e.state \in FAILURE_STATES
  \/ e.type = "task" /\ e.state \in PAUSE_STATES /\ (e.parts # <<>> \/ (e.arts = <<>> /\ e.history = <<>>))

Heard == result.failure \/ result.pause \/ \E w \in DOMAIN wire : Notices(wire[w])

Noticed ==
  world.route # "local" /\ node = "running" =>
    /\ Heard => store.state \in FAILURE_STATES \cup PAUSE_STATES
    /\ store.state \in FAILURE_STATES \cup PAUSE_STATES =>
         Heard \/ (Fault("mute") /\ store.state \in PAUSE_STATES)

Filled(b) == b.thought # <<>> \/ b.text # <<>> \/ b.calls # <<>>

Final(id, ps) == Update(id, ps, FALSE, TRUE)

(* The artifacts in the store: those of the events, and at most one that   *)
(* is being streamed.                                                      *)
Held(arts, es, id, at, b) ==
  /\ \A i, j \in 1..Len(arts) : arts[i].id = arts[j].id => i = j
  /\ \A i \in 1..Len(arts) : arts[i].id <= id
  /\ Len(arts) = Len(es) \/ Len(arts) = Len(es) + 1
  /\ \A i \in 1..Len(es) :
       /\ es[i] = Final(arts[i].id, arts[i].parts)
       /\ at = "stream" => arts[i].id < id
  /\ Len(arts) = Len(es) + 1 =>
       /\ arts[Len(arts)].id = id
       /\ at \in {"stream", "raised", "failed", "canceled"}
       /\ at = "stream" => Filled(b)

Kept == world.agent = "llm" => Held(store.arts, events, made.id, pc, buf)

CallsOf(e) == Of(e.parts, "call")
AnswersOf(e) == Of(e.parts, "response")

(* Each call is answered in its place, or is still to be; each answer, and *)
(* the calls that are left, have their response before them.               *)
Matched(es, left) ==
  /\ \A i \in 1..Len(es) : \A k \in 1..Len(CallsOf(es[i])) :
       \/ i + k <= Len(es) /\ AnswersOf(es[i + k]) = <<CallsOf(es[i])[k]>>
       \/ /\ i + k > Len(es) /\ i + k - Len(es) \in 1..Len(left)
          /\ left[i + k - Len(es)] = CallsOf(es[i])[k]
  /\ \A j \in 1..Len(es) : AnswersOf(es[j]) # <<>> =>
       \E i \in 1..j - 1 : j - i \in 1..Len(CallsOf(es[i]))
  /\ left # <<>> => \E i \in 1..Len(es) : Len(CallsOf(es[i])) = Len(es) - i + Len(left)

Paired ==
  world.agent = "llm" /\ pc \in Going =>
    Matched(events, todo) /\ (pc \notin {"tools", "refuse"} => todo = <<>>)

(* Only the last event is an answer with a text, and then the agent is     *)
(* done.                                                                   *)
Closing ==
  world.agent = "llm" =>
    \A i \in 1..Len(events) :
      ~has_function_calls(events[i]) /\ Text(events[i].parts) # <<>> =>
        i = Len(events) /\ pc \in {"done", "completed", "canceled"}

Said(es) ==
  IF es = <<>> \/ has_function_calls(es[Len(es)]) THEN <<>> ELSE Text(es[Len(es)].parts)

(* Within the workflow an event is handled before the next one is made. *)
Local ==
  world.route = "local" =>
    /\ Len(wire) <= 1
    /\ wire = <<>> => result.output = Said(events)
    /\ wire # <<>> =>
         /\ wire[1].type = "artifact"
         /\ is_final_artifact(wire[1]) => events # <<>> /\ wire[1] = events[Len(events)] /\ result.output = <<>>
         /\ ~is_final_artifact(wire[1]) => result.output = Said(events)

Promotable(e) ==
  /\ ~is_partial_event(e) /\ extract_text(e) # <<>>
  /\ ~(e.type = "status" /\ e.state \in NON_FINAL_TASK_STATES)

(* The text of the last event is promoted or on its way. *)
Promoted(wr, said, r) ==
  /\ \A w \in 1..Len(wr) : Promotable(wr[w]) => extract_text(wr[w]) = said
  /\ r.promoted => r.output = said /\ said # <<>>
  /\ ~r.promoted => /\ r.output = <<>>
                    /\ said # <<>> => \E w \in 1..Len(wr) : Promotable(wr[w])

Streamed ==
  world.agent = "llm" /\ world.route = "stream" =>
    /\ \A w \in 1..Len(wire) : wire[w] \in Events /\ ~(wire[w].append /\ wire[w].last)
    /\ ~Explained /\ store.state # "failed" => Promoted(wire, Said(events), result)

(* The task that is sent when it has ended, or a message in its place. *)
OfTask(t) ==
  /\ t \in Tasks
  /\ t.state = store.state /\ t.arts = AllParts(store.arts)
  /\ world.agent = "llm" => t.history = <<>> /\ (store.state = "completed" => t.parts = <<>>)

Sent ==
  (world.agent = "llm" /\ world.route = "task") \/ world.agent = "snapshot" =>
    /\ pc \notin TaskStates \/ wire # <<>> => ~result.promoted /\ result.output = <<>>
    /\ pc \notin TaskStates => wire = <<>>
    /\ wire # <<>> => /\ Len(wire) = 1
                      /\ OfTask(wire[1]) \/ (wire[1] \in Events /\ world.agent = "snapshot" /\ store.arts = <<>>)
    /\ wire = <<>> /\ store.state = "completed" /\ (AllParts(store.arts) # <<>> \/ world.agent = "llm") =>
         result.output = Text(AllParts(store.arts))
    /\ wire = <<>> /\ store.state \in NON_FINAL_TASK_STATES /\ AllParts(store.arts) # <<>> => result.output = <<>>
    /\ world.agent = "snapshot" /\ AllParts(store.arts) = <<>> => store.arts = <<>>

Ids(arts) == {arts[i].id : i \in 1..Len(arts)}

(* What the wire brings from an agent that streams two artifacts: a status *)
(* that ends the task, or a piece that comes in its place.                 *)
Ending(e) == e.type = "status" /\ e.parts = <<>> /\ e.id = 0 /\ ~e.last

Placed(wr, w, ids, started, closed) ==
  /\ wr[w].type = "artifact" /\ Text(wr[w].parts) # <<>> /\ wr[w].id \in ids
  /\ ~wr[w].append => wr[w].id \notin started /\ \A v \in 1..w - 1 : wr[v].id # wr[w].id
  /\ wr[w].last => wr[w].id \in closed /\ \A v \in w + 1..Len(wr) : wr[v].id # wr[w].id

Ordered(wr, ids, started, closed) ==
  \A w \in 1..Len(wr) : Ending(wr[w]) \/ Placed(wr, w, ids, started, closed)

Chunks ==
  world.agent = "chunks" =>
    /\ wire \in Seq(Events)
    /\ \A i, j \in 1..Len(store.arts) : store.arts[i].id = store.arts[j].id => i = j
    /\ 0 \notin Ids(store.arts) /\ DOMAIN buffers \subseteq Ids(store.arts)
    /\ Ordered(wire, Ids(store.arts), DOMAIN buffers, Elems(todo))

(* What the wire still brings of an artifact, and what has come. *)
Coming(wr, id) == Flat([w \in DOMAIN wr |-> IF wr[w].id = id THEN wr[w].parts ELSE <<>>])
Come(bf, id) == IF id \in DOMAIN bf THEN bf[id] ELSE <<>>

Gathered(arts, bf, wr) ==
  \A i \in 1..Len(arts) : arts[i].parts = Come(bf, arts[i].id) \o Coming(wr, arts[i].id)

(* The first artifact to be closed is the first of those that the wire     *)
(* closes.                                                                 *)
FirstCloses(wr, closed) ==
  /\ closed # <<>> => \E w \in 1..Len(wr) : wr[w].last
  /\ \A w \in 1..Len(wr) : wr[w].last /\ (\A v \in 1..w - 1 : ~wr[v].last) =>
       closed # <<>> /\ wr[w].id = closed[1]

(* It is promoted, or on its way.                                          *)
Collected ==
  world.agent = "chunks" =>
    /\ node = "running" /\ ~result.promoted => Gathered(store.arts, buffers, wire) /\ FirstCloses(wire, todo)
    /\ node = "delivered" /\ wire = <<>> /\ ~result.promoted => todo = <<>>
    /\ ~result.promoted => result.output = <<>>
    /\ result.promoted =>
         /\ todo # <<>>
         /\ \E i \in 1..Len(store.arts) :
              store.arts[i].id = todo[1] /\ result.output = Text(store.arts[i].parts)

IInv ==
  /\ TypeOK /\ Phases /\ Noticed /\ Kept /\ Paired /\ Closing /\ Local /\ Streamed /\ Sent
  /\ Chunks /\ Collected /\ FailureIsRaised

(***************************************************************************)
(* What the parts of a kind hold.                                          *)
(***************************************************************************)
Listed(ps, kind) == [i \in DOMAIN ps |-> IF ps[i].kind = kind THEN ps[i].of ELSE <<>>]

LEMMA OfType ==
  ASSUME NEW ps \in Seq(Parts), NEW kind
  PROVE  /\ Of(ps, kind) = Flat(Listed(ps, kind)) /\ Of(ps, kind) \in Seq(Nat)
         /\ Listed(ps, kind) \in Lists(Nat) /\ Len(Listed(ps, kind)) = Len(ps)
         /\ DOMAIN ps = 1..Len(ps)
         /\ \A i \in 1..Len(ps) : Listed(ps, kind)[i] = IF ps[i].kind = kind THEN ps[i].of ELSE <<>>
<1>1. Of(ps, kind) = Flat(Listed(ps, kind))
  BY DEF Of, Listed
<1>2. DOMAIN ps = 1..Len(ps) /\ Len(ps) \in Nat /\ \A i \in 1..Len(ps) : ps[i].of \in Seq(Nat)
  <2>1. DOMAIN ps = 1..Len(ps) /\ Len(ps) \in Nat /\ \A i \in 1..Len(ps) : ps[i] \in Parts
    OBVIOUS
  <2> QED
    BY <2>1 DEF Parts
<1>3. \A i \in 1..Len(ps) : Listed(ps, kind)[i] = IF ps[i].kind = kind THEN ps[i].of ELSE <<>>
  BY <1>2 DEF Listed
<1>4. Listed(ps, kind) \in Lists(Nat) /\ Len(Listed(ps, kind)) = Len(ps)
  <2>1. \A i \in 1..Len(ps) : (IF ps[i].kind = kind THEN ps[i].of ELSE <<>>) \in Seq(Nat)
    BY <1>2
  <2>2. Listed(ps, kind) \in [1..Len(ps) -> Seq(Nat)]
    BY <1>2, <2>1 DEF Listed
  <2> QED
    BY <1>2, <2>2 DEF Lists
<1>5. Flat(Listed(ps, kind)) \in Seq(Nat)
  BY <1>4, FlatType
<1> QED
  BY <1>1, <1>2, <1>3, <1>4, <1>5

LEMMA OfConcat ==
  ASSUME NEW a \in Seq(Parts), NEW b \in Seq(Parts), NEW kind
  PROVE  a \o b \in Seq(Parts) /\ Of(a \o b, kind) = Of(a, kind) \o Of(b, kind)
<1> DEFINE c == a \o b
           x == Listed(a, kind)
           y == Listed(b, kind)
<1>1. c \in Seq(Parts)
  OBVIOUS
<1>2. /\ Len(a) \in Nat /\ Len(b) \in Nat /\ Len(c) = Len(a) + Len(b)
      /\ \A i \in 1..Len(a) : c[i] = a[i]
      /\ \A i \in 1..Len(b) : c[Len(a) + i] = b[i]
  OBVIOUS
<1> HIDE DEF c
<1>3. /\ x \in Lists(Nat) /\ Len(x) = Len(a) /\ Of(a, kind) = Flat(x)
      /\ \A i \in 1..Len(a) : x[i] = IF a[i].kind = kind THEN a[i].of ELSE <<>>
  BY OfType
<1>4. /\ y \in Lists(Nat) /\ Len(y) = Len(b) /\ Of(b, kind) = Flat(y)
      /\ \A i \in 1..Len(b) : y[i] = IF b[i].kind = kind THEN b[i].of ELSE <<>>
  BY OfType
<1>5. /\ Of(c, kind) = Flat(Listed(c, kind)) /\ DOMAIN c = 1..Len(c)
      /\ Listed(c, kind) \in Lists(Nat) /\ Len(Listed(c, kind)) = Len(c)
      /\ \A i \in 1..Len(c) : Listed(c, kind)[i] = IF c[i].kind = kind THEN c[i].of ELSE <<>>
  BY <1>1, OfType
<1> DEFINE z == Listed(c, kind)
<1> HIDE DEF x, y, z
<1>6. z = x \o y
  <2>1. Len(z) = Len(x) + Len(y)
    BY <1>2, <1>3, <1>4, <1>5 DEF z
  <2>2. \A i \in 1..Len(x) : z[i] = x[i]
    <3> TAKE i \in 1..Len(x)
    <3>1. i \in 1..Len(c) /\ i \in 1..Len(a)
      BY <1>2, <1>3
    <3>2. z[i] = IF c[i].kind = kind THEN c[i].of ELSE <<>>
      BY <1>5, <3>1 DEF z
    <3>3. c[i] = a[i]
      BY <1>2, <3>1
    <3> QED
      BY <1>3, <3>1, <3>2, <3>3
  <2>3. \A i \in 1..Len(y) : z[Len(x) + i] = y[i]
    <3> TAKE i \in 1..Len(y)
    <3>1. Len(x) + i \in 1..Len(c) /\ i \in 1..Len(b)
      BY <1>2, <1>3, <1>4
    <3>2. z[Len(x) + i] = IF c[Len(a) + i].kind = kind THEN c[Len(a) + i].of ELSE <<>>
      BY <1>3, <1>5, <3>1 DEF z
    <3>3. c[Len(a) + i] = b[i]
      BY <1>2, <3>1
    <3> QED
      BY <1>4, <3>1, <3>2, <3>3
  <2>4. x \in Seq(Seq(Nat)) /\ y \in Seq(Seq(Nat)) /\ z \in Seq(Seq(Nat))
    BY <1>3, <1>4, <1>5 DEF z, Lists
  <2> QED
    BY ONLY <2>1, <2>2, <2>3, <2>4, SplitSeq
<1>7. Flat(x \o y) = Flat(x) \o Flat(y)
  BY ONLY <1>3, <1>4, FlatConcat
<1>8. Of(c, kind) = Flat(x) \o Flat(y)
  BY <1>5, <1>6, <1>7 DEF z
<1>9. Of(c, kind) = Of(a, kind) \o Of(b, kind)
  BY ONLY <1>3, <1>4, <1>8
<1> QED
  BY ONLY <1>1, <1>9 DEF c

LEMMA OfNone ==
  ASSUME NEW kind
  PROVE  Of(<<>>, kind) = <<>> /\ <<>> \in Seq(Parts)
<1>1. [i \in DOMAIN <<>> |-> IF <<>>[i].kind = kind THEN <<>>[i].of ELSE <<>>] = <<>>
  OBVIOUS
<1>2. Flat(<<>>) = <<>>
  <2>1. <<>> \in Seq(Nat)
    OBVIOUS
  <2> QED
    BY ONLY <2>1, FlatOnly
<1> QED
  BY <1>1, <1>2 DEF Of

LEMMA OfOne ==
  ASSUME NEW k \in Kinds, NEW s \in Seq(Nat), NEW kind
  PROVE  /\ <<Part(k, s)>> \in Seq(Parts)
         /\ Of(<<Part(k, s)>>, kind) = IF k = kind THEN s ELSE <<>>
<1> DEFINE ps == <<Part(k, s)>>
           x == Listed(ps, kind)
           y == IF k = kind THEN s ELSE <<>>
<1>1. ps \in Seq(Parts) /\ Len(ps) = 1 /\ ps[1].kind = k /\ ps[1].of = s
  BY DEF Parts, Part
<1> HIDE DEF ps
<1>2. x \in Lists(Nat) /\ Len(x) = 1 /\ x[1] = y /\ Of(ps, kind) = Flat(x)
  <2>1. /\ x \in Lists(Nat) /\ Len(x) = Len(ps) /\ Of(ps, kind) = Flat(x)
        /\ \A i \in 1..Len(ps) : x[i] = IF ps[i].kind = kind THEN ps[i].of ELSE <<>>
    <3>1. ps \in Seq(Parts)
      BY <1>1
    <3> QED
      BY ONLY <3>1, OfType
  <2> QED
    BY <1>1, <2>1
<1> HIDE DEF x
<1>3. y \in Seq(Nat)
  OBVIOUS
<1> HIDE DEF y
<1>4. x = <<y>>
  BY <1>2, <1>3 DEF Lists
<1>5. Flat(<<y>>) = y
  BY ONLY <1>3, FlatOnly
<1> QED
  BY <1>1, <1>2, <1>4, <1>5 DEF ps, y

(* One part for each call. *)
CallParts(s) == [i \in DOMAIN s |-> Part("call", <<s[i]>>)]

LEMMA OfCalls ==
  ASSUME NEW s \in Seq(Nat), NEW kind
  PROVE  /\ CallParts(s) \in Seq(Parts) /\ Len(CallParts(s)) = Len(s)
         /\ Of(CallParts(s), kind) = IF kind = "call" THEN s ELSE <<>>
<1> DEFINE ps == CallParts(s)
           x == Listed(ps, kind)
<1>1. /\ ps \in Seq(Parts) /\ Len(ps) = Len(s) /\ DOMAIN s = 1..Len(s)
      /\ \A i \in 1..Len(s) : ps[i].kind = "call" /\ ps[i].of = <<s[i]>>
  <2>1. DOMAIN s = 1..Len(s) /\ Len(s) \in Nat /\ \A i \in 1..Len(s) : <<s[i]>> \in Seq(Nat)
    OBVIOUS
  <2>2. \A i \in 1..Len(s) : ps[i] = [kind |-> "call", of |-> <<s[i]>>] /\ ps[i] \in Parts
    BY <2>1 DEF CallParts, Part, Parts, Kinds
  <2>3. ps \in [1..Len(s) -> Parts]
    BY <2>1, <2>2 DEF CallParts
  <2>4. \A i \in 1..Len(s) : ps[i].kind = "call" /\ ps[i].of = <<s[i]>>
    <3> TAKE i \in 1..Len(s)
    <3>1. ps[i] = [kind |-> "call", of |-> <<s[i]>>]
      BY <2>2
    <3> HIDE DEF ps
    <3> QED
      BY <3>1
  <2> HIDE DEF ps
  <2>5. ps \in Seq(Parts) /\ Len(ps) = Len(s)
    BY ONLY <2>1, <2>3
  <2> QED
    BY ONLY <2>1, <2>4, <2>5
<1> HIDE DEF ps
<1>2. /\ x \in Lists(Nat) /\ Len(x) = Len(ps) /\ Of(ps, kind) = Flat(x)
      /\ \A i \in 1..Len(ps) : x[i] = IF ps[i].kind = kind THEN ps[i].of ELSE <<>>
  BY <1>1, OfType
<1> HIDE DEF x
<1>3. CASE kind = "call"
  <2>1. DOMAIN x = DOMAIN s /\ \A i \in DOMAIN s : x[i] = <<s[i]>>
    <3>1. DOMAIN x = 1..Len(x)
      BY ONLY <1>2, ListsFacts
    <3> QED
      BY <1>1, <1>2, <1>3, <3>1
  <2>2. Flat(x) = s
    BY ONLY <1>2, <2>1, s \in Seq(Nat), FlatSingles
  <2> QED
    BY <1>1, <1>2, <1>3, <2>2 DEF ps
<1>4. CASE kind # "call"
  <2>1. \A i \in DOMAIN x : x[i] = <<>>
    <3>1. DOMAIN x = 1..Len(x)
      BY ONLY <1>2, ListsFacts
    <3> QED
      BY <1>1, <1>2, <1>4, <3>1
  <2>2. Flat(x) = <<>>
    BY ONLY <1>2, <2>1, FlatEmpty
  <2> QED
    BY <1>1, <1>2, <1>4, <2>2 DEF ps
<1> QED
  BY <1>3, <1>4

(* Of artifacts of which only the last has something of a kind.            *)
LEMMA OfFlatLast ==
  ASSUME NEW L \in Lists(Parts), NEW m \in Nat, Len(L) = m + 1, NEW kind,
         \A i \in 1..m : Of(L[i], kind) = <<>>
  PROVE  Of(Flat(L), kind) = Of(L[m + 1], kind)
<1> DEFINE p == FlatTo(L)
           P == {i \in 0..m : Of(p[i], kind) = <<>>}
<1>1. Unfolds(p, L, m + 1, Parts) /\ Flat(L) = p[m + 1]
  BY FlatUnfolds
<1> HIDE DEF p
<1>2. 0 \in P
  <2>1. p[0] = <<>> /\ Of(<<>>, kind) = <<>>
    BY <1>1, OfNone DEF Unfolds
  <2> QED
    BY <2>1
<1>3. ASSUME NEW i \in 0..m
      PROVE  /\ p[i] \in Seq(Parts) /\ L[i + 1] \in Seq(Parts)
             /\ Of(p[i + 1], kind) = Of(p[i], kind) \o Of(L[i + 1], kind)
  <2>1. i \in 0..(m + 1) /\ i < m + 1
    OBVIOUS
  <2>2. p[i] \in Seq(Parts) /\ L[i + 1] \in Seq(Parts) /\ p[i + 1] = p[i] \o L[i + 1]
    BY ONLY <1>1, <2>1 DEF Unfolds, Cat
  <2> DEFINE x == p[i]
             y == L[i + 1]
  <2>3. x \in Seq(Parts) /\ y \in Seq(Parts) /\ p[i + 1] = x \o y
    BY <2>2
  <2> HIDE DEF x, y
  <2>4. Of(x \o y, kind) = Of(x, kind) \o Of(y, kind)
    BY ONLY <2>3, OfConcat
  <2>5. Of(p[i + 1], kind) = Of(x, kind) \o Of(y, kind)
    BY ONLY <2>3, <2>4
  <2> QED
    BY <2>3, <2>5 DEF x, y
<1>4. ASSUME NEW i \in 0..m, i < m, i \in P PROVE i + 1 \in P
  <2>1. i + 1 \in 1..m /\ i + 1 \in 0..m
    BY <1>4
  <2>2. Of(p[i + 1], kind) = Of(p[i], kind) \o Of(L[i + 1], kind)
    BY <1>3
  <2>3. Of(p[i], kind) = <<>> /\ Of(L[i + 1], kind) = <<>>
    BY <1>4, <2>1
  <2>4. <<>> \o <<>> = <<>>
    OBVIOUS
  <2> QED
    BY <2>1, <2>2, <2>3, <2>4
<1> HIDE DEF P
<1>5. \A i \in 0..m : i \in P
  BY ONLY <1>2, <1>4, m \in Nat, UpTo
<1>6. Of(p[m], kind) = <<>> /\ m \in 0..m
  BY <1>5 DEF P
<1>7. L[m + 1] \in Seq(Parts) /\ Of(p[m + 1], kind) = <<>> \o Of(L[m + 1], kind)
  BY <1>3, <1>6
<1>8. Of(L[m + 1], kind) \in Seq(Nat)
  BY ONLY <1>7, OfType
<1>9. <<>> \o Of(L[m + 1], kind) = Of(L[m + 1], kind)
  BY ONLY <1>8
<1> QED
  BY ONLY <1>1, <1>7, <1>9

(***************************************************************************)
(* The events.                                                             *)
(***************************************************************************)
LEMMA UpdateFacts ==
  ASSUME NEW id \in Nat, NEW ps \in Seq(Parts), NEW a \in BOOLEAN, NEW l \in BOOLEAN
  PROVE  LET u == Update(id, ps, a, l)
         IN  /\ u \in Events /\ u.type = "artifact" /\ u.id = id /\ u.parts = ps /\ u.state = "none"
             /\ u.append <=> a
             /\ u.last <=> l
             /\ is_final_artifact(u) <=> ~a /\ l
             /\ is_partial_event(u) <=> a \/ ~l
             /\ event_content_parts(u) = IF ~a /\ l THEN ps ELSE <<>>
<1> DEFINE u == Update(id, ps, a, l)
<1>1. /\ u \in Events /\ u.type = "artifact" /\ u.id = id /\ u.parts = ps /\ u.state = "none"
      /\ u.append = a /\ u.last = l
  BY DEF Update, Event, Events, States
<1> HIDE DEF u
<1>2. is_final_artifact(u) <=> ~a /\ l
  BY <1>1 DEF is_final_artifact
<1>3. event_content_parts(u) = IF ~a /\ l THEN ps ELSE <<>>
  BY <1>1, <1>2 DEF event_content_parts
<1> QED
  BY <1>1, <1>2, <1>3 DEF u, is_partial_event

LEMMA StatusFacts ==
  ASSUME NEW s \in States, NEW ps \in Seq(Parts)
  PROVE  LET u == Status(s, ps)
         IN  /\ u \in Events /\ u.type = "status" /\ u.id = 0 /\ u.parts = ps /\ u.state = s
             /\ u.append = FALSE /\ u.last = FALSE
             /\ ~is_final_artifact(u) /\ ~is_partial_event(u)
             /\ event_content_parts(u) = IF s \in TASK_RESPONSE_BOUNDARY_STATES THEN ps ELSE <<>>
<1> DEFINE u == Status(s, ps)
<1>1. /\ u \in Events /\ u.type = "status" /\ u.id = 0 /\ u.parts = ps /\ u.state = s
      /\ u.append = FALSE /\ u.last = FALSE
  BY DEF Status, Event, Events
<1> HIDE DEF u
<1> QED
  BY <1>1 DEF u, is_final_artifact, is_partial_event, event_content_parts

LEMMA ContentFacts ==
  ASSUME NEW e \in Events
  PROVE  event_content_parts(e) \in Seq(Parts) /\ extract_text(e) \in Seq(Nat)
<1>1. e.parts \in Seq(Parts) /\ <<>> \in Seq(Parts)
  BY DEF Events
<1>2. event_content_parts(e) \in Seq(Parts)
  BY <1>1 DEF event_content_parts
<1>3. Of(event_content_parts(e), "text") \in Seq(Nat)
  BY <1>2, OfType
<1> QED
  BY <1>2, <1>3 DEF extract_text, Text

(* What the store has after an update.                                     *)
LEMMA MergedFacts ==
  ASSUME NEW arts \in Seq(Artifacts), NEW e \in Events
  PROVE  /\ merged(arts, e) \in Seq(Artifacts)
         /\ (\A i \in DOMAIN arts : arts[i].id # e.id) =>
              merged(arts, e) = IF e.append THEN arts ELSE Append(arts, [id |-> e.id, parts |-> e.parts])
         /\ (\E i \in DOMAIN arts : arts[i].id = e.id) =>
              /\ Len(merged(arts, e)) = Len(arts)
              /\ \A i \in DOMAIN arts :
                   /\ arts[i].id # e.id => merged(arts, e)[i] = arts[i]
                   /\ arts[i].id = e.id => /\ merged(arts, e)[i].id = e.id
                                           /\ merged(arts, e)[i].parts =
                                                IF e.append THEN arts[i].parts \o e.parts ELSE e.parts
<1>1. e.id \in Nat /\ e.parts \in Seq(Parts) /\ DOMAIN arts = 1..Len(arts) /\ Len(arts) \in Nat
  BY DEF Events
<1>2. \A i \in DOMAIN arts : arts[i] \in Artifacts
  OBVIOUS
<1>3. \A i \in DOMAIN arts : arts[i].id \in Nat /\ arts[i].parts \in Seq(Parts)
  BY <1>2 DEF Artifacts
<1>4. CASE \A i \in DOMAIN arts : arts[i].id # e.id
  <2>1. merged(arts, e) = IF e.append THEN arts ELSE Append(arts, [id |-> e.id, parts |-> e.parts])
    BY <1>4 DEF merged
  <2>2. [id |-> e.id, parts |-> e.parts] \in Artifacts
    BY <1>1 DEF Artifacts
  <2>3. Append(arts, [id |-> e.id, parts |-> e.parts]) \in Seq(Artifacts)
    BY <2>2
  <2> QED
    BY <1>4, <2>1, <2>3
<1>5. CASE \E i \in DOMAIN arts : arts[i].id = e.id
  <2> DEFINE new(i) == IF arts[i].id # e.id THEN arts[i]
                       ELSE [id |-> e.id, parts |-> IF e.append THEN arts[i].parts \o e.parts ELSE e.parts]
             s == [i \in DOMAIN arts |-> new(i)]
  <2>1. merged(arts, e) = s
    BY <1>5 DEF merged
  <2>2. ASSUME NEW i \in DOMAIN arts PROVE new(i) \in Artifacts
    <3>1. arts[i].parts \o e.parts \in Seq(Parts)
      BY <1>1, <1>3
    <3> QED
      BY <1>1, <1>2, <3>1 DEF Artifacts
  <2>3. s \in Seq(Artifacts) /\ Len(s) = Len(arts)
    <3> HIDE DEF new
    <3>1. s \in [1..Len(arts) -> Artifacts]
      BY <1>1, <2>2
    <3> QED
      BY <1>1, <3>1
  <2>4. ASSUME NEW i \in DOMAIN arts
        PROVE  /\ arts[i].id # e.id => s[i] = arts[i]
               /\ arts[i].id = e.id => /\ s[i].id = e.id
                                       /\ s[i].parts = IF e.append THEN arts[i].parts \o e.parts ELSE e.parts
    BY <2>4
  <2> HIDE DEF s
  <2> QED
    BY <1>5, <2>1, <2>3, <2>4
<1> QED
  BY <1>4, <1>5

(***************************************************************************)
(* The closing update and what it holds.                                   *)
(***************************************************************************)
IsCall(ps) == \E p \in Elems(ps) : p.kind = "call"

LEMMA CloseFacts ==
  ASSUME buf \in [thought : Seq(Nat), text : Seq(Nat), calls : Seq(Nat), error : BOOLEAN]
  PROVE  /\ close \in Seq(Parts)
         /\ Of(close, "text") = buf.text /\ Of(close, "call") = buf.calls
         /\ Of(close, "response") = <<>>
         /\ close = <<>> <=> buf.thought = <<>> /\ buf.text = <<>> /\ buf.calls = <<>>
         /\ IsCall(close) <=> buf.calls # <<>>
<1> DEFINE a == IF buf.thought # <<>> THEN <<Part("thought", buf.thought)>> ELSE <<>>
           b == IF buf.text # <<>> THEN <<Part("text", buf.text)>> ELSE <<>>
           c == CallParts(buf.calls)
           r == buf.thought
           s == buf.text
           t == buf.calls
<1>1. r \in Seq(Nat) /\ s \in Seq(Nat) /\ t \in Seq(Nat)
  OBVIOUS
<1>2. close = (a \o b) \o c
  BY DEF close, CallParts
<1> HIDE DEF r, s, t
<1>3. /\ a \in Seq(Parts) /\ Of(a, "text") = <<>> /\ Of(a, "call") = <<>> /\ Of(a, "response") = <<>>
      /\ (a = <<>> <=> r = <<>>) /\ \A i \in DOMAIN a : a[i].kind # "call"
  <2>1. CASE r = <<>>
    BY <2>1, OfNone DEF r
  <2>2. CASE r # <<>>
    <3> DEFINE p == <<Part("thought", r)>>
    <3>1. a = p /\ p # <<>> /\ DOMAIN p = {1} /\ p[1].kind = "thought"
      BY <2>2 DEF r, Part
    <3>2. "thought" \in Kinds
      BY DEF Kinds
    <3>3. \A k \in {"text", "call", "response"} : Of(p, k) = <<>>
      <4> TAKE k \in {"text", "call", "response"}
      <4>1. Of(p, k) = IF "thought" = k THEN r ELSE <<>>
        BY ONLY <1>1, <3>2, OfOne
      <4> QED
        BY <4>1
    <3>4. p \in Seq(Parts)
      BY ONLY <1>1, <3>2, OfOne
    <3> HIDE DEF p, a
    <3> QED
      BY <2>2, <3>1, <3>3, <3>4
  <2> QED
    BY <2>1, <2>2
<1>4. /\ b \in Seq(Parts) /\ Of(b, "text") = s /\ Of(b, "call") = <<>> /\ Of(b, "response") = <<>>
      /\ (b = <<>> <=> s = <<>>) /\ \A i \in DOMAIN b : b[i].kind # "call"
  <2>1. CASE s = <<>>
    BY <2>1, OfNone DEF s
  <2>2. CASE s # <<>>
    <3> DEFINE p == <<Part("text", s)>>
    <3>1. b = p /\ p # <<>> /\ DOMAIN p = {1} /\ p[1].kind = "text"
      BY <2>2 DEF s, Part
    <3>2. "text" \in Kinds
      BY DEF Kinds
    <3>3. \A k \in {"text", "call", "response"} : Of(p, k) = IF "text" = k THEN s ELSE <<>>
      BY ONLY <1>1, <3>2, OfOne
    <3>4. p \in Seq(Parts)
      BY ONLY <1>1, <3>2, OfOne
    <3>5. Of(p, "text") = s /\ Of(p, "call") = <<>> /\ Of(p, "response") = <<>>
      BY <3>3
    <3> HIDE DEF p, b
    <3> QED
      BY <2>2, <3>1, <3>4, <3>5
  <2> QED
    BY <2>1, <2>2
<1>5. /\ c \in Seq(Parts) /\ Len(c) = Len(t)
      /\ Of(c, "text") = <<>> /\ Of(c, "call") = t /\ Of(c, "response") = <<>>
  <2>1. \A k \in {"text", "call", "response"} : Of(c, k) = IF k = "call" THEN t ELSE <<>>
    BY <1>1, OfCalls DEF t
  <2>2. c \in Seq(Parts) /\ Len(c) = Len(t)
    BY <1>1, OfCalls DEF t
  <2> QED
    BY <2>1, <2>2
<1>6. (c = <<>> <=> t = <<>>) /\ (\A i \in DOMAIN c : c[i].kind = "call") /\ (t # <<>> => 1 \in DOMAIN c)
  <2>1. \A i \in DOMAIN c : c[i].kind = "call"
    BY DEF CallParts, Part
  <2> HIDE DEF c
  <2>2. (c = <<>> <=> t = <<>>) /\ (t # <<>> => 1 \in DOMAIN c)
    BY <1>1, <1>5
  <2> QED
    BY <2>1, <2>2
<1> HIDE DEF a, b, c
<1>7. \A k \in {"text", "call", "response"} : Of((a \o b) \o c, k) = (Of(a, k) \o Of(b, k)) \o Of(c, k)
  <2> TAKE k \in {"text", "call", "response"}
  <2>1. a \o b \in Seq(Parts) /\ Of(a \o b, k) = Of(a, k) \o Of(b, k)
    BY ONLY <1>3, <1>4, OfConcat
  <2> DEFINE d == a \o b
  <2>2. d \in Seq(Parts) /\ c \in Seq(Parts)
    BY <1>5, <2>1
  <2> HIDE DEF d
  <2>3. Of(d \o c, k) = Of(d, k) \o Of(c, k)
    BY ONLY <2>2, OfConcat
  <2> QED
    BY <2>1, <2>3 DEF d
<1>8. (a \o b) \o c \in Seq(Parts)
  BY <1>3, <1>4, <1>5
<1>9. Of(close, "text") = s /\ Of(close, "call") = t /\ Of(close, "response") = <<>>
  <2>1. (<<>> \o s) \o <<>> = s /\ (<<>> \o <<>>) \o t = t /\ (<<>> \o <<>>) \o <<>> = <<>>
    BY <1>1
  <2>2. /\ Of(close, "text") = (<<>> \o s) \o <<>> /\ Of(close, "call") = (<<>> \o <<>>) \o t
        /\ Of(close, "response") = (<<>> \o <<>>) \o <<>>
    BY <1>2, <1>3, <1>4, <1>5, <1>7
  <2> QED
    BY <2>1, <2>2
<1>10. close = <<>> <=> r = <<>> /\ s = <<>> /\ t = <<>>
  <2>1. (a \o b) \o c = <<>> <=> a = <<>> /\ b = <<>> /\ c = <<>>
    BY <1>3, <1>4, <1>5
  <2> QED
    BY <1>2, <1>3, <1>4, <1>6, <2>1
<1>11. IsCall(close) <=> t # <<>>
  <2>1. Elems((a \o b) \o c) = (Elems(a) \cup Elems(b)) \cup Elems(c)
    <3>1. a \o b \in Seq(Parts) /\ Elems(a \o b) = Elems(a) \cup Elems(b)
      BY ONLY <1>3, <1>4, ElemsFacts
    <3> DEFINE d == a \o b
    <3>2. d \in Seq(Parts) /\ c \in Seq(Parts)
      BY <1>5, <3>1
    <3> HIDE DEF d
    <3>3. Elems(d \o c) = Elems(d) \cup Elems(c)
      BY ONLY <3>2, ElemsFacts
    <3> QED
      BY <3>1, <3>3 DEF d
  <2>2. (\A p \in Elems(a) : p.kind # "call") /\ \A p \in Elems(b) : p.kind # "call"
    BY <1>3, <1>4 DEF Elems
  <2>3. (\A p \in Elems(c) : p.kind = "call") /\ (t # <<>> => Elems(c) # {}) /\ (t = <<>> => Elems(c) = {})
    BY <1>5, <1>6 DEF Elems
  <2> QED
    BY <1>2, <2>1, <2>2, <2>3 DEF IsCall
<1> QED
  BY <1>2, <1>8, <1>9, <1>10, <1>11 DEF r, s, t

(* The update that answers a call.                                         *)
LEMMA ResponseFacts ==
  ASSUME NEW k \in Nat
  PROVE  LET ps == <<Part("response", <<k>>)>>
         IN  /\ ps \in Seq(Parts) /\ ~IsCall(ps)
             /\ Of(ps, "text") = <<>> /\ Of(ps, "call") = <<>> /\ Of(ps, "response") = <<k>>
<1> DEFINE s == <<k>>
           ps == <<Part("response", s)>>
<1>1. "response" \in Kinds /\ s \in Seq(Nat)
  BY DEF Kinds
<1>2. ~IsCall(ps)
  BY DEF IsCall, Elems, Part
<1> HIDE DEF s
<1>3. \A j \in {"text", "call", "response"} : Of(ps, j) = IF "response" = j THEN s ELSE <<>>
  BY ONLY <1>1, OfOne
<1>4. ps \in Seq(Parts)
  BY ONLY <1>1, OfOne
<1> HIDE DEF ps
<1>5. Of(ps, "text") = <<>> /\ Of(ps, "call") = <<>> /\ Of(ps, "response") = s
  BY <1>3
<1> QED
  BY <1>2, <1>4, <1>5 DEF ps, s

(***************************************************************************)
(* What the node sees of a response: events, one after the other.          *)
(***************************************************************************)
Took(r, e) == noted(_promote_response_to_output(r, e), e)

LEMMA TookFacts ==
  ASSUME NEW r \in Results, NEW e \in Events
  PROVE  /\ Took(r, e) \in Results
         /\ Took(r, e).failure <=> r.failure \/ (e.type = "status" /\ e.state \in FAILURE_STATES)
         /\ Took(r, e).pause <=> r.pause \/ (e.type = "status" /\ e.state \in PAUSE_STATES)
         /\ Took(r, e).promoted <=> r.promoted \/ Promotable(e)
         /\ r.promoted \/ ~Promotable(e) => Took(r, e).output = r.output
         /\ ~r.promoted /\ Promotable(e) => Took(r, e).output = extract_text(e)
<1> DEFINE q == _promote_response_to_output(r, e)
<1>1. extract_text(e) \in Seq(Nat)
  BY ContentFacts
<1>2. /\ r.output \in Seq(Nat) /\ r.promoted \in BOOLEAN /\ r.failure \in BOOLEAN /\ r.pause \in BOOLEAN
  BY DEF Results
<1>3. q = IF r.promoted \/ ~Promotable(e) THEN r ELSE [r EXCEPT !.promoted = TRUE, !.output = extract_text(e)]
  BY DEF _promote_response_to_output, Promotable
<1>4. /\ q \in Results /\ q.failure = r.failure /\ q.pause = r.pause
      /\ q.promoted <=> r.promoted \/ Promotable(e)
      /\ r.promoted \/ ~Promotable(e) => q.output = r.output
      /\ ~r.promoted /\ Promotable(e) => q.output = extract_text(e)
  BY <1>1, <1>2, <1>3 DEF Results
<1> HIDE DEF q
<1>5. noted(q, e) = IF e.type # "status" THEN q
                    ELSE [q EXCEPT !.failure = q.failure \/ e.state \in FAILURE_STATES,
                                   !.pause = q.pause \/ e.state \in PAUSE_STATES]
  BY DEF noted
<1>6. /\ noted(q, e) \in Results /\ noted(q, e).promoted = q.promoted /\ noted(q, e).output = q.output
      /\ noted(q, e).failure <=> q.failure \/ (e.type = "status" /\ e.state \in FAILURE_STATES)
      /\ noted(q, e).pause <=> q.pause \/ (e.type = "status" /\ e.state \in PAUSE_STATES)
  BY <1>4, <1>5 DEF Results
<1> QED
  BY <1>4, <1>6 DEF Took, q

LEMMA SeenOne ==
  ASSUME NEW r, NEW e
  PROVE  Seen(r, <<e>>) = Took(r, e)
<1> DEFINE es == <<e>>
           g == [i \in 0..1 |-> IF i = 0 THEN r ELSE Took(r, e)]
           p == CHOOSE f : f = [i \in 0..Len(es) |-> IF i = 0 THEN r ELSE Took(f[i - 1], es[i])]
<1>1. Len(es) = 1 /\ es[1] = e
  OBVIOUS
<1>2. g[0] = r /\ g[1] = Took(r, e) /\ \A i \in 0..1 : i = 0 \/ i = 1
  OBVIOUS
<1>3. g = [i \in 0..1 |-> IF i = 0 THEN r ELSE Took(g[i - 1], es[i])]
  <2>1. \A i \in 0..1 : g[i] = IF i = 0 THEN r ELSE Took(g[i - 1], es[i])
    BY <1>1, <1>2
  <2> HIDE DEF es
  <2> QED
    BY <2>1
<1> HIDE DEF es, g
<1>4. p = [i \in 0..1 |-> IF i = 0 THEN r ELSE Took(p[i - 1], es[i])]
  BY <1>1, <1>3
<1>5. Seen(r, es) = p[1]
  BY <1>1 DEF Seen, Took
<1> HIDE DEF p
<1>6. p[0] = r /\ p[1] = Took(p[0], es[1])
  BY <1>4
<1> QED
  BY <1>1, <1>5, <1>6 DEF es

LEMMA SeenTwo ==
  ASSUME NEW r, NEW e, NEW d
  PROVE  Seen(r, <<e, d>>) = Took(Took(r, e), d)
<1> DEFINE es == <<e, d>>
           g == [i \in 0..2 |-> IF i = 0 THEN r ELSE IF i = 1 THEN Took(r, e) ELSE Took(Took(r, e), d)]
           p == CHOOSE f : f = [i \in 0..Len(es) |-> IF i = 0 THEN r ELSE Took(f[i - 1], es[i])]
<1>1. Len(es) = 2 /\ es[1] = e /\ es[2] = d
  OBVIOUS
<1>2. g[0] = r /\ g[1] = Took(r, e) /\ g[2] = Took(Took(r, e), d) /\ \A i \in 0..2 : i = 0 \/ i = 1 \/ i = 2
  OBVIOUS
<1>3. g = [i \in 0..2 |-> IF i = 0 THEN r ELSE Took(g[i - 1], es[i])]
  <2>1. \A i \in 0..2 : g[i] = IF i = 0 THEN r ELSE Took(g[i - 1], es[i])
    BY <1>1, <1>2
  <2> HIDE DEF es
  <2> QED
    BY <2>1
<1> HIDE DEF es, g
<1>4. p = [i \in 0..2 |-> IF i = 0 THEN r ELSE Took(p[i - 1], es[i])]
  BY <1>1, <1>3
<1>5. Seen(r, es) = p[2]
  BY <1>1 DEF Seen, Took
<1> HIDE DEF p
<1>6. p[0] = r /\ p[1] = Took(p[0], es[1]) /\ p[2] = Took(p[1], es[2])
  BY <1>4
<1> QED
  BY <1>1, <1>5, <1>6 DEF es

LEMMA ShortSeqs ==
  ASSUME NEW a, NEW b
  PROVE  /\ <<a>> \o <<b>> = <<a, b>> /\ <<a>> \o <<>> = <<a>> /\ <<>> \o <<a>> = <<a>>
         /\ <<a, b>> \o <<>> = <<a, b>> /\ <<>> \o <<>> = <<>>
<1> DEFINE T == {a, b}
<1>1. <<a>> \in Seq(T) /\ <<b>> \in Seq(T) /\ <<a, b>> \in Seq(T) /\ <<>> \in Seq(T)
  OBVIOUS
<1>2. <<a>> \o <<>> = <<a>> /\ <<>> \o <<a>> = <<a>> /\ <<a, b>> \o <<>> = <<a, b>> /\ <<>> \o <<>> = <<>>
  BY <1>1
<1>3. <<a>> \o <<b>> = <<a, b>>
  <2> DEFINE s == <<a>>
             t == <<b>>
             u == <<a, b>>
  <2>1. Len(s) = 1 /\ Len(t) = 1 /\ Len(u) = 2 /\ u[1] = s[1] /\ u[2] = t[1]
    OBVIOUS
  <2>2. s \in Seq(T) /\ t \in Seq(T) /\ u \in Seq(T)
    BY <1>1
  <2> HIDE DEF s, t, u, T
  <2>3. Len(u) = Len(s) + Len(t) /\ (\A i \in 1..Len(s) : u[i] = s[i]) /\ \A i \in 1..Len(t) : u[Len(s) + i] = t[i]
    <3>1. \A i \in 1..1 : i = 1
      OBVIOUS
    <3> QED
      BY <2>1, <3>1
  <2>4. u = s \o t
    BY ONLY <2>2, <2>3, SplitSeq
  <2> QED
    BY <2>4, Zenon DEF s, t, u
<1> QED
  BY <1>2, <1>3

(* The events of a task.                                                   *)
TaskArtifact(t) == Update(0, t.arts, FALSE, t.state \notin NON_FINAL_TASK_STATES)
TaskStatus(t) == Status(t.state, t.parts)
TaskMessage(t) == Event("message", 0, t.history, "none")
Told(t) ==
  \/ t.state \in FAILURE_STATES
  \/ t.parts # <<>> /\ t.state \in PAUSE_STATES
  \/ t.parts # <<>> /\ t.arts = <<>> /\ t.state \in TASK_RESPONSE_BOUNDARY_STATES

LEMMA TaskEvents ==
  ASSUME NEW t \in Tasks
  PROVE  /\ TaskArtifact(t) \in Events /\ TaskStatus(t) \in Events /\ TaskMessage(t) \in Events
         /\ TaskMessage(t).type = "message"
         /\ t.arts # <<>> /\ Told(t) => _events_from_task(t) = <<TaskArtifact(t), TaskStatus(t)>>
         /\ t.arts # <<>> /\ ~Told(t) => _events_from_task(t) = <<TaskArtifact(t)>>
         /\ t.arts = <<>> =>
              \/ /\ _events_from_task(t) = <<TaskStatus(t)>>
                 /\ Told(t) \/ t.history = <<>> \/ t.state \notin TASK_RESPONSE_BOUNDARY_STATES
              \/ ~Told(t) /\ t.history # <<>> /\ _events_from_task(t) = <<TaskMessage(t)>>
<1> DEFINE A == TaskArtifact(t)
           S == TaskStatus(t)
           M == TaskMessage(t)
           told == Told(t)
           none == t.arts = <<>>
           said == t.history # <<>> /\ t.state \in TASK_RESPONSE_BOUNDARY_STATES
           artifact == IF none THEN <<>> ELSE <<A>>
           status == IF told THEN <<S>> ELSE <<>>
           message == IF artifact \o status = <<>> /\ said THEN <<M>> ELSE <<>>
           found == artifact \o status \o message
           es == _events_from_task(t)
<1>1. t.state \in States /\ t.arts \in Seq(Parts) /\ t.parts \in Seq(Parts) /\ t.history \in Seq(Parts)
  BY DEF Tasks
<1>2. A \in Events
  <2> DEFINE l == t.state \notin NON_FINAL_TASK_STATES
  <2>1. 0 \in Nat /\ FALSE \in BOOLEAN /\ l \in BOOLEAN
    OBVIOUS
  <2> HIDE DEF l
  <2>2. Update(0, t.arts, FALSE, l) \in Events
    BY ONLY <1>1, <2>1, UpdateFacts
  <2> QED
    BY <2>2 DEF l, TaskArtifact
<1>3. S \in Events
  BY <1>1, StatusFacts DEF TaskStatus
<1>4. M \in Events /\ M.type = "message"
  BY <1>1 DEF Event, Events, States, TaskMessage
<1>5. es = IF found = <<>> THEN <<S>> ELSE found
  BY DEF _events_from_task, TaskArtifact, TaskStatus, TaskMessage, Told
<1> HIDE DEF A, S, M, told, none, said, es
<1>6. <<A>> \o <<S>> = <<A, S>> /\ <<A>> \o <<>> = <<A>> /\ <<>> \o <<S>> = <<S>> /\ <<>> \o <<M>> = <<M>>
  BY ShortSeqs, Zenon
<1>7. <<A, S>> \o <<>> = <<A, S>> /\ <<S>> \o <<>> = <<S>> /\ <<>> \o <<>> = <<>>
  BY ShortSeqs, Zenon
<1>8. <<A>> # <<>> /\ <<S>> # <<>> /\ <<M>> # <<>> /\ <<A, S>> # <<>>
  OBVIOUS
<1>9. ~none /\ told => es = <<A, S>>
  BY <1>5, <1>6, <1>7, <1>8
<1>10. ~none /\ ~told => es = <<A>>
  BY <1>5, <1>6, <1>8
<1>11. none /\ told => es = <<S>>
  BY <1>5, <1>6, <1>7, <1>8
<1>12. none /\ ~told /\ ~said => es = <<S>>
  BY <1>5, <1>7
<1>13. none /\ ~told /\ said => es = <<M>>
  BY <1>5, <1>6, <1>7, <1>8
<1> QED
  BY <1>2, <1>3, <1>4, <1>9, <1>10, <1>11, <1>12, <1>13, Zenon DEF A, S, M, told, none, said, es

(***************************************************************************)
(* The steps, by what they do to the state the invariants speak of.        *)
(***************************************************************************)
Bufs == [thought : Seq(Nat), text : Seq(Nat), calls : Seq(Nat), error : BOOLEAN]
Counts == [piece : Nat, call : Nat, id : Nat]
Turns == [n : Nat, bad : Nat]

(* A piece or a call of the response is streamed. *)
Streams(ps, a) ==
  /\ world.agent = "llm" /\ pc = "stream" /\ pc' = "stream" /\ Handled
  /\ Emit(Update(made.id, ps, a, FALSE))
  /\ made' \in Counts /\ made'.id = made.id
  /\ buf' \in Bufs /\ Filled(buf')
  /\ UNCHANGED <<world, turn, todo, buffers, result, node>>

Closes ==
  /\ world.agent = "llm" /\ pc = "stream" /\ Handled /\ close # <<>>
  /\ Emit(Update(made.id, close, FALSE, TRUE))
  /\ todo' = buf.calls /\ turn' \in Turns
  /\ buf.calls = <<>> => pc' = "done"
  /\ buf.calls # <<>> => pc' \in {"tools", "refuse"}
  /\ UNCHANGED <<world, buf, made, buffers, result, node>>

Answers ==
  /\ world.agent = "llm" /\ pc \in {"tools", "refuse"} /\ Handled /\ todo # <<>>
  /\ Emit(Update(made.id + 1, <<Part("response", <<Head(todo)>>)>>, FALSE, TRUE))
  /\ made' \in Counts /\ made'.id = made.id + 1
  /\ todo' = Tail(todo)
  /\ UNCHANGED <<world, pc, turn, buf, buffers, result, node>>

(* The agent is done without another event, or raises.                     *)
Stops ==
  /\ world.agent = "llm" /\ pc \in {"ask", "stream", "tools", "refuse"} /\ pc' \in {"raised", "done"}
  /\ pc = "stream" /\ pc' = "done" => ~Filled(buf)
  /\ todo' \in Seq(Nat) /\ turn' \in Turns
  /\ UNCHANGED <<world, buf, made, events, store, wire, buffers, result, node>>

Asks ==
  /\ world.agent = "llm" /\ pc \in {"tools", "refuse"} /\ pc' = "ask" /\ todo = <<>>
  /\ UNCHANGED <<world, turn, buf, todo, made, events, store, wire, buffers, result, node>>

Requests ==
  /\ world.agent = "llm" /\ pc = "ask" /\ pc' = "stream"
  /\ turn' \in Turns /\ buf' \in Bufs /\ made' \in Counts /\ made'.id = made.id + 1
  /\ UNCHANGED <<world, todo, events, store, wire, buffers, result, node>>

(* A status of the task is set and sent. *)
Tells(s, ps) ==
  /\ EmitStatus(s, ps) /\ s \in States /\ ps \in Seq(Parts)
  /\ \/ /\ world.agent = "llm"
        /\ \/ s = "working" /\ pc = "start" /\ pc' = "ask" /\ ps = <<>>
           \/ s = "completed" /\ pc = "done" /\ pc' = s /\ ps = <<>>
           \/ s = "failed" /\ pc = "raised" /\ pc' = s
           \/ /\ s = "canceled" /\ world.route # "local" /\ pc' = s /\ ps = <<>>
              /\ pc \notin {"start", "completed", "failed", "canceled"}
     \/ /\ world.agent = "chunks" /\ s \in TASK_RESPONSE_BOUNDARY_STATES /\ pc = "start" /\ pc' = s /\ ps = <<>>
        /\ \A i \in DOMAIN store.arts : store.arts[i].id \in Elems(todo)
  /\ UNCHANGED <<world, turn, buf, todo, made, buffers, result, node>>

Chunked == \E id \in 1..2, last \in BOOLEAN : OtherChunk(id, last)
Snapped == \E s \in TaskStates, f \in Snapshots : OtherTask(s, f)

Move ==
  \/ \E ps \in Seq(Parts), a \in BOOLEAN : Streams(ps, a)
  \/ Closes \/ Answers \/ Stops \/ Asks \/ Requests
  \/ \E s \in States, ps \in Seq(Parts) : Tells(s, ps)
  \/ Chunked \/ Snapped \/ OtherMessage \/ Receive \/ Cut \/ RemoteEnds \/ Process \/ LocalEnds
  \/ UNCHANGED vars

LEMMA Appended ==
  ASSUME NEW T, NEW s \in Seq(T), NEW x \in T
  PROVE  /\ Append(s, x) \in Seq(T) /\ Append(s, x) # <<>> /\ Len(Append(s, x)) = Len(s) + 1
         /\ DOMAIN Append(s, x) = 1..(Len(s) + 1) /\ DOMAIN s = 1..Len(s) /\ Len(s) \in Nat
         /\ \A i \in 1..Len(s) : Append(s, x)[i] = s[i]
         /\ Append(s, x)[Len(s) + 1] = x
OBVIOUS

LEMMA Longer == \A s \in Seq(Nat), k \in Nat : Append(s, k) \in Seq(Nat) /\ Append(s, k) # <<>>
BY SMTT(60)

LEMMA ChunkMoves ==
  ASSUME TypeOK, Phases, NEW kinds \in {<<"thought">>, <<"text">>, <<"thought", "text">>}, Chunk(kinds)
  PROVE  \E ps \in Seq(Parts), a \in BOOLEAN : Streams(ps, a)
<1> DEFINE k == made.piece + 1
           ps == _build_parts(kinds, k)
<1>1. made \in Counts /\ buf \in Bufs /\ k \in Nat
  BY DEF TypeOK, Counts, Bufs
<1>2. ps \in Seq(Parts)
  <2>1. \A i \in DOMAIN kinds : kinds[i] \in Kinds /\ <<k>> \in Seq(Nat)
    BY <1>1 DEF Kinds
  <2>2. \A i \in DOMAIN kinds : Part(kinds[i], <<k>>) \in Parts
    BY <2>1 DEF Part, Parts
  <2>3. Len(kinds) \in Nat /\ DOMAIN kinds = 1..Len(kinds)
    OBVIOUS
  <2>4. ps \in [1..Len(kinds) -> Parts]
    BY <2>2, <2>3 DEF _build_parts
  <2> QED
    BY <2>3, <2>4
<1>3. /\ made' = [made EXCEPT !.piece = k]
      /\ buf' = [buf EXCEPT !.thought = IF "thought" \in Elems(kinds) THEN Append(buf.thought, k) ELSE buf.thought,
                            !.text = IF "text" \in Elems(kinds) THEN Append(buf.text, k) ELSE buf.text]
      /\ Emit(Update(made.id, ps, Appending, FALSE))
      /\ UNCHANGED <<world, pc, turn, todo, buffers, result, node>>
      /\ pc = "stream" /\ Handled
  BY DEF Chunk
<1>4. made' \in Counts /\ made'.id = made.id
  BY <1>1, <1>3 DEF Counts
<1>5. "thought" \in Elems(kinds) \/ "text" \in Elems(kinds)
  <2>1. 1 \in DOMAIN kinds /\ kinds[1] \in {"thought", "text"}
    OBVIOUS
  <2> QED
    BY <2>1 DEF Elems
<1>6. buf' \in Bufs /\ Filled(buf')
  <2> DEFINE t == buf.thought
             x == buf.text
  <2>1. t \in Seq(Nat) /\ x \in Seq(Nat)
    BY <1>1 DEF Bufs
  <2> HIDE DEF t, x
  <2>2. Append(t, k) \in Seq(Nat) /\ Append(x, k) \in Seq(Nat) /\ Append(t, k) # <<>> /\ Append(x, k) # <<>>
    <3>1. k \in Nat /\ t \in Seq(Nat) /\ x \in Seq(Nat)
      BY <1>1, <2>1
    <3> HIDE DEF k
    <3> QED
      BY ONLY <3>1, Longer, Zenon
  <2> QED
    BY <1>1, <1>3, <1>5, <2>2 DEF Bufs, Filled, t, x
<1>7. Appending \in BOOLEAN
  BY DEF Appending
<1>8. world.agent = "llm"
  BY <1>3 DEF Phases, TaskStates, NON_FINAL_TASK_STATES, TASK_RESPONSE_BOUNDARY_STATES, FAILURE_STATES, PAUSE_STATES
<1>9. pc' = "stream" /\ UNCHANGED <<world, turn, todo, buffers, result, node>>
  BY <1>3
<1> HIDE DEF ps, k
<1>10. Streams(ps, Appending)
  BY <1>3, <1>4, <1>6, <1>8, <1>9, Zenon DEF Streams
<1> QED
  BY <1>2, <1>7, <1>10

LEMMA CallMoves ==
  ASSUME TypeOK, Phases, NEW ok \in BOOLEAN, Call(ok)
  PROVE  \E ps \in Seq(Parts), a \in BOOLEAN : Streams(ps, a)
<1> DEFINE k == made.call + 1
           ps == <<Part("call", <<k>>)>>
<1>1. made \in Counts /\ buf \in Bufs /\ k \in Nat
  BY DEF TypeOK, Counts, Bufs
<1>2. ps \in Seq(Parts)
  BY <1>1 DEF Parts, Part, Kinds
<1>3. /\ made' = [made EXCEPT !.call = k]
      /\ buf' = [buf EXCEPT !.calls = Append(buf.calls, k), !.error = buf.error \/ ~ok]
      /\ Emit(Update(made.id, ps, Appending, FALSE))
      /\ UNCHANGED <<world, pc, turn, todo, buffers, result, node>>
      /\ pc = "stream" /\ Handled
  BY DEF Call, _build_function_call_response
<1>4. made' \in Counts /\ made'.id = made.id
  BY <1>1, <1>3 DEF Counts
<1>6. buf' \in Bufs /\ Filled(buf')
  <2> DEFINE t == buf.calls
  <2>1. t \in Seq(Nat)
    BY <1>1 DEF Bufs
  <2> HIDE DEF t
  <2>2. Append(t, k) \in Seq(Nat) /\ Append(t, k) # <<>>
    <3>1. k \in Nat /\ t \in Seq(Nat)
      BY <1>1, <2>1
    <3> QED
      BY ONLY <3>1, Appended DEF k
  <2> QED
    BY <1>1, <1>3, <2>2 DEF Bufs, Filled, t
<1>7. Appending \in BOOLEAN
  BY DEF Appending
<1>8. world.agent = "llm"
  BY <1>3 DEF Phases, TaskStates, NON_FINAL_TASK_STATES, TASK_RESPONSE_BOUNDARY_STATES, FAILURE_STATES, PAUSE_STATES
<1>9. pc' = "stream" /\ UNCHANGED <<world, turn, todo, buffers, result, node>>
  BY <1>3
<1> HIDE DEF ps, k
<1>10. Streams(ps, Appending)
  BY <1>3, <1>4, <1>6, <1>8, <1>9, Zenon DEF Streams
<1> QED
  BY <1>2, <1>7, <1>10

LEMMA Moves ==
  ASSUME TypeOK, Phases, [Next]_vars
  PROVE  Move
<1> USE DEF TASK_RESPONSE_BOUNDARY_STATES, FAILURE_STATES, PAUSE_STATES
<1> DEFINE chunk == \E kinds \in {<<"thought">>, <<"text">>, <<"thought", "text">>} : Chunk(kinds)
           call == \E ok \in BOOLEAN : Call(ok)
           streams == \E ps \in Seq(Parts), a \in BOOLEAN : Streams(ps, a)
           tells == \E s \in States, ps \in Seq(Parts) : Tells(s, ps)
<1>1. /\ buf \in Bufs /\ made \in Counts /\ turn \in Turns /\ todo \in Seq(Nat) /\ made.id \in Nat
      /\ buf.calls \in Seq(Nat) /\ <<>> \in Seq(Parts)
  BY DEF TypeOK, Bufs, Counts, Turns
<1>2. pc \in {"ask", "stream", "tools", "refuse", "done", "raised"} => world.agent = "llm"
  BY DEF Phases, TaskStates, NON_FINAL_TASK_STATES
<1>3. streams => Move
  BY DEF Move
<1>4. tells => Move
  BY DEF Move
<1>5. ASSUME chunk PROVE Move
  <2>1. streams
    BY <1>5, ChunkMoves
  <2> QED
    BY <1>3, <2>1
<1>6. ASSUME call PROVE Move
  <2>1. streams
    BY <1>6, CallMoves
  <2> QED
    BY <1>3, <2>1
<1>7. ASSUME Close PROVE Move
  <2> DEFINE bad == turn.bad + (IF pc' = "refuse" THEN 1 ELSE 0)
  <2>1. /\ pc = "stream" /\ Handled /\ todo' = buf.calls /\ turn' = [turn EXCEPT !.bad = bad]
        /\ pc' = IF buf.calls = <<>> THEN "done" ELSE IF buf.error THEN "refuse" ELSE "tools"
        /\ UNCHANGED <<world, buf, made, buffers, result, node>>
        /\ close # <<>> => Emit(Update(made.id, close, FALSE, TRUE))
        /\ close = <<>> => UNCHANGED <<events, store, wire>>
    BY <1>7 DEF Close, close_id
  <2>2. turn' \in Turns
    <3>1. bad \in Nat
      BY <1>1 DEF Turns
    <3> HIDE DEF bad
    <3> QED
      BY <1>1, <2>1, <3>1 DEF Turns
  <2>3. world.agent = "llm"
    BY <1>2, <2>1
  <2>4. CASE close # <<>>
    <3>1. Closes
      BY <2>1, <2>2, <2>3, <2>4 DEF Closes
    <3> QED
      BY <3>1 DEF Move
  <2>5. CASE close = <<>>
    <3>1. buf \in [thought : Seq(Nat), text : Seq(Nat), calls : Seq(Nat), error : BOOLEAN]
      BY <1>1 DEF Bufs
    <3>2. close = <<>> <=> buf.thought = <<>> /\ buf.text = <<>> /\ buf.calls = <<>>
      BY ONLY <3>1, CloseFacts
    <3>3. Stops
      BY <1>1, <2>1, <2>2, <2>3, <2>5, <3>2 DEF Stops, Filled
    <3> QED
      BY <3>3 DEF Move
  <2> QED
    BY <2>4, <2>5
<1>8. ASSUME Answer PROVE Move
  <2>1. /\ pc \in {"tools", "refuse"} /\ Handled /\ todo # <<>>
        /\ Emit(Update(made.id + 1, <<Part("response", <<Head(todo)>>)>>, FALSE, TRUE))
        /\ made' = [made EXCEPT !.id = made.id + 1] /\ todo' = Tail(todo)
        /\ UNCHANGED <<world, pc, turn, buf, buffers, result, node>>
    BY <1>8 DEF Answer, Answered
  <2>2. made' \in Counts /\ made'.id = made.id + 1
    <3>1. made' = [made EXCEPT !.id = made.id + 1] /\ made.id + 1 \in Nat
      BY <1>1, <2>1
    <3> QED
      BY ONLY <1>1, <3>1 DEF Counts
  <2>3. Answers
    BY <1>2, <2>1, <2>2 DEF Answers
  <2> QED
    BY <2>3 DEF Move
<1>9. ASSUME CloseInvalid \/ Raise PROVE Move
  <2>1. /\ pc \in {"ask", "stream", "tools"} /\ pc' = "raised"
        /\ UNCHANGED <<world, turn, buf, todo, made, events, store, wire, buffers, result, node>>
    BY <1>9 DEF CloseInvalid, Raise
  <2>2. Stops
    BY <1>1, <1>2, <2>1 DEF Stops
  <2> QED
    BY <2>2 DEF Move
<1>10. ASSUME AllAnswered PROVE Move
  <2>1. /\ pc \in {"tools", "refuse"} /\ pc' \in {"done", "ask"} /\ todo = <<>>
        /\ UNCHANGED <<world, turn, buf, todo, made, events, store, wire, buffers, result, node>>
    BY <1>10 DEF AllAnswered
  <2>2. CASE pc' = "done"
    <3>1. Stops
      BY <1>1, <1>2, <2>1, <2>2 DEF Stops
    <3> QED
      BY <3>1 DEF Move
  <2>3. CASE pc' = "ask"
    <3>1. Asks
      BY <1>1, <1>2, <2>1, <2>3 DEF Asks
    <3> QED
      BY <3>1 DEF Move
  <2> QED
    BY <2>1, <2>2, <2>3
<1>11. ASSUME Request PROVE Move
  <2>1. /\ pc = "ask" /\ pc' = "stream"
        /\ turn' = [turn EXCEPT !.n = turn.n + 1] /\ buf' = NoBuf /\ made' = [made EXCEPT !.id = made.id + 1]
        /\ UNCHANGED <<world, todo, events, store, wire, buffers, result, node>>
    BY <1>11 DEF Request
  <2>2. turn' \in Turns /\ made' \in Counts /\ made'.id = made.id + 1
    BY <1>1, <2>1, SMTT(60) DEF Turns, Counts
  <2>3. buf' \in Bufs
    BY <2>1 DEF NoBuf, Bufs
  <2>4. Requests
    BY <1>2, <2>1, <2>2, <2>3 DEF Requests
  <2> QED
    BY <2>4 DEF Move
<1>12. ASSUME Execute PROVE Move
  <2>1. Tells("working", <<>>) /\ "working" \in States
    BY <1>1, <1>12 DEF Execute, Tells, States
  <2> QED
    BY <1>1, <1>4, <2>1
<1>13. ASSUME NEW s \in {"completed", "failed"}, Ends(s) PROVE Move
  <2> DEFINE ps == IF s = "failed" THEN <<Part("text", <<0>>)>> ELSE <<>>
  <2>1. s \in States /\ ps \in Seq(Parts)
    <3>1. 0 \in Nat /\ "text" \in Kinds /\ <<0>> \in Seq(Nat)
      BY DEF Kinds
    <3>2. <<Part("text", <<0>>)>> \in Seq(Parts)
      BY <3>1 DEF Part, Parts
    <3> QED
      BY <1>1, <3>2 DEF States
  <2>2. /\ pc' = s /\ EmitStatus(s, ps) /\ UNCHANGED <<world, turn, buf, todo, made, buffers, result, node>>
        /\ (pc = "done" /\ s = "completed") \/ (pc = "raised" /\ s = "failed")
    BY <1>13 DEF Ends
  <2>3. s = "completed" => ps = <<>>
    OBVIOUS
  <2> HIDE DEF ps
  <2>4. Tells(s, ps)
    BY <1>2, <2>1, <2>2, <2>3 DEF Tells
  <2> QED
    BY <1>4, <2>1, <2>4
<1>14. ASSUME Cancel PROVE Move
  <2>1. Tells("canceled", <<>>) /\ "canceled" \in States
    BY <1>1, <1>14 DEF Cancel, Tells, States
  <2> QED
    BY <1>1, <1>4, <2>1
<1>15. ASSUME NEW s \in TASK_RESPONSE_BOUNDARY_STATES, OtherEnds(s) PROVE Move
  <2>1. s \in States
    BY DEF States
  <2>2. Tells(s, <<>>)
    BY <1>1, <1>15, <2>1 DEF OtherEnds, Tells
  <2> QED
    BY <1>1, <1>4, <2>1, <2>2
<1> HIDE DEF chunk, call, streams, tells
<1>16. LLMAgent => Move
  <2>1. LLMAgent => \/ Execute \/ Request \/ Close \/ CloseInvalid \/ Answer \/ AllAnswered \/ Raise
                    \/ chunk \/ call \/ \E s \in {"completed", "failed"} : Ends(s)
    BY Zenon DEF LLMAgent, chunk, call
  <2> QED
    BY <1>5, <1>6, <1>7, <1>8, <1>9, <1>10, <1>11, <1>12, <1>13, <2>1, Zenon
<1>17. Other => Move
  <2>1. Other => Chunked \/ Snapped \/ OtherMessage \/ \E s \in TASK_RESPONSE_BOUNDARY_STATES : OtherEnds(s)
    BY Zenon DEF Other, Chunked, Snapped
  <2>2. Chunked \/ Snapped \/ OtherMessage => Move
    BY Zenon DEF Move
  <2> QED
    BY <1>15, <2>1, <2>2, Zenon
<1>18. Node \/ Cut => Move
  BY Zenon DEF Node, Move
<1>19. UNCHANGED vars => Move
  BY Zenon DEF Move
<1> QED
  BY <1>14, <1>16, <1>17, <1>18, <1>19, Zenon DEF Next

(***************************************************************************)
(* What a step does to the store and the wire.                             *)
(***************************************************************************)
PartLists(arts) == [i \in DOMAIN arts |-> arts[i].parts]
Stores == [state : States, arts : Seq(Artifacts)]
Messages == Events \cup Tasks

LEMMA AllPartsFacts ==
  ASSUME NEW arts \in Seq(Artifacts)
  PROVE  /\ PartLists(arts) \in Lists(Parts) /\ Len(PartLists(arts)) = Len(arts)
         /\ \A i \in 1..Len(arts) : PartLists(arts)[i] = arts[i].parts
         /\ AllParts(arts) = Flat(PartLists(arts)) /\ AllParts(arts) \in Seq(Parts)
<1>1. DOMAIN arts = 1..Len(arts) /\ Len(arts) \in Nat /\ \A i \in 1..Len(arts) : arts[i] \in Artifacts
  OBVIOUS
<1>2. PartLists(arts) \in [1..Len(arts) -> Seq(Parts)]
  BY <1>1 DEF PartLists, Artifacts
<1>3. PartLists(arts) \in Seq(Seq(Parts)) /\ Len(PartLists(arts)) = Len(arts)
  BY <1>1, <1>2
<1>4. Flat(PartLists(arts)) \in Seq(Parts)
  BY <1>3, FlatType DEF Lists
<1>5. \A i \in 1..Len(arts) : PartLists(arts)[i] = arts[i].parts
  BY <1>1 DEF PartLists
<1>6. AllParts(arts) = Flat(PartLists(arts))
  BY DEF AllParts, PartLists
<1> QED
  BY <1>3, <1>4, <1>5, <1>6 DEF Lists

LEMMA EmitFacts ==
  ASSUME TypeOK, NEW e \in Events, Emit(e)
  PROVE  /\ is_partial_event(e) => events' = events
         /\ ~is_partial_event(e) => events' = Append(events, e)
         /\ events' \in Seq(Events)
         /\ store' \in Stores /\ store'.state = store.state /\ store'.arts = merged(store.arts, e)
         /\ world.route = "task" => wire' = wire
         /\ world.route # "task" => wire' = Append(wire, e)
         /\ wire' \in Seq(Messages)
<1>1. /\ events \in Seq(Events) /\ store \in Stores /\ wire \in Seq(Messages) /\ e \in Messages
      /\ store.arts \in Seq(Artifacts)
  BY DEF TypeOK, Stores, Messages
<1> DEFINE a == merged(store.arts, e)
<1>2. a \in Seq(Artifacts)
  BY <1>1, MergedFacts
<1>3. /\ store' = [store EXCEPT !.arts = a]
      /\ events' = IF is_partial_event(e) THEN events ELSE Append(events, e)
      /\ wire' = IF world.route = "task" THEN wire ELSE Append(wire, e)
  BY DEF Emit
<1> HIDE DEF a
<1>4. store' \in Stores /\ store'.state = store.state /\ store'.arts = a
  BY <1>1, <1>2, <1>3 DEF Stores
<1>5. Append(events, e) \in Seq(Events) /\ Append(wire, e) \in Seq(Messages)
  <2> HIDE DEF Events, Messages
  <2> QED
    BY <1>1, Appended
<1> QED
  BY <1>1, <1>3, <1>4, <1>5 DEF a

LEMMA EmitStatusFacts ==
  ASSUME TypeOK, NEW s \in States, NEW ps \in Seq(Parts), EmitStatus(s, ps)
  PROVE  /\ events' = events /\ store' \in Stores /\ store'.state = s /\ store'.arts = store.arts
         /\ Task(s, AllParts(store.arts), ps, <<>>) \in Tasks /\ Status(s, ps) \in Events
         /\ world.route = "local" => wire' = wire
         /\ world.route = "task" /\ s \in TASK_RESPONSE_BOUNDARY_STATES =>
              wire' = Append(wire, Task(s, AllParts(store.arts), ps, <<>>))
         /\ world.route = "task" /\ s \notin TASK_RESPONSE_BOUNDARY_STATES => wire' = wire
         /\ world.route = "stream" => wire' = Append(wire, Status(s, ps))
         /\ wire' \in Seq(Messages)
<1> DEFINE t == Task(s, AllParts(store.arts), ps, <<>>)
           u == Status(s, ps)
<1>1. store \in Stores /\ wire \in Seq(Messages) /\ store.arts \in Seq(Artifacts)
  BY DEF TypeOK, Stores, Messages
<1>2. AllParts(store.arts) \in Seq(Parts) /\ <<>> \in Seq(Parts)
  BY <1>1, AllPartsFacts
<1>3. t \in Tasks
  BY <1>2 DEF Task, Tasks
<1>4. u \in Events
  BY StatusFacts
<1>5. /\ store' = [store EXCEPT !.state = s] /\ events' = events
      /\ wire' = CASE world.route = "local" -> wire
                   [] world.route = "task" -> IF s \in TASK_RESPONSE_BOUNDARY_STATES THEN Append(wire, t) ELSE wire
                   [] OTHER -> Append(wire, u)
  BY DEF EmitStatus
<1> HIDE DEF t, u
<1>6. store' \in Stores /\ store'.state = s /\ store'.arts = store.arts
  BY <1>1, <1>5 DEF Stores
<1>7. Append(wire, t) \in Seq(Messages) /\ Append(wire, u) \in Seq(Messages)
  <2>1. t \in Messages /\ u \in Messages
    BY <1>3, <1>4 DEF Messages
  <2> QED
    BY ONLY <1>1, <2>1, Appended
<1>8. /\ world.route = "local" => wire' = wire
      /\ world.route = "task" /\ s \in TASK_RESPONSE_BOUNDARY_STATES => wire' = Append(wire, t)
      /\ world.route = "task" /\ s \notin TASK_RESPONSE_BOUNDARY_STATES => wire' = wire
      /\ world.route = "stream" => wire' = Append(wire, u)
  <2> DEFINE rt == world.route
             x == Append(wire, t)
             y == Append(wire, u)
             out == s \in TASK_RESPONSE_BOUNDARY_STATES
  <2>1. wire' = CASE rt = "local" -> wire [] rt = "task" -> IF out THEN x ELSE wire [] OTHER -> y
    BY <1>5
  <2> HIDE DEF rt, x, y, out
  <2>2. rt = "local" => wire' = wire
    BY ONLY <2>1
  <2>3. rt = "task" /\ out => wire' = x
    BY ONLY <2>1
  <2>4. rt = "task" /\ ~out => wire' = wire
    BY ONLY <2>1
  <2>5. rt = "stream" => wire' = y
    BY ONLY <2>1
  <2> QED
    BY <2>2, <2>3, <2>4, <2>5 DEF rt, x, y, out
<1>9. wire' \in Seq(Messages)
  BY <1>1, <1>5, <1>7
<1> QED
  BY <1>3, <1>4, <1>5, <1>6, <1>8, <1>9 DEF t, u

(* What is heard of the message at the head of the wire.                   *)
LEMMA TellEvent ==
  ASSUME NEW e \in Messages
  PROVE  /\ e.type = "task" => e \in Tasks
         /\ e.type # "task" => e \in Events
         /\ e \in Events => e.type # "task"
         /\ e \in Tasks => e.type = "task"
<1>1. e \in Events => e.type \in {"artifact", "status", "message"}
  BY DEF Events
<1>2. e \in Tasks => e.type = "task"
  BY DEF Tasks
<1> QED
  BY <1>1, <1>2 DEF Messages

LEMMA ReceiveFacts ==
  ASSUME TypeOK, Receive
  PROVE  LET e == Head(wire)
         IN  /\ wire # <<>> /\ e = wire[1] /\ e \in Messages /\ wire' = Tail(wire) /\ wire' \in Seq(Messages)
             /\ result' \in Results
             /\ (result'.failure \/ result'.pause) <=> (result.failure \/ result.pause \/ Notices(e))
             /\ e \in Events /\ ~(e.type = "artifact" /\ e.append /\ e.last) => result' = Took(result, e)
             /\ e \in Events /\ e.type = "artifact" /\ e.append /\ e.last =>
                  /\ Update(e.id, Buffered(e), FALSE, TRUE) \in Events /\ Buffered(e) \in Seq(Parts)
                  /\ result' = Took(Took(result, e), Update(e.id, Buffered(e), FALSE, TRUE))
             /\ e \in Tasks => result' = Seen(result, _events_from_task(e))
<1> DEFINE e == Head(wire)
<1>1. wire \in Seq(Messages) /\ result \in Results /\ wire # <<>> /\ wire' = Tail(wire)
      /\ result' = Seen(result, _handle_a2a_response(e))
  BY DEF TypeOK, Messages, Receive
<1>2. e = wire[1] /\ e \in Messages /\ wire' \in Seq(Messages)
  BY <1>1
<1> HIDE DEF e
<1>3. /\ e.type = "task" <=> e \in Tasks
      /\ e.type # "task" <=> e \in Events
  BY <1>2, TellEvent
<1>4. CASE e \in Events /\ ~(e.type = "artifact" /\ e.append /\ e.last)
  <2>1. _handle_a2a_response(e) = <<e>>
    BY <1>3, <1>4 DEF _handle_a2a_response, _aggregate_artifact_update
  <2>2. result' = Took(result, e)
    BY <1>1, <2>1, SeenOne
  <2>3. /\ result' \in Results
        /\ (result'.failure \/ result'.pause) <=> (result.failure \/ result.pause \/ Notices(e))
    BY <1>1, <1>3, <1>4, <2>2, TookFacts DEF Notices
  <2> QED
    BY <1>1, <1>2, <1>3, <1>4, <2>2, <2>3 DEF e
<1>5. CASE e \in Events /\ e.type = "artifact" /\ e.append /\ e.last
  <2> DEFINE u == Update(e.id, Buffered(e), FALSE, TRUE)
             q == Took(result, e)
  <2>1. _handle_a2a_response(e) = <<e, u>>
    BY <1>5 DEF _handle_a2a_response, _aggregate_artifact_update
  <2>2. Buffered(e) \in Seq(Parts) /\ e.id \in Nat
    <3>1. e.parts \in Seq(Parts) /\ e.id \in Nat /\ \A i \in DOMAIN buffers : buffers[i] \in Seq(Parts)
      BY <1>5 DEF Events, TypeOK
    <3>2. e.id \in DOMAIN buffers => buffers[e.id] \o e.parts \in Seq(Parts)
      BY <3>1
    <3> QED
      BY <3>1, <3>2 DEF Buffered
  <2>3. u \in Events /\ u.type = "artifact"
    <3> DEFINE i == e.id
               b == Buffered(e)
    <3>1. i \in Nat /\ b \in Seq(Parts)
      BY <2>2
    <3> HIDE DEF i, b
    <3>2. Update(i, b, FALSE, TRUE) \in Events /\ Update(i, b, FALSE, TRUE).type = "artifact"
      BY ONLY <3>1 DEF Update, Event, Events, States
    <3> QED
      BY <3>2 DEF u, i, b
  <2> HIDE DEF u, q
  <2>4. result' = Took(q, u)
    <3>1. Seen(result, <<e, u>>) = Took(q, u)
      BY SeenTwo DEF q
    <3> QED
      BY <1>1, <2>1, <3>1
  <2>5. q \in Results /\ (q.failure <=> result.failure) /\ (q.pause <=> result.pause)
    BY <1>1, <1>5, TookFacts DEF q
  <2>6. result' \in Results /\ (result'.failure <=> q.failure) /\ (result'.pause <=> q.pause)
    BY <2>3, <2>4, <2>5, TookFacts
  <2>7. (result'.failure \/ result'.pause) <=> (result.failure \/ result.pause \/ Notices(e))
    BY <1>5, <2>5, <2>6 DEF Notices
  <2> QED
    BY <1>1, <1>2, <1>3, <1>5, <2>2, <2>3, <2>4, <2>6, <2>7 DEF e, u, q
<1>6. CASE e \in Tasks
  <2> DEFINE A == TaskArtifact(e)
             S == TaskStatus(e)
             M == TaskMessage(e)
             told == Told(e)
             es == _events_from_task(e)
  <2>1. _handle_a2a_response(e) = es
    BY <1>3, <1>6 DEF _handle_a2a_response
  <2>2. /\ A \in Events /\ S \in Events /\ M \in Events /\ M.type = "message"
        /\ e.arts # <<>> /\ told => es = <<A, S>>
        /\ e.arts # <<>> /\ ~told => es = <<A>>
        /\ e.arts = <<>> =>
             \/ /\ es = <<S>>
                /\ told \/ e.history = <<>> \/ e.state \notin TASK_RESPONSE_BOUNDARY_STATES
             \/ ~told /\ e.history # <<>> /\ es = <<M>>
    BY <1>6, TaskEvents
  <2>3. A.type = "artifact"
    BY DEF Update, Event, TaskArtifact
  <2>4. S.type = "status" /\ S.state = e.state
    BY DEF Status, Event, TaskStatus
  <2>5. Notices(e) <=> \/ e.state \in FAILURE_STATES
                       \/ e.state \in PAUSE_STATES /\ (e.parts # <<>> \/ (e.arts = <<>> /\ e.history = <<>>))
    BY <1>3, <1>6 DEF Notices
  <2>6. e.state \in PAUSE_STATES => e.state \in TASK_RESPONSE_BOUNDARY_STATES /\ e.state \notin FAILURE_STATES
    BY DEF TASK_RESPONSE_BOUNDARY_STATES, PAUSE_STATES, FAILURE_STATES
  <2>7. told <=> \/ e.state \in FAILURE_STATES
                 \/ e.parts # <<>> /\ e.state \in PAUSE_STATES
                 \/ e.parts # <<>> /\ e.arts = <<>> /\ e.state \in TASK_RESPONSE_BOUNDARY_STATES
    BY DEF Told
  <2> DEFINE tells == e.state \in FAILURE_STATES \/ e.state \in PAUSE_STATES
  <2> HIDE DEF A, S, M, es, told
  <2>8. \A q \in Results : \A x \in Events :
          /\ Took(q, x) \in Results
          /\ (Took(q, x).failure \/ Took(q, x).pause) <=>
               (q.failure \/ q.pause \/ (x.type = "status" /\ x.state \in FAILURE_STATES \cup PAUSE_STATES))
    BY TookFacts
  <2>9. CASE es = <<A, S>> /\ told
    <3>1. result' = Took(Took(result, A), S)
      <4>1. Seen(result, <<A, S>>) = Took(Took(result, A), S)
        BY SeenTwo
      <4> QED
        BY <1>1, <2>1, <2>9, <4>1
    <3>2. /\ Took(result, A) \in Results
          /\ (Took(result, A).failure \/ Took(result, A).pause) <=> (result.failure \/ result.pause)
      BY <1>1, <2>2, <2>3, <2>8
    <3>3. /\ result' \in Results
          /\ (result'.failure \/ result'.pause) <=> (result.failure \/ result.pause \/ tells)
      BY <2>2, <2>4, <2>8, <3>1, <3>2
    <3>4. tells <=> Notices(e)
      BY <2>2, <2>5, <2>6, <2>7, <2>9
    <3> QED
      BY <1>1, <1>2, <1>3, <1>6, <2>1, <3>3, <3>4 DEF e, es
  <2>10. CASE es = <<A>> /\ ~told /\ e.arts # <<>>
    <3>1. result' = Took(result, A)
      BY <1>1, <2>1, <2>10, SeenOne
    <3>2. /\ result' \in Results
          /\ (result'.failure \/ result'.pause) <=> (result.failure \/ result.pause)
      BY ONLY <1>1, <2>2, <2>3, <2>8, <3>1
    <3>3. ~Notices(e)
      BY <2>5, <2>6, <2>7, <2>10
    <3> QED
      BY <1>1, <1>2, <1>3, <1>6, <2>1, <3>2, <3>3 DEF e, es
  <2>11. CASE es = <<M>> /\ ~told /\ e.arts = <<>> /\ e.history # <<>>
    <3>1. result' = Took(result, M)
      BY <1>1, <2>1, <2>11, SeenOne
    <3>2. /\ result' \in Results
          /\ (result'.failure \/ result'.pause) <=> (result.failure \/ result.pause)
      <4>1. M \in Events /\ M.type # "status" /\ result \in Results
        BY <1>1, <2>2
      <4> QED
        BY ONLY <2>8, <3>1, <4>1
    <3>3. ~Notices(e)
      BY <2>5, <2>6, <2>7, <2>11
    <3> QED
      BY <1>1, <1>2, <1>3, <1>6, <2>1, <3>2, <3>3 DEF e, es
  <2>12. CASE es = <<S>> /\ e.arts = <<>> /\ (told \/ e.history = <<>> \/ e.state \notin TASK_RESPONSE_BOUNDARY_STATES)
    <3>1. result' = Took(result, S)
      BY <1>1, <2>1, <2>12, SeenOne
    <3>2. /\ result' \in Results
          /\ (result'.failure \/ result'.pause) <=> (result.failure \/ result.pause \/ tells)
      BY <1>1, <2>2, <2>4, <2>8, <3>1
    <3>3. tells <=> Notices(e)
      BY <2>5, <2>6, <2>7, <2>12
    <3> QED
      BY <1>1, <1>2, <1>3, <1>6, <2>1, <3>2, <3>3 DEF e, es
  <2>13. \/ es = <<A, S>> /\ told
         \/ es = <<A>> /\ ~told /\ e.arts # <<>>
         \/ es = <<M>> /\ ~told /\ e.arts = <<>> /\ e.history # <<>>
         \/ es = <<S>> /\ e.arts = <<>> /\ (told \/ e.history = <<>> \/ e.state \notin TASK_RESPONSE_BOUNDARY_STATES)
    BY <2>2, Zenon
  <2> QED
    BY <2>9, <2>10, <2>11, <2>12, <2>13, Zenon
<1> QED
  BY <1>2, <1>4, <1>5, <1>6 DEF Messages

(* The update of an agent that streams in chunks, and the task of another. *)
Piece(k) == <<Part("text", <<k>>)>>
Known(id) == \E i \in DOMAIN store.arts : store.arts[i].id = id
Chunk_(id, last) == Update(id, Piece(made.piece + 1), Known(id), last)

LEMMA PieceFacts ==
  ASSUME NEW k \in Nat
  PROVE  Piece(k) \in Seq(Parts) /\ Piece(k) # <<>> /\ Text(Piece(k)) # <<>>
<1> DEFINE s == <<k>>
<1>1. s \in Seq(Nat) /\ "text" \in Kinds /\ s # <<>>
  BY DEF Kinds
<1> HIDE DEF s
<1>2. <<Part("text", s)>> \in Seq(Parts)
  BY ONLY <1>1, OfOne
<1>3. Of(<<Part("text", s)>>, "text") = s
  <2> DEFINE kind == "text"
             j == "text"
  <2>1. Of(<<Part(j, s)>>, kind) = IF j = kind THEN s ELSE <<>>
    BY ONLY <1>1, OfOne DEF j
  <2> QED
    BY <2>1 DEF j, kind
<1>4. <<Part("text", s)>> # <<>>
  OBVIOUS
<1> QED
  BY <1>1, <1>2, <1>3, <1>4 DEF s, Piece, Text

LEMMA OtherChunkFacts ==
  ASSUME TypeOK, NEW id \in 1..2, NEW last \in BOOLEAN, OtherChunk(id, last)
  PROVE  /\ world.agent = "chunks" /\ pc = "start" /\ pc' = pc /\ id \notin Elems(todo)
         /\ made' \in Counts /\ made.piece + 1 \in Nat
         /\ Chunk_(id, last) \in Events /\ Emit(Chunk_(id, last))
         /\ last => todo' = Append(todo, id)
         /\ ~last => todo' = todo
         /\ todo' \in Seq(Nat)
         /\ UNCHANGED <<world, pc, turn, buf, buffers, result, node>>
<1>1. made \in Counts /\ made.piece + 1 \in Nat /\ todo \in Seq(Nat) /\ id \in Nat
  BY DEF TypeOK, Counts
<1>2. Piece(made.piece + 1) \in Seq(Parts)
  BY ONLY <1>1, PieceFacts
<1>3. Chunk_(id, last) \in Events
  <2> DEFINE b == Known(id)
             ps == Piece(made.piece + 1)
  <2>1. b \in BOOLEAN /\ ps \in Seq(Parts) /\ id \in Nat /\ last \in BOOLEAN
    BY <1>1, <1>2 DEF Known
  <2> HIDE DEF b, ps
  <2>2. Update(id, ps, b, last) \in Events
    BY ONLY <2>1, UpdateFacts
  <2> QED
    BY <2>2 DEF Chunk_, b, ps
<1>4. made' \in Counts
  <2>1. made' = [made EXCEPT !.piece = made.piece + 1]
    BY DEF OtherChunk
  <2> QED
    BY ONLY <1>1, <2>1 DEF Counts
<1>5. Append(todo, id) \in Seq(Nat)
  BY ONLY <1>1, Appended
<1> QED
  BY <1>1, <1>3, <1>4, <1>5 DEF OtherChunk, Chunk_, Known, Piece

LEMMA OtherTaskFacts ==
  ASSUME TypeOK, NEW s \in TaskStates, NEW f \in Snapshots, OtherTask(s, f)
  PROVE  /\ world.agent = "snapshot" /\ pc = "start" /\ pc' = s /\ s \in States
         /\ f[1] \in Seq(Parts) /\ f[2] \in Seq(Parts) /\ f[3] \in Seq(Parts)
         /\ s \in PAUSE_STATES /\ f[2] = <<>> => Fault("mute")
         /\ store' \in Stores /\ store'.state = s
         /\ f[1] = <<>> => store'.arts = <<>>
         /\ f[1] # <<>> => store'.arts = <<[id |-> 1, parts |-> f[1]]>>
         /\ Task(s, f[1], f[2], f[3]) \in Tasks
         /\ wire' = Append(wire, Task(s, f[1], f[2], f[3])) /\ wire' \in Seq(Messages)
         /\ UNCHANGED <<world, turn, buf, todo, made, events, buffers, result, node>>
<1>1. \A k \in Nat : <<Part("text", <<k>>)>> \in Seq(Parts)
  BY PieceFacts DEF Piece
<1>2. f[1] \in Seq(Parts) /\ f[2] \in Seq(Parts) /\ f[3] \in Seq(Parts)
  <2>1. PICK a \in {<<>>, <<Part("text", <<1>>)>>}, m \in {<<>>, <<Part("text", <<2>>)>>},
             h \in {<<>>, <<Part("text", <<3>>)>>} : f = <<a, m, h>>
    BY DEF Snapshots
  <2>2. a \in Seq(Parts) /\ m \in Seq(Parts) /\ h \in Seq(Parts)
    <3>1. /\ <<Part("text", <<1>>)>> \in Seq(Parts) /\ <<Part("text", <<2>>)>> \in Seq(Parts)
          /\ <<Part("text", <<3>>)>> \in Seq(Parts) /\ <<>> \in Seq(Parts)
      BY <1>1
    <3> QED
      BY <3>1, Zenon
  <2>3. f[1] = a /\ f[2] = m /\ f[3] = h
    BY <2>1
  <2> QED
    BY <2>2, <2>3
<1>3. s \in States
  BY DEF States, TaskStates, NON_FINAL_TASK_STATES, TASK_RESPONSE_BOUNDARY_STATES, PAUSE_STATES
<1> DEFINE a == IF f[1] = <<>> THEN <<>> ELSE <<[id |-> 1, parts |-> f[1]]>>
           t == Task(s, f[1], f[2], f[3])
<1>4. a \in Seq(Artifacts)
  <2>1. [id |-> 1, parts |-> f[1]] \in Artifacts
    BY <1>2 DEF Artifacts
  <2> QED
    BY <2>1
<1>5. t \in Tasks
  BY <1>2, <1>3 DEF Task, Tasks
<1>6. store' = [state |-> s, arts |-> a] /\ wire' = Append(wire, t)
  BY DEF OtherTask
<1> HIDE DEF a, t
<1>7. store' \in Stores /\ store'.state = s /\ store'.arts = a
  BY <1>3, <1>4, <1>6 DEF Stores
<1>8. wire' \in Seq(Messages)
  <2>1. wire \in Seq(Messages) /\ t \in Messages
    BY <1>5 DEF TypeOK, Messages
  <2>2. Append(wire, t) \in Seq(Messages)
    BY ONLY <2>1, Appended
  <2> QED
    BY <1>6, <2>2
<1>9. /\ world.agent = "snapshot" /\ pc = "start" /\ pc' = s
      /\ s \in PAUSE_STATES /\ f[2] = <<>> => Fault("mute")
      /\ UNCHANGED <<world, turn, buf, todo, made, events, buffers, result, node>>
  BY DEF OtherTask
<1> QED
  BY <1>2, <1>3, <1>5, <1>6, <1>7, <1>8, <1>9 DEF a, t

LEMMA OtherMessageFacts ==
  ASSUME TypeOK, OtherMessage
  PROVE  \E e \in Events :
           /\ world.agent = "snapshot" /\ world.route = "stream" /\ pc = "start" /\ pc' = "completed"
           /\ store' \in Stores /\ store'.state = "completed" /\ store'.arts = <<>>
           /\ e.type = "message" /\ wire' = Append(wire, e) /\ wire' \in Seq(Messages)
           /\ UNCHANGED <<world, turn, buf, todo, made, events, buffers, result, node>>
<1> DEFINE e == Event("message", 0, Piece(1), "none")
<1>1. e \in Events /\ e.type = "message"
  <2>1. Piece(1) \in Seq(Parts)
    BY PieceFacts
  <2> QED
    BY <2>1 DEF Event, Events, States
<1>2. /\ world.agent = "snapshot" /\ pc = "start" /\ pc' = "completed"
      /\ store' = [state |-> "completed", arts |-> <<>>] /\ wire' = Append(wire, e)
      /\ UNCHANGED <<world, turn, buf, todo, made, events, buffers, result, node>>
  BY DEF OtherMessage, Piece
<1> HIDE DEF e
<1>3. store' \in Stores /\ store'.state = "completed" /\ store'.arts = <<>>
  BY <1>2 DEF Stores, States, TASK_RESPONSE_BOUNDARY_STATES
<1>4. wire' \in Seq(Messages)
  <2>1. wire \in Seq(Messages) /\ e \in Messages
    BY <1>1 DEF TypeOK, Messages
  <2>2. Append(wire, e) \in Seq(Messages)
    BY ONLY <2>1, Appended
  <2> QED
    BY <1>2, <2>2
<1>5. world.route = "stream"
  BY <1>2, ConstantsAssumption DEF TypeOK
<1> QED
  BY <1>1, <1>2, <1>3, <1>4, <1>5

LEMMA CutFacts ==
  ASSUME TypeOK, Cut
  PROVE  /\ Fault("cut") /\ world.route # "local" /\ node' = "failed" /\ buffers' = <<>>
         /\ result' \in Results /\ result'.output = result.output /\ result'.promoted = result.promoted
         /\ UNCHANGED <<world, pc, turn, buf, todo, made, events, store, wire>>
<1>1. /\ Fault("cut") /\ world.route # "local" /\ node' = "failed" /\ buffers' = <<>>
      /\ result' = noted(result, Status("failed", Piece(0)))
      /\ UNCHANGED <<world, pc, turn, buf, todo, made, events, store, wire>>
  BY DEF Cut, agentVars, Piece
<1> DEFINE u == Status("failed", Piece(0))
<1>2. u.type = "status"
  BY DEF Status, Event
<1> HIDE DEF u
<1>3. result' = [result EXCEPT !.failure = result.failure \/ u.state \in FAILURE_STATES,
                               !.pause = result.pause \/ u.state \in PAUSE_STATES]
  BY <1>1, <1>2 DEF noted, u
<1>4. result \in Results
  BY DEF TypeOK
<1>5. result' \in Results /\ result'.output = result.output /\ result'.promoted = result.promoted
  BY <1>3, <1>4 DEF Results
<1> QED
  BY <1>1, <1>5

LEMMA ProcessFacts ==
  ASSUME TypeOK, Process
  PROVE  LET e == Head(wire)
         IN  /\ world.route = "local" /\ wire # <<>> /\ e = wire[1] /\ wire' = Tail(wire) /\ wire' \in Seq(Messages)
             /\ result' \in Results
             /\ ~is_final_artifact(e) \/ has_function_calls(e) => result'.output = result.output
             /\ is_final_artifact(e) /\ ~has_function_calls(e) => result'.output = extract_text(e)
             /\ UNCHANGED <<world, pc, turn, buf, todo, made, events, store, buffers, node>>
<1> DEFINE e == Head(wire)
<1>1. /\ wire \in Seq(Messages) /\ wire # <<>> /\ wire' = Tail(wire) /\ world.route = "local" /\ result \in Results
      /\ result' = IF ~is_final_artifact(e) \/ has_function_calls(e) THEN result
                   ELSE [result EXCEPT !.output = extract_text(e)]
      /\ UNCHANGED <<world, pc, turn, buf, todo, made, events, store, buffers, node>>
  BY DEF TypeOK, Process, Messages, agentVars
<1>2. e = wire[1] /\ e \in Messages /\ wire' \in Seq(Messages)
  BY <1>1
<1> HIDE DEF e
<1>3. is_final_artifact(e) => e \in Events
  BY <1>2, TellEvent DEF is_final_artifact
<1>4. is_final_artifact(e) => extract_text(e) \in Seq(Nat)
  BY <1>3, ContentFacts
<1>5. result' \in Results
  BY <1>1, <1>4 DEF Results
<1>6. is_final_artifact(e) /\ ~has_function_calls(e) => result'.output = extract_text(e)
  BY <1>1 DEF Results
<1> QED
  BY <1>1, <1>2, <1>5, <1>6 DEF e

(***************************************************************************)
(* Type correctness, and the agent's state beside the task's.              *)
(***************************************************************************)
Typed ==
  /\ world \in Worlds /\ pc \in LLMStates \cup TaskStates /\ turn \in Turns /\ buf \in Bufs
  /\ todo \in Seq(Nat) /\ made \in Counts /\ events \in Seq(Events) /\ store \in Stores
  /\ wire \in Seq(Messages)
  /\ DOMAIN buffers \subseteq Nat /\ \A i \in DOMAIN buffers : buffers[i] \in Seq(Parts)
  /\ result \in Results /\ node \in {"running", "delivered", "failed"}

LEMMA TypeIs == TypeOK <=> Typed
BY Zenon DEF TypeOK, Typed, Turns, Bufs, Counts, Stores, Messages

LEMMA TypeStep ==
  ASSUME TypeOK, Phases, Move
  PROVE  TypeOK'
<1> USE DEF TASK_RESPONSE_BOUNDARY_STATES, FAILURE_STATES, PAUSE_STATES, LLMStates, TaskStates, NON_FINAL_TASK_STATES
<1>0. /\ world \in Worlds /\ pc \in LLMStates \cup TaskStates /\ turn \in Turns /\ buf \in Bufs
      /\ todo \in Seq(Nat) /\ made \in Counts /\ events \in Seq(Events) /\ store \in Stores
      /\ wire \in Seq(Messages)
      /\ DOMAIN buffers \subseteq Nat /\ \A i \in DOMAIN buffers : buffers[i] \in Seq(Parts)
      /\ result \in Results /\ node \in {"running", "delivered", "failed"}
  BY TypeIs DEF Typed
<1>1. made.id \in Nat /\ TRUE \in BOOLEAN /\ FALSE \in BOOLEAN /\ made.id + 1 \in Nat
  BY <1>0 DEF Counts
<1> DEFINE Rest == /\ world' \in Worlds /\ pc' \in LLMStates \cup TaskStates /\ turn' \in Turns /\ buf' \in Bufs
                   /\ todo' \in Seq(Nat) /\ made' \in Counts
                   /\ DOMAIN buffers' \subseteq Nat /\ \A i \in DOMAIN buffers' : buffers'[i] \in Seq(Parts)
                   /\ result' \in Results /\ node' \in {"running", "delivered", "failed"}
           Sent_ == events' \in Seq(Events) /\ store' \in Stores /\ wire' \in Seq(Messages)
<1>2. Rest /\ Sent_ => TypeOK'
  <2>1. (TypeOK <=> Typed)'
    BY TypeIs, PTL
  <2>2. Rest /\ Sent_ => Typed'
    BY Zenon DEF Typed
  <2> QED
    BY <2>1, <2>2
<1>3. ASSUME NEW e \in Events, Emit(e) PROVE Sent_
  BY <1>3, EmitFacts
<1>4. ASSUME NEW ps \in Seq(Parts), NEW a \in BOOLEAN, Streams(ps, a) PROVE TypeOK'
  <2>1. Update(made.id, ps, a, FALSE) \in Events
    BY ONLY <1>1, ps \in Seq(Parts), a \in BOOLEAN, UpdateFacts
  <2>2. Sent_
    BY <1>3, <1>4, <2>1 DEF Streams
  <2>3. Rest
    BY <1>0, <1>4 DEF Streams
  <2> QED
    BY <1>2, <2>2, <2>3
<1>5. ASSUME Closes PROVE TypeOK'
  <2>1. close \in Seq(Parts)
    BY <1>0, CloseFacts DEF Bufs
  <2>2. Update(made.id, close, FALSE, TRUE) \in Events
    BY <1>1, <2>1, UpdateFacts
  <2>3. Sent_
    BY <1>3, <1>5, <2>2 DEF Closes
  <2>4. buf.calls \in Seq(Nat)
    BY <1>0 DEF Bufs
  <2>5. Rest
    BY <1>0, <1>5, <2>4 DEF Closes
  <2> QED
    BY <1>2, <2>3, <2>5
<1>6. ASSUME Answers PROVE TypeOK'
  <2>1. Head(todo) \in Nat /\ Tail(todo) \in Seq(Nat)
    BY <1>0, <1>6 DEF Answers
  <2>2. <<Part("response", <<Head(todo)>>)>> \in Seq(Parts)
    BY <2>1, ResponseFacts
  <2>3. Update(made.id + 1, <<Part("response", <<Head(todo)>>)>>, FALSE, TRUE) \in Events
    BY <1>1, <2>2, UpdateFacts
  <2>4. Sent_
    BY <1>3, <1>6, <2>3 DEF Answers
  <2>5. Rest
    BY <1>0, <1>6, <2>1 DEF Answers
  <2> QED
    BY <1>2, <2>4, <2>5
<1>7. ASSUME Stops \/ Asks \/ Requests PROVE TypeOK'
  <2>1. Sent_ /\ Rest
    BY <1>0, <1>7 DEF Stops, Asks, Requests
  <2> QED
    BY <1>2, <2>1
<1>8. ASSUME NEW s \in States, NEW ps \in Seq(Parts), Tells(s, ps) PROVE TypeOK'
  <2>1. EmitStatus(s, ps)
    BY <1>8 DEF Tells
  <2>2. Sent_
    BY <1>0, <2>1, EmitStatusFacts
  <2>3. Rest
    BY <1>0, <1>8 DEF Tells
  <2> QED
    BY <1>2, <2>2, <2>3
<1>9. ASSUME Chunked PROVE TypeOK'
  <2>1. PICK id \in 1..2, last \in BOOLEAN : OtherChunk(id, last)
    BY <1>9 DEF Chunked
  <2>2. /\ Chunk_(id, last) \in Events /\ Emit(Chunk_(id, last)) /\ made' \in Counts /\ todo' \in Seq(Nat)
        /\ UNCHANGED <<world, pc, turn, buf, buffers, result, node>>
    BY <2>1, OtherChunkFacts
  <2>3. Sent_
    BY <1>3, <2>2
  <2>4. Rest
    BY <1>0, <2>2
  <2> QED
    BY <1>2, <2>3, <2>4
<1>10. ASSUME Snapped PROVE TypeOK'
  <2>1. PICK s \in TaskStates, f \in Snapshots : OtherTask(s, f)
    BY <1>10 DEF Snapped
  <2>2. /\ pc' = s /\ store' \in Stores /\ wire' \in Seq(Messages)
        /\ UNCHANGED <<world, turn, buf, todo, made, events, buffers, result, node>>
    BY <2>1, OtherTaskFacts
  <2>3. Sent_ /\ Rest
    BY <1>0, <2>2
  <2> QED
    BY <1>2, <2>3
<1>16. ASSUME OtherMessage PROVE TypeOK'
  <2>1. /\ pc' = "completed" /\ store' \in Stores /\ wire' \in Seq(Messages)
        /\ UNCHANGED <<world, turn, buf, todo, made, events, buffers, result, node>>
    BY <1>16, OtherMessageFacts
  <2>2. Sent_ /\ Rest
    BY <1>0, <2>1
  <2> QED
    BY <1>2, <2>2
<1>11. ASSUME Receive PROVE TypeOK'
  <2>1. wire' \in Seq(Messages) /\ result' \in Results
    BY <1>11, ReceiveFacts
  <2>2. /\ UNCHANGED <<world, pc, turn, buf, todo, made, events, store, node>>
        /\ buffers' = buffers_after(Head(wire)) /\ wire # <<>>
    BY <1>11 DEF Receive, agentVars
  <2>3. DOMAIN buffers' \subseteq Nat /\ \A i \in DOMAIN buffers' : buffers'[i] \in Seq(Parts)
    <3> DEFINE e == Head(wire)
               D == (DOMAIN buffers \cup {e.id}) \ (IF e.last THEN {e.id} ELSE {})
               b(i) == IF i = e.id THEN Buffered(e) ELSE buffers[i]
    <3>1. CASE e.type # "artifact"
      BY <1>0, <2>2, <3>1 DEF buffers_after
    <3>2. CASE e.type = "artifact"
      <4>1. e \in Messages
        BY <1>0, <2>2
      <4>2. e \in Events
        BY <3>2, <4>1, TellEvent
      <4>3. e.id \in Nat /\ e.parts \in Seq(Parts)
        BY <4>2 DEF Events
      <4>4. Buffered(e) \in Seq(Parts)
        <5>1. e.id \in DOMAIN buffers => buffers[e.id] \o e.parts \in Seq(Parts)
          BY <1>0, <4>3
        <5> QED
          BY <4>3, <5>1 DEF Buffered
      <4>5. buffers' = [i \in D |-> b(i)]
        BY <2>2, <3>2 DEF buffers_after
      <4>6. D \subseteq DOMAIN buffers \cup {e.id}
        OBVIOUS
      <4>7. \A i \in D : b(i) \in Seq(Parts)
        BY <1>0, <4>4, <4>6
      <4> HIDE DEF D, b, e
      <4> QED
        BY <1>0, <4>3, <4>5, <4>6, <4>7
    <3> QED
      BY <3>1, <3>2
  <2>4. Rest
    BY <1>0, <2>1, <2>2, <2>3
  <2>5. Sent_
    BY <1>0, <2>1, <2>2
  <2> QED
    BY <1>2, <2>4, <2>5
<1>12. ASSUME Cut PROVE TypeOK'
  <2>1. /\ node' = "failed" /\ buffers' = <<>> /\ result' \in Results
        /\ UNCHANGED <<world, pc, turn, buf, todo, made, events, store, wire>>
    BY <1>12, CutFacts
  <2>2. Sent_ /\ Rest
    BY <1>0, <2>1
  <2> QED
    BY <1>2, <2>2
<1>13. ASSUME RemoteEnds \/ LocalEnds PROVE TypeOK'
  <2>1. /\ node' \in {"delivered", "failed"} /\ (buffers' = <<>> \/ buffers' = buffers)
        /\ UNCHANGED <<world, pc, turn, buf, todo, made, events, store, wire, result>>
    BY <1>13 DEF RemoteEnds, LocalEnds, agentVars
  <2>2. Sent_ /\ Rest
    BY <1>0, <2>1
  <2> QED
    BY <1>2, <2>2
<1>14. ASSUME Process PROVE TypeOK'
  <2>1. /\ wire' \in Seq(Messages) /\ result' \in Results
        /\ UNCHANGED <<world, pc, turn, buf, todo, made, events, store, buffers, node>>
    BY <1>14, ProcessFacts
  <2>2. Sent_ /\ Rest
    BY <1>0, <2>1
  <2> QED
    BY <1>2, <2>2
<1>15. ASSUME UNCHANGED vars PROVE TypeOK'
  <2>1. Sent_ /\ Rest
    BY <1>0, <1>15 DEF vars, agentVars
  <2> QED
    BY <1>2, <2>1
<1> QED
  BY <1>4, <1>5, <1>6, <1>7, <1>8, <1>9, <1>10, <1>11, <1>12, <1>13, <1>14, <1>15, <1>16, Zenon DEF Move

(* What a step that sends an event leaves.                                 *)
LEMMA StreamsFacts ==
  ASSUME TypeOK, NEW ps \in Seq(Parts), NEW a \in BOOLEAN, Streams(ps, a)
  PROVE  /\ world.agent = "llm" /\ pc = "stream" /\ Handled /\ UNCHANGED <<world, pc, todo, buffers, result, node>>
         /\ events' = events /\ made'.id = made.id /\ made.id \in Nat /\ Filled(buf')
         /\ Update(made.id, ps, a, FALSE) \in Events
         /\ store'.state = store.state /\ store'.arts = merged(store.arts, Update(made.id, ps, a, FALSE))
         /\ world.route = "task" => wire' = wire
         /\ world.route # "task" => wire' = Append(wire, Update(made.id, ps, a, FALSE))
<1>1. /\ world.agent = "llm" /\ pc = "stream" /\ Handled /\ UNCHANGED <<world, pc, todo, buffers, result, node>>
      /\ Emit(Update(made.id, ps, a, FALSE)) /\ made'.id = made.id /\ Filled(buf')
  BY DEF Streams
<1>2. made.id \in Nat /\ FALSE \in BOOLEAN
  BY DEF TypeOK
<1>3. Update(made.id, ps, a, FALSE) \in Events /\ is_partial_event(Update(made.id, ps, a, FALSE))
  BY ONLY <1>2, ps \in Seq(Parts), a \in BOOLEAN, UpdateFacts
<1>4. /\ events' = events
      /\ store'.state = store.state /\ store'.arts = merged(store.arts, Update(made.id, ps, a, FALSE))
      /\ world.route = "task" => wire' = wire
      /\ world.route # "task" => wire' = Append(wire, Update(made.id, ps, a, FALSE))
  BY ONLY TypeOK, <1>1, <1>3, EmitFacts
<1> QED
  BY <1>1, <1>2, <1>3, <1>4

LEMMA FinalFacts ==
  ASSUME TypeOK, NEW id \in Nat, NEW ps \in Seq(Parts), Emit(Final(id, ps))
  PROVE  /\ Final(id, ps) \in Events /\ events' = Append(events, Final(id, ps))
         /\ Final(id, ps).type = "artifact" /\ Final(id, ps).id = id /\ Final(id, ps).parts = ps
         /\ ~Final(id, ps).append /\ is_final_artifact(Final(id, ps)) /\ ~is_partial_event(Final(id, ps))
         /\ event_content_parts(Final(id, ps)) = ps
         /\ store'.state = store.state /\ store'.arts = merged(store.arts, Final(id, ps))
         /\ world.route = "task" => wire' = wire
         /\ world.route # "task" => wire' = Append(wire, Final(id, ps))
<1> DEFINE u == Final(id, ps)
<1>1. /\ u \in Events /\ u.type = "artifact" /\ u.id = id /\ u.parts = ps /\ u.append = FALSE /\ u.last = TRUE
  BY DEF Final, Update, Event, Events, States
<1>2. /\ Final(id, ps) \in Events
      /\ Final(id, ps).type = "artifact" /\ Final(id, ps).id = id /\ Final(id, ps).parts = ps
      /\ ~Final(id, ps).append /\ is_final_artifact(Final(id, ps)) /\ ~is_partial_event(Final(id, ps))
      /\ event_content_parts(Final(id, ps)) = ps
  <2> HIDE DEF u
  <2>2. u \in Events /\ u.type = "artifact" /\ u.id = id /\ u.parts = ps /\ ~u.append /\ u.last
    BY <1>1
  <2>3. is_final_artifact(u)
    BY <2>2 DEF is_final_artifact
  <2>4. ~is_partial_event(u) /\ event_content_parts(u) = ps
    BY <2>2, <2>3 DEF is_partial_event, event_content_parts
  <2> QED
    BY <2>2, <2>3, <2>4 DEF u
<1>3. /\ events' = Append(events, Final(id, ps))
      /\ store'.state = store.state /\ store'.arts = merged(store.arts, Final(id, ps))
      /\ world.route = "task" => wire' = wire
      /\ world.route # "task" => wire' = Append(wire, Final(id, ps))
  BY ONLY TypeOK, Emit(Final(id, ps)), <1>2, EmitFacts
<1> QED
  BY <1>2, <1>3

LEMMA ClosesFacts ==
  ASSUME TypeOK, Closes
  PROVE  /\ world.agent = "llm" /\ pc = "stream" /\ Handled /\ UNCHANGED <<world, made, buffers, result, node>>
         /\ todo' = buf.calls
         /\ buf.calls = <<>> => pc' = "done"
         /\ buf.calls # <<>> => pc' \in {"tools", "refuse"}
         /\ made.id \in Nat /\ close \in Seq(Parts) /\ close # <<>> /\ Emit(Final(made.id, close))
<1>1. close \in Seq(Parts)
  <2>1. buf \in [thought : Seq(Nat), text : Seq(Nat), calls : Seq(Nat), error : BOOLEAN]
    BY DEF TypeOK
  <2> QED
    BY <2>1, CloseFacts
<1>2. made.id \in Nat
  BY DEF TypeOK
<1> QED
  BY <1>1, <1>2 DEF Closes, Final

Answered_(k) == <<Part("response", <<k>>)>>

LEMMA AnswersFacts ==
  ASSUME TypeOK, Answers
  PROVE  /\ world.agent = "llm" /\ pc \in {"tools", "refuse"} /\ Handled /\ todo # <<>>
         /\ UNCHANGED <<world, pc, buf, buffers, result, node>>
         /\ made'.id = made.id + 1 /\ made.id \in Nat /\ made.id + 1 \in Nat /\ todo' = Tail(todo)
         /\ Head(todo) \in Nat /\ Answered_(Head(todo)) \in Seq(Parts)
         /\ Emit(Final(made.id + 1, Answered_(Head(todo))))
<1>1. made.id \in Nat /\ todo \in Seq(Nat)
  BY DEF TypeOK
<1>2. todo # <<>>
  BY DEF Answers
<1>3. Head(todo) \in Nat
  BY <1>1, <1>2
<1>4. Answered_(Head(todo)) \in Seq(Parts)
  BY <1>3, ResponseFacts DEF Answered_
<1>5. Emit(Final(made.id + 1, Answered_(Head(todo))))
  BY Zenon DEF Answers, Final, Answered_
<1>6. /\ world.agent = "llm" /\ pc \in {"tools", "refuse"} /\ Handled
      /\ UNCHANGED <<world, pc, buf, buffers, result, node>>
      /\ made'.id = made.id + 1 /\ todo' = Tail(todo)
  BY DEF Answers
<1>7. made.id + 1 \in Nat
  BY <1>1
<1> QED
  BY <1>1, <1>2, <1>3, <1>4, <1>5, <1>6, <1>7

LEMMA PhasesStep ==
  ASSUME TypeOK, Phases, Noticed, Move
  PROVE  Phases'
<1> USE DEF TASK_RESPONSE_BOUNDARY_STATES, FAILURE_STATES, PAUSE_STATES, LLMStates, TaskStates, NON_FINAL_TASK_STATES,
            EndsEarly
<1> DEFINE cut == "cut" \in world.faults
<1>0. /\ IF world.agent = "llm" THEN pc \in LLMStates ELSE pc \in {"start"} \cup TaskStates
      /\ IF pc \in TaskStates THEN store.state = pc ELSE store.state \in {"submitted", "working"}
      /\ node = "delivered" => (pc \in TASK_RESPONSE_BOUNDARY_STATES /\ wire = <<>>) \/ EndsEarly
      /\ node = "failed" /\ ~cut => pc \in TASK_RESPONSE_BOUNDARY_STATES
  BY DEF Phases, Fault
<1>1. ASSUME UNCHANGED <<world, node>>, store'.state = store.state, world.agent = "llm", pc \in LLMStates,
             pc \notin TASK_RESPONSE_BOUNDARY_STATES,
             pc' \in LLMStates, pc' \notin TASK_RESPONSE_BOUNDARY_STATES
      PROVE  Phases'
  BY <1>0, <1>1 DEF Phases, Fault
<1>2. ASSUME NEW ps \in Seq(Parts), NEW a \in BOOLEAN, Streams(ps, a) PROVE Phases'
  <2>1. /\ pc = "stream" /\ world.agent = "llm" /\ UNCHANGED <<world, pc, node>> /\ store'.state = store.state
    BY ONLY TypeOK, <1>2, StreamsFacts
  <2> QED
    BY <1>1, <2>1
<1>3. ASSUME Closes PROVE Phases'
  <2>1. /\ pc = "stream" /\ world.agent = "llm" /\ UNCHANGED <<world, node>> /\ pc' \in {"done", "tools", "refuse"}
        /\ made.id \in Nat /\ close \in Seq(Parts) /\ Emit(Final(made.id, close))
    BY <1>3, ClosesFacts
  <2>2. store'.state = store.state
    BY ONLY TypeOK, <2>1, FinalFacts
  <2> QED
    BY <1>1, <2>1, <2>2
<1>4. ASSUME Answers PROVE Phases'
  <2> DEFINE ps == Answered_(Head(todo))
  <2>1. /\ pc \in {"tools", "refuse"} /\ world.agent = "llm" /\ UNCHANGED <<world, pc, node>>
        /\ made.id + 1 \in Nat /\ ps \in Seq(Parts) /\ Emit(Final(made.id + 1, ps))
    BY <1>4, AnswersFacts
  <2> HIDE DEF ps
  <2>2. store'.state = store.state
    BY ONLY TypeOK, <2>1, FinalFacts
  <2> QED
    BY <1>1, <2>1, <2>2
<1>5. ASSUME Stops \/ Asks \/ Requests PROVE Phases'
  <2>1. /\ world.agent = "llm" /\ UNCHANGED <<world, node, store>>
        /\ pc \in {"ask", "stream", "tools", "refuse"} /\ pc' \in {"raised", "done", "ask", "stream"}
    BY <1>5 DEF Stops, Asks, Requests
  <2> QED
    BY <1>1, <2>1
<1>6. ASSUME NEW s \in States, NEW ps \in Seq(Parts), Tells(s, ps) PROVE Phases'
  <2>1. store'.state = s
    <3>1. EmitStatus(s, ps)
      BY <1>6 DEF Tells
    <3> QED
      BY ONLY TypeOK, <1>6, <3>1, EmitStatusFacts
  <2>2. UNCHANGED <<world, node>>
    BY <1>6 DEF Tells
  <2>3. \/ s = "working" /\ pc = "start" /\ pc' = "ask" /\ world.agent = "llm"
        \/ s \in TASK_RESPONSE_BOUNDARY_STATES /\ pc' = s /\ pc \notin TASK_RESPONSE_BOUNDARY_STATES /\
           (world.agent = "llm" => s # "input_required")
    BY <1>0, <1>6 DEF Tells
  <2> QED
    BY <1>0, <2>1, <2>2, <2>3 DEF Phases, Fault
<1>7. ASSUME Chunked PROVE Phases'
  <2>1. PICK id \in 1..2, last \in BOOLEAN : OtherChunk(id, last)
    BY <1>7 DEF Chunked
  <2>2. /\ pc = "start" /\ UNCHANGED <<world, pc, node>>
        /\ Chunk_(id, last) \in Events /\ Emit(Chunk_(id, last))
    BY <2>1, OtherChunkFacts
  <2>3. store'.state = store.state
    BY ONLY TypeOK, <2>2, EmitFacts
  <2> QED
    BY <1>0, <2>2, <2>3 DEF Phases, Fault
<1>8. ASSUME Snapped PROVE Phases'
  <2>1. PICK s \in TaskStates, f \in Snapshots : OtherTask(s, f)
    BY <1>8 DEF Snapped
  <2>2. world.agent = "snapshot" /\ pc = "start" /\ pc' = s /\ store'.state = s /\ UNCHANGED <<world, node>>
    BY <2>1, OtherTaskFacts
  <2> QED
    BY <1>0, <2>2 DEF Phases, Fault
<1>14. ASSUME OtherMessage PROVE Phases'
  <2>1. /\ world.agent = "snapshot" /\ pc = "start" /\ pc' = "completed" /\ store'.state = "completed"
        /\ UNCHANGED <<world, node>>
    BY <1>14, OtherMessageFacts
  <2> QED
    BY <1>0, <2>1 DEF Phases, Fault
<1>9. ASSUME Receive PROVE Phases'
  <2>1. UNCHANGED <<world, pc, store, node>> /\ node = "running"
    BY <1>9 DEF Receive, agentVars
  <2> QED
    BY <1>0, <2>1 DEF Phases, Fault
<1>10. ASSUME Cut PROVE Phases'
  <2>1. UNCHANGED <<world, pc, store>> /\ node' = "failed" /\ cut
    BY <1>10 DEF Cut, agentVars, Fault
  <2> QED
    BY <1>0, <2>1 DEF Phases, Fault
<1>11. ASSUME RemoteEnds \/ LocalEnds PROVE Phases'
  <2>1. UNCHANGED <<world, pc, store, wire>>
    BY <1>11 DEF RemoteEnds, LocalEnds, agentVars
  <2>2. CASE EndSeen
    <3>1. wire = <<>> /\ pc \in TASK_RESPONSE_BOUNDARY_STATES
      BY <1>0, <2>2 DEF EndSeen
    <3> QED
      BY <1>0, <2>1, <3>1 DEF Phases, Fault
  <2>3. CASE ~EndSeen
    <3>1. /\ world.route # "local" /\ node = "running" /\ EndsEarly
          /\ node' \in {"delivered", "failed"} /\ (node' = "failed" => result.failure \/ result.pause)
      BY <1>11, <2>3 DEF RemoteEnds, LocalEnds, EndSeen
    <3>2. node' = "failed" => store.state \in FAILURE_STATES \cup PAUSE_STATES
      BY <3>1 DEF Noticed, Heard
    <3> QED
      BY <1>0, <2>1, <3>1, <3>2 DEF Phases, Fault
  <2> QED
    BY <2>2, <2>3
<1>12. ASSUME Process PROVE Phases'
  <2>1. UNCHANGED <<world, pc, store, node>> /\ wire # <<>>
    BY <1>12 DEF Process, agentVars
  <2> QED
    BY <1>0, <2>1 DEF Phases, Fault
<1>13. ASSUME UNCHANGED vars PROVE Phases'
  BY <1>0, <1>13 DEF vars, agentVars, Phases, Fault
<1> QED
  BY <1>2, <1>3, <1>4, <1>5, <1>6, <1>7, <1>8, <1>9, <1>10, <1>11, <1>12, <1>13, <1>14, Zenon DEF Move

(* What a status of the task does to the store and the wire.               *)
LEMMA TellsFacts ==
  ASSUME TypeOK, Phases, NEW s \in States, NEW ps \in Seq(Parts), Tells(s, ps)
  PROVE  /\ UNCHANGED <<world, turn, buf, todo, made, buffers, result, node, events>>
         /\ store'.state = s /\ store'.arts = store.arts
         /\ pc \notin TASK_RESPONSE_BOUNDARY_STATES /\ pc' \in LLMStates \cup PAUSE_STATES
         /\ \/ world.agent = "llm" /\ s = "working" /\ pc = "start" /\ pc' = "ask"
            \/ s \in TASK_RESPONSE_BOUNDARY_STATES /\ pc' = s
         /\ world.agent \in {"llm", "chunks"} /\ world.route \in Routes
         /\ world.agent = "chunks" => /\ world.route = "stream" /\ ps = <<>> /\ pc = "start"
                                      /\ \A i \in DOMAIN store.arts : store.arts[i].id \in Elems(todo)
         /\ world.agent = "llm" => /\ s \in {"working", "completed", "failed", "canceled"}
                                   /\ s = "completed" => pc = "done"
                                   /\ s = "failed" => pc = "raised"
                                   /\ s # "failed" => ps = <<>>
                                   /\ s = "canceled" => world.route # "local"
         /\ Task(s, AllParts(store.arts), ps, <<>>) \in Tasks /\ Status(s, ps) \in Events
         /\ world.route = "local" => wire' = wire
         /\ world.route = "task" /\ s \in TASK_RESPONSE_BOUNDARY_STATES =>
              wire' = Append(wire, Task(s, AllParts(store.arts), ps, <<>>))
         /\ world.route = "task" /\ s \notin TASK_RESPONSE_BOUNDARY_STATES => wire' = wire
         /\ world.route = "stream" => wire' = Append(wire, Status(s, ps))
<1> USE DEF TASK_RESPONSE_BOUNDARY_STATES, FAILURE_STATES, PAUSE_STATES, LLMStates
<1>1. EmitStatus(s, ps)
  BY DEF Tells
<1>2. /\ events' = events /\ store'.state = s /\ store'.arts = store.arts
      /\ Task(s, AllParts(store.arts), ps, <<>>) \in Tasks /\ Status(s, ps) \in Events
      /\ world.route = "local" => wire' = wire
      /\ world.route = "task" /\ s \in TASK_RESPONSE_BOUNDARY_STATES =>
           wire' = Append(wire, Task(s, AllParts(store.arts), ps, <<>>))
      /\ world.route = "task" /\ s \notin TASK_RESPONSE_BOUNDARY_STATES => wire' = wire
      /\ world.route = "stream" => wire' = Append(wire, Status(s, ps))
  BY ONLY TypeOK, s \in States, ps \in Seq(Parts), <1>1, EmitStatusFacts DEF TASK_RESPONSE_BOUNDARY_STATES, FAILURE_STATES, PAUSE_STATES
<1>3. /\ UNCHANGED <<world, turn, buf, todo, made, buffers, result, node>>
      /\ \/ /\ world.agent = "llm"
            /\ \/ s = "working" /\ pc = "start" /\ pc' = "ask" /\ ps = <<>>
               \/ s = "completed" /\ pc = "done" /\ pc' = s /\ ps = <<>>
               \/ s = "failed" /\ pc = "raised" /\ pc' = s
               \/ /\ s = "canceled" /\ world.route # "local" /\ pc' = s /\ ps = <<>>
                  /\ pc \notin {"start", "completed", "failed", "canceled"}
         \/ /\ world.agent = "chunks" /\ s \in TASK_RESPONSE_BOUNDARY_STATES /\ pc = "start" /\ pc' = s /\ ps = <<>>
            /\ \A i \in DOMAIN store.arts : store.arts[i].id \in Elems(todo)
  BY DEF Tells
<1>4. world.route \in Routes /\ (world.agent # "llm" => world.route = "stream")
  BY ConstantsAssumption DEF TypeOK
<1>5. world.agent = "llm" => pc \in LLMStates
  BY DEF Phases
<1> QED
  BY <1>2, <1>3, <1>4, <1>5

LEMMA SnappedFacts ==
  ASSUME TypeOK, Snapped
  PROVE  \E s \in TaskStates, a, m, h \in Seq(Parts) :
           /\ world.agent = "snapshot" /\ world.route = "stream" /\ pc = "start" /\ pc' = s /\ s \in States
           /\ s \in PAUSE_STATES /\ m = <<>> => Fault("mute")
           /\ store'.state = s
           /\ a = <<>> => store'.arts = <<>>
           /\ a # <<>> => store'.arts = <<[id |-> 1, parts |-> a]>>
           /\ Task(s, a, m, h) \in Tasks
           /\ wire' = Append(wire, Task(s, a, m, h))
           /\ UNCHANGED <<world, turn, buf, todo, made, events, buffers, result, node>>
<1>1. PICK s \in TaskStates, f \in Snapshots : OtherTask(s, f)
  BY DEF Snapped
<1>2. world.agent # "llm" => world.route = "stream"
  BY ConstantsAssumption DEF TypeOK
<1>3. /\ world.agent = "snapshot" /\ pc = "start" /\ pc' = s /\ s \in States
      /\ f[1] \in Seq(Parts) /\ f[2] \in Seq(Parts) /\ f[3] \in Seq(Parts)
      /\ s \in PAUSE_STATES /\ f[2] = <<>> => Fault("mute")
      /\ store'.state = s
      /\ f[1] = <<>> => store'.arts = <<>>
      /\ f[1] # <<>> => store'.arts = <<[id |-> 1, parts |-> f[1]]>>
      /\ Task(s, f[1], f[2], f[3]) \in Tasks
      /\ wire' = Append(wire, Task(s, f[1], f[2], f[3]))
      /\ UNCHANGED <<world, turn, buf, todo, made, events, buffers, result, node>>
  BY ONLY TypeOK, <1>1, OtherTaskFacts
<1> DEFINE a == f[1]
           m == f[2]
           h == f[3]
<1>4. /\ a \in Seq(Parts) /\ m \in Seq(Parts) /\ h \in Seq(Parts)
      /\ s \in PAUSE_STATES /\ m = <<>> => Fault("mute")
      /\ a = <<>> => store'.arts = <<>>
      /\ a # <<>> => store'.arts = <<[id |-> 1, parts |-> a]>>
      /\ Task(s, a, m, h) \in Tasks
      /\ wire' = Append(wire, Task(s, a, m, h))
  BY <1>3
<1> HIDE DEF a, m, h
<1> QED
  BY <1>1, <1>2, <1>3, <1>4, Zenon

(***************************************************************************)
(* What the node has been told.                                            *)
(***************************************************************************)
LEMMA HeardGrows ==
  ASSUME wire \in Seq(Messages), NEW e \in Messages, wire' = Append(wire, e), result' = result
  PROVE  Heard' <=> Heard \/ Notices(e)
<1>1. /\ DOMAIN wire' = 1..(Len(wire) + 1) /\ DOMAIN wire = 1..Len(wire) /\ Len(wire) \in Nat
      /\ \A i \in 1..Len(wire) : wire'[i] = wire[i]
      /\ wire'[Len(wire) + 1] = e
  BY Appended
<1>2. (\E w \in DOMAIN wire' : Notices(wire'[w])) <=> (\E w \in DOMAIN wire : Notices(wire[w])) \/ Notices(e)
  <2>1. ASSUME NEW w \in DOMAIN wire', Notices(wire'[w])
        PROVE  (\E v \in DOMAIN wire : Notices(wire[v])) \/ Notices(e)
    <3>1. (w \in DOMAIN wire /\ wire'[w] = wire[w]) \/ w = Len(wire) + 1
      BY <1>1
    <3> QED
      BY <1>1, <2>1, <3>1
  <2>2. ASSUME NEW w \in DOMAIN wire, Notices(wire[w]) PROVE \E v \in DOMAIN wire' : Notices(wire'[v])
    <3>1. w \in DOMAIN wire' /\ wire'[w] = wire[w]
      BY <1>1
    <3> QED
      BY <2>2, <3>1
  <2>3. Notices(e) => \E v \in DOMAIN wire' : Notices(wire'[v])
    <3>1. Len(wire) + 1 \in DOMAIN wire'
      BY <1>1
    <3> QED
      BY <1>1, <3>1
  <2> QED
    BY <2>1, <2>2, <2>3
<1>3. Heard' <=> result'.failure \/ result'.pause \/ \E w \in DOMAIN wire' : Notices(wire'[w])
  BY DEF Heard, Notices
<1> QED
  BY <1>2, <1>3 DEF Heard

LEMMA HeardMoves ==
  ASSUME TypeOK, Receive
  PROVE  Heard' <=> Heard
<1> DEFINE e == Head(wire)
<1>1. /\ wire # <<>> /\ e = wire[1] /\ wire' = Tail(wire)
      /\ (result'.failure \/ result'.pause) <=> (result.failure \/ result.pause \/ Notices(e))
  BY ReceiveFacts
<1>2. wire \in Seq(Messages)
  BY TypeIs DEF Typed
<1>3. (\E w \in DOMAIN wire : Notices(wire[w])) <=> Notices(e) \/ \E w \in DOMAIN wire' : Notices(wire'[w])
  <2>1. /\ DOMAIN wire = 1..Len(wire) /\ DOMAIN wire' = 1..(Len(wire) - 1) /\ Len(wire) \in Nat /\ Len(wire) > 0
        /\ \A w \in 1..(Len(wire) - 1) : wire'[w] = wire[w + 1]
    BY <1>1, <1>2
  <2> HIDE DEF e
  <2>2. ASSUME NEW w \in DOMAIN wire, Notices(wire[w])
        PROVE  Notices(e) \/ \E v \in DOMAIN wire' : Notices(wire'[v])
    <3>1. CASE w = 1
      BY <1>1, <2>2, <3>1
    <3>2. CASE w # 1
      <4>1. w - 1 \in DOMAIN wire' /\ wire'[w - 1] = wire[w]
        BY <2>1, <3>2
      <4> QED
        BY <2>2, <4>1
    <3> QED
      BY <3>1, <3>2
  <2>3. ASSUME NEW w \in DOMAIN wire', Notices(wire'[w]) PROVE \E v \in DOMAIN wire : Notices(wire[v])
    <3>1. w + 1 \in DOMAIN wire /\ wire'[w] = wire[w + 1]
      BY <2>1
    <3> QED
      BY <2>3, <3>1
  <2>4. Notices(e) => \E v \in DOMAIN wire : Notices(wire[v])
    BY <1>1, <2>1
  <2> QED
    BY <2>2, <2>3, <2>4
<1>4. Heard' <=> result'.failure \/ result'.pause \/ \E w \in DOMAIN wire' : Notices(wire'[w])
  BY DEF Heard, Notices
<1> HIDE DEF e
<1> QED
  BY <1>1, <1>3, <1>4 DEF Heard

LEMMA NoticedStep ==
  ASSUME TypeOK, Phases, Noticed, Move
  PROVE  Noticed'
<1> USE DEF TASK_RESPONSE_BOUNDARY_STATES, FAILURE_STATES, PAUSE_STATES
<1> DEFINE mute == "mute" \in world.faults
           bad(s) == s \in FAILURE_STATES \cup PAUSE_STATES
           N(h, s) == (h => bad(s)) /\ (bad(s) => h \/ (mute /\ s \in PAUSE_STATES))
<1>1. Noticed => (world.route # "local" /\ node = "running" => N(Heard, store.state))
  BY Zenon DEF Noticed, Fault
<1>2. world' = world => (Noticed' <=> (world.route # "local" /\ node' = "running" => N(Heard', store'.state)))
  BY Zenon DEF Noticed, Fault
<1>3. wire \in Seq(Messages)
  BY TypeIs DEF Typed
<1> HIDE DEF mute, bad, N
<1>4. ASSUME UNCHANGED <<world, node, result>>, store'.state = store.state, NEW e \in Messages, ~Notices(e),
             wire' = wire \/ wire' = Append(wire, e)
      PROVE  Noticed'
  <2>1. Heard' <=> Heard
    <3>1. CASE wire' = wire
      BY <1>4, <3>1 DEF Heard, Notices
    <3>2. CASE wire' = Append(wire, e)
      BY <1>3, <1>4, <3>2, HeardGrows
    <3> QED
      BY <1>4, <3>1, <3>2
  <2> QED
    BY <1>1, <1>2, <1>4, <2>1 DEF N
<1>5. \A e \in Events : e \in Messages /\ (e.type = "artifact" => ~Notices(e))
  BY DEF Notices, Messages
<1>6. ASSUME NEW ps \in Seq(Parts), NEW a \in BOOLEAN, Streams(ps, a) PROVE Noticed'
  <2> DEFINE e == Update(made.id, ps, a, FALSE)
  <2>1. /\ UNCHANGED <<world, node, result>> /\ store'.state = store.state /\ e \in Events
        /\ wire' = wire \/ wire' = Append(wire, e)
    BY ONLY TypeOK, <1>6, StreamsFacts
  <2>2. e.type = "artifact"
    BY DEF Update, Event
  <2> HIDE DEF e
  <2> QED
    BY <1>4, <1>5, <2>1, <2>2
<1>7. ASSUME NEW id \in Nat, NEW ps \in Seq(Parts), Emit(Final(id, ps)), UNCHANGED <<world, node, result>>
      PROVE  Noticed'
  <2> DEFINE e == Final(id, ps)
  <2>1. /\ store'.state = store.state /\ e \in Events /\ e.type = "artifact"
        /\ wire' = wire \/ wire' = Append(wire, e)
    BY ONLY TypeOK, <1>7, FinalFacts
  <2> HIDE DEF e
  <2> QED
    BY <1>4, <1>5, <1>7, <2>1
<1>8. ASSUME Closes PROVE Noticed'
  BY <1>7, <1>8, ClosesFacts
<1>9. ASSUME Answers PROVE Noticed'
  BY <1>7, <1>9, AnswersFacts
<1>10. ASSUME UNCHANGED <<world, node, result, store, wire>> PROVE Noticed'
  <2>1. Heard' <=> Heard
    BY <1>10 DEF Heard, Notices
  <2> QED
    BY <1>1, <1>2, <1>10, <2>1 DEF N
<1>11. ASSUME Stops \/ Asks \/ Requests \/ UNCHANGED vars PROVE Noticed'
  BY <1>10, <1>11 DEF Stops, Asks, Requests, vars, agentVars
<1>19. pc \notin TASK_RESPONSE_BOUNDARY_STATES => store.state \notin TASK_RESPONSE_BOUNDARY_STATES
  BY DEF Phases, TaskStates, NON_FINAL_TASK_STATES
<1>12. ASSUME NEW s \in States, NEW ps \in Seq(Parts), Tells(s, ps) PROVE Noticed'
  <2> DEFINE t == Task(s, AllParts(store.arts), ps, <<>>)
             u == Status(s, ps)
  <2>1. /\ UNCHANGED <<world, node, result>> /\ store'.state = s
        /\ pc \notin TASK_RESPONSE_BOUNDARY_STATES
        /\ s = "working" \/ s \in TASK_RESPONSE_BOUNDARY_STATES
        /\ world.agent \in {"llm", "chunks"} /\ world.route \in Routes
        /\ world.agent = "chunks" => world.route = "stream"
        /\ world.agent = "llm" => s \in {"working", "completed", "failed", "canceled"}
        /\ t \in Tasks /\ u \in Events
        /\ world.route = "task" /\ s \in TASK_RESPONSE_BOUNDARY_STATES => wire' = Append(wire, t)
        /\ world.route = "task" /\ s \notin TASK_RESPONSE_BOUNDARY_STATES => wire' = wire
        /\ world.route = "stream" => wire' = Append(wire, u)
    BY ONLY TypeOK, Phases, <1>12, TellsFacts DEF TASK_RESPONSE_BOUNDARY_STATES, FAILURE_STATES, PAUSE_STATES
  <2>2. Notices(u) <=> bad(s)
    BY DEF Notices, Status, Event, bad
  <2>3. world.agent = "llm" => (Notices(t) <=> bad(s))
    BY <2>1 DEF Notices, Task, bad
  <2>4. ~bad(store.state) /\ t \in Messages /\ u \in Messages
    BY <2>1, <1>19 DEF bad, Messages
  <2> HIDE DEF t, u
  <2>5. world.route # "local" /\ node = "running" => (Heard' <=> bad(s))
    <3> SUFFICES ASSUME world.route # "local", node = "running" PROVE Heard' <=> bad(s)
      OBVIOUS
    <3>1. ~Heard
      BY <1>1, <2>4 DEF N
    <3>2. CASE wire' = Append(wire, u)
      BY <1>3, <2>1, <2>2, <2>4, <3>1, <3>2, HeardGrows
    <3>3. CASE wire' = Append(wire, t) /\ world.agent = "llm"
      BY <1>3, <2>1, <2>3, <2>4, <3>1, <3>3, HeardGrows
    <3>4. CASE wire' = wire /\ s = "working"
      <4>1. Heard' <=> Heard
        BY <2>1, <3>4 DEF Heard, Notices
      <4> QED
        BY <3>1, <3>4, <4>1 DEF bad
    <3> QED
      BY <2>1, <3>2, <3>3, <3>4 DEF Routes
  <2> QED
    BY <1>2, <2>1, <2>5 DEF N
<1>13. ASSUME Chunked PROVE Noticed'
  <2>1. PICK id \in 1..2, last \in BOOLEAN : OtherChunk(id, last)
    BY <1>13 DEF Chunked
  <2> DEFINE e == Chunk_(id, last)
  <2>2. UNCHANGED <<world, node, result>> /\ e \in Events /\ Emit(e)
    BY <2>1, OtherChunkFacts
  <2>3. e.type = "artifact"
    BY DEF Chunk_, Update, Event
  <2> HIDE DEF e
  <2>4. store'.state = store.state /\ (wire' = wire \/ wire' = Append(wire, e))
    BY ONLY TypeOK, <2>2, EmitFacts
  <2> QED
    BY <1>4, <1>5, <2>2, <2>3, <2>4
<1>14. ASSUME Snapped PROVE Noticed'
  <2>1. PICK s \in TaskStates, a, m, h \in Seq(Parts) :
           /\ pc = "start" /\ (s \in PAUSE_STATES /\ m = <<>> => Fault("mute"))
           /\ store'.state = s /\ Task(s, a, m, h) \in Tasks /\ wire' = Append(wire, Task(s, a, m, h))
           /\ UNCHANGED <<world, result, node>>
    <3>1. TypeOK /\ Snapped
      BY <1>14
    <3> QED
      BY ONLY <3>1, SnappedFacts, ZenonT(60)
  <2> DEFINE t == Task(s, a, m, h)
  <2>2. /\ Notices(t) => bad(s)
        /\ bad(s) => Notices(t) \/ (mute /\ s \in PAUSE_STATES)
    BY <2>1 DEF Notices, Task, bad, mute, Fault
  <2>3. ~bad(store.state) /\ t \in Messages
    BY <2>1 DEF Phases, bad, Messages, TaskStates, NON_FINAL_TASK_STATES
  <2> HIDE DEF t
  <2>4. Heard' <=> Heard \/ Notices(t)
    BY <1>3, <2>1, <2>3, HeardGrows DEF t
  <2>5. world.route # "local" /\ node = "running" => ~Heard
    BY <1>1, <2>3 DEF N
  <2> QED
    BY <1>2, <2>1, <2>2, <2>4, <2>5 DEF N
<1>18. ASSUME OtherMessage PROVE Noticed'
  <2>1. PICK e \in Events :
           /\ pc = "start" /\ store'.state = "completed"
           /\ e.type = "message" /\ wire' = Append(wire, e) /\ UNCHANGED <<world, result, node>>
    BY <1>18, OtherMessageFacts
  <2>2. ~Notices(e) /\ e \in Messages
    BY <2>1 DEF Notices, Messages
  <2>3. ~bad(store.state) /\ ~bad(store'.state)
    BY <2>1 DEF Phases, bad, TaskStates, NON_FINAL_TASK_STATES
  <2>4. Heard' <=> Heard
    BY <1>3, <2>1, <2>2, HeardGrows
  <2> QED
    BY <1>1, <1>2, <2>1, <2>3, <2>4 DEF N
<1>15. ASSUME Receive PROVE Noticed'
  <2>1. UNCHANGED <<world, store, node>>
    BY <1>15 DEF Receive, agentVars
  <2>2. Heard' <=> Heard
    BY <1>15, HeardMoves
  <2> QED
    BY <1>1, <1>2, <2>1, <2>2 DEF N
<1>16. ASSUME Cut \/ RemoteEnds \/ LocalEnds PROVE Noticed'
  <2>1. world' = world /\ node' # "running"
    BY <1>16 DEF Cut, RemoteEnds, LocalEnds
  <2> QED
    BY <1>2, <2>1
<1>17. ASSUME Process PROVE Noticed'
  <2>1. world' = world /\ world.route = "local"
    BY <1>17 DEF Process
  <2> QED
    BY <1>2, <2>1
<1> QED
  BY <1>6, <1>8, <1>9, <1>11, <1>12, <1>13, <1>14, <1>15, <1>16, <1>17, <1>18, Zenon DEF Move

(***************************************************************************)
(* The events of the invocation and what is kept of them.                  *)
(***************************************************************************)
(* The agent goes on, or ends, without an event of the invocation.         *)
Quiet ==
  /\ UNCHANGED <<world, events>> /\ store'.arts = store.arts
  /\ \/ pc' = pc /\ UNCHANGED <<buf, made, todo>>
     \/ /\ pc \in {"ask", "stream", "tools", "refuse"} /\ pc' \in {"raised", "done"}
        /\ pc = "stream" /\ pc' = "done" => ~Filled(buf)
        /\ UNCHANGED <<buf, made>>
     \/ pc \in {"tools", "refuse"} /\ pc' = "ask" /\ todo = <<>> /\ UNCHANGED <<buf, made, todo>>
     \/ pc = "ask" /\ pc' = "stream" /\ made'.id = made.id + 1 /\ todo' = todo
     \/ pc = "start" /\ pc' = "ask" /\ UNCHANGED <<buf, made, todo>>
     \/ pc = "done" /\ pc' = "completed" /\ UNCHANGED <<buf, made, todo>>
     \/ pc = "raised" /\ pc' = "failed" /\ UNCHANGED <<buf, made, todo>>
     \/ pc' = "canceled" /\ UNCHANGED <<buf, made, todo>>

LEMMA AgentMoves ==
  ASSUME TypeOK, Phases, Move
  PROVE  /\ world' = world
         /\ world.agent = "llm" => \/ \E ps \in Seq(Parts), a \in BOOLEAN : Streams(ps, a)
                                   \/ Closes \/ Answers \/ Quiet
<1> USE DEF TASK_RESPONSE_BOUNDARY_STATES, FAILURE_STATES, PAUSE_STATES
<1> DEFINE streams == \E ps \in Seq(Parts), a \in BOOLEAN : Streams(ps, a)
<1>1. streams \/ Closes \/ Answers => world' = world
  BY DEF Streams, Closes, Answers
<1>2. Stops => Quiet
  BY Zenon DEF Stops, Quiet
<1>3. Asks => Quiet
  BY Zenon DEF Asks, Quiet
<1>4. Requests => Quiet
  BY Zenon DEF Requests, Quiet
<1>5. ASSUME NEW s \in States, NEW ps \in Seq(Parts), Tells(s, ps)
      PROVE  world' = world /\ (world.agent = "llm" => Quiet)
  <2>1. /\ UNCHANGED <<world, buf, todo, made, events>> /\ store'.arts = store.arts
    BY ONLY TypeOK, Phases, <1>5, TellsFacts
  <2>2. world.agent = "llm" => \/ pc = "start" /\ pc' = "ask"
                               \/ pc = "done" /\ pc' = "completed"
                               \/ pc = "raised" /\ pc' = "failed"
                               \/ pc' = "canceled"
    BY <1>5 DEF Tells
  <2> QED
    BY <2>1, <2>2 DEF Quiet
<1>6. ASSUME Chunked \/ Snapped \/ OtherMessage PROVE world' = world /\ world.agent # "llm"
  BY <1>6 DEF Chunked, Snapped, OtherChunk, OtherTask, OtherMessage
<1>7. ASSUME Receive \/ Cut \/ RemoteEnds \/ Process \/ LocalEnds \/ UNCHANGED vars PROVE world' = world /\ Quiet
  <2>1. UNCHANGED <<world, pc, buf, todo, made, events, store>>
    BY <1>7 DEF Receive, Cut, RemoteEnds, Process, LocalEnds, vars, agentVars
  <2> QED
    BY <2>1 DEF Quiet
<1>8. Quiet => world' = world
  BY DEF Quiet
<1> HIDE DEF streams
<1>9. streams \/ Closes \/ Answers \/ (Stops \/ Asks \/ Requests)
      \/ (\E s \in States, ps \in Seq(Parts) : Tells(s, ps))
      \/ (Chunked \/ Snapped \/ OtherMessage) \/ (Receive \/ Cut \/ RemoteEnds \/ Process \/ LocalEnds \/ UNCHANGED vars)
  BY Zenon DEF Move, streams
<1>10. world' = world /\ (world.agent = "llm" => streams \/ Closes \/ Answers \/ Quiet)
  BY <1>1, <1>2, <1>3, <1>4, <1>5, <1>6, <1>7, <1>8, <1>9, Zenon
<1> QED
  BY <1>10 DEF streams

LEMMA ArtifactFacts ==
  ASSUME NEW A \in Seq(Artifacts)
  PROVE  /\ DOMAIN A = 1..Len(A) /\ Len(A) \in Nat
         /\ \A i \in 1..Len(A) : A[i] \in Artifacts /\ A[i].id \in Nat /\ A[i].parts \in Seq(Parts)
<1>1. DOMAIN A = 1..Len(A) /\ Len(A) \in Nat /\ \A i \in 1..Len(A) : A[i] \in Artifacts
  OBVIOUS
<1>2. \A a \in Artifacts : a.id \in Nat /\ a.parts \in Seq(Parts)
  BY DEF Artifacts
<1> QED
  BY <1>1, <1>2

(* An update of the artifact that is being streamed.                       *)
LastIs(A, n, id) == Len(A) = n + 1 /\ A[n + 1].id = id /\ \A i \in 1..n : A[i].id # id
LastBecomes(A, B, n, e) ==
  /\ B \in Seq(Artifacts) /\ Len(B) = n + 1
  /\ \A i \in 1..n : B[i] = A[i]
  /\ B[n + 1].id = e.id
  /\ ~e.append => B[n + 1].parts = e.parts

LEMMA MergedLast ==
  ASSUME NEW A \in Seq(Artifacts), NEW e \in Events, NEW n \in Nat, LastIs(A, n, e.id)
  PROVE  LastBecomes(A, merged(A, e), n, e)
<1> USE DEF LastIs, LastBecomes
<1>1. DOMAIN A = 1..(n + 1) /\ n + 1 \in 1..(n + 1)
  OBVIOUS
<1>2. \E i \in DOMAIN A : A[i].id = e.id
  BY <1>1
<1> DEFINE B == merged(A, e)
<1>3. /\ B \in Seq(Artifacts) /\ Len(B) = Len(A)
      /\ \A i \in DOMAIN A :
           /\ A[i].id # e.id => B[i] = A[i]
           /\ A[i].id = e.id => /\ B[i].id = e.id
                                /\ B[i].parts = IF e.append THEN A[i].parts \o e.parts ELSE e.parts
  BY ONLY <1>2, A \in Seq(Artifacts), e \in Events, MergedFacts
<1> HIDE DEF B
<1>4. \A i \in 1..n : i \in DOMAIN A
  BY <1>1
<1> QED
  BY <1>1, <1>3, <1>4 DEF B

(* An update that begins an artifact.                                      *)
LEMMA MergedNew ==
  ASSUME NEW A \in Seq(Artifacts), NEW e \in Events, \A i \in 1..Len(A) : A[i].id # e.id, ~e.append
  PROVE  /\ merged(A, e) \in Seq(Artifacts) /\ Len(merged(A, e)) = Len(A) + 1
         /\ \A i \in 1..Len(A) : merged(A, e)[i] = A[i]
         /\ merged(A, e)[Len(A) + 1].id = e.id
         /\ merged(A, e)[Len(A) + 1].parts = e.parts
<1> DEFINE a == [id |-> e.id, parts |-> e.parts]
<1>1. a \in Artifacts /\ a.id = e.id /\ a.parts = e.parts
  BY DEF Events, Artifacts
<1>2. \A i \in DOMAIN A : A[i].id # e.id
  BY ArtifactFacts
<1>3. merged(A, e) \in Seq(Artifacts) /\ merged(A, e) = IF e.append THEN A ELSE Append(A, a)
  BY ONLY <1>2, A \in Seq(Artifacts), e \in Events, MergedFacts
<1> HIDE DEF a
<1>4. merged(A, e) = Append(A, a)
  BY <1>3
<1> HIDE DEF merged
<1> QED
  BY <1>1, <1>3, <1>4, ArtifactFacts

(* The store after an event that closes an artifact.                       *)
LEMMA HeldFinal ==
  ASSUME NEW A \in Seq(Artifacts), NEW E \in Seq(Events), NEW m \in Nat, NEW at, NEW b,
         Held(A, E, m, at, b), NEW k \in Nat, NEW e \in Events, NEW ps, e = Final(k, ps), e.id = k, e.parts = ps,
         ~e.append,
         \/ k = m /\ at = "stream"
         \/ k = m + 1 /\ at \in {"tools", "refuse"},
         NEW at2, at2 # "stream", NEW c
  PROVE  Held(merged(A, e), Append(E, e), k, at2, c)
<1> DEFINE n == Len(E)
           B == merged(A, e)
           F == Append(E, e)
<1>1. /\ n \in Nat /\ F \in Seq(Events) /\ Len(F) = n + 1 /\ F[n + 1] = e
      /\ \A i \in 1..n : F[i] = E[i]
  BY Appended
<1>2. /\ \A i, j \in 1..Len(A) : A[i].id = A[j].id => i = j
      /\ \A i \in 1..Len(A) : A[i].id <= m
      /\ Len(A) = n \/ Len(A) = n + 1
      /\ \A i \in 1..n : E[i] = Final(A[i].id, A[i].parts) /\ (at = "stream" => A[i].id < m)
      /\ Len(A) = n + 1 => A[n + 1].id = m /\ at = "stream"
  BY DEF Held
<1>3. \A i \in 1..Len(A) : A[i].id \in Nat
  BY ArtifactFacts
<1>4. \A i \in 1..n : i \in 1..Len(A) /\ A[i].id < k
  BY <1>1, <1>2, <1>3
<1>5. /\ Len(B) = n + 1 /\ B[n + 1].id = k /\ B[n + 1].parts = ps
      /\ \A i \in 1..n : B[i] = A[i]
  <2>1. CASE Len(A) = n + 1
    <3>1. A[n + 1].id = e.id /\ \A i \in 1..n : A[i].id # e.id
      BY <1>2, <1>3, <1>4, <2>1
    <3> QED
      <4>1. LastIs(A, n, e.id) /\ n \in Nat
        BY ONLY <1>1, <2>1, <3>1 DEF LastIs
      <4> HIDE DEF n, B
      <4>2. LastBecomes(A, B, n, e)
        BY ONLY <4>1, A \in Seq(Artifacts), e \in Events, MergedLast DEF B
      <4> QED
        BY ONLY <4>2, e.id = k, e.parts = ps, ~e.append DEF LastBecomes
  <2>2. CASE Len(A) = n
    <3>1. \A i \in 1..Len(A) : A[i].id # e.id
      BY <1>3, <1>4, <2>2
    <3> QED
      BY ONLY <1>1, <2>2, <3>1, A \in Seq(Artifacts), e \in Events, e.id = k, e.parts = ps, ~e.append, MergedNew
  <2> QED
    BY <1>2, <2>1, <2>2
<1> HIDE DEF B, F, n
<1>6. \A i, j \in 1..Len(B) : B[i].id = B[j].id => i = j
  <2>1. \A i, j \in 1..n : A[i].id = A[j].id => i = j
    BY ONLY <1>2, <1>4
  <2>2. \A i \in 1..n : B[i].id = A[i].id /\ A[i].id \in Nat /\ A[i].id < k
    BY ONLY <1>3, <1>4, <1>5
  <2>3. \A i \in 1..Len(B) : i \in 1..n \/ i = n + 1
    BY ONLY <1>1, <1>5
  <2>4. B[n + 1].id = k /\ k \in Nat
    BY ONLY <1>5, k \in Nat
  <2>5. \A i \in 1..n : B[i].id # B[n + 1].id
    BY ONLY <2>2, <2>4
  <2> QED
    BY ONLY <2>1, <2>2, <2>3, <2>5, Zenon
<1>7. \A i \in 1..Len(B) : B[i].id <= k
  <2>1. \A i \in 1..n : B[i].id <= k
    BY <1>3, <1>4, <1>5
  <2>2. B[n + 1].id <= k
    BY <1>5
  <2> QED
    BY <1>1, <1>5, <2>1, <2>2
<1>8. \A i \in 1..Len(F) : F[i] = Final(B[i].id, B[i].parts)
  <2>1. \A i \in 1..n : F[i] = Final(B[i].id, B[i].parts)
    BY <1>1, <1>2, <1>5
  <2>2. F[n + 1] = Final(B[n + 1].id, B[n + 1].parts)
    BY <1>1, <1>5
  <2> QED
    BY <1>1, <2>1, <2>2
<1>9. Len(B) = Len(F) /\ Len(B) # Len(F) + 1
  BY <1>1, <1>5
<1> QED
  BY <1>6, <1>7, <1>8, <1>9 DEF Held, B, F

(* The store after an update of the artifact that is streamed.             *)
LEMMA HeldPartial ==
  ASSUME NEW A \in Seq(Artifacts), NEW E \in Seq(Events), NEW m \in Nat, NEW b,
         Held(A, E, m, "stream", b), NEW e \in Events, e.id = m, NEW c, Filled(c)
  PROVE  Held(merged(A, e), E, m, "stream", c)
<1> DEFINE n == Len(E)
           B == merged(A, e)
<1>1. n \in Nat /\ Len(A) \in Nat
  OBVIOUS
<1>2. /\ \A i, j \in 1..Len(A) : A[i].id = A[j].id => i = j
      /\ \A i \in 1..Len(A) : A[i].id <= m
      /\ Len(A) = n \/ Len(A) = n + 1
      /\ \A i \in 1..n : E[i] = Final(A[i].id, A[i].parts) /\ A[i].id < m
      /\ Len(A) = n + 1 => A[n + 1].id = m
  BY DEF Held
<1>3. \A i \in 1..Len(A) : A[i].id \in Nat
  BY ArtifactFacts
<1>4. \/ B = A
      \/ /\ Len(B) = n + 1 /\ B[n + 1].id = m
         /\ \A i \in 1..n : B[i] = A[i]
  <2>1. CASE Len(A) = n + 1
    <3>1. A[n + 1].id = e.id /\ \A i \in 1..n : A[i].id # e.id
      BY <1>1, <1>2, <1>3, <2>1
    <3> QED
      <4>1. LastIs(A, n, e.id)
        BY ONLY <1>1, <2>1, <3>1 DEF LastIs
      <4> HIDE DEF n, B
      <4>2. LastBecomes(A, B, n, e)
        BY ONLY <1>1, <4>1, A \in Seq(Artifacts), e \in Events, MergedLast DEF B
      <4> QED
        BY ONLY <4>2, e.id = m DEF LastBecomes
  <2>2. CASE Len(A) = n
    <3>1. \A i \in 1..Len(A) : A[i].id # e.id
      BY <1>1, <1>2, <1>3, <2>2
    <3>2. CASE ~e.append
      BY ONLY <1>1, <2>2, <3>1, <3>2, A \in Seq(Artifacts), e \in Events, e.id = m, MergedNew
    <3>3. CASE e.append
      <4>1. \A i \in DOMAIN A : A[i].id # e.id
        BY <3>1, ArtifactFacts
      <4>2. B = IF e.append THEN A ELSE Append(A, [id |-> e.id, parts |-> e.parts])
        BY ONLY <4>1, A \in Seq(Artifacts), e \in Events, MergedFacts
      <4> QED
        BY ONLY <3>3, <4>2
    <3> QED
      BY <3>2, <3>3
  <2> QED
    BY <1>2, <2>1, <2>2
<1> HIDE DEF B, n
<1>5. CASE B = A
  <2>1. Held(A, E, m, "stream", c)
    BY DEF Held
  <2> QED
    BY <1>5, <2>1 DEF B
<1>6. CASE B # A
  <2>1. /\ Len(B) = n + 1 /\ B[n + 1].id = m
        /\ \A i \in 1..n : B[i] = A[i] /\ i \in 1..Len(A)
    BY <1>1, <1>2, <1>4, <1>6
  <2>2. \A i, j \in 1..Len(B) : B[i].id = B[j].id => i = j
    BY <1>1, <1>2, <1>3, <2>1
  <2>3. \A i \in 1..Len(B) : B[i].id <= m
    BY <1>1, <1>2, <2>1
  <2>4. \A i \in 1..n : E[i] = Final(B[i].id, B[i].parts) /\ B[i].id < m
    BY <1>2, <2>1
  <2> QED
    BY <2>1, <2>2, <2>3, <2>4 DEF Held, B, n
<1> QED
  BY <1>5, <1>6

LEMMA KeptStep ==
  ASSUME TypeOK, Phases, Kept, Move
  PROVE  Kept'
<1>1. world' = world /\ (world.agent = "llm" => \/ \E ps \in Seq(Parts), a \in BOOLEAN : Streams(ps, a)
                                                \/ Closes \/ Answers \/ Quiet)
  BY AgentMoves
<1>2. world.agent = "llm" => Held(store.arts, events, made.id, pc, buf)
  BY DEF Kept
<1>3. world' = world => (Kept' <=> (world.agent = "llm" => Held(store'.arts, events', made'.id, pc', buf')))
  BY Zenon DEF Kept
<1> SUFFICES ASSUME world.agent = "llm" PROVE Held(store'.arts, events', made'.id, pc', buf')
  BY <1>1, <1>3
<1>4. store.arts \in Seq(Artifacts) /\ events \in Seq(Events) /\ made.id \in Nat
  BY DEF TypeOK
<1>5. ASSUME NEW ps \in Seq(Parts), NEW a \in BOOLEAN, Streams(ps, a)
      PROVE  Held(store'.arts, events', made'.id, pc', buf')
  <2> DEFINE e == Update(made.id, ps, a, FALSE)
  <2>1. /\ pc = "stream" /\ pc' = "stream" /\ events' = events /\ made'.id = made.id /\ Filled(buf')
        /\ e \in Events /\ store'.arts = merged(store.arts, e)
    BY ONLY TypeOK, <1>5, StreamsFacts
  <2>2. e.id = made.id
    BY DEF Update, Event
  <2> HIDE DEF e
  <2>3. Held(merged(store.arts, e), events, made.id, "stream", buf')
    BY ONLY <1>2, <1>4, <2>1, <2>2, world.agent = "llm", HeldPartial
  <2> QED
    BY ONLY <2>1, <2>3
<1>6. ASSUME Closes PROVE Held(store'.arts, events', made'.id, pc', buf')
  <2> DEFINE e == Final(made.id, close)
             ps == close
  <2>1. /\ pc = "stream" /\ pc' \in {"done", "tools", "refuse"} /\ made' = made
        /\ ps \in Seq(Parts) /\ Emit(Final(made.id, ps))
    BY <1>6, ClosesFacts
  <2> HIDE DEF ps
  <2>2. /\ Final(made.id, ps) \in Events /\ Final(made.id, ps).id = made.id /\ Final(made.id, ps).parts = ps
        /\ ~Final(made.id, ps).append /\ events' = Append(events, Final(made.id, ps))
        /\ store'.arts = merged(store.arts, Final(made.id, ps))
    BY ONLY TypeOK, <1>4, <2>1, FinalFacts
  <2>3. Held(merged(store.arts, Final(made.id, ps)), Append(events, Final(made.id, ps)), made.id, pc', buf')
    <3>1. pc' # "stream" /\ Held(store.arts, events, made.id, "stream", buf)
      BY <1>2, <2>1
    <3> QED
      BY ONLY <1>4, <2>1, <2>2, <3>1, HeldFinal
  <2> QED
    BY ONLY <2>1, <2>2, <2>3
<1>7. ASSUME Answers PROVE Held(store'.arts, events', made'.id, pc', buf')
  <2> DEFINE ps == Answered_(Head(todo))
             k == made.id + 1
  <2>1. /\ pc \in {"tools", "refuse"} /\ pc' = pc /\ made'.id = k /\ k \in Nat
        /\ ps \in Seq(Parts) /\ Emit(Final(k, ps)) /\ k = made.id + 1
    BY <1>7, AnswersFacts
  <2> HIDE DEF ps, k
  <2>2. /\ Final(k, ps) \in Events /\ Final(k, ps).id = k /\ Final(k, ps).parts = ps
        /\ ~Final(k, ps).append /\ events' = Append(events, Final(k, ps))
        /\ store'.arts = merged(store.arts, Final(k, ps))
    BY ONLY TypeOK, <2>1, FinalFacts
  <2>3. Held(merged(store.arts, Final(k, ps)), Append(events, Final(k, ps)), k, pc', buf')
    <3>1. pc' # "stream" /\ Held(store.arts, events, made.id, pc, buf)
      BY <1>2, <2>1
    <3> QED
      BY ONLY <1>4, <2>1, <2>2, <3>1, HeldFinal
  <2> QED
    BY ONLY <2>1, <2>2, <2>3
<1>8. ASSUME Quiet PROVE Held(store'.arts, events', made'.id, pc', buf')
  <2> DEFINE A == store.arts
             n == Len(events)
  <2>1. /\ \A i, j \in 1..Len(A) : A[i].id = A[j].id => i = j
        /\ \A i \in 1..Len(A) : A[i].id <= made.id
        /\ Len(A) = n \/ Len(A) = n + 1
        /\ \A i \in 1..n : events[i] = Final(A[i].id, A[i].parts) /\ (pc = "stream" => A[i].id < made.id)
        /\ Len(A) = n + 1 => /\ A[Len(A)].id = made.id /\ pc \in {"stream", "raised", "failed", "canceled"}
                             /\ pc = "stream" => Filled(buf)
    BY <1>2 DEF Held
  <2>2. store'.arts = A /\ events' = events
    BY <1>8 DEF Quiet
  <2>3. n \in Nat /\ Len(A) \in Nat /\ \A i \in 1..Len(A) : A[i].id \in Nat
    BY <1>4, ArtifactFacts
  <2> HIDE DEF A, n
  <2>4. CASE pc = "ask" /\ pc' = "stream" /\ made'.id = made.id + 1
    <3>1. Len(A) = n /\ \A i \in 1..Len(A) : A[i].id < made'.id /\ A[i].id <= made'.id
      BY <1>4, <2>1, <2>3, <2>4
    <3> QED
      BY <2>1, <2>2, <2>3, <3>1 DEF Held, n
  <2>5. CASE /\ made' = made /\ (pc' = "stream" => pc = "stream" /\ buf' = buf)
             /\ Len(A) = n + 1 => pc' \in {"stream", "raised", "failed", "canceled"}
    <3>1. made'.id = made.id /\ (pc' = "stream" /\ Filled(buf) => Filled(buf'))
      BY <2>5
    <3>2. \A i \in 1..n : events[i] = Final(A[i].id, A[i].parts) /\ (pc' = "stream" => A[i].id < made.id)
      BY <2>1, <2>5
    <3>3. Len(A) = n + 1 => /\ A[Len(A)].id = made.id /\ pc' \in {"stream", "raised", "failed", "canceled"}
                            /\ pc' = "stream" => Filled(buf')
      BY <2>1, <2>5, <3>1
    <3>4. Held(A, events, made.id, pc', buf')
      BY <2>1, <3>2, <3>3 DEF Held, n
    <3> QED
      BY <2>2, <3>1, <3>4
  <2>6. \/ pc = "ask" /\ pc' = "stream" /\ made'.id = made.id + 1
        \/ /\ made' = made /\ (pc' = "stream" => pc = "stream" /\ buf' = buf)
           /\ Len(A) = n + 1 => pc' \in {"stream", "raised", "failed", "canceled"}
    BY <1>8, <2>1 DEF Quiet
  <2> QED
    BY <2>4, <2>5, <2>6
<1> QED
  BY <1>1, <1>5, <1>6, <1>7, <1>8

LEMMA CallFacts ==
  ASSUME NEW e \in Events
  PROVE  CallsOf(e) \in Seq(Nat) /\ AnswersOf(e) \in Seq(Nat) /\ Text(e.parts) \in Seq(Nat)
<1>1. e.parts \in Seq(Parts)
  BY DEF Events
<1> QED
  BY ONLY <1>1, OfType DEF CallsOf, AnswersOf, Text

(* The calls of a response are left to be answered.                        *)
LEMMA MatchedCalls ==
  ASSUME NEW E \in Seq(Events), NEW e \in Events, NEW s \in Seq(Nat),
         Matched(E, <<>>), CallsOf(e) = s, AnswersOf(e) = <<>>
  PROVE  Matched(Append(E, e), s)
<1> DEFINE n == Len(E)
           F == Append(E, e)
           c(i) == CallsOf(F[i])
           a(i) == AnswersOf(F[i])
<1>1. /\ n \in Nat /\ Len(F) = n + 1 /\ F[n + 1] = e
      /\ \A i \in 1..n : F[i] = E[i]
  BY Appended
<1>2. /\ \A i \in 1..n : \A k \in 1..Len(c(i)) :
           i + k <= n /\ a(i + k) = <<c(i)[k]>>
      /\ \A j \in 1..n : a(j) # <<>> => \E i \in 1..j - 1 : j - i \in 1..Len(c(i))
  <2>1. ASSUME NEW i \in 1..n, NEW k \in 1..Len(c(i)) PROVE i + k <= n /\ a(i + k) = <<c(i)[k]>>
    <3>1. F[i] = E[i] /\ (i + k <= n => F[i + k] = E[i + k])
      BY <1>1
    <3>2. k \in 1..Len(CallsOf(E[i])) /\ 1..Len(<<>>) = {}
      BY <3>1
    <3>3. i + k <= n /\ AnswersOf(E[i + k]) = <<CallsOf(E[i])[k]>>
      BY <3>2 DEF Matched
    <3> QED
      BY <3>1, <3>3
  <2>2. ASSUME NEW j \in 1..n, a(j) # <<>> PROVE \E i \in 1..j - 1 : j - i \in 1..Len(c(i))
    <3>1. F[j] = E[j] /\ \A i \in 1..j - 1 : F[i] = E[i]
      BY <1>1
    <3>2. PICK i \in 1..j - 1 : j - i \in 1..Len(CallsOf(E[i]))
      BY <2>2, <3>1 DEF Matched
    <3> QED
      BY <3>1, <3>2
  <2> QED
    BY <2>1, <2>2
<1>3. c(n + 1) = s /\ a(n + 1) = <<>> /\ Len(s) \in Nat
  BY <1>1
<1> HIDE DEF n, F, c, a
<1>4. ASSUME NEW i \in 1..Len(F), NEW k \in 1..Len(c(i))
      PROVE  \/ i + k <= Len(F) /\ a(i + k) = <<c(i)[k]>>
             \/ /\ i + k > Len(F) /\ i + k - Len(F) \in 1..Len(s)
                /\ s[i + k - Len(F)] = c(i)[k]
  <2>1. CASE i \in 1..n
    <3>1. i + k <= n /\ a(i + k) = <<c(i)[k]>>
      BY <1>2, <2>1
    <3> QED
      BY <1>1, <3>1
  <2>2. CASE i = n + 1
    <3>1. k \in 1..Len(s) /\ c(i)[k] = s[k]
      BY <1>3, <2>2
    <3>2. i + k > Len(F) /\ i + k - Len(F) = k
      BY <1>1, <1>3, <2>2, <3>1
    <3> QED
      BY <3>1, <3>2
  <2> QED
    BY <1>1, <2>1, <2>2
<1>5. \A j \in 1..Len(F) : a(j) # <<>> => \E i \in 1..j - 1 : j - i \in 1..Len(c(i))
  BY <1>1, <1>2, <1>3
<1>6. s # <<>> => \E i \in 1..Len(F) : Len(c(i)) = Len(F) - i + Len(s)
  <2>1. n + 1 \in 1..Len(F) /\ Len(c(n + 1)) = Len(F) - (n + 1) + Len(s)
    BY <1>1, <1>3
  <2> QED
    BY <2>1
<1>7. Matched(F, s)
  BY <1>4, <1>5, <1>6 DEF Matched, c, a
<1> QED
  BY <1>7 DEF F

(* The first call that is left is answered.                                *)
LEMMA MatchedAnswer ==
  ASSUME NEW E \in Seq(Events), NEW e \in Events, NEW s \in Seq(Nat), s # <<>>,
         Matched(E, s), CallsOf(e) = <<>>, AnswersOf(e) = <<Head(s)>>
  PROVE  Matched(Append(E, e), Tail(s))
<1> DEFINE n == Len(E)
           F == Append(E, e)
           t == Tail(s)
           c(i) == CallsOf(F[i])
           a(i) == AnswersOf(F[i])
<1>1. /\ n \in Nat /\ Len(F) = n + 1 /\ F[n + 1] = e
      /\ \A i \in 1..n : F[i] = E[i]
  BY Appended
<1>2. Len(s) \in Nat /\ Len(s) > 0 /\ Len(t) = Len(s) - 1 /\ Head(s) = s[1] /\ \A k \in 1..Len(t) : t[k] = s[k + 1]
  OBVIOUS
<1>3. /\ \A i \in 1..n : \A k \in 1..Len(c(i)) :
           \/ i + k <= n /\ a(i + k) = <<c(i)[k]>>
           \/ i + k > n /\ i + k - n \in 1..Len(s) /\ s[i + k - n] = c(i)[k]
      /\ \A j \in 1..n : a(j) # <<>> => \E i \in 1..j - 1 : j - i \in 1..Len(c(i))
      /\ \E i \in 1..n : Len(c(i)) = n - i + Len(s)
  <2>1. ASSUME NEW i \in 1..n, NEW k \in 1..Len(c(i))
        PROVE  \/ i + k <= n /\ a(i + k) = <<c(i)[k]>>
               \/ i + k > n /\ i + k - n \in 1..Len(s) /\ s[i + k - n] = c(i)[k]
    <3>1. F[i] = E[i] /\ (i + k <= n => F[i + k] = E[i + k])
      BY <1>1
    <3>2. k \in 1..Len(CallsOf(E[i]))
      BY <3>1
    <3>3. \/ i + k <= n /\ AnswersOf(E[i + k]) = <<CallsOf(E[i])[k]>>
          \/ i + k > n /\ i + k - n \in 1..Len(s) /\ s[i + k - n] = CallsOf(E[i])[k]
      BY <3>2 DEF Matched
    <3> QED
      BY <3>1, <3>3
  <2>2. ASSUME NEW j \in 1..n, a(j) # <<>> PROVE \E i \in 1..j - 1 : j - i \in 1..Len(c(i))
    <3>1. F[j] = E[j] /\ \A i \in 1..j - 1 : F[i] = E[i]
      BY <1>1
    <3>2. PICK i \in 1..j - 1 : j - i \in 1..Len(CallsOf(E[i]))
      BY <2>2, <3>1 DEF Matched
    <3> QED
      BY <3>1, <3>2
  <2>3. PICK i \in 1..n : Len(CallsOf(E[i])) = n - i + Len(s)
    BY DEF Matched
  <2>4. Len(c(i)) = n - i + Len(s)
    BY <1>1, <2>3
  <2> QED
    BY <2>1, <2>2, <2>4
<1>4. c(n + 1) = <<>> /\ a(n + 1) = <<s[1]>>
  BY <1>1, <1>2
<1> HIDE DEF n, F, c, a, t
<1>5. ASSUME NEW i \in 1..Len(F), NEW k \in 1..Len(c(i))
      PROVE  \/ i + k <= Len(F) /\ a(i + k) = <<c(i)[k]>>
             \/ /\ i + k > Len(F) /\ i + k - Len(F) \in 1..Len(t)
                /\ t[i + k - Len(F)] = c(i)[k]
  <2>1. i \in 1..n
    <3>1. i = n + 1 => 1..Len(c(i)) = {}
      BY <1>4
    <3> QED
      BY <1>1, <3>1
  <2>2. CASE i + k <= n /\ a(i + k) = <<c(i)[k]>>
    BY <1>1, <2>2
  <2>3. CASE i + k > n /\ i + k - n \in 1..Len(s) /\ s[i + k - n] = c(i)[k]
    <3>1. CASE i + k = n + 1
      <4>1. i + k - n = 1
        BY <1>1, <3>1
      <4> QED
        BY <1>1, <1>4, <2>3, <3>1, <4>1
    <3>2. CASE i + k # n + 1
      <4> DEFINE d == i + k - Len(F)
      <4>1. i + k > Len(F) /\ d \in 1..Len(t) /\ d + 1 = i + k - n
        BY <1>1, <1>2, <2>3, <3>2
      <4> HIDE DEF d
      <4>2. t[d] = c(i)[k]
        BY <1>2, <2>3, <4>1
      <4> QED
        BY <4>1, <4>2 DEF d
    <3> QED
      BY <3>1, <3>2
  <2> QED
    BY <1>3, <2>1, <2>2, <2>3
<1>6. PICK p \in 1..n : Len(c(p)) = n - p + Len(s)
  BY <1>3
<1>7. ASSUME NEW j \in 1..Len(F), a(j) # <<>> PROVE \E i \in 1..j - 1 : j - i \in 1..Len(c(i))
  <2>1. CASE j \in 1..n
    BY <1>3, <1>7, <2>1
  <2>2. CASE j = n + 1
    <3>1. p \in 1..j - 1 /\ j - p \in 1..Len(c(p))
      BY <1>1, <1>2, <1>6, <2>2
    <3> QED
      BY <3>1
  <2> QED
    BY <1>1, <2>1, <2>2
<1>8. \E i \in 1..Len(F) : Len(c(i)) = Len(F) - i + Len(t)
  <2>1. p \in 1..Len(F) /\ Len(c(p)) = Len(F) - p + Len(t)
    BY <1>1, <1>2, <1>6
  <2> QED
    BY <2>1
<1>9. Matched(F, t)
  BY <1>5, <1>7, <1>8 DEF Matched, c, a
<1> QED
  BY <1>9 DEF F, t

LEMMA PairedStep ==
  ASSUME TypeOK, Phases, Paired, Move
  PROVE  Paired'
<1> DEFINE P(p, es, t) == p \in Going => Matched(es, t) /\ (p \notin {"tools", "refuse"} => t = <<>>)
<1>1. world' = world /\ (world.agent = "llm" => \/ \E ps \in Seq(Parts), a \in BOOLEAN : Streams(ps, a)
                                                \/ Closes \/ Answers \/ Quiet)
  BY AgentMoves
<1>2. world.agent = "llm" => P(pc, events, todo)
  BY DEF Paired
<1>3. world' = world => (Paired' <=> (world.agent = "llm" => P(pc', events', todo')))
  BY Zenon DEF Paired
<1> SUFFICES ASSUME world.agent = "llm" PROVE P(pc', events', todo')
  BY <1>1, <1>3
<1>4. events \in Seq(Events) /\ todo \in Seq(Nat) /\ made.id \in Nat /\ buf.calls \in Seq(Nat)
  BY DEF TypeOK
<1>5. ASSUME NEW ps \in Seq(Parts), NEW a \in BOOLEAN, Streams(ps, a) PROVE P(pc', events', todo')
  <2>1. pc' = pc /\ events' = events /\ todo' = todo
    BY ONLY TypeOK, <1>5, StreamsFacts
  <2> QED
    BY <1>2, <2>1
<1>6. ASSUME Closes PROVE P(pc', events', todo')
  <2> DEFINE ps == close
             s == buf.calls
  <2>1. /\ pc = "stream" /\ pc' \in {"done", "tools", "refuse"} /\ todo' = s
        /\ ps \in Seq(Parts) /\ Emit(Final(made.id, ps))
    BY <1>6, ClosesFacts
  <2>2. Of(ps, "call") = s /\ Of(ps, "response") = <<>>
    BY CloseFacts DEF TypeOK
  <2> HIDE DEF ps
  <2> DEFINE e == Final(made.id, ps)
  <2>3. e \in Events /\ e.parts = ps /\ events' = Append(events, e)
    BY ONLY TypeOK, <1>4, <2>1, FinalFacts
  <2> HIDE DEF e
  <2>4. Matched(events, <<>>)
    BY <1>2, <2>1 DEF Going
  <2>5. CallsOf(e) = s /\ AnswersOf(e) = <<>> /\ s \in Seq(Nat)
    BY <1>4, <2>2, <2>3 DEF CallsOf, AnswersOf
  <2> HIDE DEF s
  <2>6. Matched(Append(events, e), s)
    BY ONLY <1>4, <2>3, <2>4, <2>5, MatchedCalls
  <2> QED
    BY <2>1, <2>3, <2>6 DEF Going
<1>7. ASSUME Answers PROVE P(pc', events', todo')
  <2> DEFINE ps == Answered_(Head(todo))
             k == made.id + 1
  <2>1. /\ pc \in {"tools", "refuse"} /\ pc' = pc /\ todo' = Tail(todo) /\ todo # <<>> /\ Head(todo) \in Nat
        /\ ps \in Seq(Parts) /\ k \in Nat /\ Emit(Final(k, ps))
    BY <1>7, AnswersFacts
  <2>2. Of(ps, "call") = <<>> /\ Of(ps, "response") = <<Head(todo)>>
    BY <2>1, ResponseFacts DEF Answered_
  <2> HIDE DEF ps, k
  <2> DEFINE e == Final(k, ps)
  <2>3. e \in Events /\ e.parts = ps /\ events' = Append(events, e)
    BY ONLY TypeOK, <2>1, FinalFacts
  <2> HIDE DEF e
  <2>4. Matched(events, todo)
    BY <1>2, <2>1 DEF Going
  <2>5. CallsOf(e) = <<>> /\ AnswersOf(e) = <<Head(todo)>>
    BY <2>2, <2>3 DEF CallsOf, AnswersOf
  <2>6. Matched(Append(events, e), Tail(todo))
    BY ONLY <1>4, <2>1, <2>3, <2>4, <2>5, MatchedAnswer
  <2> QED
    BY <2>1, <2>3, <2>6 DEF Going
<1>8. ASSUME Quiet PROVE P(pc', events', todo')
  <2>1. events' = events /\ (pc' \in Going => pc \in Going /\ todo' = todo)
    BY <1>8 DEF Quiet, Going
  <2>2. pc' \in Going /\ pc' \notin {"tools", "refuse"} => pc \notin {"tools", "refuse"} \/ todo = <<>>
    BY <1>8 DEF Quiet, Going
  <2> QED
    BY <1>2, <2>1, <2>2
<1> HIDE DEF P
<1> QED
  BY <1>1, <1>5, <1>6, <1>7, <1>8

LEMMA FinalCalls ==
  ASSUME NEW e, is_final_artifact(e)
  PROVE  /\ event_content_parts(e) = e.parts /\ extract_text(e) = Text(e.parts)
         /\ has_function_calls(e) <=> IsCall(e.parts)
BY DEF event_content_parts, extract_text, has_function_calls, IsCall

LEMMA ClosingStep ==
  ASSUME TypeOK, Phases, Closing, Move
  PROVE  Closing'
<1> DEFINE says(e) == ~has_function_calls(e) /\ Text(e.parts) # <<>>
           ended == {"done", "completed", "canceled"}
           C(es, p) == \A i \in 1..Len(es) : says(es[i]) => i = Len(es) /\ p \in ended
<1>1. world' = world /\ (world.agent = "llm" => \/ \E ps \in Seq(Parts), a \in BOOLEAN : Streams(ps, a)
                                                \/ Closes \/ Answers \/ Quiet)
  BY AgentMoves
<1>2. world.agent = "llm" => C(events, pc)
  BY DEF Closing
<1>3. world' = world => (Closing' <=> (world.agent = "llm" => C(events', pc')))
  BY Zenon DEF Closing
<1> HIDE DEF says
<1> SUFFICES ASSUME world.agent = "llm" PROVE C(events', pc')
  BY <1>1, <1>3
<1>4. events \in Seq(Events) /\ made.id \in Nat /\ buf.calls \in Seq(Nat)
  BY DEF TypeOK
<1>5. ASSUME NEW ps \in Seq(Parts), NEW a \in BOOLEAN, Streams(ps, a) PROVE C(events', pc')
  <2>1. pc' = pc /\ events' = events
    BY ONLY TypeOK, <1>5, StreamsFacts
  <2> QED
    BY <1>2, <2>1
<1>6. ASSUME NEW e \in Events, events' = Append(events, e), pc \notin ended, says(e) => pc' \in ended
      PROVE  C(events', pc')
  <2>1. /\ Len(events') = Len(events) + 1 /\ events'[Len(events) + 1] = e /\ Len(events) \in Nat
        /\ \A i \in 1..Len(events) : events'[i] = events[i]
    BY <1>4, <1>6, Appended
  <2>2. \A i \in 1..Len(events) : ~says(events'[i])
    BY <1>2, <1>6, <2>1
  <2> QED
    BY <1>6, <2>1, <2>2
<1>7. ASSUME Closes PROVE C(events', pc')
  <2> DEFINE ps == close
  <2>1. /\ pc = "stream" /\ (buf.calls = <<>> => pc' = "done")
        /\ ps \in Seq(Parts) /\ Emit(Final(made.id, ps))
    BY <1>7, ClosesFacts
  <2>2. IsCall(ps) <=> buf.calls # <<>>
    BY CloseFacts DEF TypeOK
  <2> HIDE DEF ps
  <2> DEFINE e == Final(made.id, ps)
  <2>3. e \in Events /\ e.parts = ps /\ events' = Append(events, e) /\ is_final_artifact(e)
    BY ONLY TypeOK, <1>4, <2>1, FinalFacts
  <2> HIDE DEF e
  <2>4. says(e) => pc' \in ended
    BY <2>1, <2>2, <2>3, FinalCalls DEF says
  <2> QED
    BY <1>6, <2>1, <2>3, <2>4
<1>8. ASSUME Answers PROVE C(events', pc')
  <2> DEFINE ps == Answered_(Head(todo))
             k == made.id + 1
  <2>1. /\ pc \in {"tools", "refuse"} /\ Head(todo) \in Nat
        /\ ps \in Seq(Parts) /\ k \in Nat /\ Emit(Final(k, ps))
    BY <1>8, AnswersFacts
  <2>2. Text(ps) = <<>>
    BY <2>1, ResponseFacts DEF Answered_, Text
  <2> HIDE DEF ps, k
  <2> DEFINE e == Final(k, ps)
  <2>3. e \in Events /\ e.parts = ps /\ events' = Append(events, e)
    BY ONLY TypeOK, <2>1, FinalFacts
  <2> HIDE DEF e
  <2>4. ~says(e)
    BY <2>2, <2>3 DEF says
  <2> QED
    BY <1>6, <2>1, <2>3, <2>4
<1>9. ASSUME Quiet PROVE C(events', pc')
  <2>1. events' = events /\ (pc \in ended => pc' \in ended)
    BY <1>9 DEF Quiet
  <2> QED
    BY <1>2, <2>1
<1> QED
  BY <1>1, <1>5, <1>7, <1>8, <1>9

(***************************************************************************)
(* The text of the last event, and how it comes to the node.               *)
(***************************************************************************)
LEMMA RouteFacts ==
  ASSUME TypeOK
  PROVE  /\ world.agent \in Agents /\ world.route \in Routes /\ wire \in Seq(Messages) /\ result \in Results
         /\ events \in Seq(Events) /\ store.arts \in Seq(Artifacts) /\ todo \in Seq(Nat)
         /\ world.agent # "llm" => world.route = "stream"
<1>1. world.agent \in Agents /\ world.route \in Routes /\ (world.agent # "llm" => world.route = "stream")
  BY ConstantsAssumption DEF TypeOK
<1> QED
  BY <1>1 DEF TypeOK, Messages

LEMMA SaidNothing ==
  ASSUME TypeOK, Closing, world.agent = "llm", pc \notin {"done", "completed", "canceled"}
  PROVE  Said(events) = <<>>
<1>1. events \in Seq(Events)
  BY RouteFacts
<1>2. CASE events = <<>>
  BY <1>2 DEF Said
<1>3. CASE events # <<>>
  <2>1. Len(events) \in 1..Len(events)
    BY <1>1, <1>3
  <2>2. has_function_calls(events[Len(events)]) \/ Text(events[Len(events)].parts) = <<>>
    BY <2>1 DEF Closing
  <2> QED
    BY <2>2 DEF Said
<1> QED
  BY <1>2, <1>3

LEMMA SaidLast ==
  ASSUME NEW E \in Seq(Events), NEW e \in Events
  PROVE  Said(Append(E, e)) = IF has_function_calls(e) THEN <<>> ELSE Text(e.parts)
<1>1. Append(E, e) # <<>> /\ Append(E, e)[Len(Append(E, e))] = e
  OBVIOUS
<1> QED
  BY <1>1 DEF Said

(* The agent adds an event to those of the invocation.                     *)
Speaks(e) ==
  /\ world.agent = "llm" /\ pc \in {"stream", "tools", "refuse"} /\ Handled
  /\ pc' \in {"tools", "refuse", "done"}
  /\ e \in Events /\ e.type = "artifact" /\ ~e.append /\ is_final_artifact(e)
  /\ extract_text(e) = Text(e.parts)
  /\ events' = Append(events, e) /\ Said(events) = <<>>
  /\ store'.state = store.state
  /\ world.route = "task" => wire' = wire
  /\ world.route # "task" => wire' = Append(wire, e)
  /\ UNCHANGED <<world, result, buffers, node>>

LEMMA SpeaksFacts ==
  ASSUME TypeOK, Closing, Closes \/ Answers
  PROVE  \E e : Speaks(e)
<1>1. CASE Closes
  <2> DEFINE ps == close
  <2>1. /\ world.agent = "llm" /\ pc = "stream" /\ pc' \in {"tools", "refuse", "done"} /\ Handled
        /\ UNCHANGED <<world, result, buffers, node>>
        /\ made.id \in Nat /\ ps \in Seq(Parts) /\ Emit(Final(made.id, ps))
    BY <1>1, ClosesFacts
  <2> HIDE DEF ps
  <2> DEFINE e == Final(made.id, ps)
  <2>2. /\ e \in Events /\ e.type = "artifact" /\ ~e.append /\ is_final_artifact(e)
        /\ events' = Append(events, e) /\ store'.state = store.state
        /\ world.route = "task" => wire' = wire
        /\ world.route # "task" => wire' = Append(wire, e)
    BY ONLY TypeOK, <2>1, FinalFacts
  <2> HIDE DEF e
  <2>3. extract_text(e) = Text(e.parts)
    BY <2>2, FinalCalls
  <2>4. Said(events) = <<>>
    BY <2>1, SaidNothing
  <2>5. Speaks(e)
    BY <2>1, <2>2, <2>3, <2>4 DEF Speaks
  <2> QED
    BY <2>5
<1>2. CASE Answers
  <2> DEFINE ps == Answered_(Head(todo))
             k == made.id + 1
  <2>1. /\ world.agent = "llm" /\ pc \in {"tools", "refuse"} /\ pc' = pc /\ Handled
        /\ UNCHANGED <<world, result, buffers, node>>
        /\ k \in Nat /\ ps \in Seq(Parts) /\ Emit(Final(k, ps))
    BY <1>2, AnswersFacts
  <2> HIDE DEF ps, k
  <2> DEFINE e == Final(k, ps)
  <2>2. /\ e \in Events /\ e.type = "artifact" /\ ~e.append /\ is_final_artifact(e)
        /\ events' = Append(events, e) /\ store'.state = store.state
        /\ world.route = "task" => wire' = wire
        /\ world.route # "task" => wire' = Append(wire, e)
    BY ONLY TypeOK, <2>1, FinalFacts
  <2> HIDE DEF e
  <2>3. extract_text(e) = Text(e.parts)
    BY <2>2, FinalCalls
  <2>4. Said(events) = <<>>
    BY <2>1, SaidNothing
  <2>5. Speaks(e)
    BY <2>1, <2>2, <2>3, <2>4 DEF Speaks
  <2> QED
    BY <2>5
<1> QED
  BY <1>1, <1>2

(* Steps of the agent alone: neither an event nor a message.               *)
LEMMA StopsFacts ==
  ASSUME Stops \/ Asks \/ Requests
  PROVE  /\ UNCHANGED <<world, events, store, wire, buffers, result, node>> /\ world.agent = "llm"
         /\ pc \in {"ask", "stream", "tools", "refuse"} /\ pc' \in {"ask", "stream", "raised", "done"}
BY DEF Stops, Asks, Requests

LEMMA TailOne ==
  ASSUME NEW T, NEW s \in Seq(T), s # <<>>, Len(s) <= 1
  PROVE  Tail(s) = <<>> /\ Len(Tail(s)) = 0
<1> DEFINE t == Tail(s)
<1>0. Len(s) \in Nat /\ Len(s) # 0
  OBVIOUS
<1>1. t \in Seq(T) /\ Len(t) = 0
  <2>1. t \in Seq(T) /\ Len(t) = Len(s) - 1
    OBVIOUS
  <2> QED
    BY ONLY <1>0, <2>1, Len(s) <= 1
<1> HIDE DEF t
<1>2. t = <<>>
  BY <1>1
<1> QED
  BY <1>1, <1>2 DEF t

LEMMA LocalStep ==
  ASSUME TypeOK, Phases, Closing, Local, Move
  PROVE  Local'
<1> DEFINE L(wr, es, r) ==
             /\ Len(wr) <= 1
             /\ wr = <<>> => r.output = Said(es)
             /\ wr # <<>> =>
                  /\ wr[1].type = "artifact"
                  /\ is_final_artifact(wr[1]) => es # <<>> /\ wr[1] = es[Len(es)] /\ r.output = <<>>
                  /\ ~is_final_artifact(wr[1]) => r.output = Said(es)
<1>1. world.route = "local" => L(wire, events, result)
  BY DEF Local
<1>2. world' = world
  BY AgentMoves
<1>3. Local' <=> (world.route = "local" => L(wire', events', result'))
  BY <1>2, Zenon DEF Local, Said
<1> SUFFICES ASSUME world.route = "local" PROVE L(wire', events', result')
  BY <1>3
<1>4. /\ world.agent = "llm" /\ wire \in Seq(Messages) /\ events \in Seq(Events) /\ result \in Results
  BY RouteFacts
<1> USE <1>1
<1>5. ASSUME UNCHANGED <<events, wire, result>> PROVE L(wire', events', result')
  BY <1>5
<1>6. ASSUME NEW ps \in Seq(Parts), NEW a \in BOOLEAN, Streams(ps, a) PROVE L(wire', events', result')
  <2> DEFINE e == Update(made.id, ps, a, FALSE)
  <2>1. /\ Handled /\ UNCHANGED <<events, result>> /\ e \in Events /\ wire' = Append(wire, e)
    BY ONLY TypeOK, <1>6, world.route = "local", StreamsFacts
  <2>2. e.type = "artifact" /\ ~is_final_artifact(e)
    <3>1. e.type = "artifact" /\ e.last = FALSE
      BY DEF Update, Event
    <3> QED
      BY <3>1 DEF is_final_artifact
  <2> HIDE DEF e
  <2>3. wire = <<>>
    BY <2>1 DEF Handled
  <2>4. Len(wire') = 1 /\ wire' # <<>> /\ wire'[1] = e
    BY <2>1, <2>3
  <2> QED
    BY <2>1, <2>2, <2>3, <2>4
<1>7. ASSUME Closes \/ Answers PROVE L(wire', events', result')
  <2>1. PICK e : Speaks(e)
    BY <1>7, SpeaksFacts
  <2>2. /\ e \in Events /\ e.type = "artifact" /\ is_final_artifact(e) /\ events' = Append(events, e)
        /\ Said(events) = <<>> /\ Handled /\ wire' = Append(wire, e) /\ result' = result
    BY <2>1 DEF Speaks
  <2>3. wire = <<>>
    BY <2>2 DEF Handled
  <2>4. Len(wire') = 1 /\ wire' # <<>> /\ wire'[1] = e
    BY <2>2, <2>3
  <2>5. events' # <<>> /\ events'[Len(events')] = e
    BY <1>4, <2>2
  <2>6. result'.output = <<>>
    BY <2>2, <2>3
  <2> HIDE DEF Said
  <2> QED
    BY ONLY <2>2, <2>4, <2>5, <2>6
<1>8. ASSUME Stops \/ Asks \/ Requests PROVE L(wire', events', result')
  BY <1>5, <1>8, StopsFacts
<1>9. ASSUME NEW s \in States, NEW ps \in Seq(Parts), Tells(s, ps) PROVE L(wire', events', result')
  <2>1. UNCHANGED <<events, result, wire>>
    BY ONLY TypeOK, Phases, <1>9, world.route = "local", TellsFacts
  <2> QED
    BY <1>5, <2>1
<1>10. ASSUME Chunked \/ Snapped \/ OtherMessage PROVE FALSE
  BY <1>4, <1>10 DEF Chunked, Snapped, OtherChunk, OtherTask, OtherMessage
<1>11. ASSUME Receive \/ Cut \/ RemoteEnds PROVE FALSE
  BY <1>11 DEF Receive, Cut, RemoteEnds
<1>12. ASSUME LocalEnds \/ UNCHANGED vars PROVE L(wire', events', result')
  <2>1. UNCHANGED <<events, wire, result>>
    BY <1>12 DEF LocalEnds, vars, agentVars
  <2> QED
    BY <1>5, <2>1
<1>13. ASSUME Process PROVE L(wire', events', result')
  <2> DEFINE e == Head(wire)
  <2>1. /\ wire # <<>> /\ e = wire[1] /\ wire' = Tail(wire) /\ events' = events
        /\ ~is_final_artifact(e) \/ has_function_calls(e) => result'.output = result.output
        /\ is_final_artifact(e) /\ ~has_function_calls(e) => result'.output = extract_text(e)
    BY <1>13, ProcessFacts
  <2>2. wire' = <<>> /\ Len(wire') = 0
    <3>1. Len(wire) <= 1
      OBVIOUS
    <3> QED
      BY ONLY <1>4, <2>1, <3>1, TailOne
  <2> HIDE DEF e
  <2>3. /\ is_final_artifact(e) => events # <<>> /\ e = events[Len(events)] /\ result.output = <<>>
        /\ ~is_final_artifact(e) => result.output = Said(events)
    BY <2>1
  <2>4. result'.output = Said(events)
    <3>1. CASE ~is_final_artifact(e)
      BY <2>1, <2>3, <3>1
    <3>2. CASE is_final_artifact(e) /\ has_function_calls(e)
      BY <2>1, <2>3, <3>2 DEF Said
    <3>3. CASE is_final_artifact(e) /\ ~has_function_calls(e)
      BY <2>1, <2>3, <3>3, FinalCalls DEF Said
    <3> QED
      BY <3>1, <3>2, <3>3
  <2> QED
    BY <2>1, <2>2, <2>4
<1> HIDE DEF L
<1> QED
  BY <1>6, <1>7, <1>8, <1>9, <1>10, <1>11, <1>12, <1>13, Zenon DEF Move

(* The model explained a call, in some event of the invocation.            *)
LEMMA ExplainedGrows ==
  ASSUME events \in Seq(Events), NEW e \in Events, events' = Append(events, e)
  PROVE  Explained' <=> Explained \/ (has_function_calls(e) /\ extract_text(e) # <<>>)
<1> DEFINE x(d) == has_function_calls(d) /\ extract_text(d) # <<>>
<1>1. (Explained <=> \E i \in DOMAIN events : x(events[i])) /\ (Explained' <=> \E i \in DOMAIN events' : x(events'[i]))
  BY Zenon DEF Explained
<1>2. /\ DOMAIN events' = 1..(Len(events) + 1) /\ DOMAIN events = 1..Len(events) /\ Len(events) \in Nat
      /\ \A i \in 1..Len(events) : events'[i] = events[i]
      /\ events'[Len(events) + 1] = e
  BY Appended
<1> HIDE DEF x
<1>3. ASSUME NEW i \in DOMAIN events', x(events'[i]) PROVE (\E j \in DOMAIN events : x(events[j])) \/ x(e)
  <2>1. (i \in DOMAIN events /\ events'[i] = events[i]) \/ i = Len(events) + 1
    BY <1>2
  <2> QED
    BY <1>2, <1>3, <2>1
<1>4. ASSUME NEW i \in DOMAIN events, x(events[i]) PROVE \E j \in DOMAIN events' : x(events'[j])
  <2>1. i \in DOMAIN events' /\ events'[i] = events[i]
    BY <1>2
  <2> QED
    BY <1>4, <2>1
<1>5. x(e) => \E j \in DOMAIN events' : x(events'[j])
  <2>1. Len(events) + 1 \in DOMAIN events'
    BY <1>2
  <2> QED
    BY <1>2, <2>1
<1>6. Explained' <=> Explained \/ x(e)
  BY <1>1, <1>3, <1>4, <1>5
<1> QED
  BY <1>6 DEF x

(* A message that has nothing to promote.                                  *)
LEMMA PromotedSame ==
  ASSUME NEW wr \in Seq(Messages), NEW e \in Messages, NEW s, NEW r, Promoted(wr, s, r), ~Promotable(e)
  PROVE  Promoted(Append(wr, e), s, r)
<1> DEFINE w2 == Append(wr, e)
<1>1. /\ Len(w2) = Len(wr) + 1 /\ Len(wr) \in Nat /\ w2[Len(wr) + 1] = e
      /\ \A i \in 1..Len(wr) : w2[i] = wr[i]
  BY Appended
<1> HIDE DEF w2
<1>2. \A i \in 1..Len(w2) : Promotable(w2[i]) => i \in 1..Len(wr)
  BY <1>1
<1>3. \A i \in 1..Len(wr) : i \in 1..Len(w2)
  BY <1>1
<1>4. \A w \in 1..Len(w2) : Promotable(w2[w]) => extract_text(w2[w]) = s
  BY <1>1, <1>2 DEF Promoted
<1>5. (\E w \in 1..Len(wr) : Promotable(wr[w])) => \E w \in 1..Len(w2) : Promotable(w2[w])
  BY <1>1, <1>3
<1>6. Promoted(w2, s, r)
  BY <1>4, <1>5 DEF Promoted
<1> QED
  BY <1>6 DEF w2

(* The event that is the answer is sent.                                   *)
LEMMA PromotedNew ==
  ASSUME NEW wr \in Seq(Messages), NEW e \in Messages, NEW r, Promoted(wr, <<>>, r),
         NEW s, Promotable(e) <=> s # <<>>, s # <<>> => extract_text(e) = s
  PROVE  Promoted(Append(wr, e), s, r)
<1> DEFINE w2 == Append(wr, e)
<1>1. /\ Len(w2) = Len(wr) + 1 /\ Len(wr) \in Nat /\ w2[Len(wr) + 1] = e
      /\ \A i \in 1..Len(wr) : w2[i] = wr[i]
  BY Appended
<1> HIDE DEF w2
<1>2. \A i \in 1..Len(wr) : ~Promotable(wr[i])
  <2>1. \A d : Promotable(d) => extract_text(d) # <<>>
    BY DEF Promotable
  <2> QED
    BY <2>1 DEF Promoted
<1>3. ~r.promoted /\ r.output = <<>>
  BY DEF Promoted
<1>4. \A i \in 1..Len(w2) : Promotable(w2[i]) => i = Len(wr) + 1
  BY <1>1, <1>2
<1>5. \A w \in 1..Len(w2) : Promotable(w2[w]) => extract_text(w2[w]) = s
  BY <1>1, <1>4
<1>6. s # <<>> => \E w \in 1..Len(w2) : Promotable(w2[w])
  BY <1>1
<1>7. Promoted(w2, s, r)
  BY <1>3, <1>5, <1>6 DEF Promoted
<1> QED
  BY <1>7 DEF w2

(* The first message has come.                                             *)
LEMMA PromotedHead ==
  ASSUME NEW wr \in Seq(Messages), wr # <<>>, wr[1] \in Events, NEW s, NEW r \in Results, Promoted(wr, s, r)
  PROVE  Promoted(Tail(wr), s, Took(r, wr[1]))
<1> DEFINE w2 == Tail(wr)
           e == wr[1]
           q == Took(r, e)
<1>1. /\ Len(w2) = Len(wr) - 1 /\ Len(wr) \in Nat /\ Len(wr) > 0
      /\ \A i \in 1..(Len(wr) - 1) : w2[i] = wr[i + 1]
  OBVIOUS
<1> HIDE DEF w2
<1>2. /\ \A w \in 1..Len(wr) : Promotable(wr[w]) => extract_text(wr[w]) = s
      /\ r.promoted => r.output = s /\ s # <<>>
      /\ ~r.promoted => /\ r.output = <<>>
                        /\ s # <<>> => \E w \in 1..Len(wr) : Promotable(wr[w])
  BY DEF Promoted
<1>3. /\ q.promoted <=> r.promoted \/ Promotable(e)
      /\ r.promoted \/ ~Promotable(e) => q.output = r.output
      /\ ~r.promoted /\ Promotable(e) => q.output = extract_text(e)
  BY TookFacts
<1> HIDE DEF q, e
<1>4. Promotable(e) => extract_text(e) = s /\ s # <<>>
  <2>1. Promotable(e) => extract_text(e) # <<>>
    BY DEF Promotable
  <2> QED
    BY <1>1, <1>2, <2>1 DEF e
<1>5. \A w \in 1..Len(w2) : w + 1 \in 1..Len(wr) /\ w2[w] = wr[w + 1]
  BY <1>1
<1>6. \A w \in 1..Len(w2) : Promotable(w2[w]) => extract_text(w2[w]) = s
  BY <1>2, <1>5
<1>7. q.promoted => q.output = s /\ s # <<>>
  BY <1>2, <1>3, <1>4
<1>8. ASSUME ~q.promoted PROVE q.output = <<>> /\ (s # <<>> => \E w \in 1..Len(w2) : Promotable(w2[w]))
  <2>1. ~r.promoted /\ ~Promotable(e) /\ q.output = <<>>
    BY <1>2, <1>3, <1>8
  <2>2. ASSUME s # <<>> PROVE \E w \in 1..Len(w2) : Promotable(w2[w])
    <3>1. PICK w \in 1..Len(wr) : Promotable(wr[w])
      BY <1>2, <2>1, <2>2
    <3>2. w # 1
      BY <2>1, <3>1 DEF e
    <3>3. w - 1 \in 1..Len(w2) /\ w2[w - 1] = wr[w]
      BY <1>1, <3>2
    <3> QED
      BY <3>1, <3>3
  <2> QED
    BY <2>1, <2>2
<1>9. Promoted(w2, s, q)
  BY <1>6, <1>7, <1>8 DEF Promoted
<1> QED
  BY <1>9 DEF w2, q, e

LEMMA StreamedStep ==
  ASSUME TypeOK, Phases, Closing, Streamed, Move
  PROVE  Streamed'
<1> DEFINE whole(wr) == \A w \in 1..Len(wr) : wr[w] \in Events /\ ~(wr[w].append /\ wr[w].last)
           S(wr, x, st, es, r) == whole(wr) /\ (~x /\ st # "failed" => Promoted(wr, Said(es), r))
           goal == S(wire', Explained', store'.state, events', result')
<1>1. world.agent = "llm" /\ world.route = "stream" => S(wire, Explained, store.state, events, result)
  BY DEF Streamed
<1>2. world' = world
  BY AgentMoves
<1>3. Streamed' <=> (world.agent = "llm" /\ world.route = "stream" => goal)
  BY <1>2, Zenon DEF Streamed, Said, Promoted, Promotable
<1> SUFFICES ASSUME world.agent = "llm", world.route = "stream" PROVE goal
  BY <1>3
<1>4. wire \in Seq(Messages) /\ events \in Seq(Events) /\ result \in Results /\ \A e \in Events : e \in Messages
  BY RouteFacts DEF Messages
<1>5. whole(wire) /\ (~Explained /\ store.state # "failed" => Promoted(wire, Said(events), result))
  BY <1>1
<1>6. events' = events => Explained' = Explained
  BY DEF Explained, has_function_calls, extract_text, event_content_parts, is_final_artifact
<1>7. ASSUME NEW e \in Events, ~(e.append /\ e.last), wire' = Append(wire, e) PROVE whole(wire')
  <2>1. /\ Len(wire') = Len(wire) + 1 /\ Len(wire) \in Nat /\ wire'[Len(wire) + 1] = e
        /\ \A i \in 1..Len(wire) : wire'[i] = wire[i]
    BY <1>4, <1>7, Appended
  <2>2. \A i \in 1..Len(wire') : i \in 1..Len(wire) \/ i = Len(wire) + 1
    BY <2>1
  <2> QED
    BY <1>5, <1>7, <2>1, <2>2
<1> HIDE DEF whole
<1>8. ASSUME UNCHANGED <<events, result, wire>>, store'.state = store.state PROVE goal
  BY <1>5, <1>6, <1>8
<1>9. ASSUME NEW ps \in Seq(Parts), NEW a \in BOOLEAN, Streams(ps, a) PROVE goal
  <2> DEFINE e == Update(made.id, ps, a, FALSE)
  <2>1. /\ UNCHANGED <<events, result>> /\ e \in Events /\ wire' = Append(wire, e) /\ store'.state = store.state
    BY ONLY TypeOK, <1>9, world.route = "stream", StreamsFacts
  <2>2. e.type = "artifact" /\ ~e.last
    BY DEF Update, Event
  <2> HIDE DEF e
  <2>3. ~Promotable(e)
    BY <2>2 DEF Promotable, is_partial_event, is_final_artifact
  <2>4. whole(wire')
    BY <1>7, <2>1, <2>2
  <2>5. Promoted(wire, Said(events), result) => Promoted(wire', Said(events), result)
    BY ONLY <1>4, <2>1, <2>3, PromotedSame
  <2> QED
    BY <1>5, <1>6, <2>1, <2>4, <2>5
<1>10. ASSUME Closes \/ Answers PROVE goal
  <2>1. PICK e : Speaks(e)
    BY <1>10, SpeaksFacts
  <2>2. /\ e \in Events /\ e.type = "artifact" /\ ~e.append /\ is_final_artifact(e) /\ events' = Append(events, e)
        /\ extract_text(e) = Text(e.parts) /\ store'.state = store.state
        /\ Said(events) = <<>> /\ wire' = Append(wire, e) /\ result' = result
    BY <2>1 DEF Speaks
  <2>3. whole(wire')
    BY <1>7, <2>2
  <2>4. Explained' <=> Explained \/ (has_function_calls(e) /\ extract_text(e) # <<>>)
    BY <1>4, <2>2, ExplainedGrows
  <2>5. Said(events') = IF has_function_calls(e) THEN <<>> ELSE Text(e.parts)
    BY <1>4, <2>2, SaidLast
  <2>6. Promotable(e) <=> extract_text(e) # <<>>
    BY <2>2 DEF Promotable, is_partial_event
  <2>7. ASSUME ~Explained', store'.state # "failed" PROVE Promoted(wire', Said(events'), result')
    <3> DEFINE s == Said(events')
    <3>1. Promoted(wire, <<>>, result)
      BY <1>5, <2>2, <2>4, <2>7
    <3>2. (Promotable(e) <=> s # <<>>) /\ (s # <<>> => extract_text(e) = s)
      BY <2>2, <2>4, <2>5, <2>6, <2>7
    <3> HIDE DEF s
    <3>3. Promoted(Append(wire, e), s, result)
      BY ONLY <1>4, <2>2, <3>1, <3>2, PromotedNew
    <3> QED
      BY <2>2, <3>3 DEF s
  <2> QED
    BY <2>3, <2>7
<1>11. ASSUME Stops \/ Asks \/ Requests PROVE goal
  BY <1>8, <1>11, StopsFacts
<1>12. ASSUME NEW s \in States, NEW ps \in Seq(Parts), Tells(s, ps) PROVE goal
  <2> DEFINE u == Status(s, ps)
  <2>1. /\ UNCHANGED <<events, result>> /\ wire' = Append(wire, u) /\ u \in Events /\ store'.state = s
        /\ s # "failed" => ps = <<>>
        /\ pc \notin TASK_RESPONSE_BOUNDARY_STATES
    BY ONLY TypeOK, Phases, <1>12, world.agent = "llm", world.route = "stream", TellsFacts
  <2>2. store.state # "failed"
    BY <2>1 DEF Phases, TaskStates, NON_FINAL_TASK_STATES, TASK_RESPONSE_BOUNDARY_STATES, FAILURE_STATES, PAUSE_STATES
  <2>3. u.type = "status" /\ u.parts = ps /\ ~u.last
    BY DEF Status, Event
  <2> HIDE DEF u
  <2>4. whole(wire')
    BY <1>7, <2>1, <2>3
  <2>5. ASSUME s # "failed" PROVE ~Promotable(u)
    <3>1. event_content_parts(u) = <<>>
      BY <2>1, <2>3, <2>5 DEF event_content_parts
    <3>2. Of(<<>>, "text") = <<>>
      BY OfNone
    <3>3. extract_text(u) = <<>>
      BY <3>1, <3>2 DEF extract_text, Text
    <3> QED
      BY <3>3 DEF Promotable
  <2>6. ASSUME ~Explained', store'.state # "failed" PROVE Promoted(wire', Said(events'), result')
    <3>1. Promoted(wire, Said(events), result) /\ ~Promotable(u)
      BY <1>5, <1>6, <2>1, <2>2, <2>5, <2>6
    <3>2. Promoted(Append(wire, u), Said(events), result)
      BY ONLY <1>4, <2>1, <3>1, PromotedSame
    <3> QED
      BY <2>1, <3>2
  <2> QED
    BY <2>4, <2>6
<1>13. ASSUME Chunked \/ Snapped \/ OtherMessage PROVE FALSE
  BY <1>13 DEF Chunked, Snapped, OtherChunk, OtherTask, OtherMessage
<1>14. ASSUME Receive PROVE goal
  <2> DEFINE e == Head(wire)
  <2>1. /\ wire # <<>> /\ e = wire[1] /\ wire' = Tail(wire)
        /\ e \in Events /\ ~(e.type = "artifact" /\ e.append /\ e.last) => result' = Took(result, e)
    BY <1>14, ReceiveFacts
  <2>2. UNCHANGED <<events, store>>
    BY <1>14 DEF Receive, agentVars
  <2> HIDE DEF e
  <2>3. 1 \in 1..Len(wire)
    BY <1>4, <2>1
  <2>4. wire[1] \in Events /\ ~(wire[1].append /\ wire[1].last)
    BY <1>5, <2>3 DEF whole
  <2>5. result' = Took(result, wire[1])
    BY <2>1, <2>4
  <2>6. whole(wire')
    <3>1. \A w \in 1..Len(wire') : w + 1 \in 1..Len(wire) /\ wire'[w] = wire[w + 1]
      BY <1>4, <2>1
    <3> QED
      BY <1>5, <3>1 DEF whole
  <2>7. Promoted(wire, Said(events), result) => Promoted(wire', Said(events), result')
    BY ONLY <1>4, <2>1, <2>4, <2>5, PromotedHead
  <2> QED
    BY <1>5, <1>6, <2>2, <2>6, <2>7
<1>15. ASSUME Cut PROVE goal
  <2>1. /\ result'.output = result.output /\ result'.promoted = result.promoted
        /\ UNCHANGED <<events, store, wire>>
    BY <1>15, CutFacts
  <2>2. Promoted(wire, Said(events), result) => Promoted(wire, Said(events), result')
    BY <2>1 DEF Promoted
  <2> QED
    BY <1>5, <1>6, <2>1, <2>2
<1>16. ASSUME RemoteEnds \/ LocalEnds \/ UNCHANGED vars PROVE goal
  <2>1. UNCHANGED <<events, store, wire, result>>
    BY <1>16 DEF RemoteEnds, LocalEnds, vars, agentVars
  <2> QED
    BY <1>8, <2>1
<1>17. ASSUME Process PROVE FALSE
  BY <1>17 DEF Process
<1> HIDE DEF goal
<1> QED
  BY <1>9, <1>10, <1>11, <1>12, <1>13, <1>14, <1>15, <1>16, <1>17, Zenon DEF Move

(***************************************************************************)
(* The task that is sent when it has ended.                                *)
(***************************************************************************)
(* What is taken of a task that completed.                                 *)
LEMMA TaskTaken ==
  ASSUME NEW r \in Results, ~r.promoted, r.output = <<>>, NEW t \in Tasks, t.state = "completed",
         t.arts # <<>> \/ (t.parts = <<>> /\ t.history = <<>>)
  PROVE  Seen(r, _events_from_task(t)).output = Text(t.arts)
<1> USE DEF TASK_RESPONSE_BOUNDARY_STATES, FAILURE_STATES, PAUSE_STATES
<1>0. /\ TaskArtifact(t) \in Events /\ TaskStatus(t) \in Events
      /\ t.arts # <<>> /\ ~Told(t) => _events_from_task(t) = <<TaskArtifact(t)>>
      /\ t.arts = <<>> => \/ _events_from_task(t) = <<TaskStatus(t)>>
                          \/ ~Told(t) /\ t.history # <<>> /\ _events_from_task(t) = <<TaskMessage(t)>>
  BY TaskEvents
<1>1. t.arts \in Seq(Parts)
  BY DEF Tasks
<1>2. CASE t.arts # <<>>
  <2> DEFINE A == TaskArtifact(t)
  <2>1. ~Told(t)
    BY <1>2 DEF Told
  <2>2. Seen(r, _events_from_task(t)) = Took(r, A) /\ A \in Events
    BY <1>0, <1>2, <2>1, SeenOne
  <2>3. A.type = "artifact" /\ A.parts = t.arts /\ A.append = FALSE /\ A.last = TRUE
    BY DEF TaskArtifact, Update, Event, NON_FINAL_TASK_STATES
  <2> HIDE DEF A
  <2>4. is_final_artifact(A) /\ ~is_partial_event(A)
    BY <2>3 DEF is_final_artifact, is_partial_event
  <2>5. extract_text(A) = Text(t.arts)
    BY <2>3, <2>4, FinalCalls
  <2>6. Promotable(A) <=> Text(t.arts) # <<>>
    BY <2>3, <2>4, <2>5 DEF Promotable
  <2>7. /\ ~Promotable(A) => Took(r, A).output = r.output
        /\ Promotable(A) => Took(r, A).output = extract_text(A)
    BY <2>2, TookFacts
  <2> QED
    BY <2>2, <2>5, <2>6, <2>7
<1>3. CASE t.arts = <<>>
  <2> DEFINE S == TaskStatus(t)
  <2>1. _events_from_task(t) = <<S>> /\ S \in Events
    BY <1>0, <1>3
  <2>2. Seen(r, _events_from_task(t)) = Took(r, S)
    BY <2>1, SeenOne
  <2>3. S.type = "status" /\ S.parts = <<>> /\ ~S.append /\ ~S.last
    BY <1>3 DEF TaskStatus, Status, Event
  <2> HIDE DEF S
  <2>4. Text(<<>>) = <<>>
    BY OfNone DEF Text
  <2>5. event_content_parts(S) = <<>>
    BY <2>3 DEF event_content_parts
  <2>6. ~Promotable(S)
    BY <2>4, <2>5 DEF Promotable, extract_text
  <2>7. Took(r, S).output = r.output
    BY <2>1, <2>6, TookFacts
  <2> QED
    BY <1>3, <2>2, <2>4, <2>7
<1> QED
  BY <1>2, <1>3

(* Nothing is taken of a task that has not ended and has artifacts.        *)
LEMMA TaskPending ==
  ASSUME NEW r \in Results, r.output = <<>>, NEW t \in Tasks, t.state \in NON_FINAL_TASK_STATES, t.arts # <<>>
  PROVE  Seen(r, _events_from_task(t)).output = <<>>
<1> USE DEF TASK_RESPONSE_BOUNDARY_STATES, FAILURE_STATES, PAUSE_STATES
<1> DEFINE A == TaskArtifact(t)
           S == TaskStatus(t)
<1>0. /\ A \in Events /\ S \in Events
      /\ Told(t) => _events_from_task(t) = <<A, S>>
      /\ ~Told(t) => _events_from_task(t) = <<A>>
  BY TaskEvents
<1>1. A.type = "artifact" /\ A.last = FALSE
  BY DEF TaskArtifact, Update, Event
<1>2. S.type = "status" /\ S.state = t.state
  BY DEF TaskStatus, Status, Event
<1> HIDE DEF A, S
<1>3. ~Promotable(A) /\ ~Promotable(S)
  BY <1>1, <1>2 DEF Promotable, is_partial_event, is_final_artifact
<1>4. Took(r, A) \in Results /\ Took(r, A).output = <<>>
  BY <1>0, <1>3, TookFacts
<1>5. Took(Took(r, A), S).output = <<>>
  BY <1>0, <1>3, <1>4, TookFacts
<1> QED
  BY <1>0, <1>4, <1>5, SeenOne, SeenTwo

LEMMA SentStep ==
  ASSUME TypeOK, Phases, Sent, Move
  PROVE  Sent'
<1> USE DEF TASK_RESPONSE_BOUNDARY_STATES, FAILURE_STATES, PAUSE_STATES
<1> DEFINE on == (world.agent = "llm" /\ world.route = "task") \/ world.agent = "snapshot"
           over(p) == p \in TaskStates
           fresh(r) == ~r.promoted /\ r.output = <<>>
           task(t, s) == /\ t \in Tasks
                         /\ t.state = s.state /\ t.arts = AllParts(s.arts)
                         /\ world.agent = "llm" => t.history = <<>> /\ (s.state = "completed" => t.parts = <<>>)
           bare(e, s) == e \in Events /\ world.agent = "snapshot" /\ s.arts = <<>>
           one(wr, s) == Len(wr) = 1 /\ (task(wr[1], s) \/ bare(wr[1], s))
           got(s, r) == /\ s.state = "completed" /\ (AllParts(s.arts) # <<>> \/ world.agent = "llm") =>
                             r.output = Text(AllParts(s.arts))
                        /\ s.state \in NON_FINAL_TASK_STATES /\ AllParts(s.arts) # <<>> => r.output = <<>>
           none(s) == world.agent = "snapshot" /\ AllParts(s.arts) = <<>> => s.arts = <<>>
           S(p, wr, s, r) == /\ ~over(p) \/ wr # <<>> => fresh(r)
                             /\ ~over(p) => wr = <<>>
                             /\ wr # <<>> => one(wr, s)
                             /\ wr = <<>> => got(s, r)
                             /\ none(s)
           goal == S(pc', wire', store', result')
<1>1. on => S(pc, wire, store, result)
  BY Zenon DEF Sent, OfTask
<1>2. world' = world
  BY AgentMoves
<1>3. Sent' <=> (on => goal)
  BY <1>2, Zenon DEF Sent, OfTask, AllParts, Text, Of
<1> SUFFICES ASSUME on PROVE goal
  BY <1>3
<1>4. /\ wire \in Seq(Messages) /\ result \in Results /\ store.arts \in Seq(Artifacts)
      /\ world.agent = "llm" => world.route = "task"
      /\ world.agent # "chunks" /\ world.route # "local"
      /\ world.agent # "llm" => world.agent = "snapshot" /\ world.route = "stream"
  BY RouteFacts
<1>5. S(pc, wire, store, result)
  BY <1>1
<1> HIDE DEF on, one, got, none, fresh, over
<1>6. over(pc) => store.state = pc
  BY DEF Phases, over
<1>7. ~over(pc) => store.state \notin TASK_RESPONSE_BOUNDARY_STATES
  BY DEF Phases, over, TaskStates
<1>0. /\ \A p \in {"start", "ask", "stream", "tools", "refuse", "raised", "done"} : ~over(p)
      /\ \A p \in TASK_RESPONSE_BOUNDARY_STATES : over(p)
  BY DEF over, TaskStates, NON_FINAL_TASK_STATES
<1>8. ASSUME world.agent = "llm", ~over(pc), ~over(pc'), wire' = wire, result' = result,
             store'.state \notin TASK_RESPONSE_BOUNDARY_STATES
      PROVE  goal
  <2>1. wire = <<>> /\ fresh(result)
    BY <1>5, <1>8
  <2>2. got(store', result') /\ none(store')
    BY <1>8, <2>1 DEF got, none, fresh
  <2> QED
    BY <1>5, <1>8, <2>2
<1>9. ASSUME NEW ps \in Seq(Parts), NEW a \in BOOLEAN, Streams(ps, a) PROVE goal
  <2>1. /\ world.agent = "llm" /\ pc = "stream" /\ UNCHANGED <<pc, result>> /\ store'.state = store.state
        /\ world.route = "task" => wire' = wire
    BY ONLY TypeOK, <1>9, StreamsFacts
  <2> QED
    BY <1>0, <1>4, <1>7, <1>8, <2>1
<1>10. ASSUME NEW id \in Nat, NEW ps \in Seq(Parts), Emit(Final(id, ps)), world.agent = "llm",
              ~over(pc), ~over(pc'), result' = result
       PROVE  goal
  <2>1. store'.state = store.state /\ wire' = wire
    BY ONLY TypeOK, <1>4, <1>10, FinalFacts
  <2> QED
    BY <1>7, <1>8, <1>10, <2>1
<1>11. ASSUME Closes PROVE goal
  <2> DEFINE ps == close
  <2>1. /\ world.agent = "llm" /\ pc = "stream" /\ pc' \in {"done", "tools", "refuse"} /\ result' = result
        /\ made.id \in Nat /\ ps \in Seq(Parts) /\ Emit(Final(made.id, ps))
    BY <1>11, ClosesFacts
  <2> HIDE DEF ps, goal
  <2> QED
    BY <1>0, <1>10, <2>1
<1>12. ASSUME Answers PROVE goal
  <2> DEFINE ps == Answered_(Head(todo))
             k == made.id + 1
  <2>1. /\ world.agent = "llm" /\ pc \in {"tools", "refuse"} /\ pc' = pc /\ result' = result
        /\ k \in Nat /\ ps \in Seq(Parts) /\ Emit(Final(k, ps))
    BY <1>12, AnswersFacts
  <2> HIDE DEF ps, k, goal
  <2> QED
    BY <1>0, <1>10, <2>1
<1>13. ASSUME Stops \/ Asks \/ Requests PROVE goal
  <2>1. /\ UNCHANGED <<store, wire, result>> /\ world.agent = "llm"
        /\ pc \in {"ask", "stream", "tools", "refuse"} /\ pc' \in {"ask", "stream", "raised", "done"}
    BY <1>13, StopsFacts
  <2> QED
    BY <1>0, <1>7, <1>8, <2>1
<1>14. ASSUME NEW s \in States, NEW ps \in Seq(Parts), Tells(s, ps) PROVE goal
  <2> DEFINE t == Task(s, AllParts(store.arts), ps, <<>>)
  <2> DEFINE ends == s \in TASK_RESPONSE_BOUNDARY_STATES
  <2>1. /\ result' = result /\ store'.state = s /\ store'.arts = store.arts
        /\ pc \notin TASK_RESPONSE_BOUNDARY_STATES
        /\ world.agent \in {"llm", "chunks"}
        /\ (s = "working" /\ pc' = "ask") \/ (ends /\ pc' = s)
        /\ world.agent = "llm" /\ s # "failed" => ps = <<>>
        /\ t \in Tasks
        /\ world.route = "task" /\ ends => wire' = Append(wire, t)
        /\ world.route = "task" /\ ~ends => wire' = wire
    BY ONLY TypeOK, Phases, <1>14, TellsFacts DEF TASK_RESPONSE_BOUNDARY_STATES, FAILURE_STATES, PAUSE_STATES
  <2>2. world.agent = "llm" /\ world.route = "task" /\ ~over(pc)
    <3>1. world.agent = "llm" /\ world.route = "task"
      BY <1>4, <2>1
    <3>2. ~over(pc)
      BY <2>1, <3>1 DEF Phases, LLMStates, over, TaskStates, NON_FINAL_TASK_STATES
    <3> QED
      BY <3>1, <3>2
  <2>3. CASE s = "working"
    BY <1>0, <1>7, <1>8, <2>1, <2>2, <2>3
  <2>4. CASE ends
    <3>1. t.state = s /\ t.arts = AllParts(store.arts) /\ t.history = <<>> /\ t.parts = ps
      BY DEF Task
    <3> HIDE DEF t
    <3>2. wire = <<>> /\ fresh(result)
      BY <1>5, <2>2
    <3>3. Len(wire') = 1 /\ wire'[1] = t /\ wire' # <<>>
      BY <2>1, <2>2, <2>4, <3>2
    <3>4. s = "completed" => t.parts = <<>>
      BY <2>1, <2>2, <3>1
    <3>5. one(wire', store')
      BY <2>1, <3>1, <3>3, <3>4 DEF one
    <3>6. none(store')
      BY <2>2 DEF none
    <3>7. fresh(result') /\ over(pc')
      BY <1>0, <2>1, <2>4, <3>2 DEF fresh
    <3> QED
      BY <3>3, <3>5, <3>6, <3>7
  <2> QED
    BY <2>1, <2>3, <2>4
<1>15. ASSUME Chunked PROVE FALSE
  BY <1>4, <1>15 DEF Chunked, OtherChunk
<1>16. ASSUME Snapped PROVE goal
  <2>1. PICK s \in TaskStates, a, m, h \in Seq(Parts) :
           /\ world.agent = "snapshot" /\ pc = "start" /\ pc' = s
           /\ store'.state = s
           /\ a = <<>> => store'.arts = <<>>
           /\ a # <<>> => store'.arts = <<[id |-> 1, parts |-> a]>>
           /\ Task(s, a, m, h) \in Tasks /\ wire' = Append(wire, Task(s, a, m, h))
           /\ result' = result
    <3>1. TypeOK /\ Snapped
      BY <1>16
    <3> QED
      BY ONLY <3>1, SnappedFacts, ZenonT(60)
  <2> DEFINE t == Task(s, a, m, h)
  <2>2. t.state = s /\ t.arts = a
    BY DEF Task
  <2>3. AllParts(store'.arts) = a /\ (a = <<>> => store'.arts = <<>>)
    <3>1. CASE a = <<>>
      <4>1. [i \in DOMAIN <<>> |-> <<>>[i].parts] = <<>>
        OBVIOUS
      <4>2. Flat(<<>>) = <<>>
        BY ONLY a \in Seq(Parts), FlatOnly
      <4> QED
        BY <2>1, <3>1, <4>1, <4>2 DEF AllParts
    <3>2. CASE a # <<>>
      <4> DEFINE A == <<[id |-> 1, parts |-> a]>>
                 L == PartLists(A)
      <4>1. A \in Seq(Artifacts) /\ Len(A) = 1 /\ A[1].parts = a
        BY DEF Artifacts
      <4> HIDE DEF A
      <4>2. L \in Lists(Parts) /\ Len(L) = 1 /\ L[1] = a /\ AllParts(A) = Flat(L)
        <5>1. /\ L \in Lists(Parts) /\ Len(L) = Len(A) /\ AllParts(A) = Flat(L)
              /\ \A i \in 1..Len(A) : L[i] = A[i].parts
          BY ONLY <4>1, AllPartsFacts
        <5> QED
          BY <4>1, <5>1
      <4> HIDE DEF L
      <4>3. Len(L) = 0 + 1 /\ 0 \in Nat /\ \A i \in 1..0 : L[i] = <<>>
        BY <4>2
      <4>4. Flat(L) = L[0 + 1]
        BY ONLY <4>2, <4>3, FlatLast
      <4>5. AllParts(A) = a
        BY <4>2, <4>4
      <4>6. store'.arts = A
        BY <2>1, <3>2 DEF A
      <4> QED
        BY <3>2, <4>5, <4>6
    <3> QED
      BY <3>1, <3>2
  <2>4. wire = <<>> /\ fresh(result)
    BY <1>0, <1>5, <2>1
  <2> HIDE DEF t
  <2>5. Len(wire') = 1 /\ wire'[1] = t /\ wire' # <<>>
    BY <2>1, <2>4 DEF t
  <2>6. one(wire', store') /\ none(store')
    BY <2>1, <2>2, <2>3, <2>5 DEF one, none, t
  <2>7. fresh(result') /\ over(pc')
    BY <2>1, <2>4 DEF fresh, over
  <2> QED
    BY <2>5, <2>6, <2>7
<1>21. ASSUME OtherMessage PROVE goal
  <2>1. PICK e \in Events :
           /\ world.agent = "snapshot" /\ pc = "start" /\ pc' = "completed" /\ store'.arts = <<>>
           /\ wire' = Append(wire, e) /\ result' = result
    BY <1>21, OtherMessageFacts
  <2>2. wire = <<>> /\ fresh(result)
    BY <1>0, <1>5, <2>1
  <2>3. Len(wire') = 1 /\ wire'[1] = e /\ wire' # <<>>
    BY <2>1, <2>2
  <2>4. one(wire', store') /\ none(store')
    BY <2>1, <2>3 DEF one, none
  <2>5. fresh(result') /\ over(pc')
    BY <1>0, <2>1, <2>2 DEF fresh
  <2> QED
    BY <2>3, <2>4, <2>5
<1>17. ASSUME Receive PROVE goal
  <2> DEFINE t == Head(wire)
  <2>1. /\ wire # <<>> /\ t = wire[1] /\ wire' = Tail(wire)
        /\ t \in Tasks => result' = Seen(result, _events_from_task(t))
    BY <1>17, ReceiveFacts
  <2>2. UNCHANGED <<pc, store>>
    BY <1>17 DEF Receive, agentVars
  <2> HIDE DEF t
  <2>3. one(wire, store) /\ fresh(result) /\ over(pc)
    BY <1>5, <2>1
  <2>4. wire' = <<>>
    <3>1. Len(wire) <= 1
      BY <2>3 DEF one
    <3> QED
      BY ONLY <1>4, <2>1, <3>1, TailOne
  <2>5. got(store, result')
    <3>0. ~result.promoted /\ result.output = <<>>
      BY <2>3 DEF fresh
    <3>1. CASE bare(t, store)
      <4>1. AllParts(store.arts) = <<>> /\ world.agent # "llm"
        <5>1. [i \in DOMAIN <<>> |-> <<>>[i].parts] = <<>>
          OBVIOUS
        <5>2. Flat(<<>>) = <<>>
          <6>1. <<>> \in Seq(Parts)
            OBVIOUS
          <6> QED
            BY ONLY <6>1, FlatOnly
        <5> QED
          BY <3>1, <5>1, <5>2 DEF AllParts
      <4> QED
        BY <4>1 DEF got
    <3>2. CASE task(t, store)
      <4>1. ASSUME store.state = "completed", AllParts(store.arts) # <<>> \/ world.agent = "llm"
            PROVE  result'.output = Text(AllParts(store.arts))
        <5>1. /\ t \in Tasks /\ t.state = "completed" /\ t.arts = AllParts(store.arts)
              /\ t.arts # <<>> \/ (t.parts = <<>> /\ t.history = <<>>)
          BY <3>2, <4>1
        <5>2. Seen(result, _events_from_task(t)).output = Text(t.arts)
          BY ONLY <1>4, <3>0, <5>1, TaskTaken
        <5> QED
          BY <2>1, <5>1, <5>2
      <4>2. ASSUME store.state \in NON_FINAL_TASK_STATES, AllParts(store.arts) # <<>>
            PROVE  result'.output = <<>>
        <5>1. t \in Tasks /\ t.state \in NON_FINAL_TASK_STATES /\ t.arts # <<>>
          BY <3>2, <4>2
        <5>2. Seen(result, _events_from_task(t)).output = <<>>
          BY ONLY <1>4, <3>0, <5>1, TaskPending
        <5> QED
          BY <2>1, <5>1, <5>2
      <4> QED
        BY <4>1, <4>2 DEF got
    <3> QED
      BY <2>1, <2>3, <3>1, <3>2 DEF one
  <2>6. none(store)
    BY <1>5
  <2>7. goal <=> S(pc, <<>>, store, result')
    BY <2>2, <2>4 DEF got, none, one, fresh
  <2> QED
    BY <2>3, <2>5, <2>6, <2>7
<1>18. ASSUME Cut PROVE goal
  <2>1. /\ result'.output = result.output /\ result'.promoted = result.promoted
        /\ UNCHANGED <<pc, store, wire>>
    BY <1>18, CutFacts
  <2>2. (fresh(result') <=> fresh(result)) /\ (got(store, result') <=> got(store, result))
    BY <2>1 DEF fresh, got
  <2> QED
    BY <1>5, <2>1, <2>2 DEF got, none, one
<1>19. ASSUME RemoteEnds \/ UNCHANGED vars PROVE goal
  <2>1. UNCHANGED <<pc, store, wire, result>>
    BY <1>19 DEF RemoteEnds, vars, agentVars
  <2> QED
    BY <1>5, <2>1 DEF got, none, one, fresh
<1>20. ASSUME LocalEnds \/ Process PROVE FALSE
  BY <1>4, <1>20 DEF LocalEnds, Process
<1> HIDE DEF goal
<1> QED
  BY <1>9, <1>11, <1>12, <1>13, <1>14, <1>15, <1>16, <1>17, <1>18, <1>19, <1>20, <1>21, Zenon DEF Move

(***************************************************************************)
(* The agent that streams two artifacts in pieces.                         *)
(***************************************************************************)
Single(A) == \A i, j \in 1..Len(A) : A[i].id = A[j].id => i = j

(* A piece of an artifact is added to the store and sent.                  *)
Adds(e) ==
  /\ world.agent = "chunks" /\ pc = "start" /\ pc' = pc
  /\ e \in Events /\ e.type = "artifact" /\ e.id # 0 /\ e.id \notin Elems(todo) /\ Text(e.parts) # <<>>
  /\ e.append <=> e.id \in Ids(store.arts)
  /\ todo' = IF e.last THEN Append(todo, e.id) ELSE todo
  /\ store'.state = store.state /\ store'.arts = merged(store.arts, e) /\ wire' = Append(wire, e)
  /\ UNCHANGED <<world, buffers, result, node>>

LEMMA AddsFacts ==
  ASSUME TypeOK, Chunked
  PROVE  \E e : Adds(e)
<1>1. PICK id \in 1..2, last \in BOOLEAN : OtherChunk(id, last)
  BY DEF Chunked
<1> DEFINE k == made.piece + 1
           known == Known(id)
           ps == Piece(k)
           e == Chunk_(id, last)
<1>2. /\ world.agent = "chunks" /\ pc = "start" /\ pc' = pc /\ id \notin Elems(todo)
      /\ k \in Nat /\ e \in Events /\ Emit(e)
      /\ last => todo' = Append(todo, id)
      /\ ~last => todo' = todo
      /\ UNCHANGED <<world, buffers, result, node>>
  BY <1>1, OtherChunkFacts
<1>3. e = Update(id, ps, known, last)
  BY DEF Chunk_
<1>4. known <=> id \in Ids(store.arts)
  BY RouteFacts DEF Known, Ids
<1>5. Text(ps) # <<>>
  BY <1>2, PieceFacts
<1>6. known \in BOOLEAN
  BY DEF Known
<1> HIDE DEF ps, known, e
<1>7. e.type = "artifact" /\ e.id = id /\ e.parts = ps /\ (e.append <=> known) /\ (e.last <=> last)
  <2>1. e.type = "artifact" /\ e.id = id /\ e.parts = ps /\ e.append = known /\ e.last = last
    BY <1>3 DEF Update, Event
  <2> QED
    BY <2>1
<1>8. store'.state = store.state /\ store'.arts = merged(store.arts, e) /\ (world.route # "task" => wire' = Append(wire, e))
  BY ONLY TypeOK, <1>2, EmitFacts
<1>9. world.route # "task"
  BY <1>2, RouteFacts
<1>10. Adds(e)
  BY <1>2, <1>4, <1>5, <1>7, <1>8, <1>9 DEF Adds
<1> QED
  BY <1>10

(* The artifacts after a piece.                                            *)
LEMMA Added ==
  ASSUME NEW A \in Seq(Artifacts), NEW e \in Events, Single(A), e.append <=> e.id \in Ids(A)
  PROVE  /\ merged(A, e) \in Seq(Artifacts) /\ Single(merged(A, e))
         /\ Ids(merged(A, e)) = Ids(A) \cup {e.id}
         /\ \A i \in 1..Len(merged(A, e)) :
              /\ merged(A, e)[i].id # e.id => i \in 1..Len(A) /\ merged(A, e)[i] = A[i]
              /\ merged(A, e)[i].id = e.id /\ e.id \in Ids(A) =>
                   i \in 1..Len(A) /\ A[i].id = e.id /\ merged(A, e)[i].parts = A[i].parts \o e.parts
              /\ merged(A, e)[i].id = e.id /\ e.id \notin Ids(A) => merged(A, e)[i].parts = e.parts
         /\ \A i \in 1..Len(A) : A[i].id # e.id => i \in 1..Len(merged(A, e)) /\ merged(A, e)[i] = A[i]
<1> DEFINE B == merged(A, e)
<1>1. DOMAIN A = 1..Len(A) /\ Len(A) \in Nat
  BY ArtifactFacts
<1>2. CASE e.id \in Ids(A)
  <2>1. \E i \in DOMAIN A : A[i].id = e.id
    BY <1>1, <1>2 DEF Ids
  <2>2. /\ B \in Seq(Artifacts) /\ Len(B) = Len(A)
        /\ \A i \in DOMAIN A :
             /\ A[i].id # e.id => B[i] = A[i]
             /\ A[i].id = e.id => /\ B[i].id = e.id
                                  /\ B[i].parts = IF e.append THEN A[i].parts \o e.parts ELSE e.parts
    BY ONLY <2>1, A \in Seq(Artifacts), e \in Events, MergedFacts
  <2> HIDE DEF B
  <2>3. \A i \in 1..Len(A) : B[i].id = A[i].id
    <3> TAKE i \in 1..Len(A)
    <3>1. CASE A[i].id = e.id
      BY ONLY <1>1, <2>2, <3>1
    <3>2. CASE A[i].id # e.id
      <4>1. B[i] = A[i]
        BY ONLY <1>1, <2>2, <3>2
      <4> QED
        BY ONLY <4>1
    <3> QED
      BY ONLY <3>1, <3>2
  <2>4. Ids(B) = Ids(A) /\ Single(B)
    <3>1. Len(B) = Len(A)
      BY ONLY <2>2
    <3>2. Ids(B) = Ids(A)
      BY ONLY <2>3, <3>1, Zenon DEF Ids
    <3>3. Single(B)
      BY ONLY <2>3, <3>1, Single(A), Zenon DEF Single
    <3> QED
      BY ONLY <3>2, <3>3
  <2>5. \A i \in 1..Len(B) :
          /\ B[i].id # e.id => i \in 1..Len(A) /\ B[i] = A[i]
          /\ B[i].id = e.id => i \in 1..Len(A) /\ A[i].id = e.id /\ B[i].parts = A[i].parts \o e.parts
    BY <1>1, <1>2, <2>2, <2>3
  <2>6. \A i \in 1..Len(A) : A[i].id # e.id => i \in 1..Len(B) /\ B[i] = A[i]
    BY <1>1, <2>2
  <2> QED
    BY <1>2, <2>2, <2>4, <2>5, <2>6 DEF B
<1>3. CASE e.id \notin Ids(A)
  <2>1. \A i \in 1..Len(A) : A[i].id # e.id
    BY <1>3 DEF Ids
  <2>2. ~e.append
    BY <1>3
  <2>3. /\ B \in Seq(Artifacts) /\ Len(B) = Len(A) + 1
        /\ \A i \in 1..Len(A) : B[i] = A[i]
        /\ B[Len(A) + 1].id = e.id
        /\ B[Len(A) + 1].parts = e.parts
    BY ONLY <2>1, <2>2, A \in Seq(Artifacts), e \in Events, MergedNew
  <2> HIDE DEF B
  <2>4. \A i \in 1..Len(B) : i \in 1..Len(A) \/ i = Len(A) + 1
    BY <1>1, <2>3
  <2>5. Single(B)
    BY <2>1, <2>3, <2>4 DEF Single
  <2>6. Ids(B) = Ids(A) \cup {e.id}
    <3>1. \A i \in 1..Len(B) : B[i].id \in Ids(A) \cup {e.id}
      BY <2>3, <2>4 DEF Ids
    <3>2. \A i \in 1..Len(A) : A[i].id \in Ids(B)
      <4>1. \A i \in 1..Len(A) : i \in 1..Len(B) /\ B[i] = A[i]
        BY <1>1, <2>3
      <4> QED
        BY <4>1 DEF Ids
    <3>3. e.id \in Ids(B)
      <4>1. Len(A) + 1 \in 1..Len(B)
        BY <1>1, <2>3
      <4> QED
        BY <2>3, <4>1 DEF Ids
    <3> QED
      BY <3>1, <3>2, <3>3 DEF Ids
  <2>7. \A i \in 1..Len(B) :
          /\ B[i].id # e.id => i \in 1..Len(A) /\ B[i] = A[i]
          /\ B[i].id = e.id => B[i].parts = e.parts
    BY <2>1, <2>3, <2>4
  <2>8. \A i \in 1..Len(A) : i \in 1..Len(B) /\ B[i] = A[i]
    BY <1>1, <2>3
  <2> QED
    BY <1>3, <2>3, <2>5, <2>6, <2>7, <2>8 DEF B
<1> QED
  BY <1>2, <1>3

LEMMA OrderedMore ==
  ASSUME NEW wr \in Seq(Events), NEW ids, NEW started, NEW closed, Ordered(wr, ids, started, closed), 0 \notin ids,
         NEW e \in Events, NEW ids2, ids \subseteq ids2, NEW closed2, closed \subseteq closed2,
         \/ Ending(e)
         \/ /\ e.type = "artifact" /\ Text(e.parts) # <<>> /\ e.id \in ids2 /\ e.id # 0 /\ e.id \notin closed
            /\ ~e.append => e.id \notin started /\ e.id \notin ids
            /\ e.last => e.id \in closed2
  PROVE  Ordered(Append(wr, e), ids2, started, closed2)
<1> DEFINE w2 == Append(wr, e)
           n == Len(wr)
<1>1. n \in Nat /\ Len(w2) = n + 1 /\ w2[n + 1] = e /\ \A i \in 1..n : w2[i] = wr[i]
  BY Appended
<1> HIDE DEF w2, n
<1>2. \A v \in 1..n : wr[v].id \in ids \/ wr[v].id = 0
  BY DEF Ordered, Ending, Placed, n
<1>3. ASSUME NEW w \in 1..n PROVE Ending(w2[w]) \/ Placed(w2, w, ids2, started, closed2)
  <2>1. CASE Ending(wr[w])
    BY <1>1, <2>1
  <2>2. CASE ~Ending(wr[w])
    <3>1. Placed(wr, w, ids, started, closed)
      BY <2>2 DEF Ordered, n
    <3>2. w2[w] = wr[w] /\ \A v \in 1..w - 1 : w2[v] = wr[v]
      BY <1>1
    <3>3. /\ wr[w].type = "artifact" /\ Text(wr[w].parts) # <<>> /\ wr[w].id \in ids
          /\ ~wr[w].append => wr[w].id \notin started /\ \A v \in 1..w - 1 : wr[v].id # wr[w].id
          /\ wr[w].last => wr[w].id \in closed /\ \A v \in w + 1..n : wr[v].id # wr[w].id
      BY <3>1 DEF Placed, n
    <3>4. wr[w].last => e.id # wr[w].id
      BY <3>3 DEF Ending
    <3>5. wr[w].last => \A v \in w + 1..Len(w2) : w2[v].id # wr[w].id
      <4>1. \A v \in w + 1..Len(w2) : v = n + 1 \/ (v \in w + 1..n /\ w2[v] = wr[v])
        BY <1>1
      <4> QED
        BY <1>1, <3>3, <3>4, <4>1
    <3> QED
      BY <3>2, <3>3, <3>5 DEF Placed
  <2> QED
    BY <2>1, <2>2
<1>4. Ending(e) \/ Placed(w2, n + 1, ids2, started, closed2)
  <2>1. CASE ~Ending(e)
    <3>1. ~e.append => \A v \in 1..n : w2[v].id # e.id
      BY <1>1, <1>2, <2>1
    <3>2. (n + 1) - 1 = n /\ (n + 1) + 1..Len(w2) = {}
      BY <1>1
    <3> QED
      BY <1>1, <2>1, <3>1, <3>2 DEF Placed
  <2> QED
    BY <2>1
<1>5. Ordered(w2, ids2, started, closed2)
  <2>1. \A w \in 1..Len(w2) : w \in 1..n \/ w = n + 1
    BY <1>1
  <2> QED
    BY <1>1, <1>3, <1>4, <2>1 DEF Ordered
<1> QED
  BY <1>5 DEF w2

LEMMA OrderedTail ==
  ASSUME NEW wr \in Seq(Events), wr # <<>>, NEW ids, NEW started, NEW closed, Ordered(wr, ids, started, closed),
         NEW started2, started2 \subseteq started \cup {wr[1].id}
  PROVE  Ordered(Tail(wr), ids, started2, closed)
<1> DEFINE w2 == Tail(wr)
<1>1. /\ Len(w2) = Len(wr) - 1 /\ Len(wr) \in Nat /\ Len(wr) > 0
      /\ \A i \in 1..(Len(wr) - 1) : w2[i] = wr[i + 1]
  OBVIOUS
<1> HIDE DEF w2
<1>2. ASSUME NEW w \in 1..Len(w2) PROVE Ending(w2[w]) \/ Placed(w2, w, ids, started2, closed)
  <2>1. w + 1 \in 1..Len(wr) /\ w2[w] = wr[w + 1]
    BY <1>1
  <2>2. CASE Ending(wr[w + 1])
    BY <2>1, <2>2
  <2>3. CASE ~Ending(wr[w + 1])
    <3> DEFINE x == wr[w + 1]
    <3>1. Placed(wr, w + 1, ids, started, closed)
      BY <2>1, <2>3 DEF Ordered
    <3>2. /\ x.type = "artifact" /\ Text(x.parts) # <<>> /\ x.id \in ids
          /\ ~x.append => x.id \notin started /\ \A v \in 1..(w + 1) - 1 : wr[v].id # x.id
          /\ x.last => x.id \in closed /\ \A v \in (w + 1) + 1..Len(wr) : wr[v].id # x.id
      BY <3>1 DEF Placed
    <3> HIDE DEF x
    <3>3. ~x.append => x.id \notin started2 /\ \A v \in 1..w - 1 : w2[v].id # x.id
      <4>1. 1 \in 1..(w + 1) - 1
        BY <2>1
      <4>2. \A v \in 1..w - 1 : v + 1 \in 1..(w + 1) - 1 /\ w2[v] = wr[v + 1]
        BY <1>1
      <4> QED
        BY <3>2, <4>1, <4>2
    <3>4. x.last => \A v \in w + 1..Len(w2) : w2[v].id # x.id
      <4>1. \A v \in w + 1..Len(w2) : v + 1 \in (w + 1) + 1..Len(wr) /\ w2[v] = wr[v + 1]
        BY <1>1
      <4> QED
        BY <3>2, <4>1
    <3>5. w2[w] = x
      BY <2>1 DEF x
    <3> QED
      BY <3>2, <3>3, <3>4, <3>5 DEF Placed
  <2> QED
    BY <2>2, <2>3
<1>3. Ordered(w2, ids, started2, closed)
  BY <1>2 DEF Ordered
<1> QED
  BY <1>3 DEF w2

(* The buffers after a message.                                            *)
LEMMA BufferFacts ==
  ASSUME TypeOK, Receive
  PROVE  LET e == Head(wire)
         IN  /\ e.type # "artifact" => buffers' = buffers
             /\ e.type = "artifact" =>
                  /\ DOMAIN buffers' \subseteq DOMAIN buffers \cup {e.id}
                  /\ ~e.last => e.id \in DOMAIN buffers' /\ buffers'[e.id] = Buffered(e)
                  /\ \A i : i # e.id => /\ i \in DOMAIN buffers' <=> i \in DOMAIN buffers
                                        /\ i \in DOMAIN buffers => buffers'[i] = buffers[i]
<1> DEFINE e == Head(wire)
           D == (DOMAIN buffers \cup {e.id}) \ (IF e.last THEN {e.id} ELSE {})
           b(i) == IF i = e.id THEN Buffered(e) ELSE buffers[i]
<1>1. buffers' = buffers_after(e)
  BY DEF Receive
<1>2. CASE e.type # "artifact"
  BY <1>1, <1>2 DEF buffers_after
<1>3. CASE e.type = "artifact"
  <2>1. buffers' = [i \in D |-> b(i)]
    BY <1>1, <1>3 DEF buffers_after
  <2>2. DOMAIN buffers' = D /\ \A i \in D : buffers'[i] = b(i)
    BY <2>1
  <2> HIDE DEF e
  <2>3. DOMAIN buffers' \subseteq DOMAIN buffers \cup {e.id}
    BY <2>2
  <2>4. ~e.last => e.id \in DOMAIN buffers' /\ buffers'[e.id] = Buffered(e)
    BY <2>2
  <2>5. \A i : i # e.id => /\ i \in DOMAIN buffers' <=> i \in DOMAIN buffers
                           /\ i \in DOMAIN buffers => buffers'[i] = buffers[i]
    BY <2>2
  <2> QED
    BY <1>3, <2>3, <2>4, <2>5 DEF e
<1> QED
  BY <1>2, <1>3

(* The steps beside an agent that streams in pieces.                       *)
LEMMA ChunkSteps ==
  ASSUME TypeOK, Phases, Move, world.agent = "chunks"
  PROVE  \/ \E e : Adds(e)
         \/ \E s \in States : /\ Tells(s, <<>>) /\ wire' = Append(wire, Status(s, <<>>)) /\ store'.arts = store.arts
                              /\ pc \notin TASK_RESPONSE_BOUNDARY_STATES
                              /\ UNCHANGED <<world, todo, buffers, result, node>>
         \/ Receive \/ Cut \/ RemoteEnds \/ UNCHANGED vars
<1> USE DEF TASK_RESPONSE_BOUNDARY_STATES, FAILURE_STATES, PAUSE_STATES
<1>1. world.route = "stream"
  BY RouteFacts
<1>2. ASSUME NEW s \in States, NEW ps \in Seq(Parts), Tells(s, ps)
      PROVE  /\ ps = <<>> /\ wire' = Append(wire, Status(s, ps)) /\ store'.arts = store.arts
             /\ pc \notin TASK_RESPONSE_BOUNDARY_STATES
             /\ UNCHANGED <<world, todo, buffers, result, node>>
  BY ONLY TypeOK, Phases, <1>1, <1>2, world.agent = "chunks", TellsFacts
<1>3. ~(\E ps \in Seq(Parts), a \in BOOLEAN : Streams(ps, a)) /\ ~Closes /\ ~Answers /\ ~Stops /\ ~Asks /\ ~Requests
  BY Zenon DEF Streams, Closes, Answers, Stops, Asks, Requests
<1>4. ~Snapped /\ ~OtherMessage /\ ~Process /\ ~LocalEnds
  BY <1>1 DEF Snapped, OtherTask, OtherMessage, Process, LocalEnds
<1>5. Chunked => \E e : Adds(e)
  BY AddsFacts
<1>6. (\E s \in States, ps \in Seq(Parts) : Tells(s, ps)) =>
        \E s \in States : /\ Tells(s, <<>>) /\ wire' = Append(wire, Status(s, <<>>)) /\ store'.arts = store.arts
                          /\ pc \notin TASK_RESPONSE_BOUNDARY_STATES
                          /\ UNCHANGED <<world, todo, buffers, result, node>>
  BY <1>2, Zenon
<1> QED
  BY <1>3, <1>4, <1>5, <1>6, Zenon DEF Move

LEMMA ChunksStep ==
  ASSUME TypeOK, Phases, Chunks, Move
  PROVE  Chunks'
<1> DEFINE C(wr, A, started, td) ==
             /\ wr \in Seq(Events) /\ Single(A) /\ 0 \notin Ids(A) /\ started \subseteq Ids(A)
             /\ Ordered(wr, Ids(A), started, Elems(td))
           goal == C(wire', store'.arts, DOMAIN buffers', todo')
<1>1. world.agent = "chunks" => C(wire, store.arts, DOMAIN buffers, todo)
  BY DEF Chunks, Single
<1>2. world' = world
  BY AgentMoves
<1>3. Chunks' <=> (world.agent = "chunks" => goal)
  BY <1>2, Zenon DEF Chunks, Single, Ids, Ordered, Ending, Placed, Text, Of, Elems
<1> SUFFICES ASSUME world.agent = "chunks" PROVE goal
  BY <1>3
<1>4. /\ wire \in Seq(Events) /\ Single(store.arts) /\ 0 \notin Ids(store.arts)
      /\ DOMAIN buffers \subseteq Ids(store.arts)
      /\ Ordered(wire, Ids(store.arts), DOMAIN buffers, Elems(todo))
  BY <1>1
<1>5. store.arts \in Seq(Artifacts) /\ todo \in Seq(Nat)
  BY RouteFacts
<1>6. ASSUME NEW e, Adds(e) PROVE goal
  <2> DEFINE A == store.arts
             B == merged(A, e)
  <2>1. /\ e \in Events /\ e.type = "artifact" /\ e.id # 0 /\ e.id \notin Elems(todo) /\ Text(e.parts) # <<>>
        /\ e.append <=> e.id \in Ids(A)
        /\ todo' = IF e.last THEN Append(todo, e.id) ELSE todo
        /\ store'.arts = B /\ wire' = Append(wire, e) /\ buffers' = buffers
    BY <1>6 DEF Adds
  <2>2. Single(B) /\ Ids(B) = Ids(A) \cup {e.id}
    BY ONLY <1>4, <1>5, <2>1, Added
  <2>3. Elems(todo) \subseteq Elems(todo') /\ (e.last => e.id \in Elems(todo'))
    <3>1. CASE e.last
      <4>1. e.id \in Nat
        BY <2>1 DEF Events
      <4>2. /\ todo' = Append(todo, e.id) /\ DOMAIN todo' = 1..(Len(todo) + 1) /\ DOMAIN todo = 1..Len(todo)
            /\ Len(todo) \in Nat
            /\ \A i \in 1..Len(todo) : todo'[i] = todo[i]
            /\ todo'[Len(todo) + 1] = e.id
        <5>1. todo' = Append(todo, e.id)
          BY <2>1, <3>1
        <5> QED
          BY ONLY <1>5, <4>1, <5>1, Appended
      <4>3. Len(todo) + 1 \in DOMAIN todo' /\ \A i \in DOMAIN todo : i \in DOMAIN todo' /\ todo'[i] = todo[i]
        BY <4>2
      <4> QED
        BY <4>2, <4>3 DEF Elems
    <3>2. CASE ~e.last
      BY <2>1, <3>2
    <3> QED
      BY <3>1, <3>2
  <2> HIDE DEF A, B
  <2>4. Ordered(Append(wire, e), Ids(B), DOMAIN buffers, Elems(todo'))
    <3>1. /\ wire \in Seq(Events) /\ Ordered(wire, Ids(A), DOMAIN buffers, Elems(todo)) /\ 0 \notin Ids(A)
          /\ Ids(A) \subseteq Ids(B) /\ e.id \in Ids(B)
          /\ ~e.append => e.id \notin DOMAIN buffers /\ e.id \notin Ids(A)
      BY <1>4, <2>1, <2>2 DEF A
    <3> QED
      BY ONLY <2>1, <2>3, <3>1, OrderedMore
  <2>5. Append(wire, e) \in Seq(Events)
    BY <1>4, <2>1
  <2> QED
    BY <1>4, <2>1, <2>2, <2>4, <2>5 DEF A
<1>7. ASSUME NEW s \in States, wire' = Append(wire, Status(s, <<>>)), store'.arts = store.arts,
             UNCHANGED <<world, todo, buffers, result, node>>
      PROVE  goal
  <2> DEFINE u == Status(s, <<>>)
  <2>1. u \in Events /\ Ending(u)
    <3>1. <<>> \in Seq(Parts)
      OBVIOUS
    <3>2. u \in Events
      BY ONLY <3>1, s \in States, StatusFacts
    <3>3. u.type = "status" /\ u.parts = <<>> /\ u.id = 0 /\ u.last = FALSE
      BY DEF Status, Event
    <3> QED
      BY <3>2, <3>3 DEF Ending
  <2> HIDE DEF u
  <2>2. Ordered(Append(wire, u), Ids(store.arts), DOMAIN buffers, Elems(todo))
    BY ONLY <1>4, <2>1, OrderedMore
  <2>3. Append(wire, u) \in Seq(Events)
    BY <1>4, <2>1
  <2> QED
    BY <1>4, <1>7, <2>2, <2>3 DEF u
<1>8. ASSUME Receive PROVE goal
  <2> DEFINE e == Head(wire)
  <2>1. wire # <<>> /\ e = wire[1] /\ wire' = Tail(wire)
    BY <1>8, ReceiveFacts
  <2>2. UNCHANGED <<store, todo>>
    BY <1>8 DEF Receive, agentVars
  <2>3. /\ e.type # "artifact" => buffers' = buffers
        /\ e.type = "artifact" => DOMAIN buffers' \subseteq DOMAIN buffers \cup {e.id}
    BY <1>8, BufferFacts
  <2> HIDE DEF e
  <2>4. DOMAIN buffers' \subseteq DOMAIN buffers \cup {wire[1].id}
    BY <2>1, <2>3
  <2>5. Ordered(Tail(wire), Ids(store.arts), DOMAIN buffers', Elems(todo))
    BY ONLY <1>4, <2>1, <2>4, OrderedTail
  <2>6. DOMAIN buffers' \subseteq Ids(store.arts)
    <3>1. 1 \in 1..Len(wire)
      BY <1>4, <2>1
    <3>2. e.type = "artifact" => e.id \in Ids(store.arts)
      BY <1>4, <2>1, <3>1 DEF Ordered, Ending, Placed
    <3> QED
      BY <1>4, <2>3, <3>2
  <2>7. Tail(wire) \in Seq(Events)
    BY <1>4, <2>1
  <2> QED
    BY <1>4, <2>1, <2>2, <2>5, <2>6, <2>7
<1>9. ASSUME buffers' = <<>> \/ buffers' = buffers, UNCHANGED <<store, wire, todo>> PROVE goal
  <2>1. DOMAIN buffers' \subseteq DOMAIN buffers
    BY <1>9
  <2>2. Ordered(wire, Ids(store.arts), DOMAIN buffers', Elems(todo))
    BY <1>4, <2>1 DEF Ordered, Placed
  <2> QED
    BY <1>4, <1>9, <2>1, <2>2
<1>10. ASSUME Cut \/ RemoteEnds \/ UNCHANGED vars PROVE goal
  <2>1. (buffers' = <<>> \/ buffers' = buffers) /\ UNCHANGED <<store, wire, todo>>
    BY <1>10 DEF Cut, RemoteEnds, vars, agentVars
  <2> HIDE DEF goal
  <2> QED
    BY <1>9, <2>1
<1> HIDE DEF goal
<1>11. \/ \E e : Adds(e)
       \/ \E s \in States : /\ wire' = Append(wire, Status(s, <<>>)) /\ store'.arts = store.arts
                            /\ UNCHANGED <<world, todo, buffers, result, node>>
       \/ Receive \/ (Cut \/ RemoteEnds \/ UNCHANGED vars)
  BY ChunkSteps, Zenon
<1> QED
  BY <1>6, <1>7, <1>8, <1>10, <1>11, Zenon

(***************************************************************************)
(* What the node gathers of an artifact.                                   *)
(***************************************************************************)
Brought(wr, id) == [w \in DOMAIN wr |-> IF wr[w].id = id THEN wr[w].parts ELSE <<>>]

LEMMA BroughtFacts ==
  ASSUME NEW wr \in Seq(Events), NEW id
  PROVE  /\ Brought(wr, id) \in Lists(Parts) /\ Len(Brought(wr, id)) = Len(wr)
         /\ Coming(wr, id) = Flat(Brought(wr, id)) /\ Coming(wr, id) \in Seq(Parts)
         /\ \A w \in 1..Len(wr) : Brought(wr, id)[w] = IF wr[w].id = id THEN wr[w].parts ELSE <<>>
<1> DEFINE L == Brought(wr, id)
<1>1. DOMAIN wr = 1..Len(wr) /\ Len(wr) \in Nat /\ \A w \in 1..Len(wr) : wr[w] \in Events
  OBVIOUS
<1>2. \A w \in 1..Len(wr) : wr[w].parts \in Seq(Parts)
  BY <1>1 DEF Events
<1>3. \A w \in 1..Len(wr) : (IF wr[w].id = id THEN wr[w].parts ELSE <<>>) \in Seq(Parts)
  BY <1>2
<1>4. L \in [1..Len(wr) -> Seq(Parts)]
  BY <1>1, <1>3 DEF Brought
<1>5. \A w \in 1..Len(wr) : L[w] = IF wr[w].id = id THEN wr[w].parts ELSE <<>>
  BY <1>1 DEF Brought
<1> HIDE DEF L
<1>6. L \in Lists(Parts) /\ Len(L) = Len(wr)
  BY <1>1, <1>4 DEF Lists
<1>7. Flat(L) \in Seq(Parts)
  BY ONLY <1>6, FlatType
<1>8. Coming(wr, id) = Flat(Brought(wr, id))
  BY DEF Coming, Brought
<1> QED
  BY <1>5, <1>6, <1>7, <1>8 DEF L

LEMMA ComingMore ==
  ASSUME NEW wr \in Seq(Events), NEW e \in Events, NEW id
  PROVE  Coming(Append(wr, e), id) = Coming(wr, id) \o (IF e.id = id THEN e.parts ELSE <<>>)
<1> DEFINE w2 == Append(wr, e)
           L == Brought(wr, id)
           M == Brought(w2, id)
           x == IF e.id = id THEN e.parts ELSE <<>>
<1>1. /\ w2 \in Seq(Events) /\ Len(w2) = Len(wr) + 1 /\ Len(wr) \in Nat /\ w2[Len(wr) + 1] = e
      /\ \A i \in 1..Len(wr) : w2[i] = wr[i]
  BY Appended
<1> HIDE DEF w2
<1>2. /\ L \in Lists(Parts) /\ Len(L) = Len(wr) /\ Coming(wr, id) = Flat(L)
      /\ \A w \in 1..Len(wr) : L[w] = IF wr[w].id = id THEN wr[w].parts ELSE <<>>
  BY BroughtFacts
<1>3. /\ M \in Lists(Parts) /\ Len(M) = Len(w2) /\ Coming(w2, id) = Flat(M)
      /\ \A w \in 1..Len(w2) : M[w] = IF w2[w].id = id THEN w2[w].parts ELSE <<>>
  BY ONLY <1>1, BroughtFacts
<1>4. x \in Seq(Parts)
  BY DEF Events
<1> HIDE DEF L, M
<1>5. M = Append(L, x)
  <2>1. /\ L \in Seq(Seq(Parts)) /\ M \in Seq(Seq(Parts))
    BY <1>2, <1>3 DEF Lists
  <2>2. \A i \in 1..Len(L) : M[i] = L[i]
    BY <1>1, <1>2, <1>3
  <2>3. M[Len(L) + 1] = x
    BY <1>1, <1>2, <1>3
  <2>4. Len(M) = Len(L) + 1
    BY <1>1, <1>2, <1>3
  <2> HIDE DEF x
  <2> DEFINE N == Append(L, x)
  <2>5. N \in Seq(Seq(Parts)) /\ Len(N) = Len(L) + 1 /\ N[Len(L) + 1] = x /\ Len(L) \in Nat
        /\ \A i \in 1..Len(L) : N[i] = L[i]
    BY <1>4, <2>1, Appended
  <2> HIDE DEF N
  <2>6. Len(M) = Len(N) /\ \A i \in 1..Len(M) : M[i] = N[i]
    <3>1. \A i \in 1..Len(M) : i \in 1..Len(L) \/ i = Len(L) + 1
      BY ONLY <2>4, <2>5
    <3> QED
      BY ONLY <2>2, <2>3, <2>4, <2>5, <3>1
  <2>7. M = N
    BY ONLY <2>1, <2>5, <2>6, SameSeq
  <2> QED
    BY <2>7 DEF N
<1>6. Flat(Append(L, x)) = Flat(L) \o x
  BY ONLY <1>2, <1>4, FlatAppend
<1>7. Coming(w2, id) = Coming(wr, id) \o x
  BY ONLY <1>2, <1>3, <1>5, <1>6
<1> QED
  BY <1>7 DEF w2, x

LEMMA ComingHead ==
  ASSUME NEW wr \in Seq(Events), wr # <<>>, NEW id
  PROVE  /\ Coming(wr, id) = (IF wr[1].id = id THEN wr[1].parts ELSE <<>>) \o Coming(Tail(wr), id)
         /\ Coming(Tail(wr), id) \in Seq(Parts)
<1> DEFINE w2 == Tail(wr)
           L == Brought(wr, id)
           M == Brought(w2, id)
<1>1. /\ w2 \in Seq(Events) /\ Len(w2) = Len(wr) - 1 /\ Len(wr) \in Nat /\ Len(wr) > 0
      /\ \A i \in 1..(Len(wr) - 1) : w2[i] = wr[i + 1]
  OBVIOUS
<1> HIDE DEF w2
<1>2. /\ L \in Lists(Parts) /\ Len(L) = Len(wr) /\ Coming(wr, id) = Flat(L)
      /\ \A w \in 1..Len(wr) : L[w] = IF wr[w].id = id THEN wr[w].parts ELSE <<>>
  BY BroughtFacts
<1>3. /\ M \in Lists(Parts) /\ Len(M) = Len(w2) /\ Coming(w2, id) = Flat(M) /\ Coming(w2, id) \in Seq(Parts)
      /\ \A w \in 1..Len(w2) : M[w] = IF w2[w].id = id THEN w2[w].parts ELSE <<>>
  BY ONLY <1>1, BroughtFacts
<1> HIDE DEF L, M
<1>4. L # <<>> /\ 1 \in 1..Len(wr)
  BY <1>1, <1>2
<1>5. Head(L) = L[1] /\ Tail(L) \in Lists(Parts)
  BY ONLY <1>2, <1>4, ListsFacts
<1>6. Tail(L) = M
  <2>1. L \in Seq(Seq(Parts)) /\ M \in Seq(Seq(Parts)) /\ Tail(L) \in Seq(Seq(Parts))
    BY <1>2, <1>3, <1>5 DEF Lists
  <2>2. Len(Tail(L)) = Len(L) - 1 /\ \A i \in 1..(Len(L) - 1) : Tail(L)[i] = L[i + 1]
    BY <1>4, <2>1
  <2>3. Len(Tail(L)) = Len(M)
    BY <1>1, <1>2, <1>3, <2>2
  <2>4. ASSUME NEW i \in 1..Len(M) PROVE Tail(L)[i] = M[i]
    <3>1. i \in 1..(Len(L) - 1) /\ i + 1 \in 1..Len(wr) /\ i \in 1..Len(w2) /\ i \in 1..(Len(wr) - 1)
      BY <1>1, <1>2, <1>3
    <3> QED
      BY <1>1, <1>2, <1>3, <2>2, <3>1
  <2> QED
    BY ONLY <2>1, <2>3, <2>4, SameSeq
<1>7. Flat(L) = Head(L) \o Flat(Tail(L))
  BY ONLY <1>2, <1>4, FlatFirst
<1>8. Coming(wr, id) = L[1] \o Coming(w2, id)
  BY ONLY <1>2, <1>3, <1>5, <1>6, <1>7
<1>9. L[1] = IF wr[1].id = id THEN wr[1].parts ELSE <<>>
  BY <1>2, <1>4
<1> QED
  BY <1>3, <1>8, <1>9 DEF w2

LEMMA ComingNone ==
  ASSUME NEW wr \in Seq(Events), NEW id, \A w \in 1..Len(wr) : wr[w].id # id
  PROVE  Coming(wr, id) = <<>>
<1> DEFINE L == Brought(wr, id)
<1>1. /\ L \in Lists(Parts) /\ Len(L) = Len(wr) /\ Coming(wr, id) = Flat(L)
      /\ \A w \in 1..Len(wr) : L[w] = IF wr[w].id = id THEN wr[w].parts ELSE <<>>
  BY BroughtFacts
<1> HIDE DEF L
<1>2. \A i \in DOMAIN L : L[i] = <<>>
  <2>1. DOMAIN L = 1..Len(L)
    BY ONLY <1>1, ListsFacts
  <2> QED
    BY <1>1, <2>1
<1>3. Flat(L) = <<>>
  BY ONLY <1>1, <1>2, FlatEmpty
<1> QED
  BY <1>1, <1>3

LEMMA FirstClosesMore ==
  ASSUME NEW wr \in Seq(Events), NEW e \in Events, NEW td \in Seq(Nat), FirstCloses(wr, td)
  PROVE  FirstCloses(Append(wr, e), IF e.last THEN Append(td, e.id) ELSE td)
<1> DEFINE w2 == Append(wr, e)
           t2 == IF e.last THEN Append(td, e.id) ELSE td
           n == Len(wr)
<1>1. n \in Nat /\ Len(w2) = n + 1 /\ w2[n + 1] = e /\ \A i \in 1..n : w2[i] = wr[i]
  BY Appended
<1>2. e.id \in Nat
  BY DEF Events
<1>3. td # <<>> => t2 # <<>> /\ t2[1] = td[1]
  <2>1. ASSUME td # <<>> PROVE Append(td, e.id) # <<>> /\ Append(td, e.id)[1] = td[1]
    <3>1. /\ Append(td, e.id) # <<>> /\ Len(td) \in Nat
          /\ \A i \in 1..Len(td) : Append(td, e.id)[i] = td[i]
      BY ONLY td \in Seq(Nat), <1>2
    <3>2. 1 \in 1..Len(td)
      BY <2>1
    <3> QED
      BY <3>1, <3>2
  <2> QED
    BY <2>1
<1>4. td = <<>> /\ e.last => t2 # <<>> /\ t2[1] = e.id
  BY <1>2
<1>5. t2 # <<>> => td # <<>> \/ e.last
  OBVIOUS
<1> HIDE DEF w2, t2, n
<1>6. /\ td # <<>> => \E w \in 1..n : wr[w].last
      /\ \A w \in 1..n : wr[w].last /\ (\A v \in 1..w - 1 : ~wr[v].last) => td # <<>> /\ wr[w].id = td[1]
  BY DEF FirstCloses, n
<1>7. t2 # <<>> => \E w \in 1..Len(w2) : w2[w].last
  <2>1. CASE e.last
    <3>1. n + 1 \in 1..Len(w2)
      BY <1>1
    <3> QED
      BY <1>1, <2>1, <3>1
  <2>2. CASE td # <<>>
    <3>1. PICK w \in 1..n : wr[w].last
      BY <1>6, <2>2
    <3>2. w \in 1..Len(w2) /\ w2[w] = wr[w]
      BY <1>1
    <3> QED
      BY <3>1, <3>2
  <2> QED
    BY <1>5, <2>1, <2>2
<1>8. ASSUME NEW w \in 1..Len(w2), w2[w].last, \A v \in 1..w - 1 : ~w2[v].last
      PROVE  t2 # <<>> /\ w2[w].id = t2[1]
  <2>1. CASE w \in 1..n
    <3>1. w2[w] = wr[w] /\ \A v \in 1..w - 1 : w2[v] = wr[v]
      BY <1>1, <2>1
    <3>2. td # <<>> /\ wr[w].id = td[1]
      BY <1>6, <1>8, <2>1, <3>1
    <3> QED
      BY <1>3, <3>1, <3>2
  <2>2. CASE w = n + 1
    <3>1. \A v \in 1..n : v \in 1..w - 1 /\ w2[v] = wr[v]
      BY <1>1, <2>2
    <3>2. \A v \in 1..n : ~wr[v].last
      BY <1>8, <3>1
    <3>3. td = <<>>
      BY <1>6, <3>2
    <3> QED
      BY <1>1, <1>4, <1>8, <2>2, <3>3
  <2> QED
    BY <1>1, <2>1, <2>2
<1>9. FirstCloses(w2, t2)
  BY <1>7, <1>8 DEF FirstCloses
<1> QED
  BY <1>9 DEF w2, t2

LEMMA FirstClosesTail ==
  ASSUME NEW wr \in Seq(Events), wr # <<>>, ~wr[1].last, NEW td, FirstCloses(wr, td)
  PROVE  FirstCloses(Tail(wr), td)
<1> DEFINE w2 == Tail(wr)
<1>1. /\ Len(w2) = Len(wr) - 1 /\ Len(wr) \in Nat /\ Len(wr) > 0
      /\ \A i \in 1..(Len(wr) - 1) : w2[i] = wr[i + 1]
  OBVIOUS
<1> HIDE DEF w2
<1>2. ASSUME td # <<>> PROVE \E w \in 1..Len(w2) : w2[w].last
  <2>1. PICK w \in 1..Len(wr) : wr[w].last
    BY <1>2 DEF FirstCloses
  <2>2. w # 1
    BY <2>1
  <2>3. w - 1 \in 1..Len(w2) /\ w2[w - 1] = wr[w]
    BY <1>1, <2>2
  <2> QED
    BY <2>1, <2>3
<1>3. ASSUME NEW w \in 1..Len(w2), w2[w].last, \A v \in 1..w - 1 : ~w2[v].last
      PROVE  td # <<>> /\ w2[w].id = td[1]
  <2>1. w + 1 \in 1..Len(wr) /\ wr[w + 1] = w2[w]
    BY <1>1
  <2>2. ASSUME NEW v \in 1..(w + 1) - 1 PROVE ~wr[v].last
    <3>1. CASE v = 1
      BY <3>1
    <3>2. CASE v # 1
      <4>1. v - 1 \in 1..w - 1 /\ w2[v - 1] = wr[v]
        BY <1>1, <3>2
      <4> QED
        BY <1>3, <4>1
    <3> QED
      BY <3>1, <3>2
  <2> QED
    BY <1>3, <2>1, <2>2 DEF FirstCloses
<1>4. FirstCloses(w2, td)
  BY <1>2, <1>3 DEF FirstCloses
<1> QED
  BY <1>4 DEF w2

LEMMA PartsAssociative == \A a, b, c \in Seq(Parts) : (a \o b) \o c = a \o (b \o c)
BY ConcatAssociative

(* A piece is added to the store and to what the wire brings.              *)
LEMMA GatheredMore ==
  ASSUME NEW A \in Seq(Artifacts), NEW e \in Events, Single(A), e.append <=> e.id \in Ids(A),
         NEW wr \in Seq(Events), NEW bf, DOMAIN bf \subseteq Ids(A),
         \A i \in DOMAIN bf : bf[i] \in Seq(Parts),
         e.id # 0, \A w \in 1..Len(wr) : wr[w].id \in Ids(A) \cup {0},
         Gathered(A, bf, wr)
  PROVE  Gathered(merged(A, e), bf, Append(wr, e))
<1> DEFINE B == merged(A, e)
           w2 == Append(wr, e)
<1>1. /\ Ids(B) = Ids(A) \cup {e.id}
      /\ \A i \in 1..Len(B) :
              /\ B[i].id # e.id => i \in 1..Len(A) /\ B[i] = A[i]
              /\ B[i].id = e.id /\ e.id \in Ids(A) =>
                   i \in 1..Len(A) /\ A[i].id = e.id /\ B[i].parts = A[i].parts \o e.parts
              /\ B[i].id = e.id /\ e.id \notin Ids(A) => B[i].parts = e.parts
  BY ONLY A \in Seq(Artifacts), e \in Events, Single(A), e.append <=> e.id \in Ids(A), Added
<1> HIDE DEF B
<1>2. e.parts \in Seq(Parts)
  BY DEF Events
<1>3. \A id : /\ Coming(w2, id) = Coming(wr, id) \o (IF e.id = id THEN e.parts ELSE <<>>)
              /\ Coming(wr, id) \in Seq(Parts)
  <2> TAKE id
  <2>1. Coming(wr, id) \in Seq(Parts)
    BY BroughtFacts
  <2> QED
    BY <2>1, ComingMore
<1> HIDE DEF w2
<1>4. \A id : Come(bf, id) \in Seq(Parts)
  <2>1. <<>> \in Seq(Parts)
    OBVIOUS
  <2> QED
    BY <2>1 DEF Come
<1>5. ASSUME NEW i \in 1..Len(B) PROVE B[i].parts = Come(bf, B[i].id) \o Coming(w2, B[i].id)
  <2> DEFINE id == B[i].id
             x == Come(bf, id)
             y == Coming(wr, id)
  <2>1. x \in Seq(Parts) /\ y \in Seq(Parts) /\ Coming(w2, id) = y \o (IF e.id = id THEN e.parts ELSE <<>>)
    BY <1>3, <1>4
  <2>2. CASE id # e.id
    <3>1. B[i].parts = x \o y
      BY <1>1, <2>2 DEF Gathered
    <3>2. y \o <<>> = y
      BY ONLY <2>1
    <3> QED
      BY <2>1, <2>2, <3>1, <3>2
  <2>3. CASE id = e.id /\ e.id \in Ids(A)
    <3>1. i \in 1..Len(A) /\ A[i].id = id /\ B[i].parts = A[i].parts \o e.parts
      BY <1>1, <2>3
    <3>2. A[i].parts = x \o y
      BY <3>1 DEF Gathered
    <3> HIDE DEF x, y
    <3>3. (x \o y) \o e.parts = x \o (y \o e.parts)
      BY <1>2, <2>1, PartsAssociative, Zenon
    <3>4. Coming(w2, id) = y \o e.parts
      BY <2>1, <2>3
    <3> HIDE DEF id
    <3>5. B[i].parts = x \o Coming(w2, id)
      BY <3>1, <3>2, <3>3, <3>4
    <3> QED
      BY <3>5 DEF x, id
  <2>4. CASE id = e.id /\ e.id \notin Ids(A)
    <3>1. B[i].parts = e.parts
      BY <1>1, <2>4
    <3>2. x = <<>>
      BY <2>4 DEF Come
    <3>3. y = <<>>
      <4>1. \A w \in 1..Len(wr) : wr[w].id # id
        BY <2>4
      <4> QED
        BY ONLY wr \in Seq(Events), <4>1, ComingNone
    <3>4. <<>> \o (<<>> \o e.parts) = e.parts
      BY ONLY <1>2
    <3> QED
      BY <2>1, <2>4, <3>1, <3>2, <3>3, <3>4
  <2> QED
    BY <2>2, <2>3, <2>4
<1>6. Gathered(B, bf, w2)
  BY <1>5 DEF Gathered
<1> QED
  BY <1>6 DEF B, w2

(* A piece is taken from the wire and kept.                                *)
LEMMA GatheredTail ==
  ASSUME NEW A \in Seq(Artifacts), NEW wr \in Seq(Events), wr # <<>>, NEW bf, NEW bf2,
         \A id \in Ids(A) : Come(bf, id) \in Seq(Parts),
         \A id \in Ids(A) : Come(bf2, id) = Come(bf, id) \o (IF wr[1].id = id THEN wr[1].parts ELSE <<>>),
         Gathered(A, bf, wr)
  PROVE  Gathered(A, bf2, Tail(wr))
<1>1. wr[1].parts \in Seq(Parts)
  <2>1. wr[1] \in Events
    OBVIOUS
  <2> QED
    BY <2>1 DEF Events
<1>2. ASSUME NEW i \in 1..Len(A) PROVE A[i].parts = Come(bf2, A[i].id) \o Coming(Tail(wr), A[i].id)
  <2> DEFINE id == A[i].id
             x == Come(bf, id)
             y == IF wr[1].id = id THEN wr[1].parts ELSE <<>>
             z == Coming(Tail(wr), id)
  <2>1. id \in Ids(A)
    BY DEF Ids
  <2>2. A[i].parts = x \o Coming(wr, id)
    BY DEF Gathered
  <2>3. Come(bf2, id) = x \o y /\ x \in Seq(Parts)
    BY <2>1
  <2>4. y \in Seq(Parts)
    BY <1>1
  <2> HIDE DEF id
  <2>5. Coming(wr, id) = y \o z /\ z \in Seq(Parts)
    BY ComingHead
  <2> HIDE DEF x, y, z
  <2>6. (x \o y) \o z = x \o (y \o z)
    BY <2>3, <2>4, <2>5, PartsAssociative, Zenon
  <2>7. A[i].parts = Come(bf2, id) \o z
    BY <2>2, <2>3, <2>5, <2>6
  <2> QED
    BY <2>7 DEF id, z
<1> QED
  BY <1>2 DEF Gathered

(* The last piece of the first artifact that is closed.                    *)
EndsPiece(A, wr, bf) ==
  /\ wr # <<>> /\ wr[1].last /\ wr[1].id \in Ids(A)
  /\ \A id \in Ids(A) : Come(bf, id) \in Seq(Parts)
  /\ \A v \in 2..Len(wr) : wr[v].id # wr[1].id
EndsFirst(A, wr, bf, td) ==
  /\ td # <<>> /\ wr[1].id = td[1]
  /\ \E i \in 1..Len(A) : A[i].id = td[1] /\ A[i].parts = Come(bf, wr[1].id) \o wr[1].parts

LEMMA FirstClosed ==
  ASSUME NEW A \in Seq(Artifacts), NEW wr \in Seq(Events), NEW bf, NEW td,
         EndsPiece(A, wr, bf), Gathered(A, bf, wr), FirstCloses(wr, td)
  PROVE  EndsFirst(A, wr, bf, td)
<1> USE DEF EndsPiece, EndsFirst
<1>1. Len(wr) \in Nat /\ 1 \in 1..Len(wr) /\ wr[1] \in Events
  OBVIOUS
<1>2. wr[1].parts \in Seq(Parts)
  BY <1>1 DEF Events
<1>3. td # <<>> /\ wr[1].id = td[1]
  BY <1>1 DEF FirstCloses
<1>4. PICK i \in 1..Len(A) : A[i].id = wr[1].id
  BY DEF Ids
<1> DEFINE id == wr[1].id
           x == Come(bf, id)
           w2 == Tail(wr)
<1>5. A[i].parts = x \o Coming(wr, id)
  BY <1>4 DEF Gathered
<1>6. x \in Seq(Parts)
  OBVIOUS
<1>7. w2 \in Seq(Events) /\ \A w \in 1..Len(w2) : w + 1 \in 2..Len(wr) /\ w2[w] = wr[w + 1]
  BY <1>1
<1>8. \A w \in 1..Len(w2) : w2[w].id # id
  BY <1>7
<1> HIDE DEF w2
<1>9. Coming(w2, id) = <<>>
  BY ONLY <1>7, <1>8, ComingNone
<1>10. Coming(wr, id) = wr[1].parts \o Coming(w2, id)
  BY ComingHead DEF w2
<1> HIDE DEF id, x
<1>11. wr[1].parts \o <<>> = wr[1].parts
  BY ONLY <1>2
<1>12. A[i].parts = x \o wr[1].parts
  BY <1>5, <1>9, <1>10, <1>11
<1> QED
  BY <1>3, <1>4, <1>12 DEF x, id

(* What the node makes of a message of an agent that streams in pieces.    *)
LEMMA PieceTaken ==
  ASSUME TypeOK, Chunks, Receive, world.agent = "chunks"
  PROVE  LET e == wire[1]
         IN  /\ wire \in Seq(Events) /\ wire # <<>> /\ wire' = Tail(wire)
             /\ \A id \in Ids(store.arts) : Come(buffers, id) \in Seq(Parts)
             /\ result.promoted => result'.promoted /\ result'.output = result.output
             /\ ~e.last => /\ result'.promoted = result.promoted /\ result'.output = result.output
                           /\ \A id \in Ids(store.arts) :
                                Come(buffers', id) = Come(buffers, id) \o (IF e.id = id THEN e.parts ELSE <<>>)
             /\ e.last => /\ e.id \in Ids(store.arts) /\ \A v \in 2..Len(wire) : wire[v].id # e.id
                          /\ result'.promoted
                          /\ ~result.promoted => result'.output = Text(Come(buffers, e.id) \o e.parts)
<1> DEFINE e == wire[1]
           u == Update(e.id, Buffered(e), FALSE, TRUE)
<1>1. /\ wire \in Seq(Events) /\ 0 \notin Ids(store.arts) /\ DOMAIN buffers \subseteq Ids(store.arts)
      /\ Ordered(wire, Ids(store.arts), DOMAIN buffers, Elems(todo))
  BY DEF Chunks
<1>2. /\ wire # <<>> /\ e = Head(wire) /\ wire' = Tail(wire) /\ result' \in Results
      /\ e \in Events /\ ~(e.type = "artifact" /\ e.append /\ e.last) => result' = Took(result, e)
      /\ e \in Events /\ e.type = "artifact" /\ e.append /\ e.last =>
           u \in Events /\ Buffered(e) \in Seq(Parts) /\ result' = Took(Took(result, e), u)
  BY ReceiveFacts
<1>3. /\ e.type # "artifact" => buffers' = buffers
      /\ e.type = "artifact" =>
           /\ ~e.last => e.id \in DOMAIN buffers' /\ buffers'[e.id] = Buffered(e)
           /\ \A i : i # e.id => /\ i \in DOMAIN buffers' <=> i \in DOMAIN buffers
                                 /\ i \in DOMAIN buffers => buffers'[i] = buffers[i]
  <2>1. e = Head(wire)
    BY <1>2
  <2> HIDE DEF e
  <2> QED
    BY <2>1, BufferFacts
<1>4. \A id \in Ids(store.arts) : Come(buffers, id) \in Seq(Parts)
  <2>1. \A i \in DOMAIN buffers : buffers[i] \in Seq(Parts)
    BY DEF TypeOK
  <2>2. <<>> \in Seq(Parts)
    OBVIOUS
  <2> QED
    BY <2>1, <2>2 DEF Come
<1>5. e \in Events /\ 1 \in 1..Len(wire) /\ result \in Results
  <2>1. wire # <<>>
    BY <1>2
  <2> QED
    BY <1>1, <2>1, RouteFacts
<1>6. Ending(e) \/ Placed(wire, 1, Ids(store.arts), DOMAIN buffers, Elems(todo))
  BY <1>1, <1>5 DEF Ordered
<1>7. e.parts \in Seq(Parts) /\ e.type \in {"artifact", "status", "message"} /\ e.append \in BOOLEAN /\ e.last \in BOOLEAN
  BY <1>5 DEF Events
<1>8. ~Ending(e) => /\ e.type = "artifact" /\ Text(e.parts) # <<>> /\ e.id \in Ids(store.arts)
                    /\ ~e.append => e.id \notin DOMAIN buffers
                    /\ e.last => \A v \in 2..Len(wire) : wire[v].id # e.id
  <2>1. 1 + 1 = 2
    OBVIOUS
  <2> QED
    BY <1>6, <2>1 DEF Placed
<1> HIDE DEF e
<1>9. result.promoted => result'.promoted /\ result'.output = result.output
  <2> SUFFICES ASSUME result.promoted PROVE result'.promoted /\ result'.output = result.output
    OBVIOUS
  <2>1. Took(result, e).promoted /\ Took(result, e).output = result.output /\ Took(result, e) \in Results
    BY <1>5, TookFacts
  <2>2. CASE e.type = "artifact" /\ e.append /\ e.last
    <3> DEFINE q == Took(result, e)
    <3>1. u \in Events /\ result' = Took(q, u)
      BY <1>2, <1>5, <2>2
    <3> HIDE DEF q, u
    <3>2. q \in Results /\ q.promoted /\ q.output = result.output
      BY <2>1 DEF q
    <3>3. Took(q, u).promoted /\ Took(q, u).output = q.output
      BY <3>1, <3>2, TookFacts
    <3> QED
      BY <3>1, <3>2, <3>3
  <2>3. CASE ~(e.type = "artifact" /\ e.append /\ e.last)
    BY <1>2, <1>5, <2>1, <2>3
  <2> QED
    BY <2>2, <2>3
<1>10. CASE Ending(e)
  <2>1. e.type = "status" /\ e.parts = <<>> /\ e.id = 0 /\ ~e.last
    BY <1>10 DEF Ending
  <2>2. ~Promotable(e)
    <3>1. Text(<<>>) = <<>>
      BY OfNone DEF Text
    <3>2. extract_text(e) = <<>>
      BY <2>1, <3>1 DEF extract_text, event_content_parts
    <3> QED
      BY <3>2 DEF Promotable
  <2>3. result' = Took(result, e) /\ buffers' = buffers
    BY <1>2, <1>3, <1>5, <2>1
  <2>4. (Took(result, e).promoted <=> result.promoted) /\ Took(result, e).output = result.output
    BY <1>5, <2>2, TookFacts
  <2>5. result'.promoted = result.promoted /\ result'.output = result.output
    <3>1. result'.promoted \in BOOLEAN /\ result.promoted \in BOOLEAN
      BY <1>2, <1>5 DEF Results
    <3> QED
      BY <2>3, <2>4, <3>1
  <2>6. ASSUME NEW id \in Ids(store.arts)
        PROVE  Come(buffers', id) = Come(buffers, id) \o (IF e.id = id THEN e.parts ELSE <<>>)
    <3>1. e.id # id /\ Come(buffers, id) \in Seq(Parts)
      BY <1>1, <1>4, <2>1
    <3> DEFINE x == Come(buffers, id)
    <3> HIDE DEF x
    <3>2. x \o <<>> = x
      BY <3>1 DEF x
    <3> QED
      BY <2>3, <3>1, <3>2 DEF x
  <2> QED
    BY <1>1, <1>2, <1>4, <1>9, <2>1, <2>5, <2>6 DEF e
<1>11. CASE ~Ending(e)
  <2>1. /\ e.type = "artifact" /\ Text(e.parts) # <<>> /\ e.id \in Ids(store.arts)
        /\ ~e.append => e.id \notin DOMAIN buffers
        /\ e.last => \A v \in 2..Len(wire) : wire[v].id # e.id
    BY <1>8, <1>11
  <2> DEFINE x == Come(buffers, e.id)
  <2>2. x \in Seq(Parts) /\ Buffered(e) = x \o e.parts
    <3>1. x \in Seq(Parts)
      BY <1>4, <2>1
    <3>2. CASE e.id \in DOMAIN buffers
      BY <2>1, <3>1, <3>2 DEF Buffered, Come
    <3>3. CASE e.id \notin DOMAIN buffers
      <4>1. <<>> \o e.parts = e.parts
        BY ONLY <1>7
      <4> QED
        BY <3>1, <3>3, <4>1 DEF Buffered, Come
    <3> QED
      BY <3>1, <3>2, <3>3
  <2>3. CASE ~e.last
    <3>1. ~Promotable(e)
      BY <2>1, <2>3 DEF Promotable, is_partial_event, is_final_artifact
    <3>2. result' = Took(result, e)
      BY <1>2, <1>5, <2>3
    <3>3. (Took(result, e).promoted <=> result.promoted) /\ Took(result, e).output = result.output
      BY <1>5, <3>1, TookFacts
    <3>4. result'.promoted = result.promoted /\ result'.output = result.output
      <4>1. result'.promoted \in BOOLEAN /\ result.promoted \in BOOLEAN
        BY <1>2, <1>5 DEF Results
      <4> QED
        BY <3>2, <3>3, <4>1
    <3>5. ASSUME NEW id \in Ids(store.arts)
          PROVE  Come(buffers', id) = Come(buffers, id) \o (IF e.id = id THEN e.parts ELSE <<>>)
      <4>1. CASE id = e.id
        <5>1. Come(buffers', id) = Buffered(e)
          BY <1>3, <2>1, <2>3, <4>1 DEF Come
        <5> QED
          BY <2>2, <4>1, <5>1
      <4>2. CASE id # e.id
        <5>1. Come(buffers', id) = Come(buffers, id)
          BY <1>3, <2>1, <4>2 DEF Come
        <5>2. Come(buffers, id) \in Seq(Parts)
          BY <1>4
        <5> DEFINE y == Come(buffers, id)
        <5> HIDE DEF y
        <5>3. y \o <<>> = y
          BY <5>2 DEF y
        <5> QED
          BY <4>2, <5>1, <5>3 DEF y
      <4> QED
        BY <4>1, <4>2
    <3> QED
      BY <1>1, <1>2, <1>4, <1>9, <2>3, <3>4, <3>5 DEF e
  <2>4. CASE e.last
    <3> DEFINE y == x \o e.parts
    <3> HIDE DEF x
    <3>1. y \in Seq(Parts) /\ Text(y) = Text(x) \o Text(e.parts)
      BY <1>7, <2>2, OfConcat DEF Text
    <3>2. Text(x) \in Seq(Nat) /\ Text(e.parts) \in Seq(Nat)
      BY <1>7, <2>2, OfType DEF Text
    <3> HIDE DEF y
    <3>3. Text(y) # <<>>
      <4> DEFINE a == Text(x)
                 b == Text(e.parts)
      <4>1. a \in Seq(Nat) /\ b \in Seq(Nat) /\ b # <<>> /\ Text(y) = a \o b
        BY <2>1, <3>1, <3>2
      <4> HIDE DEF a, b
      <4>2. a \o b # <<>>
        BY ONLY <4>1
      <4> QED
        BY <4>1, <4>2
    <3>4. result'.promoted /\ (~result.promoted => result'.output = Text(y))
      <4>1. CASE e.append
        <5> DEFINE q == Took(result, e)
        <5>1. u \in Events /\ result' = Took(q, u)
          BY <1>2, <1>5, <2>1, <2>4, <4>1
        <5>2. u.type = "artifact" /\ u.append = FALSE /\ u.last = TRUE /\ u.parts = Buffered(e)
          BY DEF Update, Event
        <5> HIDE DEF u
        <5>3. extract_text(u) = Text(y) /\ Promotable(u)
          <6>1. is_final_artifact(u) /\ ~is_partial_event(u)
            BY <5>2 DEF is_final_artifact, is_partial_event
          <6>2. extract_text(u) = Text(y)
            BY <2>2, <5>2, <6>1 DEF extract_text, event_content_parts, y
          <6> QED
            BY <3>3, <5>2, <6>1, <6>2 DEF Promotable
        <5>4. ~Promotable(e)
          BY <2>1, <4>1 DEF Promotable, is_partial_event, is_final_artifact
        <5>5. q \in Results /\ (q.promoted <=> result.promoted)
          BY <1>5, <5>4, TookFacts
        <5> HIDE DEF q
        <5>6. Took(q, u).promoted /\ (~q.promoted => Took(q, u).output = extract_text(u))
          BY <5>1, <5>3, <5>5, TookFacts
        <5> QED
          BY <5>1, <5>3, <5>5, <5>6
      <4>2. CASE ~e.append
        <5>1. result' = Took(result, e)
          BY <1>2, <1>5, <4>2
        <5>2. is_final_artifact(e) /\ ~is_partial_event(e)
          BY <2>1, <2>4, <4>2 DEF is_final_artifact, is_partial_event
        <5>3. extract_text(e) = Text(e.parts) /\ Promotable(e)
          BY <2>1, <5>2 DEF extract_text, event_content_parts, Promotable
        <5>4. y = e.parts
          BY <2>2, <4>2 DEF Buffered, y
        <5>5. Took(result, e).promoted /\ (~result.promoted => Took(result, e).output = extract_text(e))
          BY <1>5, <5>3, TookFacts
        <5> QED
          BY <5>1, <5>3, <5>4, <5>5
      <4> QED
        BY <4>1, <4>2
    <3> QED
      BY <1>1, <1>2, <1>4, <1>9, <2>1, <2>4, <3>4 DEF e, x, y
  <2> QED
    BY <2>3, <2>4
<1> QED
  BY <1>10, <1>11

LEMMA CollectedStep ==
  ASSUME TypeOK, Phases, Chunks, Collected, Move
  PROVE  Collected'
<1> DEFINE all(A, bf, wr, td) == Gathered(A, bf, wr) /\ FirstCloses(wr, td)
           first(A, td, out) == td # <<>> /\ \E i \in 1..Len(A) : A[i].id = td[1] /\ out = Text(A[i].parts)
           D(nd, p, out, A, bf, wr, td) ==
             /\ nd = "running" /\ ~p => all(A, bf, wr, td)
             /\ nd = "delivered" /\ wr = <<>> /\ ~p => td = <<>>
             /\ ~p => out = <<>>
             /\ p => first(A, td, out)
           goal == D(node', result'.promoted, result'.output, store'.arts, buffers', wire', todo')
<1>1. world.agent = "chunks" => D(node, result.promoted, result.output, store.arts, buffers, wire, todo)
  BY DEF Collected
<1>2. world' = world
  BY AgentMoves
<1>3. Collected' <=> (world.agent = "chunks" => goal)
  BY <1>2, Zenon DEF Collected, Gathered, FirstCloses, Come, Coming, Text, Of
<1> SUFFICES ASSUME world.agent = "chunks" PROVE goal
  BY <1>3
<1>4. D(node, result.promoted, result.output, store.arts, buffers, wire, todo)
  BY <1>1
<1> DEFINE A == store.arts
<1>5. /\ wire \in Seq(Events) /\ Single(A) /\ 0 \notin Ids(A) /\ DOMAIN buffers \subseteq Ids(A)
      /\ Ordered(wire, Ids(A), DOMAIN buffers, Elems(todo))
  BY DEF Chunks, Single
<1>6. /\ A \in Seq(Artifacts) /\ todo \in Seq(Nat)
      /\ \A i \in DOMAIN buffers : buffers[i] \in Seq(Parts)
      /\ node \in {"running", "delivered", "failed"}
  BY RouteFacts DEF TypeOK
<1>7. \A w \in 1..Len(wire) : wire[w].id \in Ids(A) \cup {0}
  BY <1>5 DEF Ordered, Ending, Placed
<1>8. \A e \in Events : Append(wire, e) # <<>>
  BY <1>5, Appended
<1> HIDE DEF A, all, first
<1>9. ASSUME NEW e, Adds(e) PROVE goal
  <2> DEFINE B == merged(A, e)
  <2>1. /\ pc = "start" /\ e \in Events /\ e.id # 0 /\ e.id \notin Elems(todo)
        /\ e.append <=> e.id \in Ids(A)
        /\ todo' = IF e.last THEN Append(todo, e.id) ELSE todo
        /\ store'.arts = B /\ wire' = Append(wire, e) /\ buffers' = buffers /\ result' = result /\ node' = node
    BY <1>9 DEF Adds, A
  <2>2. wire' # <<>>
    BY <1>8, <2>1
  <2>3. \A i \in 1..Len(A) : A[i].id # e.id => i \in 1..Len(B) /\ B[i] = A[i]
    BY ONLY <1>5, <1>6, <2>1, Added
  <2> HIDE DEF B
  <2>4. CASE ~result.promoted
    <3>1. node = "running" => all(A, buffers, wire, todo)
      BY <1>4, <2>4 DEF A
    <3>2. ASSUME all(A, buffers, wire, todo) PROVE all(B, buffers, wire', todo')
      <4>1. Gathered(A, buffers, wire) /\ FirstCloses(wire, todo)
        BY <3>2 DEF all
      <4>2. Gathered(B, buffers, Append(wire, e))
        BY ONLY <1>5, <1>6, <1>7, <2>1, <4>1, GatheredMore DEF B
      <4>3. FirstCloses(Append(wire, e), IF e.last THEN Append(todo, e.id) ELSE todo)
        BY ONLY <1>5, <1>6, <2>1, <4>1, FirstClosesMore
      <4> QED
        BY <2>1, <4>2, <4>3 DEF all
    <3> QED
      BY <1>4, <2>1, <2>2, <2>4, <3>1, <3>2
  <2>5. CASE result.promoted
    <3>1. first(A, todo, result.output)
      BY <1>4, <2>5 DEF A
    <3>2. todo # <<>> /\ 1 \in DOMAIN todo /\ 1 \in 1..Len(todo)
      BY <1>6, <3>1 DEF first
    <3>3. todo[1] # e.id
      BY <2>1, <3>2 DEF Elems
    <3>4. todo' # <<>> /\ todo'[1] = todo[1]
      <4>1. CASE e.last
        <5>1. e.id \in Nat /\ todo' = Append(todo, e.id)
          BY <2>1, <4>1 DEF Events
        <5>2. Append(todo, e.id) # <<>> /\ \A i \in 1..Len(todo) : Append(todo, e.id)[i] = todo[i]
          BY ONLY <1>6, <5>1, Appended
        <5> QED
          BY <3>2, <5>1, <5>2
      <4>2. CASE ~e.last
        BY <2>1, <3>2, <4>2
      <4> QED
        BY <4>1, <4>2
    <3>5. first(B, todo', result.output)
      <4>1. PICK i \in 1..Len(A) : A[i].id = todo[1] /\ result.output = Text(A[i].parts)
        BY <3>1 DEF first
      <4>2. i \in 1..Len(B) /\ B[i] = A[i]
        BY <2>3, <3>3, <4>1
      <4> QED
        BY <3>4, <4>1, <4>2 DEF first
    <3> QED
      BY <2>1, <2>5, <3>5
  <2> QED
    BY <2>4, <2>5
<1>10. ASSUME NEW s \in States, wire' = Append(wire, Status(s, <<>>)), store'.arts = store.arts,
              UNCHANGED <<world, todo, buffers, result, node>>
       PROVE  goal
  <2> DEFINE u == Status(s, <<>>)
  <2>1. u \in Events /\ u.parts = <<>> /\ u.id = 0 /\ ~u.last
    <3>1. <<>> \in Seq(Parts)
      OBVIOUS
    <3>2. u \in Events
      BY ONLY <3>1, s \in States, StatusFacts
    <3>3. u.parts = <<>> /\ u.id = 0 /\ u.last = FALSE
      BY DEF Status, Event
    <3> QED
      BY <3>2, <3>3
  <2>2. wire' = Append(wire, u)
    BY <1>10
  <2> HIDE DEF u
  <2>3. ASSUME all(A, buffers, wire, todo) PROVE all(A, buffers, wire', todo)
    <3>1. Gathered(A, buffers, wire) /\ FirstCloses(wire, todo)
      BY <2>3 DEF all
    <3>2. FirstCloses(Append(wire, u), IF u.last THEN Append(todo, u.id) ELSE todo)
      BY ONLY <1>5, <1>6, <2>1, <3>1, FirstClosesMore
    <3>3. FirstCloses(wire', todo)
      BY <2>1, <2>2, <3>2
    <3>4. \A id \in Ids(A) : Coming(wire', id) = Coming(wire, id)
      <4> TAKE id \in Ids(A)
      <4>1. Coming(Append(wire, u), id) = Coming(wire, id) \o (IF u.id = id THEN u.parts ELSE <<>>)
        BY ONLY <1>5, <2>1, ComingMore
      <4>2. Coming(wire, id) \in Seq(Parts)
        BY ONLY <1>5, BroughtFacts
      <4> DEFINE y == Coming(wire, id)
      <4> HIDE DEF y
      <4>3. y \o <<>> = y
        BY <4>2 DEF y
      <4> QED
        BY <2>1, <2>2, <4>1, <4>3 DEF y
    <3>5. Gathered(A, buffers, wire')
      BY <3>1, <3>4 DEF Gathered, Ids
    <3> QED
      BY <3>3, <3>5 DEF all
  <2>4. wire' # <<>>
    BY <1>8, <2>1, <2>2
  <2> QED
    BY <1>4, <1>10, <2>3, <2>4 DEF A
<1>11. ASSUME Receive PROVE goal
  <2> DEFINE e == wire[1]
  <2>1. /\ wire # <<>> /\ wire' = Tail(wire)
        /\ \A id \in Ids(A) : Come(buffers, id) \in Seq(Parts)
        /\ result.promoted => result'.promoted /\ result'.output = result.output
        /\ ~e.last => /\ result'.promoted = result.promoted /\ result'.output = result.output
                      /\ \A id \in Ids(A) :
                           Come(buffers', id) = Come(buffers, id) \o (IF e.id = id THEN e.parts ELSE <<>>)
        /\ e.last => /\ e.id \in Ids(A) /\ \A v \in 2..Len(wire) : wire[v].id # e.id
                     /\ result'.promoted
                     /\ ~result.promoted => result'.output = Text(Come(buffers, e.id) \o e.parts)
    BY <1>11, PieceTaken DEF A
  <2>2. UNCHANGED <<store, todo, node>> /\ node = "running"
    BY <1>11 DEF Receive, agentVars
  <2>3. CASE result.promoted
    <3>1. first(A, todo, result.output)
      BY <1>4, <2>3 DEF A
    <3> QED
      BY <2>1, <2>2, <2>3, <3>1 DEF A
  <2>4. CASE ~result.promoted
    <3>1. Gathered(A, buffers, wire) /\ FirstCloses(wire, todo) /\ result.output = <<>>
      BY <1>4, <2>2, <2>4 DEF A, all
    <3>2. CASE ~e.last
      <4>1. Gathered(A, buffers', Tail(wire))
        BY ONLY <1>5, <1>6, <2>1, <3>1, <3>2, GatheredTail
      <4>2. FirstCloses(Tail(wire), todo)
        BY ONLY <1>5, <2>1, <3>1, <3>2, FirstClosesTail
      <4>3. all(A, buffers', wire', todo)
        BY <2>1, <4>1, <4>2 DEF all
      <4> QED
        BY <2>1, <2>2, <2>4, <3>1, <3>2, <4>3 DEF A
    <3>3. CASE e.last
      <4>1. /\ todo # <<>> /\ e.id = todo[1]
            /\ \E i \in 1..Len(A) : A[i].id = todo[1] /\ A[i].parts = Come(buffers, e.id) \o e.parts
        <5>1. EndsPiece(A, wire, buffers)
          BY ONLY <2>1, <3>3 DEF EndsPiece
        <5>2. EndsFirst(A, wire, buffers, todo)
          BY ONLY <1>5, <1>6, <3>1, <5>1, FirstClosed
        <5> QED
          BY ONLY <5>2 DEF EndsFirst
      <4>2. result'.promoted /\ result'.output = Text(Come(buffers, e.id) \o e.parts)
        BY <2>1, <2>4, <3>3
      <4> HIDE DEF e
      <4>3. first(A, todo, result'.output)
        BY <4>1, <4>2 DEF first
      <4> QED
        BY <2>2, <4>2, <4>3 DEF A
    <3> QED
      BY <3>2, <3>3
  <2> QED
    BY <2>3, <2>4
<1>12. ASSUME Cut PROVE goal
  <2>1. /\ node' = "failed" /\ result'.output = result.output /\ result'.promoted = result.promoted
        /\ UNCHANGED <<todo, store>>
    BY <1>12, CutFacts
  <2> QED
    BY <1>4, <2>1
<1>13. ASSUME RemoteEnds PROVE goal
  <2>1. /\ node = "running" /\ node' \in {"failed", "delivered"}
        /\ UNCHANGED <<store, todo, result, wire>>
    BY <1>13 DEF RemoteEnds, agentVars
  <2>2. wire = <<>> /\ ~result.promoted => todo = <<>>
    <3> SUFFICES ASSUME wire = <<>>, ~result.promoted PROVE todo = <<>>
      OBVIOUS
    <3>1. FirstCloses(wire, todo)
      BY <1>4, <2>1 DEF all
    <3>2. 1..Len(wire) = {}
      OBVIOUS
    <3> QED
      BY <3>1, <3>2 DEF FirstCloses
  <2> QED
    BY <1>4, <2>1, <2>2
<1>14. ASSUME UNCHANGED vars PROVE goal
  BY <1>4, <1>14 DEF vars, agentVars
<1> HIDE DEF goal
<1>15. \/ \E e : Adds(e)
       \/ \E s \in States : /\ wire' = Append(wire, Status(s, <<>>)) /\ store'.arts = store.arts
                            /\ UNCHANGED <<world, todo, buffers, result, node>>
       \/ Receive \/ Cut \/ RemoteEnds \/ UNCHANGED vars
  BY ChunkSteps, Zenon
<1> QED
  BY <1>9, <1>10, <1>11, <1>12, <1>13, <1>14, <1>15, Zenon

(***************************************************************************)
(* The inductive invariant.                                                *)
(***************************************************************************)
LEMMA RaisedStep ==
  ASSUME TypeOK, Phases, Noticed, FailureIsRaised, Move
  PROVE  FailureIsRaised'
<1> USE DEF TASK_RESPONSE_BOUNDARY_STATES, FAILURE_STATES, PAUSE_STATES
<1> DEFINE mute == "mute" \in world.faults
           cut == "cut" \in world.faults
           early == EndsEarly
           R(nd, s, wr) == /\ nd = "delivered" => IF s \in TASK_RESPONSE_BOUNDARY_STATES /\ wr = <<>>
                                                  THEN s = "completed" \/ (mute /\ s \in PAUSE_STATES) ELSE early
                           /\ nd = "failed" /\ ~cut => s \in FAILURE_STATES \cup PAUSE_STATES
           goal == R(node', store'.state, wire')
<1>1. R(node, store.state, wire)
  BY DEF FailureIsRaised, Fault, EndSeen
<1>2. world' = world
  BY AgentMoves
<1>3. FailureIsRaised' <=> goal
  BY <1>2, Zenon DEF FailureIsRaised, Fault, EndSeen, EndsEarly
<1>4. /\ node \in {"running", "delivered", "failed"} /\ wire \in Seq(Messages)
      /\ \A e \in Messages : Append(wire, e) # <<>>
  <2>1. node \in {"running", "delivered", "failed"} /\ wire \in Seq(Messages)
    BY TypeIs DEF Typed
  <2> QED
    BY <2>1, Appended
<1>5. pc \notin TASK_RESPONSE_BOUNDARY_STATES =>
        /\ store.state \notin TASK_RESPONSE_BOUNDARY_STATES
        /\ node = "delivered" => early
        /\ node = "failed" => cut
  BY DEF Phases, Fault, TaskStates, NON_FINAL_TASK_STATES
<1>6. early => world.route = "stream"
  BY DEF EndsEarly
<1> HIDE DEF early
(* An agent that has not ended: its node is still running, was cut or has  *)
(* ended early, and the end of the task goes on the wire.                  *)
<1>7. ASSUME node' = node, pc \notin TASK_RESPONSE_BOUNDARY_STATES,
             store'.state = store.state \/ (world.route = "stream" => wire' # <<>>)
      PROVE  goal
  BY <1>5, <1>6, <1>7
<1>8. ASSUME NEW ps \in Seq(Parts), NEW a \in BOOLEAN, Streams(ps, a) PROVE goal
  <2>1. node' = node /\ pc = "stream" /\ store'.state = store.state
    BY ONLY TypeOK, <1>8, StreamsFacts
  <2> QED
    BY <1>7, <2>1
<1>9. ASSUME Closes \/ Answers PROVE goal
  <2>1. node' = node /\ pc \in {"stream", "tools", "refuse"}
    BY <1>9 DEF Closes, Answers
  <2>2. store'.state = store.state
    <3>1. PICK id \in Nat, ps \in Seq(Parts) : Emit(Final(id, ps))
      BY <1>9, ClosesFacts, AnswersFacts
    <3> QED
      BY ONLY TypeOK, <3>1, FinalFacts
  <2> QED
    BY <1>7, <2>1, <2>2
<1>10. ASSUME Stops \/ Asks \/ Requests PROVE goal
  <2>1. UNCHANGED <<node, store>> /\ pc \in {"ask", "stream", "tools", "refuse"}
    BY <1>10 DEF Stops, Asks, Requests
  <2> QED
    BY <1>7, <2>1
<1>11. ASSUME NEW s \in States, NEW ps \in Seq(Parts), Tells(s, ps) PROVE goal
  <2>1. /\ node' = node /\ pc \notin TASK_RESPONSE_BOUNDARY_STATES
        /\ Status(s, ps) \in Events /\ (world.route = "stream" => wire' = Append(wire, Status(s, ps)))
    BY ONLY TypeOK, Phases, <1>11, TellsFacts DEF TASK_RESPONSE_BOUNDARY_STATES, FAILURE_STATES, PAUSE_STATES
  <2>2. Status(s, ps) \in Messages
    BY <2>1 DEF Messages
  <2> QED
    BY <1>4, <1>7, <2>1, <2>2
<1>12. ASSUME Chunked PROVE goal
  <2>1. PICK id \in 1..2, last \in BOOLEAN : OtherChunk(id, last)
    BY <1>12 DEF Chunked
  <2>2. /\ pc = "start" /\ node' = node /\ Chunk_(id, last) \in Events /\ Emit(Chunk_(id, last))
    BY <2>1, OtherChunkFacts
  <2>3. store'.state = store.state
    BY ONLY TypeOK, <2>2, EmitFacts
  <2> QED
    BY <1>7, <2>2, <2>3
<1>13. ASSUME Snapped \/ OtherMessage PROVE goal
  <2>1. node' = node /\ pc = "start"
    BY <1>13 DEF Snapped, OtherTask, OtherMessage
  <2>2. \E e \in Messages : wire' = Append(wire, e)
    <3>1. Snapped => \E t \in Tasks : wire' = Append(wire, t)
      BY SnappedFacts, ZenonT(60)
    <3>2. OtherMessage => \E e \in Events : wire' = Append(wire, e)
      BY OtherMessageFacts
    <3> QED
      BY <1>13, <3>1, <3>2 DEF Messages
  <2>3. wire' # <<>>
    BY <1>4, <2>2
  <2> QED
    BY <1>7, <2>1, <2>3
<1>14. ASSUME Receive PROVE goal
  <2>1. UNCHANGED <<node, store>> /\ node = "running"
    BY <1>14 DEF Receive, agentVars
  <2> QED
    BY <2>1
<1>15. ASSUME Process PROVE goal
  <2>1. UNCHANGED <<node, store>> /\ wire # <<>> /\ world.route = "local"
    BY <1>15 DEF Process, agentVars
  <2>2. node # "delivered"
    BY <1>6, <2>1 DEF Phases, early
  <2> QED
    BY <1>1, <2>1, <2>2
<1>16. ASSUME UNCHANGED vars PROVE goal
  <2>1. UNCHANGED <<node, store, wire>>
    BY <1>16 DEF vars, agentVars
  <2> QED
    BY <1>1, <2>1
<1>17. ASSUME Cut PROVE goal
  <2>1. node' = "failed" /\ cut
    BY <1>17 DEF Cut, Fault
  <2> QED
    BY <2>1
<1>18. ASSUME RemoteEnds PROVE goal
  <2>1. /\ world.route # "local" /\ node = "running" /\ UNCHANGED <<store, wire>>
        /\ EndSeen \/ early
        /\ result.failure \/ result.pause => node' = "failed"
        /\ ~(result.failure \/ result.pause) => node' = "delivered"
    BY <1>18 DEF RemoteEnds, agentVars, early
  <2>2. /\ result.failure \/ result.pause => Heard
        /\ wire = <<>> => (Heard <=> result.failure \/ result.pause)
    BY DEF Heard
  <2>3. /\ Heard => store.state \in FAILURE_STATES \cup PAUSE_STATES
        /\ store.state \in FAILURE_STATES \cup PAUSE_STATES =>
             Heard \/ (mute /\ store.state \in PAUSE_STATES)
    BY <2>1, Zenon DEF Noticed, Fault
  <2> QED
    BY <2>1, <2>2, <2>3 DEF EndSeen
<1>19. ASSUME LocalEnds PROVE goal
  <2>1. /\ node' = (IF store.state = "completed" THEN "delivered" ELSE "failed") /\ UNCHANGED <<store, wire>>
        /\ wire = <<>> /\ store.state \in TASK_RESPONSE_BOUNDARY_STATES
    BY <1>19 DEF LocalEnds, agentVars
  <2> QED
    BY <2>1
<1> HIDE DEF goal
<1> QED
  BY <1>3, <1>8, <1>9, <1>10, <1>11, <1>12, <1>13, <1>14, <1>15, <1>16, <1>17, <1>18, <1>19, Zenon DEF Move

LEMMA InitInv == Init => IInv
<1> SUFFICES ASSUME Init PROVE IInv
  OBVIOUS
<1> USE DEF TASK_RESPONSE_BOUNDARY_STATES, FAILURE_STATES, PAUSE_STATES
<1>1. /\ world \in Worlds
      /\ pc = "start" /\ turn = [n |-> 0, bad |-> 0] /\ buf = NoBuf /\ todo = <<>>
      /\ made = [piece |-> 0, call |-> 0, id |-> 0]
      /\ events = <<>> /\ store.state = "submitted" /\ store.arts = <<>>
      /\ store = [state |-> "submitted", arts |-> <<>>]
      /\ wire = <<>> /\ buffers = <<>> /\ node = "running"
      /\ result = [output |-> <<>>, promoted |-> FALSE, failure |-> FALSE, pause |-> FALSE]
      /\ result.output = <<>> /\ ~result.promoted /\ ~result.failure /\ ~result.pause
  BY DEF Init
<1>2. Len(<<>>) = 0 /\ 1..0 = {} /\ DOMAIN <<>> = {}
  OBVIOUS
<1>3. TypeOK
  BY <1>1, <1>2 DEF TypeOK, NoBuf, LLMStates, States, Results
<1>4. Phases
  BY <1>1 DEF Phases, LLMStates, TaskStates, NON_FINAL_TASK_STATES
<1>5. Noticed
  BY <1>1 DEF Noticed, Heard
<1>6. Kept
  BY <1>1, <1>2 DEF Kept, Held
<1>7. Paired
  BY <1>1, <1>2 DEF Paired, Matched
<1>8. Closing
  BY <1>1, <1>2 DEF Closing
<1>9. Local
  BY <1>1, <1>2 DEF Local, Said
<1>10. Streamed
  <2>1. Said(<<>>) = <<>>
    BY DEF Said
  <2> QED
    BY <1>1, <1>2, <2>1 DEF Streamed, Promoted
<1>11. Sent
  BY <1>1 DEF Sent, TaskStates, NON_FINAL_TASK_STATES
<1>12. Chunks
  <2>1. Ids(<<>>) = {}
    BY <1>2 DEF Ids
  <2> QED
    BY <1>1, <1>2, <2>1 DEF Chunks, Ordered
<1>13. Collected
  BY <1>1, <1>2 DEF Collected, Gathered, FirstCloses
<1>14. FailureIsRaised
  BY <1>1 DEF FailureIsRaised
<1> QED
  BY <1>3, <1>4, <1>5, <1>6, <1>7, <1>8, <1>9, <1>10, <1>11, <1>12, <1>13, <1>14 DEF IInv

LEMMA StepInv == IInv /\ [Next]_vars => IInv'
<1> SUFFICES ASSUME IInv, [Next]_vars PROVE IInv'
  OBVIOUS
<1>1. /\ TypeOK /\ Phases /\ Noticed /\ Kept /\ Paired /\ Closing /\ Local /\ Streamed /\ Sent
      /\ Chunks /\ Collected /\ FailureIsRaised
  BY Zenon DEF IInv
<1>2. Move
  BY ONLY <1>1, [Next]_vars, Moves
<1>3. TypeOK' /\ Phases'
  BY ONLY <1>1, <1>2, TypeStep, PhasesStep
<1>4. Noticed' /\ FailureIsRaised'
  BY ONLY <1>1, <1>2, NoticedStep, RaisedStep
<1>5. Kept' /\ Paired' /\ Closing'
  BY ONLY <1>1, <1>2, KeptStep, PairedStep, ClosingStep
<1>6. Local' /\ Streamed' /\ Sent'
  BY ONLY <1>1, <1>2, LocalStep, StreamedStep, SentStep
<1>7. Chunks' /\ Collected'
  BY ONLY <1>1, <1>2, ChunksStep, CollectedStep
<1> QED
  BY <1>3, <1>4, <1>5, <1>6, <1>7, Zenon DEF IInv

(* The agent's events, its artifacts in the store and what the node has,   *)
(* or still gets, of them agree in every state: on each of the three ways, *)
(* whatever fails in between.                                              *)
THEOREM InductiveInvariant == Spec => []IInv
<1>1. Init => IInv
  BY InitInv
<1>2. IInv /\ [Next]_vars => IInv'
  BY StepInv
<1> QED
  BY <1>1, <1>2, PTL DEF Spec

(* What the stream tells of a failure or a pause reaches the node before   *)
(* the end of the task does: a node that has seen the end is delivered by  *)
(* a task that completed, up to the snapshot that waits without a message, *)
(* and one that has not is delivered only by a stream that ended early.    *)
(* Nothing is made up either: unless the connection failed, a failed node  *)
(* had a task that failed, was cancelled or waits, wherever its stream     *)
(* ended.                                                                  *)
THEOREM FailureIsReported == Spec => []FailureIsRaised
<1>1. IInv => FailureIsRaised
  BY DEF IInv
<1> QED
  BY <1>1, InductiveInvariant, PTL

(* The events the invocation keeps are final artifacts.                    *)
LEMMA KeptFinal ==
  ASSUME IInv, world.agent = "llm"
  PROVE  \A i \in 1..Len(events) : is_final_artifact(events[i])
<1>1. Held(store.arts, events, made.id, pc, buf)
  BY DEF IInv, Kept
<1>2. \A i \in 1..Len(events) : events[i] = Final(store.arts[i].id, store.arts[i].parts)
  BY <1>1 DEF Held
<1>3. \A id, ps : Final(id, ps).type = "artifact" /\ Final(id, ps).append = FALSE /\ Final(id, ps).last = TRUE
  BY DEF Final, Update, Event
<1>4. \A i \in 1..Len(events) : events[i].type = "artifact" /\ events[i].append = FALSE /\ events[i].last = TRUE
  BY <1>2, <1>3
<1> QED
  BY <1>4 DEF is_final_artifact

(* A completed task has an artifact for each event, and each is a final    *)
(* one.                                                                    *)
LEMMA CompletedFacts ==
  ASSUME IInv, world.agent = "llm", store.state = "completed"
  PROVE  /\ pc = "completed" /\ Len(store.arts) = Len(events)
         /\ \A i \in 1..Len(events) :
              /\ events[i] = Final(store.arts[i].id, store.arts[i].parts)
              /\ is_final_artifact(events[i]) /\ events[i].parts = store.arts[i].parts
<1>1. pc = "completed"
  BY DEF IInv, Phases, LLMStates, TASK_RESPONSE_BOUNDARY_STATES, FAILURE_STATES, PAUSE_STATES
<1>2. Held(store.arts, events, made.id, pc, buf)
  BY DEF IInv, Kept
<1>3. Len(store.arts) = Len(events) /\ \A i \in 1..Len(events) : events[i] = Final(store.arts[i].id, store.arts[i].parts)
  BY <1>1, <1>2 DEF Held
<1>4. \A id, ps : is_final_artifact(Final(id, ps)) /\ Final(id, ps).parts = ps
  <2> TAKE id, ps
  <2> DEFINE u == Final(id, ps)
  <2>1. u.type = "artifact" /\ u.append = FALSE /\ u.last = TRUE /\ u.parts = ps
    BY DEF Final, Update, Event
  <2> HIDE DEF u
  <2>2. is_final_artifact(u)
    BY <2>1 DEF is_final_artifact
  <2> QED
    BY <2>1, <2>2 DEF u
<1> QED
  BY <1>1, <1>3, <1>4

(* A session that is rebuilt from the task store has the events of the     *)
(* invocation, in their order: what was streamed in pieces is replaced,    *)
(* and nothing is kept twice.                                              *)
THEOREM SessionIsExact == Spec => []SessionExact
<1>1. IInv => SessionExact
  <2> SUFFICES ASSUME IInv, world.agent = "llm", store.state = "completed" PROVE get_session = events
    BY DEF SessionExact
  <2>1. /\ Len(store.arts) = Len(events)
        /\ \A i \in 1..Len(events) : events[i] = Final(store.arts[i].id, store.arts[i].parts)
    BY CompletedFacts
  <2>2. events \in Seq(Events) /\ store.arts \in Seq(Artifacts)
    BY RouteFacts DEF IInv
  <2>3. DOMAIN store.arts = 1..Len(events) /\ events = [i \in 1..Len(events) |-> events[i]]
    BY <2>1, <2>2
  <2>4. get_session = [i \in 1..Len(events) |-> Final(store.arts[i].id, store.arts[i].parts)]
    BY <2>3 DEF get_session, Final
  <2> QED
    BY <2>1, <2>3, <2>4
<1> QED
  BY <1>1, InductiveInvariant, PTL

(* In every request to the model each call has its answer in its place,    *)
(* and each answer its call, also when a response was malformed.           *)
THEOREM CallsAreAnswered == Spec => []CallsAnswered
<1>1. IInv => CallsAnswered
  <2> SUFFICES ASSUME IInv, pc = "ask" PROVE CallsAnswered
    BY DEF CallsAnswered
  <2>1. world.agent = "llm"
    BY DEF IInv, Phases, TaskStates, NON_FINAL_TASK_STATES, TASK_RESPONSE_BOUNDARY_STATES, FAILURE_STATES, PAUSE_STATES
  <2>2. events \in Seq(Events) /\ DOMAIN events = 1..Len(events) /\ Len(events) \in Nat
    <3>1. events \in Seq(Events)
      BY RouteFacts DEF IInv
    <3> QED
      BY <3>1
  <2>3. \A i \in 1..Len(events) : events[i] \in Events /\ is_final_artifact(events[i])
    BY <2>1, <2>2, KeptFinal
  <2>4. Matched(events, <<>>)
    BY <2>1 DEF IInv, Paired, Going
  <2> DEFINE M == {_message(e) : e \in Events}
             s == [i \in 1..Len(events) |-> _message(events[i])]
             ss == [i \in DOMAIN events |-> IF is_final_artifact(events[i]) THEN <<_message(events[i])>> ELSE <<>>]
             C == get_contents
  <2>5. C = s /\ DOMAIN s = 1..Len(events) /\ \A i \in 1..Len(events) : s[i] = _message(events[i])
    <3>1. DOMAIN s = 1..Len(events) /\ \A i \in 1..Len(events) : s[i] = _message(events[i])
      OBVIOUS
    <3>2. DOMAIN ss = 1..Len(events) /\ \A i \in 1..Len(events) : ss[i] = <<_message(events[i])>>
      BY <2>2, <2>3
    <3>3. C = Flat(ss)
      BY DEF get_contents
    <3>4. \A i \in 1..Len(events) : _message(events[i]) \in M
      BY <2>3
    <3> HIDE DEF M
    <3>5. s \in Seq(M)
      BY <2>2, <3>4
    <3>6. ss \in [1..Len(events) -> Seq(M)]
      <4>1. \A i \in 1..Len(events) : ss[i] \in Seq(M)
        BY <3>2, <3>4
      <4> QED
        BY <2>2, <4>1
    <3> HIDE DEF s, ss, C
    <3>7. ss \in Lists(M) /\ DOMAIN ss = DOMAIN s /\ \A i \in DOMAIN s : ss[i] = <<s[i]>>
      BY <2>2, <3>1, <3>2, <3>6 DEF Lists
    <3>8. Flat(ss) = s
      BY ONLY <3>5, <3>7, FlatSingles
    <3> QED
      BY <3>1, <3>3, <3>8
  <2> HIDE DEF C, s
  <2>6. \A i \in 1..Len(events) : /\ C[i].calls = CallsOf(events[i]) /\ C[i].answers = AnswersOf(events[i])
                                  /\ DOMAIN C[i].calls = 1..Len(CallsOf(events[i]))
    <3> TAKE i \in 1..Len(events)
    <3>1. C[i] = _message(events[i])
      BY <2>5
    <3>2. C[i].calls = CallsOf(events[i]) /\ C[i].answers = AnswersOf(events[i])
      BY <3>1 DEF _message, CallsOf, AnswersOf
    <3>3. CallsOf(events[i]) \in Seq(Nat)
      BY <2>3, CallFacts
    <3> QED
      BY <3>2, <3>3
  <2>7. DOMAIN C = 1..Len(events)
    BY <2>5
  <2>8. ASSUME NEW i \in DOMAIN C, NEW k \in DOMAIN C[i].calls
        PROVE  i + k \in DOMAIN C /\ C[i + k].answers = <<C[i].calls[k]>>
    <3>1. i \in 1..Len(events) /\ k \in 1..Len(CallsOf(events[i]))
      BY <2>6, <2>7
    <3>2. i + k <= Len(events) /\ AnswersOf(events[i + k]) = <<CallsOf(events[i])[k]>>
      <4>1. Len(<<>>) = 0 /\ i + k - Len(events) \notin 1..0
        OBVIOUS
      <4> QED
        BY <2>4, <3>1, <4>1 DEF Matched
    <3>3. i + k \in 1..Len(events)
      BY <2>2, <3>1, <3>2
    <3> QED
      BY <2>6, <2>7, <3>1, <3>2, <3>3
  <2>9. ASSUME NEW j \in DOMAIN C, C[j].answers # <<>>
        PROVE  \E i \in 1..j - 1 : j - i \in DOMAIN C[i].calls
    <3>1. j \in 1..Len(events) /\ AnswersOf(events[j]) # <<>>
      BY <2>6, <2>7, <2>9
    <3>2. PICK i \in 1..j - 1 : j - i \in 1..Len(CallsOf(events[i]))
      BY <2>4, <3>1 DEF Matched
    <3>3. i \in 1..Len(events)
      BY <2>2, <3>1
    <3> QED
      BY <2>6, <3>2, <3>3
  <2> QED
    BY <2>8, <2>9 DEF CallsAnswered, C
<1> QED
  BY <1>1, InductiveInvariant, PTL

(* The text of the last event is the answer.                               *)
LEMMA AnswerIsSaid ==
  ASSUME IInv, world.agent = "llm"
  PROVE  Answer_text = Said(events)
<1> DEFINE L == [i \in DOMAIN events |-> IF has_function_calls(events[i]) THEN <<>> ELSE extract_text(events[i])]
           n == Len(events)
<1>1. events \in Seq(Events) /\ DOMAIN events = 1..n /\ n \in Nat
  <2>1. events \in Seq(Events)
    BY RouteFacts DEF IInv
  <2> QED
    BY <2>1
<1>2. \A i \in 1..n : events[i] \in Events /\ extract_text(events[i]) = Text(events[i].parts)
                      /\ Text(events[i].parts) \in Seq(Nat)
  BY <1>1, KeptFinal, FinalCalls, CallFacts
<1>3. \A i \in 1..n : ~has_function_calls(events[i]) /\ Text(events[i].parts) # <<>> => i = n
  BY DEF IInv, Closing
<1>4. Answer_text = Flat(L)
  BY DEF Answer_text
<1>5. /\ L \in Lists(Nat) /\ Len(L) = n
      /\ \A i \in 1..n : L[i] = IF has_function_calls(events[i]) THEN <<>> ELSE Text(events[i].parts)
  <2>1. \A i \in 1..n : L[i] = IF has_function_calls(events[i]) THEN <<>> ELSE Text(events[i].parts)
    BY <1>1, <1>2
  <2>2. \A i \in 1..n : L[i] \in Seq(Nat)
    BY <1>2, <2>1
  <2>3. L \in [1..n -> Seq(Nat)]
    <3>1. DOMAIN L = 1..n /\ L = [i \in 1..n |-> L[i]]
      BY <1>1
    <3> HIDE DEF L
    <3> QED
      BY <2>2, <3>1
  <2> HIDE DEF L
  <2> QED
    BY <1>1, <2>1, <2>3 DEF Lists
<1> HIDE DEF L
<1>6. CASE n = 0
  <2>1. events = <<>> /\ Said(events) = <<>>
    BY <1>1, <1>6 DEF Said
  <2>2. \A i \in DOMAIN L : L[i] = <<>>
    BY <1>5, <1>6, ListsFacts
  <2>3. Flat(L) = <<>>
    BY ONLY <1>5, <2>2, FlatEmpty
  <2> QED
    BY <1>4, <2>1, <2>3
<1>7. CASE n # 0
  <2> DEFINE m == n - 1
  <2>1. m \in Nat /\ Len(L) = m + 1 /\ m + 1 = n /\ n \in 1..n /\ events # <<>>
    BY <1>1, <1>5, <1>7
  <2>2. \A i \in 1..m : i \in 1..n /\ i # n
    <3>1. \A k \in Nat : \A i \in 1..(k - 1) : i \in 1..k /\ i # k
      OBVIOUS
    <3> QED
      BY <1>1, <3>1, Zenon
  <2> HIDE DEF m
  <2>3. \A i \in 1..m : L[i] = <<>>
    BY <1>3, <1>5, <2>2
  <2>4. Flat(L) = L[m + 1]
    BY ONLY <1>5, <2>1, <2>3, FlatLast
  <2>5. L[n] = Said(events)
    BY <1>5, <2>1 DEF Said
  <2> QED
    BY <1>4, <2>1, <2>4, <2>5
<1> QED
  BY <1>6, <1>7

(* What the artifacts in the store say, of an agent that does not explain  *)
(* its calls.                                                              *)
LEMMA ArtifactsSay ==
  ASSUME IInv, world.agent = "llm", store.state = "completed", ~Explained
  PROVE  Text(AllParts(store.arts)) = Said(events)
<1> DEFINE n == Len(events)
           L == PartLists(store.arts)
<1>1. events \in Seq(Events) /\ n \in Nat /\ store.arts \in Seq(Artifacts) /\ DOMAIN events = 1..n
  <2>1. events \in Seq(Events) /\ store.arts \in Seq(Artifacts)
    BY RouteFacts DEF IInv
  <2> QED
    BY <2>1
<1>2. Len(store.arts) = n /\ \A i \in 1..n : is_final_artifact(events[i]) /\ events[i].parts = store.arts[i].parts
  BY CompletedFacts
<1>3. L \in Lists(Parts) /\ Len(L) = n /\ AllParts(store.arts) = Flat(L) /\ \A i \in 1..n : L[i] = events[i].parts
  BY <1>1, <1>2, AllPartsFacts
<1>4. \A i \in 1..n : /\ has_function_calls(events[i]) => Text(L[i]) = <<>>
                      /\ ~has_function_calls(events[i]) /\ Text(L[i]) # <<>> => i = n
  <2>1. \A i \in 1..n : extract_text(events[i]) = Text(L[i])
    BY <1>2, <1>3, FinalCalls
  <2>2. \A i \in 1..n : has_function_calls(events[i]) => extract_text(events[i]) = <<>>
    BY <1>1 DEF Explained
  <2>3. \A i \in 1..n : ~has_function_calls(events[i]) /\ Text(events[i].parts) # <<>> => i = n
    BY DEF IInv, Closing
  <2> QED
    BY <1>3, <2>1, <2>2, <2>3
<1> HIDE DEF L
<1>5. CASE n = 0
  <2>1. Said(events) = <<>>
    BY <1>1, <1>5 DEF Said
  <2>2. \A i \in DOMAIN L : L[i] = <<>>
    BY <1>3, <1>5, ListsFacts
  <2>3. Flat(L) = <<>>
    BY ONLY <1>3, <2>2, FlatEmpty
  <2>4. Text(<<>>) = <<>>
    BY OfNone DEF Text
  <2> QED
    BY <1>3, <2>1, <2>3, <2>4
<1>6. CASE n # 0
  <2> DEFINE m == n - 1
  <2>1. m \in Nat /\ Len(L) = m + 1 /\ m + 1 = n /\ n \in 1..n /\ events # <<>>
    BY <1>1, <1>3, <1>6
  <2>2. \A i \in 1..m : i \in 1..n /\ i # n
    <3>1. \A k \in Nat : \A i \in 1..(k - 1) : i \in 1..k /\ i # k
      OBVIOUS
    <3> QED
      BY <1>1, <3>1, Zenon
  <2> HIDE DEF m
  <2>3. \A i \in 1..m : Of(L[i], "text") = <<>>
    BY <1>4, <2>2 DEF Text
  <2>4. Of(Flat(L), "text") = Of(L[m + 1], "text")
    BY ONLY <1>3, <2>1, <2>3, OfFlatLast
  <2>5. Text(Flat(L)) = Text(L[n])
    BY <2>1, <2>4 DEF Text
  <2>6. Text(L[n]) = Said(events)
    BY <1>3, <1>4, <2>1 DEF Said
  <2> QED
    BY <1>3, <2>5, <2>6
<1> QED
  BY <1>5, <1>6

(* The node delivers the answer of the agent: within the workflow, by the  *)
(* stream or by the task, from an LLM agent, from one that streams two     *)
(* artifacts in pieces and from one that answers with a task.  Where its   *)
(* stream ended early, or its task waits, it delivers the answer or        *)
(* nothing.                                                                *)
THEOREM OutputOfAgent == Spec => []OutputIsAnswer
<1> USE DEF TASK_RESPONSE_BOUNDARY_STATES, FAILURE_STATES, PAUSE_STATES
<1>1. IInv => OutputIsAnswer
  <2> DEFINE completed == wire = <<>> /\ store.state = "completed"
             goal == result.output = Answer_text \/ (result.output = <<>> /\ ~completed)
  <2> SUFFICES ASSUME IInv, node = "delivered", store.state \notin FAILURE_STATES, Explained => world.route = "local"
               PROVE  goal
    BY DEF OutputIsAnswer, EndSeen
  <2>1. /\ world.route # "stream" => wire = <<>> /\ store.state \in TASK_RESPONSE_BOUNDARY_STATES
        /\ world.agent = "llm" => store.state # "input_required"
        /\ store.state \in TaskStates
    BY DEF IInv, Phases, EndsEarly, TaskStates, NON_FINAL_TASK_STATES, LLMStates
  <2>2. /\ world.agent \in Agents /\ world.route \in Routes /\ store.arts \in Seq(Artifacts)
        /\ world.agent # "llm" => world.route = "stream"
    BY RouteFacts DEF IInv
  <2>3. CASE world.agent = "llm"
    <3>1. Answer_text = Said(events)
      BY <2>3, AnswerIsSaid
    <3>2. CASE world.route = "local"
      <4>1. result.output = Said(events)
        BY <2>1, <3>2 DEF IInv, Local
      <4> QED
        BY <3>1, <4>1
    <3>3. CASE world.route = "stream"
      <4>1. ~Explained
        BY <3>3
      <4>2. Promoted(wire, Said(events), result)
        BY <2>3, <3>3, <4>1 DEF IInv, Streamed
      <4>3. result.output = Said(events) \/ result.output = <<>>
        BY <4>2 DEF Promoted
      <4>4. wire = <<>> => result.output = Said(events)
        <5>1. 1..Len(<<>>) = {}
          OBVIOUS
        <5> QED
          BY <4>2, <5>1 DEF Promoted
      <4> QED
        BY <3>1, <4>3, <4>4
    <3>4. CASE world.route = "task"
      <4>1. ~Explained /\ wire = <<>> /\ store.state = "completed"
        BY <2>1, <2>3, <3>4
      <4>2. result.output = Text(AllParts(store.arts))
        BY <2>3, <3>4, <4>1 DEF IInv, Sent
      <4>3. Text(AllParts(store.arts)) = Said(events)
        BY <2>3, <4>1, ArtifactsSay
      <4> QED
        BY <3>1, <4>2, <4>3
    <3> QED
      BY <2>2, <3>2, <3>3, <3>4 DEF Routes
  <2>4. CASE world.agent = "chunks"
    <3> DEFINE A == store.arts
    <3>1. Single(A)
      BY <2>4 DEF IInv, Chunks, Single
    <3>2. /\ ~result.promoted => result.output = <<>> /\ (wire = <<>> => todo = <<>>)
          /\ result.promoted => /\ todo # <<>>
                                /\ \E i \in 1..Len(A) : A[i].id = todo[1] /\ result.output = Text(A[i].parts)
      BY <2>4 DEF IInv, Collected
    <3>3. Answer_text = IF todo = <<>> THEN <<>> ELSE Text((CHOOSE a \in Elems(A) : a.id = Head(todo)).parts)
      BY <2>4 DEF Answer_text
    <3>4. DOMAIN A = 1..Len(A)
      BY <2>2
    <3> HIDE DEF A
    <3>5. CASE result.promoted
      <4>1. PICK i \in 1..Len(A) : A[i].id = todo[1] /\ result.output = Text(A[i].parts)
        BY <3>2, <3>5
      <4>2. Head(todo) = todo[1]
        <5>1. todo \in Seq(Nat)
          BY RouteFacts DEF IInv
        <5> QED
          BY <3>2, <3>5, <5>1
      <4>3. A[i] \in Elems(A) /\ \A a \in Elems(A) : a.id = Head(todo) => a = A[i]
        BY <3>1, <3>4, <4>1, <4>2 DEF Single, Elems
      <4>4. (CHOOSE a \in Elems(A) : a.id = Head(todo)) = A[i]
        BY <4>1, <4>2, <4>3
      <4> QED
        BY <3>2, <3>3, <3>5, <4>1, <4>4
    <3>6. CASE ~result.promoted
      BY <3>2, <3>3, <3>6
    <3> QED
      BY <3>5, <3>6
  <2>5. CASE world.agent = "snapshot"
    <3>1. Answer_text = IF store.arts # <<>> THEN Text(AllParts(store.arts)) ELSE result.output
      BY <2>5 DEF Answer_text
    <3>2. /\ wire # <<>> => result.output = <<>>
          /\ wire = <<>> /\ store.state = "completed" /\ AllParts(store.arts) # <<>> =>
               result.output = Text(AllParts(store.arts))
          /\ wire = <<>> /\ store.state \in NON_FINAL_TASK_STATES /\ AllParts(store.arts) # <<>> =>
               result.output = <<>>
          /\ AllParts(store.arts) = <<>> => store.arts = <<>>
      BY <2>5 DEF IInv, Sent
    <3>3. store.state = "completed" \/ store.state \in NON_FINAL_TASK_STATES
      BY <2>1 DEF TaskStates, NON_FINAL_TASK_STATES
    <3> QED
      BY <3>1, <3>2, <3>3
  <2> QED
    BY <2>2, <2>3, <2>4, <2>5 DEF Agents
<1> QED
  BY <1>1, InductiveInvariant, PTL
=============================================================================
