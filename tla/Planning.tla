------------------------------ MODULE Planning ------------------------------
(***************************************************************************)
(* One decision of a language model in choirworks: the planner's plan, the *)
(* decision of a subagent (a forced tool call), or a plain text.  The      *)
(* model streams thought, text and fragments of tool calls; the client     *)
(* puts the call together, the caller shows the chunks to the user as      *)
(* artifacts, validates the call and tries again with feedback.            *)
(*   core/llm.py, core/planner.py, core/agents/llm_agent.py,               *)
(*   orchestration/planning/planner.py, orchestration/events.py,           *)
(*   tools/create_plan.py, subagents/                                      *)
(*                                                                         *)
(* Abstractions.  A piece of text is the number of the chunk it came in.   *)
(* What the fragments of a call add up to is chosen when the stream ends:  *)
(* a draft, and whether its schema accepts it.  Agent names and the input  *)
(* texts of a draft are left out.  The model and the task store are        *)
(* external.                                                               *)
(***************************************************************************)
EXTENDS Naturals, Sequences, FiniteSets, Filters

CONSTANTS
  max_retries,   \* max_plan_retries, LlmAgent.max_retries
  max_nodes,     \* max_plan_nodes
  MaxChunks,     \* bound: chunks of one stream
  NodeId,        \* ids a draft may use
  Answers,       \* the drafts the model may come up with
  Drafts         \* the drafts validate_plan is compared on

Kinds == {"thought", "text"}
Roles == {"planner",       \* plan_and_launch
          "agent",         \* LlmAgent with a final_tool
          "writer"}        \* LlmAgent without tools

(* PlanDraft: any list of nodes, the dependencies any list of ids. *)
PlanDraft == Seq([id : NodeId, deps : Seq(NodeId)])

ASSUME PlanningAssumption ==
  /\ max_retries \in Nat /\ max_nodes \in Nat /\ MaxChunks \in Nat
  /\ \A d \in Answers \cup Drafts : d \in PlanDraft

VARIABLES
  role,
  pc,        \* start, stream, then done, failed (PlanningFailed) or raised
  attempt,
  chunks,    \* chunks of this stream
  parts,     \* reasoning_parts and content_parts
  id,        \* stands for thought_id and text_id
  call,      \* fragments and call_names: the name under each index, "" for none yet
  feedback,  \* feedback messages the model is sent, by the attempt they are about
  shown,     \* the artifacts as the store and the client have them
  told,      \* what the conversation records of it, in order
  result,    \* what the caller gets: a draft, a text, or process(None)
  spoken     \* history: what the model said, by attempt

vars == <<role, pc, attempt, chunks, parts, id, call, feedback, shown, told, result, spoken>>

Attempts == 0..max_retries
Silence  == [q \in Kinds |-> <<>>]
Result(k, v) == [kind |-> k, value |-> v]

(***************************************************************************)
(* validate_plan.                                                          *)
(***************************************************************************)
ids(d)     == {d[i].id : i \in DOMAIN d}
node_of(d, n) == d[CHOOSE i \in DOMAIN d : d[i].id = n]

(* Mutant: a dependency that is named twice counts twice. *)
indegree_listed(d) == [n \in ids(d) |-> Len(node_of(d, n).deps)]

indegree(d) == [n \in ids(d) |-> Cardinality(Elems(node_of(d, n).deps))]

children(d, n) == Those([i \in DOMAIN d |-> d[i].id],
                        {c \in ids(d) : n \in Elems(node_of(d, c).deps)})

(* One round of the loop: the node at the end of the queue is visited, the *)
(* degree of each of its children sinks, and those it leaves at zero join  *)
(* the queue in the order of the plan (no child is listed twice: the ids   *)
(* are unique by now).                                                     *)
visit(d, s) ==
  LET last     == Len(s.queue)
      released == children(d, s.queue[last])
  IN  [queue   |-> SubSeq(s.queue, 1, last - 1)
                     \o Those(released, {c \in ids(d) : s.degree[c] = 1}),
       degree  |-> [c \in ids(d) |-> IF c \in Elems(released) THEN s.degree[c] - 1
                                     ELSE s.degree[c]],
       visited |-> s.visited + 1]

(* The loop as a function of the rounds made.  A node joins the queue once *)
(* at most, when its degree comes to zero, so the queue is empty after as  *)
(* many rounds as there are nodes (proved in PlanningProofs).              *)
loop(d) ==
  LET f[k \in 0..Len(d)] ==
        IF k = 0
        THEN [queue   |-> Those([i \in DOMAIN d |-> d[i].id], {n \in ids(d) : indegree(d)[n] = 0}),
              degree  |-> indegree(d),
              visited |-> 0]
        ELSE IF f[k - 1].queue = <<>> THEN f[k - 1] ELSE visit(d, f[k - 1])
  IN  f

visited(d) == loop(d)[Len(d)].visited

validate_plan(d) ==
  /\ Len(d) <= max_nodes
  /\ Cardinality(ids(d)) = Len(d)
  /\ \A i \in DOMAIN d : \A e \in Elems(d[i].deps) : e \in ids(d) /\ e # d[i].id
  /\ visited(d) = Len(d)

(***************************************************************************)
(* Artifacts.  The store replaces an artifact, or appends to one it has.   *)
(***************************************************************************)
Absent == [pieces |-> <<>>, sealed |-> FALSE]

stored(art, pieces, append, last) ==
  IF ~append THEN [pieces |-> pieces, sealed |-> last]
  ELSE IF art = Absent THEN art
  ELSE [pieces |-> art.pieces \o pieces, sealed |-> art.sealed \/ last]

(* Mutant: the first chunk of a kind is decided by the first of any kind. *)
append_any(q) == \E p \in Kinds : parts[p] # <<>>

append(q) == parts[q] # <<>>       \* not first_reasoning, not first_content

(* emit_thought_chunk and emit_text_chunk for the kinds K of chunk k *)
emit_chunks(K, k) ==
  [shown EXCEPT ![id] = [q \in Kinds |-> IF q \in K THEN stored(@[q], <<k>>, append(q), FALSE)
                                         ELSE @[q]]]

(* everything said in the attempt once more, as the last chunk *)
_seal ==
  [shown EXCEPT ![id] = [q \in Kinds |-> IF parts[q] = <<>> THEN @[q]
                                         ELSE stored(@[q], parts[q], FALSE, TRUE)]]

(***************************************************************************)
(* The stream: LiteLLMClient.stream and what the caller makes of a Delta.  *)
(***************************************************************************)
Start ==
  /\ pc = "start" /\ pc' = "stream"
  /\ UNCHANGED <<role, attempt, chunks, parts, id, call, feedback, shown, told, result, spoken>>

(* plan finds no agent registered *)
NoAgents ==
  /\ pc = "start" /\ role = "planner"
  /\ pc' = "failed" /\ told' = Append(told, "failed")
  /\ UNCHANGED <<role, attempt, chunks, parts, id, call, feedback, shown, result, spoken>>

(* fragments and call_names after a fragment <<i, n>> of the call with     *)
(* index i that names the tool n ("" for no name), if cs holds one         *)
fragments(cs) ==
  [i \in DOMAIN call \cup {c[1] : c \in cs} |->
     IF \E c \in cs : c[1] = i /\ c[2] # "" THEN (CHOOSE c \in cs : c[1] = i)[2]
     ELSE IF i \in DOMAIN call THEN call[i] ELSE ""]

(* A chunk with pieces of the kinds K and the fragment in cs, if any; no   *)
(* tools are offered to a writer.                                          *)
Chunk(K, cs) ==
  LET k      == chunks + 1
      add(s) == [q \in Kinds |-> IF q \in K THEN Append(s[q], k) ELSE s[q]]
  IN  /\ pc = "stream" /\ chunks < MaxChunks
      /\ role = "writer" => cs = {}
      /\ chunks' = k /\ call' = fragments(cs)
      /\ parts' = add(parts) /\ spoken' = [spoken EXCEPT ![attempt] = add(@)]
      /\ shown' = emit_chunks(K, k)
      /\ UNCHANGED <<role, pc, attempt, id, feedback, told, result>>

(* The model, or the connection to it, fails with what is no ValueError:   *)
(* nobody on the way up to the executor catches it.                        *)
ModelRaises ==
  /\ pc = "stream" /\ pc' = "raised"
  /\ UNCHANGED <<role, attempt, chunks, parts, id, call, feedback, shown, told, result, spoken>>

(* The stream ends in a ToolCallResult for the arguments a: one call, of a *)
(* tool that was offered, with arguments its schema accepts.               *)
ToolCallResult(a) ==
  Cardinality(DOMAIN call) = 1 /\ (\A i \in DOMAIN call : call[i] = "known") /\ a.parses

(***************************************************************************)
(* The end of an attempt.                                                  *)
(***************************************************************************)
(* Mutant: only the last feedback is sent. *)
with_feedback_last == <<attempt>>

with_feedback == Append(feedback, attempt)

(* Mutant: the artifacts of the attempt are left open. *)
next_attempt_open ==
  /\ attempt' = attempt + 1 /\ feedback' = with_feedback /\ UNCHANGED shown
  /\ chunks' = 0 /\ parts' = Silence /\ id' = id + 1 /\ call' = <<>>

(* The artifacts are closed, the error goes into the conversation with the *)
(* model, and everything starts afresh.                                    *)
next_attempt ==
  /\ attempt' = attempt + 1 /\ feedback' = with_feedback /\ shown' = _seal
  /\ chunks' = 0 /\ parts' = Silence /\ id' = id + 1 /\ call' = <<>>

Ends(to) ==
  /\ pc' = to /\ shown' = _seal
  /\ UNCHANGED <<role, attempt, chunks, parts, id, call, spoken>>

(* --- the planner: plan, stream_plan, plan_and_launch --- *)

(* create_plan and start_runner; an empty plan is the end of the turn *)
launched(d) == IF d = <<>> THEN <<"decision", "completed">> ELSE <<"decision", "call", "runs">>

planned(a) == ToolCallResult(a) /\ validate_plan(a.draft)

PlanLaunched(a) ==
  /\ pc = "stream" /\ role = "planner" /\ planned(a)
  /\ Ends("done") /\ result' = Result("draft", a.draft) /\ told' = told \o launched(a.draft)
  /\ UNCHANGED feedback

PlanRetry(a) ==
  /\ pc = "stream" /\ role = "planner" /\ ~planned(a) /\ attempt < max_retries
  /\ next_attempt /\ told' = Append(told, "error")
  /\ UNCHANGED <<role, pc, result, spoken>>

PlanningFailed(a) ==
  /\ pc = "stream" /\ role = "planner" /\ ~planned(a) /\ attempt = max_retries
  /\ Ends("failed") /\ feedback' = with_feedback /\ told' = Append(told, "failed")
  /\ UNCHANGED result

(* --- an agent: LlmAgent.run_async --- *)

Decided(a) ==
  /\ pc = "stream" /\ role = "agent" /\ ToolCallResult(a)
  /\ Ends("done") /\ result' = Result("draft", a.draft)
  /\ UNCHANGED <<feedback, told>>

AgentRetry(a) ==
  /\ pc = "stream" /\ role = "agent" /\ ~ToolCallResult(a) /\ attempt < max_retries
  /\ next_attempt
  /\ UNCHANGED <<role, pc, told, result, spoken>>

Exhausted(a) ==          \* process(None)
  /\ pc = "stream" /\ role = "agent" /\ ~ToolCallResult(a) /\ attempt = max_retries
  /\ Ends("done") /\ feedback' = with_feedback /\ result' = Result("fallback", <<>>)
  /\ UNCHANGED told

(* --- an agent without tools --- *)

_run_text ==
  /\ pc = "stream" /\ role = "writer"
  /\ Ends("done") /\ result' = Result("text", parts["text"])
  /\ UNCHANGED <<feedback, told>>

Init ==
  /\ role \in Roles /\ pc = "start" /\ attempt = 0 /\ chunks = 0
  /\ parts = Silence /\ id = 0 /\ call = <<>> /\ feedback = <<>>
  /\ shown = [i \in Attempts |-> [q \in Kinds |-> Absent]]
  /\ told = <<>> /\ result = Result("none", <<>>)
  /\ spoken = [i \in Attempts |-> Silence]

Calls == {{}} \cup {{<<i, n>>} : i \in 0..1, n \in {"", "known", "unknown"}}

Args == [parses : BOOLEAN, draft : Answers]

Decide ==
  \/ Start \/ NoAgents \/ _run_text
  \/ \E K \in SUBSET Kinds, cs \in Calls : Chunk(K, cs)
  \/ \E a \in Args : \/ PlanLaunched(a) \/ PlanRetry(a) \/ PlanningFailed(a)
                     \/ Decided(a) \/ AgentRetry(a) \/ Exhausted(a)

Next == Decide \/ ModelRaises

Spec == Init /\ [][Next]_vars

(***************************************************************************)
(* Properties.                                                             *)
(***************************************************************************)

(* What the user sees of an attempt is, piece by piece and in order, what  *)
(* the model said in it, at every moment: chunks that begin an artifact,   *)
(* chunks appended to it, the sealing chunk that repeats all of them, and  *)
(* the artifacts of the next attempt do not disturb each other.            *)
ShownIsSpoken == \A i \in Attempts, q \in Kinds : shown[i][q].pieces = spoken[i][q]

(* "Seal this attempt's artifacts so the next attempt cannot append to     *)
(* them": once the next attempt has begun, or the decision is made or      *)
(* given up, no artifact is left open (an error that is raised through the *)
(* caller leaves the artifacts of the last attempt open).                  *)
AttemptsSealed ==
  \A i \in Attempts, q \in Kinds :
    shown[i][q] # Absent /\ (pc \in {"done", "failed"} \/ i < attempt) => shown[i][q].sealed

(* A plan the runner can finish: ids are unique, dependencies are nodes of *)
(* the plan, and in every set of nodes one depends on none of the set.     *)
Sound(d) ==
  /\ Len(d) <= max_nodes
  /\ \A i, j \in DOMAIN d : d[i].id = d[j].id => i = j
  /\ \A i \in DOMAIN d : Elems(d[i].deps) \subseteq {d[j].id : j \in DOMAIN d}
  /\ \A S \in (SUBSET DOMAIN d) \ {{}} :
       \E i \in S : \A j \in S : d[j].id \notin Elems(d[i].deps)

(* Every attempt that failed is told to the model when it is asked again,  *)
(* and by the planner to the conversation; the conversation then hears of  *)
(* one end: a failure after the last attempt (or for want of agents), an   *)
(* empty plan completed, or a plan that runs and that is sound, whatever   *)
(* the model answered in whichever attempt.                                *)
FailuresTold ==
  LET errors == [i \in 1..attempt |-> "error"]
  IN  /\ pc \in {"stream", "raised"} => feedback = [i \in 1..attempt |-> i - 1]
      /\ role = "planner" =>
           /\ pc \in {"stream", "raised"} => told = errors
           /\ pc = "failed" => told = Append(errors, "failed")
           /\ pc = "done" => told = errors \o launched(result.value) /\ Sound(result.value)
           /\ pc = "failed" /\ feedback # <<>> => attempt = max_retries

(* validate_plan, which counts degrees and walks the plan as Kahn's        *)
(* algorithm does, accepts exactly the sound drafts: those with            *)
(* dependencies listed twice, nodes beside a cycle and the empty one too.  *)
ValidationExact == pc = "start" => \A d \in Drafts : validate_plan(d) <=> Sound(d)
=============================================================================
