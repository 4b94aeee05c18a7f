----------------------------- MODULE AgentStream -----------------------------
(***************************************************************************)
(* An LLM agent of new_choirworks at work and the node that waits for its  *)
(* answer: the tool loop of the agent, the artifacts it streams, what the  *)
(* task store keeps of them, and how the answer becomes the output of the  *)
(* node that runs the agent in the workflow or calls it over A2A.          *)
(*   core/agents/llm_agent.py, core/models/lite_llm.py, core/events/       *)
(*   event.py, core/flows/llm_flows/context/contents.py, a2a/executor.py,  *)
(*   core/sessions/task_store_session_service.py, core/workflow/           *)
(*   llm_agent_wrapper.py, core/a2a/agent/remote_a2a_agent.py,             *)
(*   orchestrator/executor_node.py                                         *)
(*                                                                         *)
(* Abstractions.  A text is the sequence of the pieces it was streamed in, *)
(* a call or its result a number.  Names, branches and node paths are left *)
(* out (there is one agent).  The LLM, the tools, the SDK's task store and *)
(* agents other than the LLM agent are external.                           *)
(***************************************************************************)
EXTENDS Naturals, Sequences, Filters

CONSTANTS
  max_retries,     \* LLMAgent.max_retries
  Worlds           \* what may happen in one behaviour, and its bounds

Faults == {"malformed",   \* the model's call has no name or no valid arguments
           "tool",        \* a tool raises, or is unknown
           "schema",      \* the answer is not what the output_schema asks for
           "llm",         \* the model cannot be reached or breaks off
           "explains",    \* the model writes a text beside its calls
           "mute",        \* a task waits for input without a message
           "cut",         \* the connection to the agent fails
           "early",       \* the stream ends although the task has not
           "cancel"}      \* the task is cancelled

(* Who answers, and how the node gets it. *)
Agents == {"llm", "chunks", "snapshot"}
Routes == {"local",    \* run_llm_agent_as_node
           "stream",   \* RemoteA2aAgent, with streaming
           "task"}     \* RemoteA2aAgent, one task when it has ended

ASSUME ConstantsAssumption ==
  /\ max_retries \in Nat
  /\ Worlds \subseteq [agent : Agents, route : Routes, faults : SUBSET Faults,
                      pieces : Nat,     \* bound: pieces of text and thought
                      calls : Nat,      \* bound: calls of one response
                      turns : Nat]      \* bound: calls of the model
  /\ \A w \in Worlds : w.agent # "llm" => w.route = "stream"

VARIABLES
  world,     \* the agent, the route and the faults of this behaviour, and its bounds
  pc,        \* where the agent is
  turn,      \* calls of the model so far, and the malformed ones
  buf,       \* thought_buf, text_buf and function_calls of the response
  todo,      \* the calls still to execute, or to answer with the error
  made,      \* pieces and calls made, to tell them apart
  events,    \* InvocationContext.events, without the user's message
  store,     \* the task in the store: its state and its artifacts
  wire,      \* what is on its way to the node
  buffers,   \* _artifact_buffers of RemoteA2aAgent
  result,    \* ctx.output, and what run_remote_node has seen
  node       \* running, delivered or failed

agentVars == <<pc, turn, buf, todo, made, events, store>>
vars == <<world, agentVars, wire, buffers, result, node>>

FAILURE_STATES == {"failed", "canceled"}
PAUSE_STATES   == {"input_required"}
TASK_RESPONSE_BOUNDARY_STATES == FAILURE_STATES \cup PAUSE_STATES \cup {"completed"}
NON_FINAL_TASK_STATES == {"submitted", "working"} \cup PAUSE_STATES
TaskStates == TASK_RESPONSE_BOUNDARY_STATES \cup NON_FINAL_TASK_STATES

Fault(f) == f \in world.faults

(***************************************************************************)
(* Events and their content.                                               *)
(***************************************************************************)
Part(k, s) == [kind |-> k, of |-> s]

Event(t, id, ps, s) ==
  [type |-> t, id |-> id, parts |-> ps, append |-> FALSE, last |-> FALSE, state |-> s]
Update(id, ps, append, last) ==
  [Event("artifact", id, ps, "none") EXCEPT !.append = append, !.last = last]
Status(s, ps) == Event("status", 0, ps, s)
Task(s, arts, ps, hist) ==      \* a snapshot: artifacts, status and its message, history
  [type |-> "task", state |-> s, arts |-> arts, parts |-> ps, history |-> hist]

is_final_artifact(e) == e.type = "artifact" /\ ~e.append /\ e.last
is_partial_event(e)  == e.type = "artifact" /\ ~is_final_artifact(e)

event_content_parts(e) ==
  IF \/ e.type = "message" \/ is_final_artifact(e)
     \/ e.type = "status" /\ e.state \in TASK_RESPONSE_BOUNDARY_STATES
  THEN e.parts ELSE <<>>

(* What the parts of a kind hold, one after the other. *)
Of(ps, kind) == Flat([i \in DOMAIN ps |-> IF ps[i].kind = kind THEN ps[i].of ELSE <<>>])

Text(ps) == Of(ps, "text")

extract_text(e) == Text(event_content_parts(e))

has_function_calls(e) == \E p \in Elems(event_content_parts(e)) : p.kind = "call"

(***************************************************************************)
(* What goes out: partial events are not kept with the invocation, all are *)
(* merged in the store and sent to the node (over A2A without streaming    *)
(* only the task, when it has ended).                                      *)
(***************************************************************************)
merged(arts, e) ==      \* the SDK's TaskManager
  IF \E i \in DOMAIN arts : arts[i].id = e.id
  THEN [i \in DOMAIN arts |->
          IF arts[i].id # e.id THEN arts[i]
          ELSE [id |-> e.id, parts |-> IF e.append THEN arts[i].parts \o e.parts ELSE e.parts]]
  ELSE IF e.append THEN arts ELSE Append(arts, [id |-> e.id, parts |-> e.parts])

AllParts(arts) == Flat([i \in DOMAIN arts |-> arts[i].parts])

Emit(e) ==
  /\ events' = IF is_partial_event(e) THEN events ELSE Append(events, e)
  /\ store' = [store EXCEPT !.arts = merged(@, e)]
  /\ wire' = IF world.route = "task" THEN wire ELSE Append(wire, e)

(* The executor's own status updates are not events of the invocation.     *)
EmitStatus(s, ps) ==
  /\ store' = [store EXCEPT !.state = s]
  /\ wire' = CASE world.route = "local" -> wire
               [] world.route = "task" ->
                    IF s \in TASK_RESPONSE_BOUNDARY_STATES
                    THEN Append(wire, Task(s, AllParts(store.arts), ps, <<>>)) ELSE wire
               [] OTHER -> Append(wire, Status(s, ps))
  /\ UNCHANGED events

(* An async generator goes on when its event has been handled. *)
Handled == world.route = "local" => wire = <<>>

(***************************************************************************)
(* The LLM agent.                                                          *)
(***************************************************************************)
NoBuf == [thought |-> <<>>, text |-> <<>>, calls |-> <<>>, error |-> FALSE]

(* BaseAgentExecutor._run: working, then the agent.  (The snapshot of the   *)
(* submitted task that goes before it tells the node nothing.)             *)
Execute ==
  /\ pc = "start" /\ world.agent = "llm"
  /\ pc' = "ask"
  /\ EmitStatus("working", <<>>)
  /\ UNCHANGED <<world, turn, buf, todo, made, buffers, result, node>>

(* get_contents: the messages for the model. *)
_message(e) ==
  [text |-> Text(e.parts), calls |-> Of(e.parts, "call"), answers |-> Of(e.parts, "response")]

get_contents ==
  Flat([i \in DOMAIN events |-> IF is_final_artifact(events[i]) THEN <<_message(events[i])>> ELSE <<>>])

Request ==
  /\ pc = "ask" /\ Handled /\ turn.n < world.turns
  /\ pc' = "stream"
  /\ turn' = [turn EXCEPT !.n = @ + 1] /\ buf' = NoBuf /\ made' = [made EXCEPT !.id = @ + 1]
  /\ UNCHANGED <<world, todo, events, store, wire, buffers, result, node>>

(* A delta with reasoning, content or both becomes one update. *)
_build_parts(kinds, k) == [i \in DOMAIN kinds |-> Part(kinds[i], <<k>>)]

Appending == buf.thought # <<>> \/ buf.text # <<>>

Chunk(kinds) ==
  /\ pc = "stream" /\ Handled /\ buf.calls = <<>>
  /\ made.piece < world.pieces
  /\ LET k == made.piece + 1
     IN  /\ made' = [made EXCEPT !.piece = k]
         /\ buf' = [buf EXCEPT !.thought = IF "thought" \in Elems(kinds) THEN Append(@, k) ELSE @,
                               !.text = IF "text" \in Elems(kinds) THEN Append(@, k) ELSE @]
         /\ Emit(Update(made.id, _build_parts(kinds, k), Appending, FALSE))
  /\ UNCHANGED <<world, pc, turn, todo, buffers, result, node>>

(* The calls of the model, put together by _stream, come last; one that    *)
(* cannot be parsed is kept and marks the response.                        *)
_build_function_call_response(k, ok) == [part |-> Part("call", <<k>>), error |-> ~ok]

Call(ok) ==
  /\ pc = "stream" /\ Handled /\ Len(buf.calls) < world.calls /\ turn.n < world.turns
  /\ ok \/ Fault("malformed")
  /\ buf.text = <<>> \/ Fault("explains")
  /\ LET k == made.call + 1
     IN  /\ made' = [made EXCEPT !.call = k]
         /\ LET r == _build_function_call_response(k, ok)
            IN  /\ buf' = [buf EXCEPT !.calls = Append(@, k), !.error = @ \/ r.error]
                /\ Emit(Update(made.id, <<r.part>>, Appending, FALSE))
  /\ UNCHANGED <<world, pc, turn, todo, buffers, result, node>>

(* close: the parts of the response put together. *)
close ==
  (IF buf.thought # <<>> THEN <<Part("thought", buf.thought)>> ELSE <<>>)
  \o (IF buf.text # <<>> THEN <<Part("text", buf.text)>> ELSE <<>>)
  \o [i \in DOMAIN buf.calls |-> Part("call", <<buf.calls[i]>>)]

(* Mutant: the closing update is an artifact of its own. *)
close_id_new == made.id + 100

(* It replaces the artifact that was streamed. *)
close_id == made.id

Close ==
  /\ pc = "stream" /\ Handled
  /\ IF close # <<>> THEN Emit(Update(close_id, close, FALSE, TRUE)) ELSE UNCHANGED <<events, store, wire>>
  /\ todo' = buf.calls
  /\ pc' = IF buf.calls = <<>> THEN "done" ELSE IF buf.error THEN "refuse" ELSE "tools"
  /\ turn' = [turn EXCEPT !.bad = @ + (IF pc' = "refuse" THEN 1 ELSE 0)]
  /\ UNCHANGED <<world, buf, made, buffers, result, node>>

(* validate_schema raises before the response is closed. *)
CloseInvalid ==
  /\ pc = "stream" /\ Handled /\ buf.calls = <<>> /\ Fault("schema")
  /\ pc' = "raised"
  /\ UNCHANGED <<world, turn, buf, todo, made, events, store, wire, buffers, result, node>>

(* Mutant: only the first call of a response is executed. *)
Answered_first == todo' = <<>>

Answered == todo' = Tail(todo)

(* One call is answered: with the result of the tool, or, when a call of   *)
(* the response was malformed, with the error.                             *)
Answer ==
  /\ pc \in {"tools", "refuse"} /\ Handled /\ todo # <<>>
  /\ Emit(Update(made.id + 1, <<Part("response", <<Head(todo)>>)>>, FALSE, TRUE))
  /\ made' = [made EXCEPT !.id = @ + 1]
  /\ Answered
  /\ UNCHANGED <<world, pc, turn, buf, buffers, result, node>>

gives_up == turn.bad >= max_retries

AllAnswered ==
  /\ pc \in {"tools", "refuse"} /\ Handled /\ todo = <<>>
  /\ pc' = IF pc = "refuse" /\ gives_up THEN "done" ELSE "ask"
  /\ UNCHANGED <<world, turn, buf, todo, made, events, store, wire, buffers, result, node>>

Raise ==          \* the model or a tool raises
  /\ Handled
  /\ \/ pc \in {"ask", "stream"} /\ Fault("llm")
     \/ pc = "tools" /\ todo # <<>> /\ Fault("tool")
  /\ pc' = "raised"
  /\ UNCHANGED <<world, turn, buf, todo, made, events, store, wire, buffers, result, node>>

(***************************************************************************)
(* BaseAgentExecutor: the end of the task.                                 *)
(***************************************************************************)
(* Mutant: an agent that raises leaves its task as it is. *)
Ends_silent(s) ==
  /\ Handled /\ pc = "done" /\ s = "completed"
  /\ pc' = s
  /\ EmitStatus(s, <<>>)
  /\ UNCHANGED <<world, turn, buf, todo, made, buffers, result, node>>

Ends(s) ==
  /\ Handled
  /\ \/ pc = "done" /\ s = "completed"
     \/ pc = "raised" /\ s = "failed"
  /\ pc' = s
  /\ EmitStatus(s, IF s = "failed" THEN <<Part("text", <<0>>)>> ELSE <<>>)
  /\ UNCHANGED <<world, turn, buf, todo, made, buffers, result, node>>

Cancel ==         \* BaseAgentExecutor.cancel
  /\ Fault("cancel") /\ world.agent = "llm" /\ world.route # "local"
  /\ pc \notin {"start", "completed", "failed", "canceled"}
  /\ pc' = "canceled"
  /\ EmitStatus("canceled", <<>>)
  /\ UNCHANGED <<world, turn, buf, todo, made, buffers, result, node>>

(***************************************************************************)
(* Other agents (external): one that streams the pieces of two artifacts   *)
(* in any order, the last of each with append, and one that answers at     *)
(* once, with a task, which need not have ended, or with a message only.   *)
(***************************************************************************)
OtherChunk(id, last) ==
  /\ world.agent = "chunks" /\ pc = "start"
  /\ made.piece < world.pieces \/ (last /\ \E a \in Elems(store.arts) : a.id = id)
  /\ id \notin Elems(todo)
  /\ made' = [made EXCEPT !.piece = @ + 1]
  /\ Emit(Update(id, <<Part("text", <<made.piece + 1>>)>>,
                 \E i \in DOMAIN store.arts : store.arts[i].id = id, last))
  /\ todo' = IF last THEN Append(todo, id) ELSE todo
  /\ UNCHANGED <<world, pc, turn, buf, buffers, result, node>>

OtherEnds(s) ==
  /\ world.agent = "chunks" /\ pc = "start"
  /\ \A i \in DOMAIN store.arts : store.arts[i].id \in Elems(todo)
  /\ pc' = s
  /\ EmitStatus(s, <<>>)
  /\ UNCHANGED <<world, turn, buf, todo, made, buffers, result, node>>

Snapshots ==      \* an artifact, a status message, a message in the history, each or not
  {<<a, m, h>> : a \in {<<>>, <<Part("text", <<1>>)>>}, m \in {<<>>, <<Part("text", <<2>>)>>},
                 h \in {<<>>, <<Part("text", <<3>>)>>}}

OtherTask(s, f) ==
  /\ world.agent = "snapshot" /\ pc = "start"
  /\ s \in PAUSE_STATES /\ f[2] = <<>> => Fault("mute")
  /\ s \notin TASK_RESPONSE_BOUNDARY_STATES => Fault("early")
  /\ pc' = s
  /\ store' = [state |-> s, arts |-> IF f[1] = <<>> THEN <<>> ELSE <<[id |-> 1, parts |-> f[1]]>>]
  /\ wire' = Append(wire, Task(s, f[1], f[2], f[3]))
  /\ UNCHANGED <<world, turn, buf, todo, made, events, buffers, result, node>>

OtherMessage ==      \* there is no task, and nothing after the message
  /\ world.agent = "snapshot" /\ pc = "start"
  /\ pc' = "completed" /\ store' = [state |-> "completed", arts |-> <<>>]
  /\ wire' = Append(wire, Event("message", 0, <<Part("text", <<1>>)>>, "none"))
  /\ UNCHANGED <<world, turn, buf, todo, made, events, buffers, result, node>>

(***************************************************************************)
(* RemoteA2aAgent: responses become events of this task.                   *)
(***************************************************************************)
(* Mutant: a failed task with an artifact is reduced to the artifact. *)
_events_from_task_artifacts(t) ==
  IF t.arts # <<>> THEN <<Update(0, t.arts, FALSE, t.state \notin NON_FINAL_TASK_STATES)>>
  ELSE <<Status(t.state, t.parts)>>

_events_from_task(t) ==
  LET artifact == IF t.arts = <<>> THEN <<>>
                  ELSE <<Update(0, t.arts, FALSE, t.state \notin NON_FINAL_TASK_STATES)>>
      status   == IF \/ t.state \in FAILURE_STATES
                     \/ /\ t.parts # <<>>
                        /\ \/ t.state \in PAUSE_STATES
                           \/ t.arts = <<>> /\ t.state \in TASK_RESPONSE_BOUNDARY_STATES
                  THEN <<Status(t.state, t.parts)>> ELSE <<>>
      message  == IF artifact \o status = <<>> /\ t.state \in TASK_RESPONSE_BOUNDARY_STATES /\ t.history # <<>>
                  THEN <<Event("message", 0, t.history, "none")>> ELSE <<>>
      found    == artifact \o status \o message
  IN  IF found = <<>> THEN <<Status(t.state, t.parts)>> ELSE found

Buffered(e) ==
  IF e.append /\ e.id \in DOMAIN buffers THEN buffers[e.id] \o e.parts ELSE e.parts

(* Mutant: the synthetic update has the parts of the last chunk only. *)
_aggregate_last_chunk(e) ==
  IF e.last /\ e.append THEN <<e, Update(e.id, e.parts, FALSE, TRUE)>> ELSE <<e>>

_aggregate_artifact_update(e) ==
  IF e.last /\ e.append THEN <<e, Update(e.id, Buffered(e), FALSE, TRUE)>> ELSE <<e>>

_handle_a2a_response(e) ==
  CASE e.type = "artifact" -> _aggregate_artifact_update(e)
    [] e.type = "task"     -> _events_from_task(e)
    [] OTHER               -> <<e>>

buffers_after(e) ==
  IF e.type # "artifact" THEN buffers
  ELSE [i \in (DOMAIN buffers \cup {e.id}) \ (IF e.last THEN {e.id} ELSE {}) |->
          IF i = e.id THEN Buffered(e) ELSE buffers[i]]

_promote_response_to_output(r, e) ==
  IF \/ r.promoted \/ is_partial_event(e)
     \/ e.type = "status" /\ e.state \in NON_FINAL_TASK_STATES
     \/ extract_text(e) = <<>>
  THEN r ELSE [r EXCEPT !.promoted = TRUE, !.output = extract_text(e)]

(* run_remote_node notes the first failure and the first pause. *)
noted(r, e) ==
  IF e.type # "status" THEN r
  ELSE [r EXCEPT !.failure = @ \/ e.state \in FAILURE_STATES, !.pause = @ \/ e.state \in PAUSE_STATES]

Seen(r, es) ==
  LET f[i \in 0..Len(es)] ==
        IF i = 0 THEN r ELSE noted(_promote_response_to_output(f[i - 1], es[i]), es[i])
  IN  f[Len(es)]

Receive ==
  /\ world.route # "local" /\ node = "running" /\ wire # <<>>
  /\ result' = Seen(result, _handle_a2a_response(Head(wire)))
  /\ buffers' = buffers_after(Head(wire))
  /\ wire' = Tail(wire)
  /\ UNCHANGED <<world, agentVars, node>>

(* The connection cannot be made or fails: a failed status of our own. *)
Cut ==
  /\ Fault("cut") /\ world.route # "local" /\ node = "running"
  /\ result' = noted(result, Status("failed", <<Part("text", <<0>>)>>))
  /\ node' = "failed"
  /\ buffers' = <<>>
  /\ UNCHANGED <<world, agentVars, wire>>

(* The stream ends, and the node with it, whatever it has seen; cleanup.   *)
(* An agent ends it with its task; one that ends early is over before the  *)
(* task, and what is on its way by then does not arrive.                   *)
EndSeen   == store.state \in TASK_RESPONSE_BOUNDARY_STATES /\ wire = <<>>
EndsEarly == Fault("early") /\ world.route = "stream"

RemoteEnds ==
  /\ world.route # "local" /\ node = "running" /\ (EndSeen \/ EndsEarly)
  /\ node' = IF result.failure \/ result.pause THEN "failed" ELSE "delivered"
  /\ buffers' = <<>>
  /\ UNCHANGED <<world, agentVars, wire, result>>

(***************************************************************************)
(* run_llm_agent_as_node: process_llm_agent_output for every event.        *)
(***************************************************************************)
Process ==
  /\ world.route = "local" /\ wire # <<>>
  /\ LET e == Head(wire)
     IN  result' = IF ~is_final_artifact(e) \/ has_function_calls(e) THEN result
                   ELSE [result EXCEPT !.output = extract_text(e)]
  /\ wire' = Tail(wire)
  /\ UNCHANGED <<world, agentVars, buffers, node>>

LocalEnds ==
  /\ world.route = "local" /\ node = "running" /\ wire = <<>>
  /\ store.state \in TASK_RESPONSE_BOUNDARY_STATES
  /\ node' = IF store.state = "completed" THEN "delivered" ELSE "failed"
  /\ UNCHANGED <<world, agentVars, wire, buffers, result>>

(* What a session rebuilt from the store has of the task: its artifacts,   *)
(* each as a final event.                                                  *)
get_session == [i \in DOMAIN store.arts |-> Update(store.arts[i].id, store.arts[i].parts, FALSE, TRUE)]

(***************************************************************************)
(* The specification.                                                      *)
(***************************************************************************)
Init ==
  /\ world \in Worlds
  /\ pc = "start" /\ turn = [n |-> 0, bad |-> 0] /\ buf = NoBuf /\ todo = <<>>
  /\ made = [piece |-> 0, call |-> 0, id |-> 0]
  /\ events = <<>> /\ store = [state |-> "submitted", arts |-> <<>>]
  /\ wire = <<>> /\ buffers = <<>> /\ node = "running"
  /\ result = [output |-> <<>>, promoted |-> FALSE, failure |-> FALSE, pause |-> FALSE]

LLMAgent ==
  \/ Execute \/ Request \/ Close \/ CloseInvalid \/ Answer \/ AllAnswered \/ Raise
  \/ \E kinds \in {<<"thought">>, <<"text">>, <<"thought", "text">>} : Chunk(kinds)
  \/ \E ok \in BOOLEAN : Call(ok)
  \/ \E s \in {"completed", "failed"} : Ends(s)

Other ==
  \/ \E id \in 1..2, last \in BOOLEAN : OtherChunk(id, last)
  \/ \E s \in TASK_RESPONSE_BOUNDARY_STATES : OtherEnds(s)
  \/ \E s \in TaskStates, f \in Snapshots : OtherTask(s, f)
  \/ OtherMessage

Node == Receive \/ RemoteEnds \/ Process \/ LocalEnds

Next == LLMAgent \/ Other \/ Cancel \/ Node \/ Cut

Spec == Init /\ [][Next]_vars

(* Both processes run on.  The stream of the model and that of another     *)
(* agent end: their pieces are bounded.                                    *)
FairSpec == Spec /\ WF_vars(LLMAgent) /\ WF_vars(Other) /\ WF_vars(Node)

(***************************************************************************)
(* Properties.                                                             *)
(***************************************************************************)
(* What the agent has answered. *)
Answer_text ==
  CASE world.agent = "llm" ->
         Flat([i \in DOMAIN events |-> IF has_function_calls(events[i]) THEN <<>>
                                       ELSE extract_text(events[i])])
    [] world.agent = "chunks" ->
         IF todo = <<>> THEN <<>>
         ELSE Text((CHOOSE a \in Elems(store.arts) : a.id = Head(todo)).parts)
    [] OTHER -> IF store.arts # <<>> THEN Text(AllParts(store.arts)) ELSE result.output

(* The model wrote a text beside its calls. *)
Explained == \E i \in DOMAIN events : has_function_calls(events[i]) /\ extract_text(events[i]) # <<>>

(* The node delivers the whole answer of the agent, whichever way it came: *)
(* pieces are neither lost nor doubled by the closing update, by the       *)
(* buffers of an artifact streamed with append, by the task snapshot or by *)
(* the results of calls in between.  One whose stream has not brought the  *)
(* completion of the task delivers the whole answer or none, never a part. *)
(* (Over A2A the first text counts: an agent that writes a text beside its *)
(* calls has that text delivered, and of several artifacts only the one    *)
(* that is closed first.)                                                  *)
OutputIsAnswer ==
  node = "delivered" /\ store.state \notin FAILURE_STATES /\ (Explained => world.route = "local")
    => \/ result.output = Answer_text
       \/ result.output = <<>> /\ ~(EndSeen /\ store.state = "completed")

(* A node that has seen the end of its task is delivered only when the     *)
(* task completed: one that failed, was cancelled or waits for input       *)
(* raises, whatever artifacts it carries.  A node raises only for a task   *)
(* that did not complete.  The two exceptions are the code's: a snapshot   *)
(* that waits for input without saying so in a message passes for a        *)
(* delivery, and so does a stream that ends before its task.               *)
FailureIsRaised ==
  /\ node = "delivered" =>
       IF EndSeen
       THEN store.state = "completed" \/ (Fault("mute") /\ store.state \in PAUSE_STATES)
       ELSE EndsEarly
  /\ node = "failed" /\ ~Fault("cut") => store.state \in FAILURE_STATES \cup PAUSE_STATES

(* Every request to the model has each call followed by its answer, and no *)
(* answer without its call, also when a call was malformed.                *)
CallsAnswered ==
  LET C == get_contents
  IN  pc = "ask" =>
        /\ \A i \in DOMAIN C : \A k \in DOMAIN C[i].calls :
             i + k \in DOMAIN C /\ C[i + k].answers = <<C[i].calls[k]>>
        /\ \A j \in DOMAIN C : C[j].answers # <<>> =>
             \E i \in 1..j - 1 : j - i \in DOMAIN C[i].calls

(* The artifacts kept with a completed task are the events of the          *)
(* invocation, so that a session rebuilt from the store has the same       *)
(* contents in the same order.                                             *)
SessionExact ==
  world.agent = "llm" /\ store.state = "completed" =>
    get_session = events

(* The node always comes to an end: an agent that raises or is cancelled   *)
(* still ends its task.                                                    *)
Settles == <>(node # "running")
=============================================================================
