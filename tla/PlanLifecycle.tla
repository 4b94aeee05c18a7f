--------------------------- MODULE PlanLifecycle ---------------------------
(***************************************************************************)
(* What a conversation promises whoever follows its plan (the web client,  *)
(* the API, the documents under docs/): the stages a node may go through,  *)
(* whatever the runner, the node tasks, the settlements, the patches and   *)
(* the messages do to it.  There is no scheduling here: any number of      *)
(* nodes may move in one step.  Session implements this specification.     *)
(***************************************************************************)
EXTENDS Naturals

CONSTANT Node      \* the ids of nodes

VARIABLES
  plan,      \* number of the plan
  stage,     \* where each node is
  inputs     \* the nodes whose output it gets

vars == <<plan, stage, inputs>>

Open  == {"waiting", "working", "asking"}       \* something is left to do
Final == {"delivered", "dropped"}
Stage == Open \cup Final \cup {"absent", "failed"}

Init ==
  /\ plan = 0
  /\ stage = [n \in Node |-> "absent"] /\ inputs = [n \in Node |-> {}]

(***************************************************************************)
(* What may become of a node in one step.                                  *)
(***************************************************************************)
Moves(n, from, to) ==
  stage[n] \in from /\ stage'[n] \in to /\ inputs'[n] = inputs[n]

Absent(n) == stage[n] = "absent" /\ stage'[n] = "absent"

(* A node comes with inputs that exist; it may be dropped with them.       *)
Added(n) ==
  /\ stage[n] = "absent" /\ stage'[n] \in {"waiting", "dropped"}
  /\ \A d \in inputs'[n] : stage'[d] # "absent"

Stays(n) == stage[n] # "absent" /\ Moves(n, {stage[n]}, {stage[n]})

(* Work begins, or begins again, only with every input delivered. *)
Begins(n) ==
  /\ Moves(n, {"waiting", "asking", "failed"}, {"working"})
  /\ \A d \in inputs[n] : stage[d] = "delivered"

Delivers(n)  == Moves(n, {"working"}, {"delivered"})
Asks(n)      == Moves(n, {"waiting", "working"}, {"asking"})
Fails(n)     == Moves(n, Open, {"failed"})
Waits(n)     == Moves(n, {"asking", "failed"}, {"waiting"})   \* answered, or to be tried again
Dropped(n)   == Moves(n, Open \cup {"failed"}, {"dropped"})

Step ==
  /\ plan' = plan
  /\ \A n \in Node : \/ Absent(n) \/ Added(n) \/ Stays(n) \/ Begins(n) \/ Delivers(n)
                     \/ Asks(n) \/ Fails(n) \/ Waits(n) \/ Dropped(n)

NewPlan ==
  /\ plan' = plan + 1
  /\ stage' = [n \in Node |-> "absent"]

Next == Step \/ NewPlan

Spec == Init /\ [][Next]_vars
=============================================================================
