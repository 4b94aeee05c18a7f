----------------------------- MODULE WorkflowMC -----------------------------
(***************************************************************************)
(* Graphs for TLC: the orchestrator's, some of three and four nodes, and   *)
(* all graphs of two nodes over a few routes.                              *)
(***************************************************************************)
EXTENDS Workflow

E(a, b)    == [from |-> a, to |-> b, route |-> {}]
R(a, b, r) == [from |-> a, to |-> b, route |-> {r}]

(* 5 is a join. *)
Diamond  == <<E(0, 1), E(0, 2), E(1, 5), E(2, 5), E(5, 3)>>
FanIn    == <<E(0, 1), E(0, 2), E(0, 4), E(1, 3), E(2, 3)>>       \* 3 runs twice
Looping  == <<E(0, 1), E(0, 2), R(1, 1, "judge"), R(1, 5, DEFAULT_ROUTE), E(2, 5)>>
Circular == <<E(0, 1), E(1, 2), E(2, 1)>>                        \* validate_graph rejects it

Pairs == << <<0, 1>>, <<0, 2>>, <<1, 1>>, <<1, 2>>, <<2, 1>>, <<2, 2>> >>

Labels == {"absent", "plain", "judge", DEFAULT_ROUTE}

Labelled(i, l) == IF l = "plain" THEN E(Pairs[i][1], Pairs[i][2]) ELSE R(Pairs[i][1], Pairs[i][2], l)

GraphOf(f) ==
  LET there == SelectSeq(<<1, 2, 3, 4, 5, 6>>, LAMBDA i : f[i] # "absent")
  IN  [k \in DOMAIN there |-> Labelled(there[k], f[there[k]])]

(* All ways to connect two nodes by at most four edges, where every way    *)
(* back is chosen by a node: a cycle of default edges need not end.        *)
TwoNodes ==
  {g \in {GraphOf(f) : f \in [1..6 -> Labels]} :
     Len(g) <= 4 /\ _no_cycles(SelectSeq(g, LAMBDA e : "judge" \notin e.route))}

MCGraphs == {build_workflow, Diamond, FanIn, Looping, Circular} \cup TwoNodes
=============================================================================
