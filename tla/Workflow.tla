------------------------------ MODULE Workflow ------------------------------
(***************************************************************************)
(* The graph engine of new_choirworks: nodes are started by triggers,      *)
(* their runs are concurrent tasks, and what a finished run routes to is   *)
(* triggered in turn.  The orchestrator's own graph is one of the graphs.  *)
(*                                                                         *)
(* ls is the _LoopState; the methods of Workflow are operators from ls to  *)
(* ls.  Nothing in the loop suspends but asyncio.wait, so a step handles   *)
(* all runs that have ended and starts what is ready.                      *)
(*                                                                         *)
(* Abstractions.  Names are numbers, START is 0.  The input of a run is    *)
(* told by where it comes from: for each source the number of the run      *)
(* whose output it is, 0 for none.  An edge has a set of routes, {} for    *)
(* route=None; a node emits one route or none.                             *)
(***************************************************************************)
EXTENDS Naturals, Sequences, FiniteSets, Filters

CONSTANTS
  Node,            \* the names of nodes
  Graphs,          \* the edges of the graphs that are built
  Joins,           \* the nodes that are JoinNodes
  MaxConcurrency,  \* max_concurrency, 0 for None
  Routes,          \* the routes nodes emit
  MaxRuns          \* bound: a node emits a route in its first runs only

START         == 0
DEFAULT_ROUTE == "__DEFAULT__"
NONE          == "none"

Edge == [from : Node \cup {START}, to : Node \cup {START}, route : SUBSET (Routes \cup {DEFAULT_ROUTE})]

ASSUME WorkflowAssumption ==
  /\ Node \subseteq Nat \ {START} /\ Joins \subseteq Node
  /\ MaxConcurrency \in Nat /\ MaxRuns \in Nat
  /\ DEFAULT_ROUTE \notin Routes /\ NONE \notin Routes
  /\ \A g \in Graphs : g \in Seq(Edge)

VARIABLES
  edges,   \* the graph
  ls,      \* the _LoopState
  at       \* the workflow runs, or how it has ended

vars == <<edges, ls, at>>

(***************************************************************************)
(* The graph.                                                              *)
(***************************************************************************)
Names(g)        == {g[i].from : i \in DOMAIN g} \cup {g[i].to : i \in DOMAIN g}
Succ(g, n)      == {g[i].to : i \in {j \in DOMAIN g : g[j].from = n}}
Unconditional(g) == Those(g, {e \in Elems(g) : e.route = {}})
predecessors(n) == {edges[i].from : i \in {j \in DOMAIN edges : edges[j].to = n}}

terminal_node_names == {n \in Names(edges) \ {START} : Succ(edges, n) = {}}

_validate_start(g) ==
  START \in Names(g) /\ \A i \in DOMAIN g : g[i].from = START => g[i].route = {}

_validate_connectivity(g) ==
  /\ \A S \in SUBSET Names(g) : START \in S /\ (\A n \in S : Succ(g, n) \subseteq S) => S = Names(g)
  /\ \A i \in DOMAIN g : g[i].to # START

_validate_duplicate_edges(g) ==
  \A i, j \in DOMAIN g : i # j /\ g[i].from = g[j].from /\ g[i].to = g[j].to =>
    g[i].route # {} /\ g[j].route # {} /\ g[i].route \cap g[j].route = {}

_validate_default_routes(g) ==
  \A i \in DOMAIN g : DEFAULT_ROUTE \in g[i].route => g[i].route = {DEFAULT_ROUTE}

(* _detect_unconditional_cycles: no set of nodes leads back into itself *)
_no_cycles(g) ==
  \A S \in SUBSET Names(g) : S # {} => \E n \in S : Succ(g, n) \cap S = {}

validate_graph(g) ==
  /\ _validate_start(g) /\ _validate_connectivity(g) /\ _validate_duplicate_edges(g)
  /\ _validate_default_routes(g) /\ _no_cycles(Unconditional(g))

(* Mutant: the default edges fire beside an edge that matches. *)
next_nodes_all(n, route) ==
  Those(edges, {e \in Elems(edges) : e.from = n /\ (e.route = {} \/ route \in e.route)})
    \o Those(edges, {e \in Elems(edges) : e.from = n /\ e.route = {DEFAULT_ROUTE}})

(* The edges to the next nodes. *)
get_next_pending_nodes(n, route) ==
  LET hits    == {e \in Elems(edges) : e.from = n /\ (e.route = {} \/ route \in e.route)}
      default == {e \in Elems(edges) : e.from = n /\ e.route = {DEFAULT_ROUTE}}
  IN  IF \E e \in hits : e.route # {} THEN Those(edges, hits)
      ELSE Those(edges, hits) \o Those(edges, default)

(* build_workflow: planner, executor, helper and done *)
build_workflow ==
  << [from |-> START, to |-> 1, route |-> {}],
     [from |-> 1, to |-> 2, route |-> {}],
     [from |-> 2, to |-> 3, route |-> {"judge"}],
     [from |-> 2, to |-> 4, route |-> {DEFAULT_ROUTE}],
     [from |-> 3, to |-> 2, route |-> {"execute"}],
     [from |-> 3, to |-> 1, route |-> {DEFAULT_ROUTE}] >>

(***************************************************************************)
(* Triggers.  keys is the order of the keys of trigger_buffer.             *)
(***************************************************************************)
buffer_trigger(l, n, input) ==
  [l EXCEPT !.buffer[n] = Append(@, input),
            !.keys = IF n \in Elems(@) THEN @ ELSE Append(@, n)]

(* Mutant: one completed predecessor is enough. *)
barrier_any(l, n) ==
  IF \E p \in predecessors(n) : p = START \/ l.status[p] = "completed"
  THEN buffer_trigger(l, n, [p \in predecessors(n) |-> IF p = START THEN 0 ELSE l.outputs[p]])
  ELSE l

_buffer_barrier_trigger(l, n) ==
  IF \A p \in predecessors(n) : p = START \/ l.status[p] = "completed"
  THEN buffer_trigger(l, n, [p \in predecessors(n) |-> IF p = START THEN 0 ELSE l.outputs[p]])
  ELSE l

(* What a run that has ended hands on. *)
Output(l, n) == [p \in {n} |-> IF n = START THEN 0 ELSE l.runs[n]]

_buffer_downstream_triggers(l, n, next) ==
  LET f[i \in 0..Len(next)] ==
        IF i = 0 THEN l
        ELSE IF next[i].to \in Joins THEN _buffer_barrier_trigger(f[i - 1], next[i].to)
        ELSE buffer_trigger(f[i - 1], next[i].to, Output(l, n))
  IN  f[Len(next)]

_seed_start_triggers(l) == _buffer_downstream_triggers(l, START, get_next_pending_nodes(START, NONE))

(***************************************************************************)
(* Starting runs.                                                          *)
(***************************************************************************)
Running == [kind |-> "running", out |-> FALSE, route |-> NONE]

(* Mutant: a node that has completed does not start again. *)
startable_once(l) == Those(l.keys, {n \in Node : n \notin Elems(l.pending) /\ l.status[n] = "inactive"})

startable(l) == Those(l.keys, {n \in Node : n \notin Elems(l.pending) /\ l.status[n] # "running"})

(* _at_concurrency_limit, asked before each start *)
below_limit(l, ready) ==
  LET slots == IF Len(l.pending) < MaxConcurrency THEN MaxConcurrency - Len(l.pending) ELSE 0
  IN  IF MaxConcurrency = 0 \/ Len(ready) <= slots THEN ready ELSE SubSeq(ready, 1, slots)

(* Mutant: the latest trigger is served first. *)
pop_latest(b) == [first |-> b[Len(b)], rest |-> SubSeq(b, 1, Len(b) - 1)]

_pop_trigger(b) == [first |-> Head(b), rest |-> Tail(b)]

(* _prepare_node_state_for_starting and _start_node_task for all of start *)
_start_node_task(l, start) ==
  LET S    == Elems(start)
      rest == [n \in Node |-> IF n \in S THEN _pop_trigger(l.buffer[n]).rest ELSE l.buffer[n]]
  IN  [l EXCEPT
        !.buffer  = rest,
        !.keys    = Those(@, {n \in Node : rest[n] # <<>>}),
        !.runs    = [n \in Node |-> IF n \in S THEN @[n] + 1 ELSE @[n]],
        !.status  = [n \in Node |-> IF n \in S THEN "running" ELSE @[n]],
        !.result  = [n \in Node |-> IF n \in S THEN Running ELSE @[n]],
        !.log     = [n \in Node |-> IF n \in S THEN Append(@[n], _pop_trigger(l.buffer[n]).first) ELSE @[n]],
        !.pending = @ \o start]

(* The set of the one state that follows, as in Completed below. *)
_schedule_ready_nodes(l) == {_start_node_task(l, start) : start \in {below_limit(l, startable(l))}}

(***************************************************************************)
(* What has ended.                                                         *)
(***************************************************************************)
Ended(l) == Those(l.pending, {n \in Node : l.result[n].kind # "running"})

_handle_completion(l, n) ==
  LET r  == l.result[n]
      l1 == [l EXCEPT !.pending = Those(@, Node \ {n}), !.status[n] = "completed",
                      !.outputs[n] = IF r.out THEN l.runs[n] ELSE @]
  IN  _buffer_downstream_triggers(l1, n, get_next_pending_nodes(n, r.route))

(* The set of the one state after the completions of ns, in their order. *)
Completed(l, ns) ==
  LET f[i \in 0..Len(ns)] == IF i = 0 THEN {l} ELSE {_handle_completion(k, ns[i]) : k \in f[i - 1]}
  IN  f[Len(ns)]

(* _cleanup_all_tasks: only a task that was really cancelled is marked *)
_cleanup_all_tasks(l) ==
  [l EXCEPT !.status = [n \in Node |-> IF n \in Elems(l.pending) /\ l.result[n].kind = "running"
                                       THEN "cancelled" ELSE @[n]],
            !.pending = <<>>]

(* _finalize *)
_finalize(l) == Cardinality({n \in terminal_node_names : l.outputs[n] # 0}) <= 1

(* Mutant: the loop goes on until every node has completed. *)
loop_ends_when_all_completed(l) ==
  l.pending = <<>> /\ \A n \in Names(edges) \ {START} : l.status[n] = "completed"

loop_ends(l) == l.pending = <<>>

ToEnd(l) == IF ~loop_ends(l) THEN "run" ELSE IF _finalize(l) THEN "done" ELSE "failed"

(***************************************************************************)
(* The steps.                                                              *)
(***************************************************************************)
empty ==
  [buffer |-> [n \in Node |-> <<>>], keys |-> <<>>, pending |-> <<>>,
   status |-> [n \in Node |-> "inactive"], outputs |-> [n \in Node |-> 0],
   runs |-> [n \in Node |-> 0], result |-> [n \in Node |-> Running],
   log |-> [n \in Node |-> <<>>]]

Init ==
  /\ edges \in {g \in Graphs : validate_graph(g)}
  /\ ls \in _schedule_ready_nodes(_seed_start_triggers(empty))
  /\ at = ToEnd(ls)

(* A route no edge of the node has is like none. *)
RoutesOf(n) == (UNION {edges[i].route : i \in {j \in DOMAIN edges : edges[j].from = n}}) \cap Routes

(* NodeRunner.run returns the context of a run; JoinNode hands its input on. *)
Outcomes(n) ==
  IF n \in Joins THEN {[kind |-> "ok", out |-> TRUE, route |-> NONE]}
  ELSE {[kind |-> "error", out |-> FALSE, route |-> NONE]}
       \cup [kind : {"ok"}, out : BOOLEAN,
             route : {NONE} \cup (IF ls.runs[n] < MaxRuns THEN RoutesOf(n) ELSE {})]

NodeEnds(n, r) ==
  /\ at = "run" /\ n \in Elems(ls.pending) /\ ls.result[n].kind = "running"
  /\ ls' = [ls EXCEPT !.result[n] = r]
  /\ UNCHANGED <<edges, at>>

(* asyncio.wait returned: the ended runs are handled in the order of       *)
(* pending_tasks, then what is ready is started.                           *)
Loop ==
  /\ at = "run"
  /\ \E done \in {Ended(ls)} :
       /\ done # <<>>
       /\ \A i \in DOMAIN done : ls.result[done[i]].kind = "ok"
       /\ \E l \in Completed(ls, done) : ls' \in _schedule_ready_nodes(l)
  /\ at' = ToEnd(ls')
  /\ UNCHANGED edges

(* A run that failed: those before it are handled, the others cancelled. *)
LoopFails ==
  /\ at = "run"
  /\ \E done \in {Ended(ls)} : \E i \in DOMAIN done :
       /\ ls.result[done[i]].kind = "error"
       /\ \A j \in 1..(i - 1) : ls.result[done[j]].kind = "ok"
       /\ \E l \in Completed(ls, SubSeq(done, 1, i - 1)) :
            ls' = _cleanup_all_tasks([l EXCEPT !.pending = Those(@, Node \ {done[i]}),
                                               !.status[done[i]] = "failed"])
  /\ at' = "failed" /\ UNCHANGED edges

Cancel ==                 \* the task of the workflow is cancelled at its wait
  /\ at = "run"
  /\ ls' = _cleanup_all_tasks(ls) /\ at' = "cancelled" /\ UNCHANGED edges

Next ==
  \/ \E n \in Node : \E r \in Outcomes(n) : NodeEnds(n, r)
  \/ Loop \/ LoopFails \/ Cancel

Spec == Init /\ [][Next]_vars

(* The event loop resumes the workflow, and every run of a node ends. *)
FairSpec == Spec /\ WF_vars(Loop \/ LoopFails)
                 /\ \A n \in Node : WF_vars(\E r \in Outcomes(n) : NodeEnds(n, r))

(***************************************************************************)
(* Properties.                                                             *)
(***************************************************************************)

(* Completed runs that are handled; a node has one run at a time. *)
completed(n) == IF n \in Elems(ls.pending) THEN ls.runs[n] - 1 ELSE ls.runs[n]

(* Along an edge without a route every completed run of the source         *)
(* triggers the target exactly once and in order, although the target may  *)
(* be running, several sources may end together and the limit may hold the *)
(* target back: no trigger is lost, doubled or overtaken.                  *)
TriggersInOrder ==
  at \in {"run", "done"} =>
    \A i \in DOMAIN edges :
      LET e == edges[i]
      IN  e.route = {} /\ e.from # START /\ e.to \notin Joins =>
            Those(ls.log[e.to] \o ls.buffer[e.to], [{e.from} -> Nat])
              = [k \in 1..completed(e.from) |-> [p \in {e.from} |-> k]]

(* A workflow that has ended by itself has served every trigger. *)
AllServed == at = "done" => \A n \in Node : ls.buffer[n] = <<>>

(* A join whose predecessors have all run once, each bound to it without a *)
(* route, runs exactly once and gets the output of every one of them,      *)
(* whether they ended in one batch or in several.                          *)
JoinOnce ==
  at = "done" =>
    \A j \in Joins \cap Names(edges) :
      /\ \A p \in predecessors(j) \ {START} : ls.runs[p] = 1
      /\ \A i \in DOMAIN edges : edges[i].to = j => edges[i].route = {}
      => ls.log[j] = << [p \in predecessors(j) |-> IF p = START THEN 0 ELSE ls.outputs[p]] >>

(* In the orchestrator's graph one node at a time is running or triggered: *)
(* planner, executor and helper never run beside each other, which is what *)
(* lets them share one DagRuntime without a lock.                          *)
OneAtATime ==
  edges = build_workflow /\ at = "run" =>
    Len(ls.pending) = 1 /\ \A n \in Node : ls.buffer[n] = <<>>

(* A workflow whose nodes stop choosing a way back ends: the edges without *)
(* routes have no cycle, and the loop never waits for a node that nobody   *)
(* has triggered.                                                          *)
Terminates == <>(at # "run")
=============================================================================
