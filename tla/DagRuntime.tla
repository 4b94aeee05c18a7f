----------------------------- MODULE DagRuntime -----------------------------
(***************************************************************************)
(* The orchestrator of new_choirworks: a workflow of four nodes (planner,  *)
(* executor, helper, done) over one DagRuntime, and the remote tasks the   *)
(* executor leaves running while the helper and the planner judge what has *)
(* been delivered.                                                         *)
(*                                                                         *)
(* rt is the DagRuntime object; its methods are operators from rt to rt.   *)
(* The workflow runs one node at a time and nothing but the ends of remote *)
(* tasks interleaves with it: at is the node whose turn it is.  apply_plan *)
(* is the first thing the executor does with a new plan and is modelled    *)
(* with the planner's answer, as nothing looks at the plan in between.     *)
(*                                                                         *)
(* Abstractions.  Texts are left out: what a remote agent delivers is the  *)
(* list of agents it mentions, chosen when the helper parses it.  The      *)
(* planner lists its nodes in the order of their ids, keeps the agent of   *)
(* every id, and never sets assist_for itself.                             *)
(***************************************************************************)
EXTENDS Naturals, Sequences, FiniteSets, Filters

CONSTANTS
  MaxPlan,      \* bound: ids the planner invents
  MaxAssists,   \* bound: assist nodes spawned
  FreeAssists,  \* bound: the same with a planner that breaks its rule on waiting nodes
  MaxNodes,     \* MAX_PLAN_NODES
  MaxDepth,     \* MAX_ASSIST_DEPTH
  AgentOf,      \* the agents, by the ids the planner invents
  Mentions      \* the lists of agents an output may mention

PlanId == 1..MaxPlan
Id     == 1..(MaxPlan + MaxAssists)

ASSUME DagAssumption ==
  /\ MaxPlan \in Nat /\ MaxAssists \in Nat /\ FreeAssists \in 0..MaxAssists
  /\ MaxNodes \in Nat /\ MaxDepth \in Nat
  /\ AgentOf \in [PlanId -> Nat]
  /\ \A l \in Mentions : l \in Seq(Nat)

(* class NodeStatus, and "none" for an id without a status *)
PENDING        == "pending"
RUNNING        == "running"
WAITING_ASSIST == "waiting_assist"
COMPLETED      == "completed"
FAILED         == "failed"
DagStatus == {"none", "pending", "running", "waiting_assist", "completed", "failed"}

VARIABLES
  rt,     \* the DagRuntime
  at,     \* where the workflow is
  cur,    \* the node the helper judges, 0 for none
  obeys   \* whether the planner follows the rule on waiting nodes of its instruction

run  == <<rt, at, cur>>
vars == <<rt, at, cur, obeys>>

(***************************************************************************)
(* The plan.  p gives the dependencies of each of its nodes.               *)
(***************************************************************************)
(* validate_plan: ids are unique and known by construction *)
validate_plan(p) ==
  /\ Cardinality(DOMAIN p) <= MaxNodes
  /\ \A S \in SUBSET DOMAIN p : S # {} => \E n \in S : p[n] \cap S = {}

Sorted(S) == Those([i \in Id |-> i], S)

(* Mutant: a node that is added again starts anew. *)
readded_anew(s) == PENDING

(* Mutant: a node that is added again starts anew unless it is delivered. *)
readded_unless_done(s) == IF s = COMPLETED THEN s ELSE PENDING

(* The status of a node the plan takes in anew: what has begun, ended or   *)
(* failed under this id keeps its status.                                  *)
readded(s) == IF s \in {"none", PENDING} THEN PENDING ELSE s

(* Mutant: the plan's own dependencies replace those on the assists. *)
merged_deps_new(r, p, n) == p[n]

(* Mutant: the dependencies that cannot be met any more are kept too. *)
merged_deps_all(r, p, n) ==
  IF n \in Elems(r.plan) /\ r.status[n] = WAITING_ASSIST THEN p[n] \cup r.deps[n] ELSE p[n]

(* A waiting node keeps the dependencies it had, as far as they can still  *)
(* be met.                                                                 *)
merged_deps(r, p, n) ==
  IF n \in Elems(r.plan) /\ r.status[n] = WAITING_ASSIST
  THEN p[n] \cup {d \in r.deps[n] : d \in DOMAIN p \/ d \in r.outputs}
  ELSE p[n]

apply_plan(r, p) ==
  LET old == Elems(r.plan)
      new == DOMAIN p
  IN  [r EXCEPT
        !.done        = new = {},
        !.completions = IF new = {} THEN <<>> ELSE @,
        !.status      = [n \in Id |-> IF n \in new \ old THEN readded(@[n]) ELSE @[n]],
        !.assist_for  = [n \in Id |-> IF n \in new \ old THEN 0 ELSE @[n]],
        !.deps        = [n \in Id |-> IF n \in new THEN merged_deps(r, p, n) ELSE {}],
        !.plan        = Sorted(new)]

in_plan(r, n) == n \in Elems(r.plan)

(***************************************************************************)
(* Scheduling.                                                             *)
(***************************************************************************)
Waits(r, n) == r.status[n] \in {PENDING, WAITING_ASSIST}

dispatchable(r) == Those(r.plan, {n \in Id : Waits(r, n) /\ r.deps[n] \subseteq r.outputs})

(* Mutant: a plan is work, even one that is delivered. *)
has_work_planned(r) == r.tasks # <<>> \/ r.plan # <<>>

has_work(r) == r.tasks # <<>> \/ \E n \in Elems(r.plan) : Waits(r, n)

_dispatch_ready(r) ==
  LET ready == dispatchable(r)
  IN  [r EXCEPT !.status = [n \in Id |-> IF n \in Elems(ready) THEN RUNNING ELSE @[n]],
                !.tasks  = @ \o Those(ready, Id \ Elems(r.tasks)),
                !.result = [n \in Id |-> IF n \in Elems(ready) THEN "none" ELSE @[n]]]

(***************************************************************************)
(* What has ended: running_tasks and the queue of completions.  A record   *)
(* is the id of its node, and ok when the node is COMPLETED.               *)
(***************************************************************************)
_judgable(r, n) == ~r.done /\ in_plan(r, n)

(* _collect_done, record_completion and record_failure *)
_collect_done(r) ==
  LET over == Those(r.tasks, {n \in Id : r.result[n] # "none"})
  IN  [r EXCEPT
        !.tasks   = Those(@, {n \in Id : r.result[n] = "none"}),
        !.result  = [n \in Id |-> IF n \in Elems(over) THEN "none" ELSE @[n]],
        !.status  = [n \in Id |-> IF n \notin Elems(over) THEN @[n]
                                  ELSE IF r.result[n] = "ok" THEN COMPLETED ELSE FAILED],
        !.outputs = @ \cup {n \in Elems(over) : r.result[n] = "ok"},
        !.completions = @ \o Those(over, {n \in Id : _judgable(r, n)})]

judgables(r) == Those(r.completions, {n \in Id : _judgable(r, n)})
failed_completion(r) == \E n \in Elems(judgables(r)) : r.status[n] = FAILED

(* pop_completion: drops the records of nodes that left the plan on its    *)
(* way to the first one it returns.                                        *)
pop_completion(r) ==
  IF judgables(r) = <<>> THEN [r EXCEPT !.completions = <<>>]
  ELSE LET c == r.completions
           i == CHOOSE j \in DOMAIN c : /\ _judgable(r, c[j])
                                        /\ \A k \in 1..(j - 1) : ~_judgable(r, c[k])
       IN  [r EXCEPT !.completions = SubSeq(c, i + 1, Len(c))]

(***************************************************************************)
(* Assists.                                                                *)
(***************************************************************************)
has_assist_for(r, n, a) == \E h \in Elems(r.plan) : r.assist_for[h] = n /\ r.agent[h] = a

can_add_assists(r, n, k) == r.depth[n] + 1 <= MaxDepth /\ Len(r.plan) + k <= MaxNodes

(* The mentions that ask for something new: another agent, once. *)
candidates(r, n, list) ==
  LET first(i) == \A j \in 1..(i - 1) : list[j] # list[i]
      idx == Those([i \in 1..Len(list) |-> i],
                   {i \in 1..Len(list) : /\ first(i) /\ list[i] # r.agent[n]
                                         /\ ~has_assist_for(r, n, list[i])})
  IN  [i \in 1..Len(idx) |-> list[idx[i]]]

(* add_assist for each of the agents as; the parent waits for all of them *)
add_assists(r, n, as) ==
  LET k     == Len(as)
      id(i) == MaxPlan + r.seq + i
      new   == {id(i) : i \in 1..k}
  IN  [r EXCEPT
        !.seq        = @ + k,
        !.plan       = @ \o [i \in 1..k |-> id(i)],
        !.status     = [m \in Id |-> IF m \in new THEN PENDING
                                     ELSE IF m = n THEN WAITING_ASSIST ELSE @[m]],
        !.deps       = [m \in Id |-> IF m \in new THEN {}
                                     ELSE IF m = n THEN @[n] \cup new ELSE @[m]],
        !.assist_for = [m \in Id |-> IF m \in new THEN n ELSE @[m]],
        !.agent      = [m \in Id |-> IF m \in new THEN as[m - MaxPlan - r.seq] ELSE @[m]],
        !.depth      = [m \in Id |-> IF m \in new THEN r.depth[n] + 1 ELSE @[m]]]

(* shutdown: every task that still runs is cancelled *)
shutdown(r) == [r EXCEPT !.tasks = <<>>, !.result = [n \in Id |-> "none"]]

(***************************************************************************)
(* The planner.                                                            *)
(***************************************************************************)
(* The valid plans over the ids known when k assists have been spawned. *)
PlansAfter == [k \in 0..MaxAssists |->
  LET known == PlanId \cup {MaxPlan + i : i \in 1..k}
      ids   == {S \in SUBSET known : Cardinality(S) <= MaxNodes}
  IN  {p \in UNION {[S -> SUBSET S] : S \in ids} : validate_plan(p)}]

Plans(r) == PlansAfter[r.seq]

(* "Keep waiting nodes and their deps intact": the waiting nodes and the   *)
(* assists they wait for stay in the plan.                                 *)
keeps_waiting(r, p) ==
  \A n \in Elems(r.plan) :
    r.status[n] = WAITING_ASSIST =>
      n \in DOMAIN p /\ {h \in Elems(r.plan) : r.assist_for[h] = n} \subseteq DOMAIN p

PlannerPlans(p) ==
  /\ at = "planner"
  /\ obeys => keeps_waiting(rt, p)
  /\ rt' = apply_plan(rt, p) /\ at' = "executor"
  /\ UNCHANGED cur

PlannerSilent ==         \* an empty answer: the executor gets no plan
  at = "planner" /\ at' = "executor" /\ UNCHANGED <<rt, cur>>

PlannerFails ==          \* an exception, or a plan validate_plan rejects
  at = "planner" /\ at' = "failed" /\ rt' = shutdown(rt) /\ UNCHANGED cur

(***************************************************************************)
(* The executor: ExecutorNode._run_impl.                                   *)
(***************************************************************************)
Aborts(r) ==             \* _abort_if_failed
  ~r.done /\ failed_completion(r) /\ rt' = shutdown(r) /\ at' = "failed" /\ UNCHANGED cur

Judges(r) ==             \* _route_completion
  /\ ~r.done /\ ~failed_completion(r) /\ judgables(r) # <<>>
  /\ rt' = pop_completion(r) /\ cur' = Head(judgables(r)) /\ at' = "helper"

Dispatches(r) ==         \* _dispatch_ready, or nothing is left to do
  /\ ~r.done /\ judgables(r) = <<>>
  /\ rt' = _dispatch_ready(pop_completion(r))
  /\ at' = IF has_work(rt') THEN "wait" ELSE "done"
  /\ UNCHANGED cur

Executor ==
  /\ at = "executor"
  /\ \E r \in {_collect_done(rt)} :
       \/ r.done /\ rt' = r /\ at' = "drain" /\ UNCHANGED cur
       \/ Aborts(r)
       \/ Judges(r)
       \/ Dispatches(r)

(* _wait_one returns when a task has ended, or at once when there is none. *)
Awaited == rt.tasks # <<>> => \E n \in Elems(rt.tasks) : rt.result[n] # "none"

Stalls(r) ==             \* "dispatch made no progress"
  judgables(r) = <<>> /\ rt' = shutdown(pop_completion(r)) /\ at' = "stalled" /\ UNCHANGED cur

ExecutorWaits ==
  /\ at = "wait" /\ Awaited
  /\ \E r \in {_collect_done(rt)} : Aborts(r) \/ Judges(r) \/ Stalls(r)

(* Mutant: what has ended is not collected. *)
ExecutorDrainsOnly ==
  /\ at = "drain" /\ Awaited
  /\ at' = IF rt.tasks = <<>> THEN "done" ELSE "drain"
  /\ UNCHANGED <<rt, cur>>

ExecutorDrains ==        \* an empty plan: what runs is waited for and not judged
  /\ at = "drain" /\ Awaited
  /\ rt' = _collect_done(rt)
  /\ at' = IF rt'.tasks = <<>> THEN "done" ELSE "drain"
  /\ UNCHANGED cur

(***************************************************************************)
(* The helper, for an output that mentions the agents of list.             *)
(***************************************************************************)
Helper(list) ==
  LET as == candidates(rt, cur, list)
  IN  /\ at = "helper"
      /\ rt.seq + Len(as) <= IF obeys THEN MaxAssists ELSE FreeAssists
      /\ IF as # <<>> /\ can_add_assists(rt, cur, Len(as))
         THEN rt' = add_assists(rt, cur, as) /\ at' = "executor"
         ELSE at' = "planner" /\ UNCHANGED rt
      /\ cur' = 0

(***************************************************************************)
(* The environment: a remote task ends, the client cancels.                *)
(***************************************************************************)
TaskEnds(n, how) ==
  /\ n \in Elems(rt.tasks) /\ rt.result[n] = "none" /\ how \in {"ok", "error"}
  /\ rt' = [rt EXCEPT !.result[n] = how]
  /\ UNCHANGED <<at, cur>>

Ended == {"done", "failed", "stalled", "cancelled"}

Cancel ==                \* BaseAgentExecutor.cancel, the finally of OrchestratorAgent
  /\ at \notin Ended
  /\ at' = "cancelled" /\ rt' = shutdown(rt) /\ UNCHANGED cur

Init ==
  /\ rt = [plan |-> <<>>, deps |-> [n \in Id |-> {}], assist_for |-> [n \in Id |-> 0],
           agent |-> [n \in Id |-> IF n \in PlanId THEN AgentOf[n] ELSE 0],
           status |-> [n \in Id |-> "none"], outputs |-> {}, tasks |-> <<>>,
           result |-> [n \in Id |-> "none"], completions |-> <<>>, done |-> FALSE,
           seq |-> 0, depth |-> [n \in Id |-> 0]]
  /\ at = "planner" /\ cur = 0 /\ obeys \in BOOLEAN

Workflow ==
  \/ PlannerSilent \/ PlannerFails \/ Executor \/ ExecutorWaits \/ ExecutorDrains
  \/ (at = "planner" /\ \E p \in Plans(rt) : PlannerPlans(p))
  \/ \E list \in Mentions : Helper(list)

Next ==
  /\ \/ Workflow \/ Cancel
     \/ \E n \in Id, how \in {"ok", "error"} : TaskEnds(n, how)
  /\ UNCHANGED obeys

Spec == Init /\ [][Next]_vars

(* The event loop runs the workflow, and every remote task ends: its       *)
(* stream is closed, answered or broken off.                               *)
FairSpec == Spec /\ WF_run(Workflow)
                 /\ \A n \in Id : WF_run(\E how \in {"ok", "error"} : TaskEnds(n, how))
(***************************************************************************)
(* Properties.                                                             *)
(***************************************************************************)

(* running_tasks holds one task for every node that is RUNNING and none    *)
(* for another, although a plan may drop a running node and take it in     *)
(* again: a second dispatch would lose the first task, and a node left     *)
(* RUNNING without a task would never end.                                 *)
RunningTracked ==
  at \notin Ended =>
    /\ \A n \in Id : rt.status[n] = RUNNING <=> n \in Elems(rt.tasks)
    /\ NoTwice(rt.tasks)

(* Whatever the planner makes of the plan, a node of it that waits depends *)
(* only on nodes of the plan and on outputs already there: the union of    *)
(* dependencies in apply_plan leaves no waiting node waiting for nothing.  *)
DepsResolvable ==
  \A n \in Elems(rt.plan) : Waits(rt, n) => rt.deps[n] \subseteq Elems(rt.plan) \cup rt.outputs

(* A node that was delivered is not run again, whether the plan keeps,     *)
(* drops or re-adds it; only its own request for help reopens it.          *)
NeverRerun ==
  [][\A n \in Id : rt.status[n] = COMPLETED /\ rt'.status[n] # COMPLETED
                     => at = "helper" /\ cur = n /\ rt'.status[n] = WAITING_ASSIST]_vars

(* A node that asked for help goes on only with the output of every assist *)
(* spawned for it, although plans in between rewrite its dependencies.     *)
AssistHandedBack ==
  [][\A n \in Id : obeys /\ rt.status[n] = WAITING_ASSIST /\ rt'.status[n] = RUNNING =>
       \A h \in Elems(rt.plan) : rt.assist_for[h] = n => h \in rt'.outputs]_vars

(* The orchestration comes to an end: neither assists nor new plans keep   *)
(* it going, and the executor waits for nothing that cannot come.          *)
Terminates == <>(at \in Ended)

(* "dispatch made no progress", which fails the orchestration, is raised   *)
(* only over a node the plan has dropped while it ran: its task is the one *)
(* that ended, or it failed out of the plan and a later plan took it in    *)
(* again.  A plan the planner leaves alone is never without progress.      *)
StallsOnDropped ==
  [][at # "stalled" /\ at' = "stalled" =>
       \/ \E n \in Elems(rt.tasks) : rt.result[n] # "none" /\ ~in_plan(rt, n)
       \/ \E n \in Elems(rt.plan) : rt.status[n] = FAILED]_vars
=============================================================================
