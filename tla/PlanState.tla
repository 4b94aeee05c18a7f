----------------------------- MODULE PlanState -----------------------------
(***************************************************************************)
(* The vocabulary of a plan: the status of a node, the table of status     *)
(* changes, and the queries the scheduler asks of a plan.  The state       *)
(* itself (which nodes exist, their status, dependencies, attempts) is     *)
(* passed in, so every module that keeps a plan can use these operators.   *)
(*   src/choirworks/orchestration/state.py, transitions.py,                *)
(*   planning/patch.py                                                     *)
(***************************************************************************)
EXTENDS Naturals, FiniteSets

(* class NodeStatus *)
PENDING        == "pending"
READY          == "ready"
SUBMITTED      == "submitted"
WORKING        == "working"
INPUT_REQUIRED == "input_required"
RECOVER        == "recover"
COMPLETED      == "completed"
FAILED         == "failed"
CANCELED       == "canceled"
INVALIDATED    == "invalidated"

NodeStatus == {"pending", "ready", "submitted", "working", "input_required",
               "recover", "completed", "failed", "canceled", "invalidated"}

TERMINAL_NODE_STATUSES == {COMPLETED, FAILED, CANCELED, INVALIDATED}
ACTIVE_NODE_STATUSES   == {SUBMITTED, WORKING}

(* Mutant: a submitted node counts as not yet begun. *)
PENDING_OR_SUBMITTED   == {PENDING, READY, RECOVER, SUBMITTED}

PENDING_NODE_STATUSES  == {PENDING, READY, RECOVER}
(* Mutant: work in progress may be invalidated. *)
INVALIDATABLE_IN_FLIGHT == {PENDING, READY, RECOVER, FAILED, SUBMITTED}

INVALIDATABLE_STATUSES == {PENDING, READY, RECOVER, FAILED}

(* The statuses of has_pending_work: the node still has something to do. *)
UNSETTLED == PENDING_NODE_STATUSES \cup ACTIVE_NODE_STATUSES \cup {INPUT_REQUIRED}

(***************************************************************************)
(* Status changes.                                                         *)
(***************************************************************************)
IN_FLIGHT_TARGETS == {COMPLETED, FAILED, INPUT_REQUIRED, CANCELED, PENDING, INVALIDATED}

(* Mutant: a late completion overrides a cancellation. *)
ALLOWED_AFTER_CANCEL(s) ==
  CASE s = PENDING   -> {READY, SUBMITTED, INPUT_REQUIRED, FAILED, CANCELED, INVALIDATED}
    [] s = READY     -> {SUBMITTED, INPUT_REQUIRED, FAILED, CANCELED, INVALIDATED}
    [] s \in ACTIVE_NODE_STATUSES -> IN_FLIGHT_TARGETS \cup {SUBMITTED, WORKING, RECOVER}
    [] s = INPUT_REQUIRED -> {READY, SUBMITTED, FAILED, CANCELED, INVALIDATED}
    [] s = FAILED    -> {PENDING, INVALIDATED}
    [] s = CANCELED  -> {COMPLETED}
    [] OTHER         -> {}

ALLOWED_TRANSITIONS(s) ==
  CASE s = PENDING   -> {READY, SUBMITTED, INPUT_REQUIRED, FAILED, CANCELED, INVALIDATED}
    [] s = READY     -> {SUBMITTED, INPUT_REQUIRED, FAILED, CANCELED, INVALIDATED}
    [] s = SUBMITTED -> IN_FLIGHT_TARGETS \cup {WORKING, RECOVER}
    [] s = WORKING   -> IN_FLIGHT_TARGETS \cup {SUBMITTED, RECOVER}
    [] s = RECOVER   -> IN_FLIGHT_TARGETS \cup {SUBMITTED, WORKING}
    [] s = INPUT_REQUIRED -> {READY, SUBMITTED, FAILED, CANCELED, INVALIDATED}
    [] s = FAILED    -> {PENDING, INVALIDATED}
    [] OTHER         -> {}

can_transition(from, to) == to = from \/ to \in ALLOWED_TRANSITIONS(from)

(* Mutant: the attempts are not counted. *)
can_retry_always(s, attempts, max_attempts) == s = FAILED

can_retry(s, attempts, max_attempts) == s = FAILED /\ attempts < max_attempts

(***************************************************************************)
(* Queries.  ns is the set of node ids of the plan, st and dp the status   *)
(* and the dependencies of each.                                           *)
(***************************************************************************)
(* Mutant: a dependency that ended, delivered or not, counts. *)
ready_nodes_ended(ns, st, dp) ==
  {n \in ns : /\ st[n] \in PENDING_NODE_STATUSES
              /\ \A d \in dp[n] : d \in ns /\ st[d] \in TERMINAL_NODE_STATUSES}

ready_nodes(ns, st, dp) ==
  {n \in ns : /\ st[n] \in PENDING_NODE_STATUSES
              /\ \A d \in dp[n] : d \in ns /\ st[d] = COMPLETED}

blocked_nodes(ns, st, dp) ==
  {n \in ns : /\ st[n] = PENDING
              /\ \E d \in dp[n] : d \in ns /\ st[d] \in TERMINAL_NODE_STATUSES}

active_nodes(ns, st)         == {n \in ns : st[n] \in ACTIVE_NODE_STATUSES}
input_required_nodes(ns, st) == {n \in ns : st[n] = INPUT_REQUIRED}
failed_nodes(ns, st)         == {n \in ns : st[n] = FAILED}

(* Mutant: a failed node counts as completed. *)
all_completed_ended(ns, st) ==
  LET counted == {n \in ns : st[n] # INVALIDATED}
  IN  counted # {} /\ \A n \in counted : st[n] \in TERMINAL_NODE_STATUSES

all_completed(ns, st) ==
  LET counted == {n \in ns : st[n] # INVALIDATED}
  IN  counted # {} /\ \A n \in counted : st[n] \in {COMPLETED, CANCELED}

has_pending_work(ns, st) == \E n \in ns : st[n] \in UNSETTLED

(***************************************************************************)
(* What a patch that asks to invalidate the nodes W makes INVALIDATED: the *)
(* invalidatable ones among W and, repeatedly, every invalidatable node    *)
(* that depends on one of them; the least such set.                        *)
(***************************************************************************)
invalidated_by(ns, st, dp, W) ==
  LET candidates == {n \in ns : st[n] \in INVALIDATABLE_STATUSES}
      Closed(S)  == \A n \in candidates : dp[n] \cap S # {} => n \in S
  IN  {n \in candidates : \A S \in SUBSET candidates :
                            W \cap candidates \subseteq S /\ Closed(S) => n \in S}

(* What the patch leaves alone, although asked to invalidate it. *)
skipped_in_flight(ns, st, W) ==
  {n \in W \cap ns : st[n] \notin INVALIDATABLE_STATUSES \cup {INVALIDATED}}

(* The node that comes first in the insertion order of state.nodes. *)
First(S) == CHOOSE n \in S : \A m \in S : n <= m
=============================================================================
