---------------------------- MODULE RemoteTaskMC ----------------------------
(* Values of the constants of RemoteTask for model checking. *)
EXTENDS RemoteTask

World(F, p, q, t, c) == [faults |-> F, pieces |-> p, questions |-> q, tasks |-> t, crashes |-> c]

Faulty == {World({"timeout", "broken", "cancel"}, 2, 0, 2, 0),
           World({"timeout", "broken", "bare"}, 1, 0, 2, 0),
           World({"timeout", "broken"}, 1, 1, 3, 0),
           World({"timeout", "crash", "others"}, 1, 0, 2, 1),
           World({"timeout", "crash"}, 0, 1, 3, 1)}
Stops  == {World({"crash"}, 1, 0, 2, 1)}
=============================================================================
