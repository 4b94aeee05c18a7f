----------------------------- MODULE HistoryMC -----------------------------
(* Values of the constants of History for model checking. *)
EXTENDS History

World(E, t, m, f) == [events |-> E, tasks |-> t, messages |-> m, folds |-> f]

Sound    == {World({"compact", "resume"}, 2, 7, 2), World({"compact", "reboot", "resume"}, 2, 5, 1),
             World({"rewind", "overlap"}, 5, 3, 0), World({"reboot", "resume", "overlap"}, 3, 4, 0)}
Restarts == {World({"restart"}, 2, 2, 0)}
=============================================================================
