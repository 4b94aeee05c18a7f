--------------------------- MODULE AgentStreamMC ---------------------------
(* Values of the constants of AgentStream for model checking. *)
EXTENDS AgentStream

World(a, r, F, p, c, t) ==
  [agent |-> a, route |-> r, faults |-> F, pieces |-> p, calls |-> c, turns |-> t]

Calling == {World("llm", r, {"malformed"}, 2, 2, 3) : r \in Routes}
           \cup {World("llm", "local", {"malformed"}, 1, 1, 4)}
Raising == {World("llm", r, {"tool", "schema", "llm", "explains"}, 3, 1, 2) : r \in Routes}
Broken  == {World("llm", r, {"cut", "cancel"}, 2, 1, 2) : r \in {"stream", "task"}}
Early   == {World("llm", "stream", {"early", "tool", "explains"}, 2, 1, 2),
            World("llm", "stream", {"early", "cancel"}, 2, 1, 2),
            World("chunks", "stream", {"early"}, 3, 0, 0),
            World("snapshot", "stream", {"early"}, 0, 0, 0)}
Others  == {World("chunks", "stream", {"cut"}, 3, 0, 0), World("snapshot", "stream", {"mute"}, 0, 0, 0)}

MCWorlds == Calling \cup Raising \cup Broken \cup Early \cup Others
=============================================================================
