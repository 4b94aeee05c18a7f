----------------------------- MODULE PlanningMC -----------------------------
(***************************************************************************)
(* Instances of Planning for TLC.                                          *)
(***************************************************************************)
EXTENDS Planning, SequencesExt

N(i, ds) == [id |-> i, deps |-> ds]

(* Two nodes with any two ids and any two dependencies, listed twice,      *)
(* unknown or on themselves included; three nodes with any dependencies on *)
(* each other.                                                             *)
DepLists == UNION {[1..k -> 1..3] : k \in 0..2}
Pairs    == {<<N(i, a), N(j, b)>> : i, j \in 1..2, a, b \in DepLists}
Triples  == {<<N(1, SetToSeq(a)), N(2, SetToSeq(b)), N(3, SetToSeq(c))>> :
               a, b, c \in SUBSET (1..3)}
Long     == {<<N(1, <<>>), N(2, <<>>), N(3, <<>>), N(4, <<>>)>>}

MCDrafts == {<<>>} \cup {<<N(1, a)>> : a \in DepLists} \cup Pairs \cup Triples \cup Long

(* empty, a chain out of order, a node beside a cycle, a foreign dependency *)
MCAnswers == {<<>>, <<N(2, <<1, 1>>), N(1, <<>>)>>,
              <<N(1, <<>>), N(2, <<3>>), N(3, <<2>>)>>, <<N(1, <<4>>)>>}
=============================================================================
