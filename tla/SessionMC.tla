----------------------------- MODULE SessionMC -----------------------------
(***************************************************************************)
(* Instances of Session for TLC.                                           *)
(***************************************************************************)
EXTENDS Session

Chain  == <<{}, {1}>>     \* two nodes, the second needs the first
Pair   == <<{}, {}>>      \* two nodes that run in parallel
Single == <<{}>>

MCDrafts == {Chain, Pair}
MCChain == {Chain}
MCPair == {Pair}
MCSingle == {Single}
=============================================================================
