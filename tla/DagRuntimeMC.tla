---------------------------- MODULE DagRuntimeMC ----------------------------
(***************************************************************************)
(* Instances of DagRuntime for TLC.                                        *)
(***************************************************************************)
EXTENDS DagRuntime

MCAgentOf2 == <<1, 2>>
MCMentions == {<<>>, <<2>>, <<2, 3>>}
=============================================================================
