------------------------------ MODULE MCReload ------------------------------
(***************************************************************************)
(* Reload for TLC: a spec has a part for its target and one for its bounds.*)
(***************************************************************************)
EXTENDS Reload

MCParts    == {"target", "bounds"}
MCVersions == {1, 2}
=============================================================================
