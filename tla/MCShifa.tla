------------------------------- MODULE MCShifa -------------------------------
(***************************************************************************)
(* Shifa for TLC: finalizers are named after whose they are.               *)
(***************************************************************************)
EXTENDS Shifa

MCOwn     == "shifa"
MCForeign == {"other"}
=============================================================================
