----------------------------- MODULE MCListener -----------------------------
(***************************************************************************)
(* Instances of Listener for TLC: two endpoints the loop visits in turn.   *)
(***************************************************************************)
EXTENDS Listener

CONSTANTS d1, d2

MCOrder == <<d1, d2>>
=============================================================================
