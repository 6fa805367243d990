---------------------------- MODULE MCLifecycle ----------------------------
(***************************************************************************)
(* The three endpoints NetBootd::Init adds, for TLC.                       *)
(***************************************************************************)
EXTENDS Lifecycle
=============================================================================
