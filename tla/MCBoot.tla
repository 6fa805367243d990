------------------------------- MODULE MCBoot -------------------------------
(***************************************************************************)
(* Instances of Boot for TLC: machines and slots are model values.         *)
(***************************************************************************)
EXTENDS Boot
=============================================================================
