------------------------------- MODULE MCTree -------------------------------
(***************************************************************************)
(* Instances of Tree for TLC.                                              *)
(***************************************************************************)
EXTENDS Tree, TLC
=============================================================================
