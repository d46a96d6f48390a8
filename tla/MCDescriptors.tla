--------------------------- MODULE MCDescriptors ---------------------------
(***************************************************************************)
(* Instances of Descriptors for TLC.                                       *)
(***************************************************************************)
EXTENDS Descriptors, TLC

Symmetry == Permutations(Obj) \union Permutations(Path)
=============================================================================
