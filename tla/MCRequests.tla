---------------------------- MODULE MCRequests -----------------------------
(***************************************************************************)
(* An instance of Requests for TLC: two seccomp programs, of which one is  *)
(* longer than a struct sock_fprog, and words that are zero or -1.         *)
(***************************************************************************)
EXTENDS Requests, TLC
Words == {-1, 0}
SomePrograms == <<1, 3>>
=============================================================================
