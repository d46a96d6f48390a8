----------------------------- MODULE MCSubProc -----------------------------
(***************************************************************************)
(* Instances of SubProc for TLC.                                           *)
(***************************************************************************)
EXTENDS SubProc, TLC

\* Waits that ask for termination, and one that asks for stops only.
JoiningFlags == {{"WAIT_FOR_EXITED"},
                 {"WAIT_FOR_EXITED", "LEAVE_INFO"},
                 {"WAIT_FOR_EXITED", "WAIT_FOR_STOPPED", "WAIT_FOR_CONTINUED"}}
StopFlags == {{"WAIT_FOR_STOPPED"}}
AllFlags == JoiningFlags \union StopFlags

Symmetry ==
    Permutations(Obj) \union Permutations(Child) \union Permutations(Pid)
        \union Permutations(Fd)
=============================================================================
