----------------------------- MODULE MCStreamIO -----------------------------
(***************************************************************************)
(* Instances of StreamIO for TLC.                                          *)
(***************************************************************************)
EXTENDS StreamIO

At(b, n) == [base |-> b, len |-> n]

\* One region; a gather list out of order with empty entries at both ends;
\* nothing at all.
Sources == {<<At(1, 4)>>,
            <<At(1, 0), At(4, 2), At(1, 3), At(6, 0)>>,
            <<At(1, 0)>>}

\* Fewer bytes than are sent, more, and a scatter list with an empty entry
\* in the middle and at the end.
Targets == {<<At(11, 3)>>,
            <<At(11, 6)>>,
            <<At(13, 2), At(20, 0), At(11, 1), At(16, 1), At(12, 0)>>,
            <<At(11, 0)>>}

\* The default of the library, for file descriptors that block, and the
\* settings with which every kind of exception is thrown.
Blocking == {[nonblocking |-> FALSE, restart |-> TRUE]}
Throwing == {[nonblocking |-> TRUE, restart |-> FALSE]}
BlockingOrThrowing == Blocking \union Throwing
=============================================================================
