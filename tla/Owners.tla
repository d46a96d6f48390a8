------------------------------- MODULE Owners -------------------------------
(***************************************************************************)
(* What the types for open files promise together: a number of the table   *)
(* of open files has one owner, and only its owner closes it or hands it   *)
(* to somebody else.                                                       *)
(***************************************************************************)
CONSTANTS
    Num,    \* the numbers of the table
    Owner,  \* who can own one
    Free,   \* "owner" of a number that is not open
    Lost    \* "owner" of a number that nobody will close

VARIABLES
    owner,  \* who owns which number
    actor   \* who took the last step

vars == <<owner, actor>>

Init ==
    /\ owner = [n \in Num |-> Free]
    /\ actor \in Owner

\* The owner a closes numbers, opens new ones, hands some to b or loses some.
Act(a, b) ==
    /\ actor' = a
    /\ owner' \in [Num -> Owner \union {Free, Lost}]
    /\ \A n \in Num : owner'[n] # owner[n] =>
           /\ owner[n] \in {Free, a}
           /\ owner'[n] \in {Free, a, b, Lost}

\* The process ends, and the kernel closes everything.
Exit ==
    /\ actor' \in Owner
    /\ owner' = [n \in Num |-> Free]

Next ==
    \/ \E a, b \in Owner : Act(a, b)
    \/ Exit

Spec == Init /\ [][Next]_vars
=============================================================================
