---------------------------- MODULE ChildHandles ----------------------------
(***************************************************************************)
(* What cosmos::SubProc promises, without pids and file descriptors: a     *)
(* child process that was created through a handle stays bound to exactly  *)
(* one handle until its exit status was collected.  Handles can be moved.  *)
(* Nobody but the handle's owner collects the child, unless the program    *)
(* has another component that waits for arbitrary children (OtherWaiter),  *)
(* in which case the handle is released once its owner finds out.          *)
(***************************************************************************)
CONSTANTS
    Obj,          \* the handles
    Child,        \* the child processes that may ever exist
    NoChild,      \* what an empty handle is bound to
    OtherWaiter   \* some other component calls wait() for any child

VARIABLES
    bound,        \* bound[o]: the child of handle o, or NoChild
    phase         \* phase[c]: how far the life of child c is

vars == <<bound, phase>>

Init ==
    /\ bound = [o \in Obj |-> NoChild]
    /\ phase = [c \in Child |-> "unborn"]

Acquire(o, c) ==
    /\ bound[o] = NoChild
    /\ phase[c] = "unborn"
    /\ bound' = [bound EXCEPT ![o] = c]
    /\ phase' = [phase EXCEPT ![c] = "live"]

Transfer(from, to) ==
    /\ from # to
    /\ bound[to] = NoChild
    /\ bound' = [bound EXCEPT ![to] = bound[from], ![from] = NoChild]
    /\ UNCHANGED phase

\* Any number of children may die at once.
Die(C) ==
    /\ \A c \in C : phase[c] = "live"
    /\ phase' = [c \in Child |-> IF c \in C THEN "dead" ELSE phase[c]]
    /\ UNCHANGED bound

\* The owner collects the exit status: the child is gone and the handle free.
Collect(o) ==
    /\ bound[o] \in Child
    /\ phase[bound[o]] = "dead"
    /\ phase' = [phase EXCEPT ![bound[o]] = "gone"]
    /\ bound' = [bound EXCEPT ![o] = NoChild]

Steal(c) ==
    /\ OtherWaiter
    /\ phase[c] = "dead"
    /\ phase' = [phase EXCEPT ![c] = "gone"]
    /\ UNCHANGED bound

\* The owner learns that somebody else collected the child.
GiveUp(o) ==
    /\ bound[o] \in Child
    /\ phase[bound[o]] = "gone"
    /\ bound' = [bound EXCEPT ![o] = NoChild]
    /\ UNCHANGED phase

Next ==
    \/ \E o \in Obj, c \in Child : Acquire(o, c)
    \/ \E from, to \in Obj : Transfer(from, to)
    \/ \E C \in SUBSET Child : Die(C)
    \/ \E o \in Obj : Collect(o) \/ GiveUp(o)
    \/ \E c \in Child : Steal(c)

Spec == Init /\ [][Next]_vars
=============================================================================
