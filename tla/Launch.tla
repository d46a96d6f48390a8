------------------------------- MODULE Launch -------------------------------
(***************************************************************************)
(* What ChildCloner::run() promises to the threads that call it.  A run    *)
(* that fails leaves no child process behind, not even a zombie.  A run    *)
(* that succeeds leaves a child, which is past its setup if the run        *)
(* forwards child errors: it became the program, or it has ended without   *)
(* running into an error of its own.  An error that meets a child before   *)
(* its setup begins is not promised to be heard of: on Valgrind the child  *)
(* waits there for its parent, and says nothing when that fails.           *)
(***************************************************************************)
CONSTANTS
    Caller,       \* the threads that call run(), each once
    OtherWaiter   \* some other component calls wait() for any child

VARIABLES
    forwarding,   \* the callers that use setForwardChildErrors(true)
    result,       \* result[c]: "none" while c's run() has not ended
    child,        \* child[c]: the child process that c's run() created
    broken        \* those whose child ended because its setup failed

vars == <<forwarding, result, child, broken>>

Init ==
    /\ forwarding \subseteq Caller
    /\ result = [c \in Caller |-> "none"]
    /\ child = [c \in Caller |-> "absent"]
    /\ broken = {}

Create(c) ==
    /\ result[c] = "none" /\ child[c] = "absent"
    /\ child' = [child EXCEPT ![c] = "unready"]
    /\ UNCHANGED <<result, broken>>

BeginSetup(c) ==
    /\ child[c] = "unready"
    /\ child' = [child EXCEPT ![c] = "setup"]
    /\ UNCHANGED <<result, broken>>

Become(c) ==
    /\ child[c] = "setup"
    /\ child' = [child EXCEPT ![c] = "program"]
    /\ UNCHANGED <<result, broken>>

Die(c) ==
    /\ child[c] \in {"unready", "setup", "program"}
    /\ child' = [child EXCEPT ![c] = "dead"]
    /\ broken' \in {broken, IF child[c] = "setup" THEN broken \union {c} ELSE broken}
    /\ UNCHANGED result

\* run() collects the child it gives up, together with ending or before.
Collect(c) ==
    /\ child[c] = "dead"
    /\ result[c] = "none" \/ OtherWaiter
    /\ child' = [child EXCEPT ![c] = "gone"]
    /\ result' \in {result, [result EXCEPT ![c] = IF @ = "none" THEN "error" ELSE @]}
    /\ UNCHANGED broken

Fail(c) ==
    /\ result[c] = "none" /\ child[c] \in {"absent", "gone"}
    /\ result' = [result EXCEPT ![c] = "error"]
    /\ UNCHANGED <<child, broken>>

Succeed(c) ==
    /\ result[c] = "none"
    /\ child[c] # "absent"
    /\ c \in forwarding => child[c] \notin {"unready", "setup"} /\ c \notin broken
    /\ result' = [result EXCEPT ![c] = "ok"]
    /\ UNCHANGED <<child, broken>>

Next ==
    /\ \E c \in Caller :
         \/ Create(c) \/ BeginSetup(c) \/ Become(c) \/ Die(c)
         \/ Collect(c) \/ Fail(c) \/ Succeed(c)
    /\ UNCHANGED forwarding

Spec == Init /\ [][Next]_vars
=============================================================================
