---------------------------- MODULE ChildCloner ----------------------------
(***************************************************************************)
(* cosmos::ChildCloner::run(), called by several threads of one process.   *)
(*                                                                         *)
(* Each caller creates one child.  With setForwardChildErrors(true) a      *)
(* close-on-exec packet pipe leads from the child to its caller; the       *)
(* caller reads it until it gets an error or end-of-file, which it takes   *)
(* for a successful execve().  All threads share the parent's file table,  *)
(* so that a child inherits the pipe ends of every run() in progress.      *)
(***************************************************************************)
EXTENDS Naturals, Sequences

CONSTANTS
    Caller,        \* the threads; each calls run() once, and names its child
    Parent,        \* the process that the threads belong to
    Configs,       \* the ChildCloner configurations to choose from
    OtherWaiter,   \* another component calls proc::wait() for any child
    Interrupts     \* signal handlers without SA_RESTART are installed, and
                   \* the library does not restart system calls

\* What the post fork callback does: an exception derived from std::exception
\* or another one ("throws"), a proc::exit() or an endless wait.
Callbacks == {"returns", "throws", "exits", "blocks"}

Config == [forward: BOOLEAN,    \* m_forward_child_errors
           noexe: BOOLEAN,      \* m_allow_no_exe
           complete: BOOLEAN,   \* executable and argv, or the callback, are set
           callback: Callbacks] \* "returns" also stands for no callback at all

ASSUME ChildClonerAssumption ==
    /\ Parent \notin Caller
    /\ Configs \subseteq Config
    /\ {OtherWaiter, Interrupts} \subseteq BOOLEAN

VARIABLES
    running_on_valgrind,   \* fork() is used instead of clone3()
    config,        \* config[c]: the settings of c's ChildCloner
    pc,            \* pc[c]: where c is in run()
    outcome,       \* outcome[c]: how c's run() ended, or is going to
    handle,        \* handle[c]: the pidfd of c's child in the parent
    event,         \* event[c]: the EventFile between c and its child is signalled
    pipe,          \* pipe[c]: the packets in c's error pipe
    writers,       \* writers[c]: the processes that have its write end open
    stage,         \* stage[c]: where c's child is
    cause,         \* history: the error that c's child ran into
    status,        \* status[c]: the exit status of c's child
    doomed,        \* the children that were sent SIGKILL
    aborted        \* fatal_error() has been called in the parent

caller == <<pc, outcome, handle>>
offspring == <<stage, cause, status>>
channel == <<event, pipe, writers>>
settings == <<running_on_valgrind, config>>
vars == <<settings, caller, channel, offspring, doomed, aborted>>

\* The errors of the child that runChild() knows of, and the one before it.
Reported == {"execve", "setup", "callback"}
Errors == {"none", "start"} \union Reported
PreExec == {"forked", "setup", "callback", "execve", "report", "explain", "leave"}
Living == PreExec \union {"program"}

Statuses == {"none", "SUCCESS", "PRE_EXEC_ERROR", "PROG_NOT_FOUND", "PROG_NOT_EXECUTABLE",
             "own", "signal"}

Init ==
    /\ running_on_valgrind \in BOOLEAN
    /\ config \in [Caller -> Configs]
    /\ pc = [c \in Caller |-> "idle"]
    /\ outcome = [c \in Caller |-> "none"]
    /\ handle = [c \in Caller |-> "none"]
    /\ event = [c \in Caller |-> FALSE]
    /\ pipe = [c \in Caller |-> <<>>]
    /\ writers = [c \in Caller |-> {}]
    /\ stage = [c \in Caller |-> "none"]
    /\ cause = [c \in Caller |-> "none"]
    /\ status = [c \in Caller |-> "none"]
    /\ doomed = {}
    /\ aborted = FALSE

-----------------------------------------------------------------------------
(* The threads of the parent *)

End(c, out) ==
    /\ pc' = [pc EXCEPT ![c] = "done"]
    /\ outcome' = [outcome EXCEPT ![c] = out]

\* verifyArgs(), and the error pipe if errors are to be forwarded.
Begin(c) ==
    /\ pc[c] = "idle"
    /\ \/ ~config[c].complete /\ End(c, "UsageError") /\ UNCHANGED writers
       \/ config[c].complete /\ config[c].forward /\ End(c, "ApiError") /\ UNCHANGED writers
       \/ /\ config[c].complete
          /\ pc' = [pc EXCEPT ![c] = "ready"]
          /\ writers' = IF config[c].forward THEN [writers EXCEPT ![c] = {Parent}] ELSE writers
          /\ UNCHANGED outcome
    /\ UNCHANGED <<settings, handle, event, pipe, offspring, doomed, aborted>>

\* The parent's write end is closed by handlePreExecError(), or with the pipe
\* when an exception leaves run().
CloseParentEnd(c) == writers' = [writers EXCEPT ![c] = @ \ {Parent}]

CreationFails(c) ==
    /\ pc[c] = "ready"
    /\ End(c, "ApiError")
    /\ CloseParentEnd(c)
    /\ UNCHANGED <<settings, handle, event, pipe, offspring, doomed, aborted>>

\* The child gets a copy of every file descriptor of the parent.
ForkChild(c) ==
    /\ writers' = [p \in Caller |->
                      IF Parent \in writers[p] THEN writers[p] \union {c} ELSE writers[p]]
    /\ stage' = [stage EXCEPT ![c] = "forked"]

\* runClone3(): the child and its pidfd come into being together.
Clone3(c) ==
    /\ ~running_on_valgrind
    /\ pc[c] = "ready"
    /\ ForkChild(c)
    /\ handle' = [handle EXCEPT ![c] = "open"]
    /\ pc' = [pc EXCEPT ![c] = "cloned"]
    /\ UNCHANGED <<settings, outcome, event, pipe, cause, status, doomed, aborted>>

\* runClone2(): fork() first, ...
Fork(c) ==
    /\ running_on_valgrind
    /\ pc[c] = "ready"
    /\ ForkChild(c)
    /\ pc' = [pc EXCEPT ![c] = "forked"]
    /\ UNCHANGED <<settings, outcome, handle, event, pipe, cause, status, doomed, aborted>>

\* ... then open the pidfd and let the child proceed, ...
OpenPidFD(c) ==
    /\ pc[c] = "forked"
    /\ handle' = [handle EXCEPT ![c] = "open"]
    /\ event' = [event EXCEPT ![c] = TRUE]
    /\ pc' = [pc EXCEPT ![c] = "cloned"]
    /\ UNCHANGED <<settings, outcome, pipe, writers, offspring, doomed, aborted>>

\* ... or kill the child when that fails.
OpenPidFDFails(c) ==
    /\ pc[c] = "forked"
    /\ outcome' = [outcome EXCEPT ![c] = "ApiError"]
    /\ pc' = [pc EXCEPT ![c] = "killing"]
    /\ UNCHANGED <<settings, handle, channel, offspring, doomed, aborted>>

\* Without an error pipe run() is finished once the child is created.
ReturnAtOnce(c) ==
    /\ pc[c] = "cloned" /\ ~config[c].forward
    /\ End(c, "ok")
    /\ UNCHANGED <<settings, handle, channel, offspring, doomed, aborted>>

\* Mutant: the parent keeps its write end while it reads.
CloseWriteEnd_Forgotten(c) ==
    /\ pc[c] = "cloned" /\ config[c].forward
    /\ pc' = [pc EXCEPT ![c] = "reading"]
    /\ UNCHANGED <<settings, outcome, handle, channel, offspring, doomed, aborted>>

\* handlePreExecError(): first the parent's own write end is closed.
CloseWriteEnd(c) ==
    /\ pc[c] = "cloned" /\ config[c].forward
    /\ CloseParentEnd(c)
    /\ pc' = [pc EXCEPT ![c] = "reading"]
    /\ UNCHANGED <<settings, outcome, handle, event, pipe, offspring, doomed, aborted>>

\* The next packet of the error pipe is what the thread wants to read, ...
Receive(c, packet) ==
    /\ pipe[c] # <<>> /\ Head(pipe[c]) = packet
    /\ pipe' = [pipe EXCEPT ![c] = Tail(@)]

\* Mutant: an empty pipe is taken for end-of-file.
EndOfFile_EmptyPipe(c) == pipe[c] = <<>>

\* ... or read() returns 0.
EndOfFile(c) == pipe[c] = <<>> /\ writers[c] = {}

\* The first packet is an errno.  NO_ERROR stands for a RuntimeError.
ReadErrno(c) ==
    /\ pc[c] = "reading"
    /\ \E errno \in {"errno", "NO_ERROR"} :
        /\ Receive(c, errno)
        /\ outcome' = [outcome EXCEPT ![c] = IF errno = "errno" THEN "ApiError" ELSE "RuntimeError"]
    /\ pc' = [pc EXCEPT ![c] = "readtext"]
    /\ UNCHANGED <<settings, handle, event, writers, offspring, doomed, aborted>>

\* End-of-file in place of an errno: "no pre-execve error occurred".
ReadNoError(c) ==
    /\ pc[c] = "reading"
    /\ EndOfFile(c)
    /\ End(c, "ok")
    /\ UNCHANGED <<settings, handle, channel, offspring, doomed, aborted>>

ReadText(c) ==
    /\ pc[c] = "readtext"
    /\ Receive(c, "text")
    /\ pc' = [pc EXCEPT ![c] = "killing"]
    /\ UNCHANGED <<settings, outcome, handle, event, writers, offspring, doomed, aborted>>

\* "missing error message from error pipe"
ReadNoText(c) ==
    /\ pc[c] = "readtext"
    /\ EndOfFile(c)
    /\ outcome' = [outcome EXCEPT ![c] = "RuntimeError"]
    /\ pc' = [pc EXCEPT ![c] = "killing"]
    /\ UNCHANGED <<settings, handle, channel, offspring, doomed, aborted>>

\* read() throws in either place.
ReadFails(c) ==
    /\ Interrupts
    /\ pc[c] \in {"reading", "readtext"}
    /\ outcome' = [outcome EXCEPT ![c] = "READ_FAILED"]
    /\ pc' = [pc EXCEPT ![c] = "killing"]
    /\ UNCHANGED <<settings, handle, channel, offspring, doomed, aborted>>

-----------------------------------------------------------------------------
(* The catch handlers of run() and runClone2() *)

\* Mutant: the killed child is not waited for.
KillChild_NoWait(c) ==
    /\ pc[c] = "killing"
    /\ doomed' = doomed \union {c}
    /\ pc' = [pc EXCEPT ![c] = "done"]
    /\ UNCHANGED <<settings, outcome, handle, channel, offspring, aborted>>

\* Both catch handlers send SIGKILL, which takes effect at some later time.
\* That the child is gone already is ignored.
KillChild(c) ==
    /\ pc[c] = "killing"
    /\ doomed' = doomed \union {c}
    /\ pc' = [pc EXCEPT ![c] = "collecting"]
    /\ UNCHANGED <<settings, outcome, handle, channel, offspring, aborted>>

ClosePidFD(c) ==
    handle' = [handle EXCEPT ![c] = IF @ = "open" THEN "closed" ELSE @]

\* The wait() of the catch handlers collects the child, the error is rethrown.
CollectChild(c) ==
    /\ pc[c] = "collecting"
    /\ stage[c] = "zombie"
    /\ stage' = [stage EXCEPT ![c] = "reaped"]
    /\ ClosePidFD(c) /\ CloseParentEnd(c)
    /\ pc' = [pc EXCEPT ![c] = "done"]
    /\ UNCHANGED <<settings, outcome, event, pipe, cause, status, doomed, aborted>>

\* Somebody else did: SubProc::wait() releases the pidfd, its error replaces
\* the one that the child reported.
CollectNothing(c) ==
    /\ pc[c] = "collecting"
    /\ stage[c] = "reaped"
    /\ ClosePidFD(c) /\ CloseParentEnd(c)
    /\ End(c, "NO_CHILD")
    /\ UNCHANGED <<settings, event, pipe, offspring, doomed, aborted>>

\* waitid() fails with EINTR while the dying child is not yet a zombie.  The
\* exception leaves the handler, and the running SubProc in the std::optional
\* is destroyed.  In runClone2() there is no SubProc yet.
CollectInterrupted(c) ==
    /\ Interrupts
    /\ pc[c] = "collecting"
    /\ stage[c] \in Living
    /\ End(c, "INTERRUPTED") /\ CloseParentEnd(c)
    /\ aborted' = (handle[c] = "open")
    /\ UNCHANGED <<settings, handle, event, pipe, offspring, doomed>>
-----------------------------------------------------------------------------
(* The children *)

\* A process that ends or execs closes its close-on-exec file descriptors.
CloseFiles(c) == writers' = [p \in Caller |-> writers[p] \ {c}]

\* Child c ends and is a zombie from now on.
Terminate(c, st) ==
    /\ stage' = [stage EXCEPT ![c] = "zombie"]
    /\ status' = [status EXCEPT ![c] = st]
    /\ CloseFiles(c)
    /\ UNCHANGED <<settings, caller, event, pipe, cause, doomed, aborted>>

Goto(c, from, to) ==
    /\ stage[c] = from
    /\ stage' = [stage EXCEPT ![c] = to]
    /\ UNCHANGED <<settings, caller, channel, status, doomed, aborted>>

\* Mutant: the child does not wait for its parent's event.
StartChild_NoEvent(c) == Goto(c, "forked", "setup") /\ UNCHANGED cause

\* Mutant: runChild() closes the write end of the error pipe.
StartChild_ClosesPipe(c) ==
    /\ running_on_valgrind => event[c]
    /\ stage[c] = "forked"
    /\ stage' = [stage EXCEPT ![c] = "setup"]
    /\ writers' = [writers EXCEPT ![c] = @ \ {c}]
    /\ UNCHANGED <<settings, caller, event, pipe, cause, status, doomed, aborted>>

\* runChild() begins.  On Valgrind the child waits for its parent before.
StartChild(c) ==
    /\ running_on_valgrind => event[c]
    /\ Goto(c, "forked", "setup") /\ UNCHANGED cause

\* The EventFile fails the child, which exits without a report, although its
\* parent may be waiting for one.
StartFails(c) ==
    /\ running_on_valgrind /\ stage[c] = "forked"
    /\ cause' = [cause EXCEPT ![c] = "start"]
    /\ stage' = [stage EXCEPT ![c] = "zombie"]
    /\ status' = [status EXCEPT ![c] = "PRE_EXEC_ERROR"]
    /\ CloseFiles(c)
    /\ UNCHANGED <<settings, caller, event, pipe, doomed, aborted>>

\* The catch clauses of runChild(): report the error or just exit with st.
ChildFails(c, from, why, st) ==
    /\ stage[c] = from
    /\ cause' = [cause EXCEPT ![c] = why]
    /\ IF config[c].forward
       THEN /\ stage' = [stage EXCEPT ![c] = "report"]
            /\ UNCHANGED <<status, writers>>
       ELSE /\ stage' = [stage EXCEPT ![c] = "zombie"]
            /\ status' = [status EXCEPT ![c] = st]
            /\ CloseFiles(c)
    /\ UNCHANGED <<settings, caller, event, pipe, doomed, aborted>>

\* postFork() up to the callback: working directory and redirections.
SetUp(c) == Goto(c, "setup", "callback") /\ UNCHANGED cause

SetUpFails(c) == ChildFails(c, "setup", "setup", "PRE_EXEC_ERROR")

CallbackReturns(c) ==
    /\ config[c].callback = "returns"
    /\ IF config[c].noexe
       THEN stage[c] = "callback" /\ Terminate(c, "SUCCESS")
       ELSE Goto(c, "callback", "execve") /\ UNCHANGED cause

CallbackThrows(c) ==
    /\ config[c].callback = "throws"
    /\ ChildFails(c, "callback", "callback", "PRE_EXEC_ERROR")

CallbackExits(c) ==
    /\ config[c].callback = "exits"
    /\ stage[c] = "callback"
    /\ Terminate(c, "own")

\* The new program runs without the close-on-exec files of the old one.
Exec(c) ==
    /\ stage[c] = "execve"
    /\ stage' = [stage EXCEPT ![c] = "program"]
    /\ CloseFiles(c)
    /\ UNCHANGED <<settings, caller, event, pipe, cause, status, doomed, aborted>>

ExecFails(c) ==
    \E st \in {"PROG_NOT_FOUND", "PROG_NOT_EXECUTABLE", "PRE_EXEC_ERROR"} :
        ChildFails(c, "execve", "execve", st)

\* reportPreExecErrorAndExit(): only a failed execve() is reported with its
\* errno, any other error as NO_ERROR.
ReportErrno(c) ==
    /\ stage[c] = "report"
    /\ pipe' = [pipe EXCEPT ![c] = Append(@, IF cause[c] = "execve" THEN "errno" ELSE "NO_ERROR")]
    /\ stage' = [stage EXCEPT ![c] = "explain"]
    /\ UNCHANGED <<settings, caller, event, writers, cause, status, doomed, aborted>>

\* Writing the empty what() of a callback's exception makes no packet.
ReportText(c) ==
    /\ stage[c] = "explain"
    /\ \/ pipe' = [pipe EXCEPT ![c] = Append(@, "text")]
       \/ cause[c] = "callback" /\ UNCHANGED pipe
    /\ stage' = [stage EXCEPT ![c] = "leave"]
    /\ UNCHANGED <<settings, caller, event, writers, cause, status, doomed, aborted>>

ExitAfterReport(c) == stage[c] = "leave" /\ Terminate(c, "PRE_EXEC_ERROR")

ProgramExits(c) == stage[c] = "program" /\ Terminate(c, "own")

\* SIGKILL from run(), or any deadly signal from elsewhere.
Killed(c) == stage[c] \in Living /\ Terminate(c, "signal")

\* Another component's proc::wait(WaitFlags) collects the child.  The comment
\* on runClone2() asks for nobody doing so on Valgrind.
OtherWaits(c) ==
    /\ OtherWaiter /\ ~running_on_valgrind
    /\ Goto(c, "zombie", "reaped") /\ UNCHANGED cause

RunStep(c) ==
    \/ Begin(c) \/ CreationFails(c) \/ Clone3(c)
    \/ Fork(c) \/ OpenPidFD(c) \/ OpenPidFDFails(c)
    \/ ReturnAtOnce(c) \/ CloseWriteEnd(c)
    \/ ReadErrno(c) \/ ReadNoError(c) \/ ReadText(c) \/ ReadNoText(c)
    \/ KillChild(c) \/ CollectChild(c) \/ CollectNothing(c) \/ CollectInterrupted(c)

\* What the child does by itself until it runs the program.
ChildStep(c) ==
    \/ StartChild(c) \/ StartFails(c)
    \/ SetUp(c) \/ SetUpFails(c)
    \/ CallbackReturns(c) \/ CallbackThrows(c) \/ CallbackExits(c)
    \/ Exec(c) \/ ExecFails(c)
    \/ ReportErrno(c) \/ ReportText(c) \/ ExitAfterReport(c)

Next ==
    /\ ~aborted
    /\ \E c \in Caller :
         \/ RunStep(c) \/ ReadFails(c)
         \/ ChildStep(c) \/ ProgramExits(c) \/ Killed(c) \/ OtherWaits(c)

Spec == Init /\ [][Next]_vars

\* Threads and children are scheduled and SIGKILL kills.  A callback may
\* block forever and a program may run forever.
Fairness ==
    \A c \in Caller :
        /\ WF_vars(pc[c] # "idle" /\ RunStep(c))
        /\ WF_vars(ChildStep(c))
        /\ WF_vars(c \in doomed /\ Killed(c))

FairSpec == Spec /\ Fairness

-----------------------------------------------------------------------------
(* Properties *)

Outcomes == {"none", "ok", "UsageError", "ApiError", "RuntimeError",
             "READ_FAILED", "NO_CHILD", "INTERRUPTED"}

TypeOK ==
    /\ running_on_valgrind \in BOOLEAN
    /\ config \in [Caller -> Configs]
    /\ pc \in [Caller -> {"idle", "ready", "forked", "cloned", "reading", "readtext",
                          "killing", "collecting", "done"}]
    /\ outcome \in [Caller -> Outcomes]
    /\ handle \in [Caller -> {"none", "open", "closed"}]
    /\ event \in [Caller -> BOOLEAN]
    /\ pipe \in [Caller -> Seq({"errno", "NO_ERROR", "text"})]
    /\ writers \in [Caller -> SUBSET (Caller \union {Parent})]
    /\ stage \in [Caller -> {"none", "zombie", "reaped"} \union Living]
    /\ cause \in [Caller -> Errors]
    /\ status \in [Caller -> Statuses]
    /\ doomed \subseteq Caller
    /\ aborted \in BOOLEAN

\* A run() that throws has collected its child, if it created one, and has
\* closed the pidfd: the caller gets no SubProc to do it with.  That fails only
\* when a signal interrupts the wait of the catch handler.
FailureLeavesNothing ==
    \A c \in Caller :
        pc[c] = "done" /\ outcome[c] \notin {"ok", "INTERRUPTED"} =>
            stage[c] \in {"none", "reaped"} /\ handle[c] # "open"

\* With setForwardChildErrors(true) a run() that returns has seen its child
\* through, whichever other children are holding on to the pipe: the child is
\* not in its setup any more and did not end because of an error that runChild()
\* saw.  What run() throws is what the child ran into: an ApiError for a
\* failed execve(), a RuntimeError for anything else, unless the child was
\* killed halfway through its report, or reading it or the collection failed.
\* Nothing is said of a child that fails before runChild(): see below.
ReportedErrorsAreThrown ==
    \A c \in Caller :
        pc[c] = "done" /\ config[c].forward =>
            /\ outcome[c] = "ok" => stage[c] \notin PreExec
            /\ cause[c] \in Reported =>
                 \/ outcome[c] = IF cause[c] = "execve" THEN "ApiError" ELSE "RuntimeError"
                 \/ status[c] = "signal"
                 \/ outcome[c] \in {"READ_FAILED", "NO_CHILD", "INTERRUPTED"}

\* "If an error is encountered in the child before execve() then an ApiError
\* will be thrown synchronously when invoking run()" (setForwardChildErrors()).
PreExecErrorsAreThrown ==
    \A c \in Caller :
        pc[c] = "done" /\ config[c].forward /\ cause[c] # "none" /\ status[c] # "signal" =>
            outcome[c] \notin {"ok", "RuntimeError"}

\* The child leaves its starting point only after the parent owns a pidfd for
\* it: "the child process will not exec() before the parent process signals".
\* All variables keep their types.
PidFDBeforeExec ==
    /\ TypeOK
    /\ \A c \in Caller : stage[c] \in Living \ {"forked"} => handle[c] # "none"

\* The callbacks that never return keep everything inherited open.
Blocked == \E c \in Caller : stage[c] = "callback" /\ config[c].callback = "blocks"

\* Every run() comes to an end unless a callback blocks, also while the programs
\* that other runs started go on forever, or the whole process ends.
RunEnds == \A c \in Caller : pc[c] # "idle" ~> pc[c] = "done" \/ aborted \/ Blocked

\* run() as the callers see it.  A child that fails in its setup without
\* getting killed is a broken one; it is not ready before runChild().  A run
\* whose handler was interrupted has no result in the sense of Launch: it
\* throws and leaves its child behind.
ResultOf(c) ==
    CASE pc[c] # "done" \/ outcome[c] = "INTERRUPTED" -> "none"
      [] pc[c] = "done" /\ outcome[c] = "ok" -> "ok"
      [] OTHER -> "error"

ChildOf(c) ==
    CASE stage[c] = "none" -> "absent"
      [] stage[c] = "forked" -> "unready"
      [] stage[c] \in PreExec \ {"forked"} -> "setup"
      [] stage[c] = "program" -> "program"
      [] stage[c] = "zombie" -> "dead"
      [] OTHER -> "gone"

Launching == INSTANCE Launch WITH
    forwarding <- {c \in Caller : config[c].forward},
    result <- [c \in Caller |-> ResultOf(c)],
    child <- [c \in Caller |-> ChildOf(c)],
    broken <- {c \in Caller : cause[c] \in Reported /\ status[c] \notin {"none", "signal"}}

\* Whatever the interleaving of callers, children, killers and collectors, a
\* caller sees its run() succeed or fail as Launch promises.
ImplementsLaunch == Launching!Spec
=============================================================================
