------------------------------ MODULE SubProc ------------------------------
(***************************************************************************)
(* cosmos::SubProc: move-only handles for child processes, on top of the   *)
(* kernel's process table, pidfds and waitid().                            *)
(*                                                                         *)
(* Every object of Obj is used by one thread at a time, as its contract    *)
(* asks.  The steps of different objects, of the children and of other     *)
(* components of the program interleave.  Definitions whose comment says   *)
(* "kernel" model Linux as the code in src/ relies on it.                  *)
(***************************************************************************)
EXTENDS Naturals, FiniteSets

CONSTANTS
    Obj,           \* the SubProc variables of the program
    Child,         \* the processes ever forked: bounds the number of forks
    Pid,           \* the process numbers the kernel recycles
    Fd,            \* the file descriptor numbers pidfds can get
    NoPid,         \* ProcessID::INVALID
    NoFd,          \* FileNum::INVALID
    NoChild,       \* "no process"
    WaitFlagSets,  \* the flags that clients pass to wait() and waitTimed()
    Signals,       \* the signals that clients pass to kill()
    CoreDumps,     \* RLIMIT_CORE lets a crashing child dump core
    OtherWaiter,   \* another component calls proc::wait() for any child
    Interrupts,    \* signal handlers without SA_RESTART are installed
    Valgrind       \* the values that running_on_valgrind may have

WaitFlag == {"WAIT_FOR_EXITED", "WAIT_FOR_STOPPED", "WAIT_FOR_CONTINUED", "LEAVE_INFO"}

ASSUME SubProcAssumption ==
    /\ NoPid \notin Pid
    /\ NoFd \notin Fd
    /\ NoChild \notin Child
    /\ WaitFlagSets \subseteq SUBSET WaitFlag
    /\ Signals \subseteq {"KILL", "ABORT", "STOP", "CONT"}
    /\ {CoreDumps, OtherWaiter, Interrupts} \subseteq BOOLEAN
    /\ Valgrind \subseteq BOOLEAN

VARIABLES
    life,          \* kernel: life[c] is the state of process c
    news,          \* kernel: news[c] is a stop or continue not yet waited for
    pidOf,         \* kernel: the process number given to c
    fdtab,         \* kernel: fdtab[f] is the process that pidfd f refers to
    m_pid,         \* SubProc::m_pid
    m_child_fd,    \* SubProc::m_child_fd
    pc,            \* where the thread that uses object o is
    flags,         \* the argument of the wait() or waitTimed() in progress
    running_on_valgrind, \* the library's flag, set by its initialisation
    victims,       \* Valgrind: whom the kill() in progress is going to signal
    joined,        \* the client has joined o's child, or o never had one
    child,         \* history: the child that o was created for
    aborted        \* fatal_error() has been called

kernel == <<life, news, pidOf, fdtab>>
object == <<m_pid, m_child_fd>>
client == <<pc, flags, victims, joined, child>>
vars == <<kernel, object, client, aborted, running_on_valgrind>>

Dead == {"exited", "killed", "dumped"}
Alive == {"running", "stopped"}

running(o) == m_child_fd[o] # NoFd

-----------------------------------------------------------------------------
(* Kernel *)

FreePids == {p \in Pid : \A c \in Child : pidOf[c] = p => life[c] = "reaped"}
FreeFds == {f \in Fd : fdtab[f] = NoChild}

\* What waitid() can report of process c.  A terminated process has nothing
\* but its termination to report, also when a stop was not yet waited for.
Events(c, fl) ==
    {e \in Dead : e = life[c] /\ "WAIT_FOR_EXITED" \in fl}
        \union {e \in {"stopped", "continued"} :
                    /\ life[c] \in Alive
                    /\ e = news[c]
                    /\ \/ e = "stopped" /\ "WAIT_FOR_STOPPED" \in fl
                       \/ e = "continued" /\ "WAIT_FOR_CONTINUED" \in fl}

\* When waitid() fails with ECHILD: process c was collected, or it can never
\* again have something to report that the flags ask for.
NoneToWaitFor(c, fl) ==
    \/ life[c] = "reaped"
    \/ life[c] \in Dead /\ "WAIT_FOR_EXITED" \notin fl

\* A stopped process acts on ABORT only once it runs again (ChildSignaled).
AfterSignal(c, s) ==
    CASE life[c] = "running" ->
           [KILL |-> "killed", ABORT |-> IF CoreDumps THEN "dumped" ELSE "killed",
            STOP |-> "stopped", CONT |-> "running"][s]
      [] life[c] = "stopped" ->
           [KILL |-> "killed", ABORT |-> "stopped", STOP |-> "stopped", CONT |-> "running"][s]
      [] OTHER -> life[c]

NewsAfterSignal(c, s) ==
    CASE life[c] = "running" /\ s = "STOP" -> "stopped"
      [] life[c] = "stopped" /\ s = "CONT" -> "continued"
      [] OTHER -> news[c]

\* The processes in C receive signal s.
Deliver(C, s) ==
    /\ life' = [c \in Child |-> IF c \in C THEN AfterSignal(c, s) ELSE life[c]]
    /\ news' = [c \in Child |-> IF c \in C THEN NewsAfterSignal(c, s) ELSE news[c]]

-----------------------------------------------------------------------------
(* SubProc *)

\* SubProc::reset() and the FileDescriptor::close() it calls.
reset(o) ==
    /\ m_pid' = [m_pid EXCEPT ![o] = NoPid]
    /\ m_child_fd' = [m_child_fd EXCEPT ![o] = NoFd]
    /\ fdtab' = [fdtab EXCEPT ![m_child_fd[o]] = NoChild]

Init ==
    /\ life = [c \in Child |-> "unborn"]
    /\ news = [c \in Child |-> "none"]
    /\ pidOf = [c \in Child |-> NoPid]
    /\ fdtab = [f \in Fd |-> NoChild]
    /\ m_pid = [o \in Obj |-> NoPid]
    /\ m_child_fd = [o \in Obj |-> NoFd]
    /\ pc = [o \in Obj |-> "idle"]
    /\ flags = [o \in Obj |-> {}]
    /\ victims = [o \in Obj |-> {}]
    /\ joined = [o \in Obj |-> TRUE]
    /\ child = [o \in Obj |-> NoChild]
    /\ aborted = FALSE
    /\ running_on_valgrind \in Valgrind

\* "o = cloner.run()": a child is created with its pidfd, and the temporary
\* SubProc is moved into o.  The client may assign to o once it has joined o.
Spawn(o, c, p, f) ==
    /\ pc[o] = "idle" /\ joined[o]
    /\ life[c] = "unborn" /\ p \in FreePids /\ f \in FreeFds
    /\ IF running(o)
       THEN aborted' = TRUE /\ UNCHANGED <<kernel, object, client>>
       ELSE /\ life' = [life EXCEPT ![c] = "running"]
            /\ pidOf' = [pidOf EXCEPT ![c] = p]
            /\ fdtab' = [fdtab EXCEPT ![f] = c]
            /\ m_pid' = [m_pid EXCEPT ![o] = p]
            /\ m_child_fd' = [m_child_fd EXCEPT ![o] = f]
            /\ joined' = [joined EXCEPT ![o] = FALSE]
            /\ child' = [child EXCEPT ![o] = c]
            /\ UNCHANGED <<news, pc, flags, victims, aborted>>

\* Mutant: the source of the move keeps its pid.
MoveAssign_KeepsPid(to, from) ==
    /\ pc[to] = "idle" /\ pc[from] = "idle" /\ joined[to] /\ ~running(to)
    /\ m_pid' = [m_pid EXCEPT ![to] = m_pid[from]]
    /\ m_child_fd' = [m_child_fd EXCEPT ![to] = m_child_fd[from], ![from] = NoFd]
    /\ joined' = [joined EXCEPT ![to] = joined[from], ![from] = TRUE]
    /\ child' = [child EXCEPT ![to] = child[from], ![from] = NoChild]
    /\ UNCHANGED <<kernel, pc, flags, victims, aborted>>

\* "to = std::move(from)", also the move constructor (then to is empty).
MoveAssign(to, from) ==
    /\ pc[to] = "idle" /\ pc[from] = "idle" /\ joined[to]
    /\ IF running(to)
       THEN aborted' = TRUE /\ UNCHANGED <<kernel, object, client>>
       ELSE /\ m_pid' = [m_pid EXCEPT ![to] = m_pid[from], ![from] = NoPid]
            /\ m_child_fd' = [m_child_fd EXCEPT ![to] = m_child_fd[from], ![from] = NoFd]
            /\ joined' = [joined EXCEPT ![to] = joined[from], ![from] = TRUE]
            /\ child' = [child EXCEPT ![to] = child[from], ![from] = NoChild]
            /\ UNCHANGED <<kernel, pc, flags, victims, aborted>>

\* ~SubProc(), followed by a new, default constructed object.
Destroy(o) ==
    /\ pc[o] = "idle" /\ joined[o] /\ child[o] # NoChild
    /\ aborted' = running(o)
    /\ IF running(o)
       THEN UNCHANGED client
       ELSE child' = [child EXCEPT ![o] = NoChild] /\ UNCHANGED <<pc, flags, victims, joined>>
    /\ UNCHANGED <<kernel, object>>

-----------------------------------------------------------------------------
\* wait() enters proc::wait(), that is, waitid(P_PIDFD).
WaitBegin(o, fl) ==
    /\ pc[o] = "idle" /\ running(o)
    /\ pc' = [pc EXCEPT ![o] = "waiting"]
    /\ flags' = [flags EXCEPT ![o] = fl]
    /\ UNCHANGED <<kernel, object, victims, joined, child, aborted>>

\* Mutant: any event releases the object.
WaitReturns_AnyEvent(o) ==
    LET c == fdtab[m_child_fd[o]]
        consumed == "LEAVE_INFO" \notin flags[o]
    IN  /\ pc[o] = "waiting"
        /\ \E e \in Events(c, flags[o]) :
            /\ IF consumed
               THEN /\ life' = [life EXCEPT ![c] = IF e \in Dead THEN "reaped" ELSE @]
                    /\ news' = [news EXCEPT ![c] = "none"]
               ELSE UNCHANGED <<life, news>>
            /\ IF consumed THEN reset(o) ELSE UNCHANGED <<object, fdtab>>
            /\ joined' = [joined EXCEPT ![o] = consumed /\ e \in Dead]
        /\ pc' = [pc EXCEPT ![o] = "idle"]
        /\ flags' = [flags EXCEPT ![o] = {}]
        /\ UNCHANGED <<pidOf, victims, child, aborted>>

\* waitid() has an event.  The object is released when the child "exited" or
\* was "killed" and the information was not left in the kernel.
WaitReturns(o) ==
    LET c == fdtab[m_child_fd[o]]
        consumed == "LEAVE_INFO" \notin flags[o]
    IN  /\ pc[o] = "waiting"
        /\ \E e \in Events(c, flags[o]) :
            /\ IF consumed
               THEN /\ life' = [life EXCEPT ![c] = IF e \in Dead THEN "reaped" ELSE @]
                    /\ news' = [news EXCEPT ![c] = "none"]
               ELSE UNCHANGED <<life, news>>
            /\ IF consumed /\ e \in {"exited", "killed"}
               THEN reset(o)
               ELSE UNCHANGED <<object, fdtab>>
            /\ joined' = [joined EXCEPT ![o] = consumed /\ e \in Dead]
        /\ pc' = [pc EXCEPT ![o] = "idle"]
        /\ flags' = [flags EXCEPT ![o] = {}]
        /\ UNCHANGED <<pidOf, victims, child, aborted>>

\* Mutant: ECHILD is retried.
WaitFindsNoChild_Retries(o) ==
    /\ pc[o] = "waiting"
    /\ NoneToWaitFor(fdtab[m_child_fd[o]], flags[o])
    /\ UNCHANGED vars

\* waitid() fails with ECHILD: the object is released, the error rethrown.
WaitFindsNoChild(o) ==
    /\ pc[o] = "waiting"
    /\ NoneToWaitFor(fdtab[m_child_fd[o]], flags[o])
    /\ reset(o)
    /\ joined' = [joined EXCEPT ![o] = TRUE]
    /\ pc' = [pc EXCEPT ![o] = "idle"]
    /\ flags' = [flags EXCEPT ![o] = {}]
    /\ UNCHANGED <<life, news, pidOf, victims, child, aborted>>

\* Mutant: any error of waitid() releases the object.
WaitInterrupted_Releases(o) ==
    /\ Interrupts
    /\ pc[o] = "waiting"
    /\ Events(fdtab[m_child_fd[o]], flags[o]) = {}
    /\ ~NoneToWaitFor(fdtab[m_child_fd[o]], flags[o])
    /\ reset(o)
    /\ pc' = [pc EXCEPT ![o] = "idle"]
    /\ flags' = [flags EXCEPT ![o] = {}]
    /\ UNCHANGED <<life, news, pidOf, victims, joined, child, aborted>>

\* waitid() fails with EINTR: an ApiError is thrown and the object kept.
WaitInterrupted(o) ==
    /\ Interrupts
    /\ pc[o] = "waiting"
    /\ Events(fdtab[m_child_fd[o]], flags[o]) = {}
    /\ ~NoneToWaitFor(fdtab[m_child_fd[o]], flags[o])
    /\ pc' = [pc EXCEPT ![o] = "idle"]
    /\ flags' = [flags EXCEPT ![o] = {}]
    /\ UNCHANGED <<kernel, object, victims, joined, child, aborted>>

\* waitTimed() polls the pidfd, which is readable once the child terminated ...
PollBegin(o, fl) ==
    /\ pc[o] = "idle" /\ running(o)
    /\ pc' = [pc EXCEPT ![o] = "polling"]
    /\ flags' = [flags EXCEPT ![o] = fl]
    /\ UNCHANGED <<kernel, object, victims, joined, child, aborted>>

\* ... and goes on like wait(), ...
PollReady(o) ==
    /\ pc[o] = "polling"
    /\ life[fdtab[m_child_fd[o]]] \in Dead \union {"reaped"}
    /\ pc' = [pc EXCEPT ![o] = "waiting"]
    /\ UNCHANGED <<kernel, object, flags, victims, joined, child, aborted>>

\* ... or returns nothing after the timeout.
PollTimeout(o) ==
    /\ pc[o] = "polling"
    /\ pc' = [pc EXCEPT ![o] = "idle"]
    /\ flags' = [flags EXCEPT ![o] = {}]
    /\ UNCHANGED <<kernel, object, victims, joined, child, aborted>>

-----------------------------------------------------------------------------
\* Mutant: the signal goes to m_pid.
Kill_ByPid(o, s) ==
    /\ ~running_on_valgrind
    /\ pc[o] = "idle" /\ running(o)
    /\ Deliver({c \in Child : pidOf[c] = m_pid[o]}, s)
    /\ UNCHANGED <<pidOf, fdtab, object, client, aborted>>

\* kill(): pidfd_send_signal() reaches the process of the pidfd and fails
\* with ESRCH when that one was collected.
Kill(o, s) ==
    /\ ~running_on_valgrind
    /\ pc[o] = "idle" /\ running(o)
    /\ Deliver({fdtab[m_child_fd[o]]}, s)
    /\ UNCHANGED <<pidOf, fdtab, object, client, aborted>>

\* kill() on Valgrind: the "Pid:" line of /proc/self/fdinfo/<pidfd> is read.
\* The kernel writes -1 there when the process was collected, and kill(-1)
\* is for every process.  Otherwise it is for the holder of that number.
KillReadsPid(o) ==
    LET c == fdtab[m_child_fd[o]]
    IN  /\ running_on_valgrind
        /\ pc[o] = "idle" /\ running(o)
        /\ pc' = [pc EXCEPT ![o] = "killing"]
        /\ victims' = [victims EXCEPT ![o] = IF life[c] = "reaped" THEN Pid ELSE {pidOf[c]}]
        /\ UNCHANGED <<kernel, object, flags, joined, child, aborted>>

KillByPid(o, s) ==
    /\ pc[o] = "killing"
    /\ Deliver({c \in Child : pidOf[c] \in victims[o]}, s)
    /\ pc' = [pc EXCEPT ![o] = "idle"]
    /\ victims' = [victims EXCEPT ![o] = {}]
    /\ UNCHANGED <<pidOf, fdtab, object, flags, joined, child, aborted>>

-----------------------------------------------------------------------------
(* The children and the rest of the program *)

Exit(c) ==
    /\ life[c] = "running"
    /\ life' = [life EXCEPT ![c] = "exited"]
    /\ UNCHANGED <<news, pidOf, fdtab, object, client, aborted>>

\* A child raises a signal itself, or gets it from somewhere else.
ChildSignaled(c, s) ==
    /\ life[c] \in Alive
    /\ Deliver({c}, s)
    /\ UNCHANGED <<pidOf, fdtab, object, client, aborted>>

\* Another component's proc::wait(WaitFlags) for any child collects c.
OtherWaits(c) ==
    /\ OtherWaiter
    /\ life[c] \in Dead
    /\ life' = [life EXCEPT ![c] = "reaped"]
    /\ UNCHANGED <<news, pidOf, fdtab, object, client, aborted>>

SubProcStep(o) ==
    \/ \E c \in Child, p \in Pid, f \in Fd : Spawn(o, c, p, f)
    \/ \E from \in Obj : MoveAssign(o, from)
    \/ Destroy(o)
    \/ \E fl \in WaitFlagSets : WaitBegin(o, fl) \/ PollBegin(o, fl)
    \/ WaitReturns(o)
    \/ WaitFindsNoChild(o)
    \/ WaitInterrupted(o)
    \/ PollReady(o)
    \/ PollTimeout(o)
    \/ \E s \in Signals : Kill(o, s) \/ KillByPid(o, s)
    \/ KillReadsPid(o)

Environment(c) ==
    \/ Exit(c)
    \/ \E s \in Signals : ChildSignaled(c, s)
    \/ OtherWaits(c)

Next ==
    /\ ~aborted
    /\ \/ \E o \in Obj : SubProcStep(o)
       \/ \E c \in Child : Environment(c)
    /\ UNCHANGED running_on_valgrind

Spec == Init /\ [][Next]_vars

\* A blocked waitid() or epoll_pwait2() returns when it has something to say.
Fairness ==
    \A o \in Obj : WF_vars(/\ WaitReturns(o) \/ WaitFindsNoChild(o) \/ PollReady(o)
                           /\ UNCHANGED running_on_valgrind)

FairSpec == Spec /\ Fairness

-----------------------------------------------------------------------------
(* Properties *)

TypeOK ==
    /\ life \in [Child -> {"unborn", "reaped"} \union Alive \union Dead]
    /\ news \in [Child -> {"none", "stopped", "continued"}]
    /\ pidOf \in [Child -> Pid \union {NoPid}]
    /\ fdtab \in [Fd -> Child \union {NoChild}]
    /\ m_pid \in [Obj -> Pid \union {NoPid}]
    /\ m_child_fd \in [Obj -> Fd \union {NoFd}]
    /\ pc \in [Obj -> {"idle", "waiting", "polling", "killing"}]
    /\ flags \in [Obj -> SUBSET WaitFlag]
    /\ victims \in [Obj -> SUBSET (Pid \union {NoPid})]
    /\ joined \in [Obj -> BOOLEAN]
    /\ child \in [Obj -> Child \union {NoChild}]
    /\ aborted \in BOOLEAN

\* A SubProc that is running() holds an open pidfd of the child that it was
\* created for and the number of that child, whatever was moved, collected
\* or recycled in between; one that is not running() holds neither.
OwnChild ==
    \A o \in Obj :
        IF running(o)
        THEN /\ child[o] # NoChild
             /\ fdtab[m_child_fd[o]] = child[o]
             /\ m_pid[o] = pidOf[child[o]]
        ELSE m_pid[o] = NoPid

\* Every open pidfd is held by exactly one SubProc: moving neither leaks one
\* nor lets two objects close the same number.
PidfdHeldOnce ==
    \A f \in Fd :
        /\ fdtab[f] # NoChild => \E o \in Obj : m_child_fd[o] = f
        /\ \A o1, o2 \in Obj : m_child_fd[o1] = f /\ m_child_fd[o2] = f => o1 = o2

\* As long as a child exists, also as a zombie, some SubProc is bound to it,
\* through which it can still be waited for: wait() releases the object only
\* after the child "was already collected".
NoOrphan ==
    \A c \in Child :
        life[c] \in Alive \union Dead =>
            \E o \in Obj : running(o) /\ fdtab[m_child_fd[o]] = c

\* After wait() reported the end of the child, and the information was not
\* left in the kernel, running() is false, so that the object may be
\* destroyed or assigned to: a client that joins never meets fatal_error().
JoinedIsReleased == \A o \in Obj : joined[o] => ~running(o)

\* kill() changes the state of the object's own child at most, even if that
\* child was collected by somebody else and its number given away; on Valgrind
\* there is no pidfd_send_signal(), and no such promise.
SignalsOwnChildOnly ==
    [][~running_on_valgrind =>
          \A o \in Obj, s \in Signals :
              Kill(o, s) \/ KillByPid(o, s) =>
                  \A c \in Child : life'[c] # life[c] => c = child[o]]_vars

\* Once the child terminated a wait() comes back, whatever its flags ask for
\* and whoever collected the child.
WaitEnds ==
    \A o \in Obj :
        pc[o] = "waiting" /\ life[child[o]] \in Dead \union {"reaped"} ~> pc[o] # "waiting"

\* A SubProc is a handle in the sense of ChildHandles.
HandleOf(o) == IF running(o) THEN fdtab[m_child_fd[o]] ELSE NoChild

PhaseOf(c) ==
    CASE life[c] = "unborn" -> "unborn"
      [] life[c] \in Alive -> "live"
      [] life[c] \in Dead -> "dead"
      [] OTHER -> "gone"

Handles == INSTANCE ChildHandles WITH
    bound <- [o \in Obj |-> HandleOf(o)],
    phase <- [c \in Child |-> PhaseOf(c)]

\* Every step of the objects is one that the handles promise: children are
\* collected by the owner only (or by the other waiter), bound to one object
\* until then and to none afterwards.
ImplementsHandles == Handles!Spec
=============================================================================
