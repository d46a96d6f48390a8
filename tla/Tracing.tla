------------------------------ MODULE Tracing ------------------------------
(***************************************************************************)
(* Tracing of processes with cosmos::Tracee and cosmos::ptrace: a tracer   *)
(* that collects the stops of its tracees with proc::wait(), tells them    *)
(* apart with the decoders of the library and restarts the tracees, as the *)
(* documentation of Tracee asks.                                           *)
(*                                                                         *)
(* The kernel side follows ptrace(2).  A process is in user mode or in a   *)
(* system call; what is pending for it is taken in user mode.              *)
(***************************************************************************)
EXTENDS Integers, FiniteSets

CONSTANTS
    Proc,           \* processes that may be traced
    Root,           \* the one that runs from the beginning
    Methods,        \* ways to become a tracer: "seize", "attach"
    OptSets,        \* the option sets the tracer uses
    CoreDumps,      \* a process may dump core (RLIMIT_CORE)
    MaxSends,        \* bound: signals sent by others
    MaxInterrupts   \* bound: calls of Tracee::interrupt()

SigNr ==
    [NONE |-> 0, TRAP |-> 5, KILL |-> 9, USR1 |-> 10, CONT |-> 18, STOP |-> 19,
     SYS_TRAP |-> 133, MAXIMUM |-> 65]

\* The signals that others send; KILL is an action of its own.
OtherSignal == {SigNr.TRAP, SigNr.USR1, SigNr.CONT, SigNr.STOP}

Opt == {"TRACEFORK", "TRACEEXIT", "TRACESYSGOOD"}

Event == [FORK |-> 1, EXIT |-> 6, STOP |-> 128]

RestartMode == {"CONT", "SYSCALL", "DETACH", "LISTEN"}

ASSUME TracingAssumption ==
    /\ IsFiniteSet(Proc) /\ Root \in Proc
    /\ Methods \subseteq {"seize", "attach"}
    /\ OptSets \subseteq SUBSET Opt
    /\ CoreDumps \in BOOLEAN
    /\ MaxSends \in Nat /\ MaxInterrupts \in Nat

VARIABLES
    proc,        \* the processes, as the kernel keeps them
    seen,        \* the process and the state that the last wait has returned
    known,       \* the processes whose initial stop the tracer has handled
    announced,   \* the WaitStatus that a process announced before its exit
    owed,        \* history: how often each signal is still to be delivered
    sends,       \* bound: signals sent by others
    interrupts   \* bound: interrupts by the tracer

tracingVars == <<proc, seen, known, announced, owed, sends, interrupts>>

Nobody == [pid |-> "none"]
NoStatus == -1

\* ChildState, as proc::wait() fills it in.
Exited(code) == [event |-> "EXITED", status |-> code]
Killed(sig)  == [event |-> "KILLED", signal |-> sig]
Dumped(sig)  == [event |-> "DUMPED", signal |-> sig]
Trapped(sig) == [event |-> "TRAPPED", signal |-> sig]

\* What the kernel keeps of a process: what it does, how it is traced, the
\* options in effect, the way it was restarted, its system call and whether
\* that has had its effect, the pending signals, whether it is in a group-stop,
\* whether a trap is pending, the kind of its stop, whether a CONT arrived
\* during it, what a wait reports and whether it has reported it, and the
\* event message.
Absent ==
    [mode |-> "absent", how |-> "no", opts |-> {}, resume |-> "CONT", call |-> "none",
     performed |-> FALSE, pending |-> {}, grouped |-> FALSE, trap |-> FALSE, stop |-> "none",
     continued |-> FALSE, state |-> Exited(0), unread |-> FALSE, message |-> 0]

-----------------------------------------------------------------------------
(***************************************************************************)
(* The decoders of the library.                                            *)
(***************************************************************************)

isPtraceEventStop(sig) == sig > SigNr.MAXIMUM

\* Mutant: the signal is not cut off.
decode_event_WholeSignal(sig) == [signr |-> sig, event |-> sig \div 256]

\* Only for a signal with isPtraceEventStop().
decode_event(sig) == [signr |-> sig % 256, event |-> sig \div 256]

\* WaitStatus(const ChildState&), a status of wait(2).  The tracer does not wait
\* for STOPPED and CONTINUED.
WaitStatusOf(state) ==
    CASE state.event = "DUMPED"               -> state.signal + 128
      [] state.event \in {"STOPPED", "TRAPPED"} -> 256 * state.signal + 127
      [] state.event = "CONTINUED"            -> 65535
      [] state.event = "KILLED"               -> state.signal
      [] state.event = "EXITED"               -> 256 * state.status

exited(wstatus)    == wstatus % 128 = 0
signaled(wstatus)  == wstatus % 128 \notin {0, 127}
dumped(wstatus)    == signaled(wstatus) /\ wstatus % 256 >= 128
stopped(wstatus)   == wstatus % 256 = 127
continued(wstatus) == wstatus = 65535
statusOf(wstatus)  == (wstatus \div 256) % 256

\* si_code of a stop: for a system call the signal that the stop reports, for
\* a signal that another process has sent SI_USER.
SiCode(p) == IF proc[p].stop \in {"entry", "exit"} THEN proc[p].state.signal ELSE 0

\* SyscallInfo::type(): what getSyscallInfo() tells of a stop.  The kernel knows
\* the side of a system call by the mark that TRACESYSGOOD sets.
SyscallInfoType(p) ==
    IF SiCode(p) # SigNr.SYS_TRAP THEN "NONE"
    ELSE IF proc[p].stop = "entry" THEN "ENTRY" ELSE "EXIT"

\* Tracee::getSigInfo() fails in a group-stop of a process that was attached to.
HasSigInfo(p) == proc[p].stop # "group" \/ proc[p].how = "seize"

\* What a tracer that uses them takes a stop for.  A "call" is a stop at a system
\* call without TRACESYSGOOD: only si_code of getSigInfo() tells it from a TRAP
\* that somebody has sent.
Understood(p, sig) ==
    IF isPtraceEventStop(sig) /\ sig # SigNr.SYS_TRAP
    THEN LET it == decode_event(sig)
         IN CASE it.event = Event.FORK -> "fork"
              [] it.event = Event.EXIT -> "exiting"
              [] it.event = Event.STOP -> IF it.signr = SigNr.TRAP THEN "trap" ELSE "group"
              [] OTHER                 -> "unknown"
    ELSE IF sig \in {SigNr.TRAP, SigNr.SYS_TRAP} /\ SyscallInfoType(p) # "NONE"
    THEN IF SyscallInfoType(p) = "ENTRY" THEN "entry" ELSE "exit"
    ELSE IF ~HasSigInfo(p) THEN "group"
    ELSE IF sig = SigNr.TRAP /\ SiCode(p) = SigNr.TRAP THEN "call" ELSE "signal"

-----------------------------------------------------------------------------
(***************************************************************************)
(* The processes and the kernel.                                           *)
(***************************************************************************)

Traced(p) == proc[p].how # "no"
Alive(p) == proc[p].mode \in {"running", "stopped", "listening"}

\* A process as it is stopped and reported.
Stopped(r, kind, sig) ==
    [r EXCEPT !.mode = "stopped", !.stop = kind, !.continued = FALSE,
              !.state = Trapped(sig), !.unread = TRUE]

\* A system call stop, when the tracer asked for them.
AtCall(r, kind) ==
    IF r.how = "no" \/ r.resume # "SYSCALL" THEN r
    ELSE Stopped(r, kind, IF "TRACESYSGOOD" \in r.opts THEN SigNr.SYS_TRAP ELSE SigNr.TRAP)

WithEvent(event) == SigNr.TRAP + 256 * event

Ended(r, state) ==
    [r EXCEPT !.mode = "zombie", !.stop = "none", !.state = state, !.unread = TRUE,
              !.pending = {}, !.trap = FALSE, !.grouped = FALSE]

InUserMode(p) == proc[p].mode = "running" /\ proc[p].call = "none"

EnterCall(p, call) ==
    /\ InUserMode(p) /\ ~proc[p].trap /\ proc[p].pending = {}
    /\ call = "fork" => \E c \in Proc : proc[c].mode = "absent"
    /\ proc' = [proc EXCEPT ![p] = AtCall([@ EXCEPT !.call = call, !.performed = FALSE], "entry")]
    /\ UNCHANGED <<seen, known, announced, owed, sends, interrupts>>

\* A child of a traced process is traced in the same way, if the options say
\* so, and starts with a stop.
Born(r) ==
    IF "TRACEFORK" \notin r.opts THEN [Absent EXCEPT !.mode = "free"]
    ELSE [Absent EXCEPT !.mode = "running", !.how = r.how, !.opts = r.opts,
                        !.trap = (r.how = "seize"),
                        !.pending = IF r.how = "seize" THEN {} ELSE {SigNr.STOP}]

Fork(p) ==
    /\ proc[p].mode = "running" /\ proc[p].call = "fork" /\ ~proc[p].performed
    /\ \E c \in Proc :
         /\ proc[c].mode = "absent"
         /\ LET done == [proc[p] EXCEPT !.performed = TRUE]
            IN proc' = [proc EXCEPT
                 ![p] = IF "TRACEFORK" \in done.opts
                        THEN Stopped(done, "fork", WithEvent(Event.FORK)) ELSE done,
                 ![c] = Born(done)]
    /\ UNCHANGED <<seen, known, announced, owed, sends, interrupts>>

Perform(p) ==
    /\ proc[p].mode = "running" /\ proc[p].call = "other" /\ ~proc[p].performed
    /\ proc' = [proc EXCEPT ![p].performed = TRUE]
    /\ UNCHANGED <<seen, known, announced, owed, sends, interrupts>>

LeaveCall(p) ==
    /\ proc[p].mode = "running" /\ proc[p].call \in {"fork", "other"} /\ proc[p].performed
    /\ proc' = [proc EXCEPT ![p] = AtCall([@ EXCEPT !.call = "none"], "exit")]
    /\ UNCHANGED <<seen, known, announced, owed, sends, interrupts>>

\* exit() with an event before it, if the options say so.
Exit(p) ==
    /\ proc[p].mode = "running" /\ proc[p].call = "exit"
    /\ IF "TRACEEXIT" \in proc[p].opts /\ ~proc[p].performed
       THEN \E code \in {0, 1} :
              LET announcing == [proc[p] EXCEPT !.performed = TRUE, !.message = 256 * code]
              IN proc' = [proc EXCEPT ![p] =
                              Stopped(announcing, "exiting", WithEvent(Event.EXIT))]
       ELSE \E code \in IF proc[p].performed THEN {proc[p].message \div 256} ELSE {0, 1} :
              proc' = [proc EXCEPT ![p] = Ended(@, Exited(code))]
    /\ owed' = [owed EXCEPT ![p] = IF proc'[p].mode = "zombie" THEN [s \in OtherSignal |-> 0] ELSE @]
    /\ UNCHANGED <<seen, known, announced, sends, interrupts>>

\* A trap, or the beginning of a group-stop.
TakeTrap(p) ==
    /\ InUserMode(p) /\ proc[p].trap
    /\ LET r == [proc[p] EXCEPT !.trap = FALSE]
           sig == IF r.grouped THEN SigNr.STOP ELSE SigNr.TRAP
       IN proc' = [proc EXCEPT ![p] =
            IF r.how = "seize"
            THEN Stopped(r, IF r.grouped THEN "group" ELSE "trap", sig + 256 * Event.STOP)
            ELSE IF r.grouped THEN Stopped(r, "group", sig) ELSE r]
    /\ UNCHANGED <<seen, known, announced, owed, sends, interrupts>>

\* A signal that is delivered: STOP begins a group-stop unless a CONT has come
\* since, TRAP ends the process with a core dump, if it may, the others have
\* handlers.
Delivered(r, sig) ==
    CASE sig = SigNr.STOP -> [r EXCEPT !.grouped = ~r.continued, !.trap = @ \/ ~r.continued]
      [] sig = SigNr.TRAP -> Ended(r, IF CoreDumps THEN Dumped(sig) ELSE Killed(sig))
      [] OTHER               -> r

\* The traced process stops for the tracer, who decides about the signal.
TakeSignal(p) ==
    /\ InUserMode(p) /\ Traced(p) /\ ~proc[p].trap
    /\ \E sig \in proc[p].pending :
         LET taken == [proc[p] EXCEPT !.pending = @ \ {sig}]
         IN proc' = [proc EXCEPT ![p] = Stopped(taken, "signal", sig)]
    /\ UNCHANGED <<seen, known, announced, owed, sends, interrupts>>

\* A seized process gets a trap, and takes it even when it only listens.
Trap(r) == [r EXCEPT !.trap = TRUE, !.mode = IF @ = "listening" THEN "running" ELSE @]

\* CONT and STOP cancel each other; CONT ends a group-stop, and the tracer of a
\* seized process is told with a trap.
Sent(r, sig) ==
    LET left == CASE sig = SigNr.CONT -> r.pending \ {SigNr.STOP}
                  [] sig = SigNr.STOP -> r.pending \ {SigNr.CONT}
                  [] OTHER -> r.pending
        r1 == [r EXCEPT !.pending = left \union {sig}]
    IN IF sig # SigNr.CONT THEN r1
       ELSE IF r.how = "seize" THEN [Trap(r1) EXCEPT !.grouped = FALSE, !.continued = TRUE]
       ELSE [r1 EXCEPT !.grouped = FALSE, !.continued = TRUE]

Send(p, sig) ==
    /\ Alive(p) /\ Traced(p) /\ sends < MaxSends
    /\ proc' = [proc EXCEPT ![p] = Sent(@, sig)]
    /\ owed' = [owed EXCEPT ![p] = [s \in OtherSignal |->
                   IF s = sig THEN IF s \in proc[p].pending THEN @[s] ELSE @[s] + 1
                   ELSE IF s \in proc[p].pending \ proc'[p].pending THEN @[s] - 1 ELSE @[s]]]
    /\ sends' = sends + 1
    /\ UNCHANGED <<seen, known, announced, interrupts>>

Kill(p) ==
    /\ Alive(p) /\ Traced(p) /\ sends < MaxSends
    /\ proc' = [proc EXCEPT ![p] = Ended(@, Killed(SigNr.KILL))]
    /\ owed' = [owed EXCEPT ![p] = [s \in OtherSignal |-> 0]]
    /\ sends' = sends + 1
    /\ UNCHANGED <<seen, known, announced, interrupts>>

-----------------------------------------------------------------------------
(***************************************************************************)
(* The tracer: Tracee and proc::wait().  A request for a process that is   *)
(* not stopped throws and changes nothing.                                 *)
(***************************************************************************)

seize(p, options) ==
    /\ "seize" \in Methods /\ proc[p].mode = "running" /\ ~Traced(p)
    /\ proc' = [proc EXCEPT ![p].how = "seize", ![p].opts = options]
    /\ UNCHANGED <<seen, known, announced, owed, sends, interrupts>>

\* The kernel sends STOP, which the tracer is to suppress.
attach(p) ==
    /\ "attach" \in Methods /\ proc[p].mode = "running" /\ ~Traced(p)
    /\ proc' = [proc EXCEPT ![p].how = "attach", ![p].pending = @ \union {SigNr.STOP}]
    /\ UNCHANGED <<seen, known, announced, owed, sends, interrupts>>

interrupt(p) ==
    /\ Alive(p) /\ proc[p].how = "seize" /\ interrupts < MaxInterrupts
    /\ proc' = [proc EXCEPT ![p] = Trap(@)]
    /\ interrupts' = interrupts + 1
    /\ UNCHANGED <<seen, known, announced, owed, sends>>

wait(p) ==
    /\ seen = Nobody /\ proc[p].unread
    /\ seen' = [pid |-> p, state |-> proc[p].state]
    /\ proc' = [proc EXCEPT ![p].unread = FALSE, ![p].mode = IF @ = "zombie" THEN "gone" ELSE @]
    /\ UNCHANGED <<known, announced, owed, sends, interrupts>>

\* How a stopped process goes on after a request.
Resumed(r, restart_mode, data) ==
    LET r1 == IF data = SigNr.NONE THEN r
              ELSE CASE r.stop = "signal" -> Delivered(r, data)
                     [] r.stop \in {"entry", "exit"} -> [r EXCEPT !.pending = @ \union {data}]
                     [] OTHER -> r
        r2 == [r1 EXCEPT !.stop = "none"]
    IN IF r1.mode = "zombie" THEN r1
       ELSE CASE restart_mode = "DETACH" -> [r2 EXCEPT !.mode = "free", !.how = "no"]
              [] restart_mode = "LISTEN" ->
                    [r2 EXCEPT !.mode = IF r.trap THEN "running" ELSE "listening"]
              [] OTHER -> [r2 EXCEPT !.mode = "running", !.resume = restart_mode]

\* What the process has got, if it stopped for a signal.
Settled(p, data) ==
    IF proc'[p].mode = "zombie" THEN [s \in OtherSignal |-> 0]
    ELSE [s \in OtherSignal |-> IF s = data /\ proc[p].stop = "signal" THEN owed[p][s] - 1
                             ELSE owed[p][s]]

\* Mutant: no signal is passed on with DETACH, as detach() does.
restart_DetachDrops(p, restart_mode, signal) ==
    LET data == IF restart_mode \notin {"LISTEN", "DETACH"} THEN signal ELSE SigNr.NONE
    IN /\ proc' = [proc EXCEPT ![p] = Resumed(@, restart_mode, data)]
       /\ owed' = [owed EXCEPT ![p] = Settled(p, data)]

restart(p, restart_mode, signal) ==
    LET data == IF restart_mode # "LISTEN" THEN signal ELSE SigNr.NONE
    IN /\ proc' = [proc EXCEPT ![p] = Resumed(@, restart_mode, data)]
       /\ owed' = [owed EXCEPT ![p] = Settled(p, data)]

\* The options of a process that was attached to are set in its first stop.
setOptions(p, options) == [proc EXCEPT ![p].opts = options]

\* The stop that the wait has returned is still there.
IsSeen(p) ==
    seen # Nobody /\ seen.pid = p /\ seen.state.event = "TRAPPED" /\ proc[p].mode = "stopped"

Kind(p) == Understood(p, seen.state.signal)

IsInitialStop(p) ==
    proc[p].how = "attach" /\ p \notin known /\ Kind(p) = "signal"
    /\ seen.state.signal = SigNr.STOP

\* The STOP of attach() is suppressed.
HandleInitialStop(p, options) ==
    /\ IsSeen(p) /\ IsInitialStop(p)
    /\ proc' = [setOptions(p, options) EXCEPT ![p] = Resumed(@, "SYSCALL", SigNr.NONE)]
    /\ known' = known \union {p}
    /\ seen' = Nobody
    /\ UNCHANGED <<announced, owed, sends, interrupts>>

\* Who was attached to stays so until that STOP was seen.
MayUse(p, restart_mode) ==
    CASE restart_mode = "DETACH" -> proc[p].how = "seize" \/ p \in known
      [] restart_mode = "LISTEN" -> FALSE
      [] OTHER -> TRUE

HandleSignal(p, restart_mode) ==
    /\ IsSeen(p) /\ Kind(p) = "signal" /\ ~IsInitialStop(p)
    /\ MayUse(p, restart_mode)
    /\ restart(p, restart_mode, seen.state.signal)
    /\ seen' = Nobody
    /\ UNCHANGED <<known, announced, sends, interrupts>>

\* A seized process stays in its group-stop.
HandleGroupStop(p, restart_mode) ==
    /\ IsSeen(p) /\ Kind(p) = "group"
    /\ IF proc[p].how = "seize" THEN restart_mode = "LISTEN" ELSE MayUse(p, restart_mode)
    /\ restart(p, restart_mode, SigNr.NONE)
    /\ seen' = Nobody
    /\ UNCHANGED <<known, announced, sends, interrupts>>

\* Other stops; getExitEventMsg() tells how the process is going to end.
HandleOther(p, restart_mode) ==
    /\ IsSeen(p) /\ Kind(p) \notin {"signal", "group"}
    /\ MayUse(p, restart_mode)
    /\ restart(p, restart_mode, SigNr.NONE)
    /\ announced' = [announced EXCEPT ![p] = IF Kind(p) = "exiting" THEN proc[p].message ELSE @]
    /\ seen' = Nobody
    /\ UNCHANGED <<known, sends, interrupts>>

\* The process has ended, or was killed before the request.
HandleEnd ==
    /\ seen # Nobody
    /\ seen.state.event = "TRAPPED" => proc[seen.pid].mode # "stopped"
    /\ seen' = Nobody
    /\ UNCHANGED <<proc, known, announced, owed, sends, interrupts>>

Terminated ==
    /\ seen = Nobody
    /\ \A p \in Proc : proc[p].mode \in {"absent", "gone", "free", "listening"}
    /\ UNCHANGED tracingVars

-----------------------------------------------------------------------------
InitTracing ==
    /\ proc = [[p \in Proc |-> Absent] EXCEPT ![Root].mode = "running"]
    /\ seen = Nobody
    /\ known = {}
    /\ announced = [p \in Proc |-> NoStatus]
    /\ owed = [p \in Proc |-> [s \in OtherSignal |-> 0]]
    /\ sends = 0
    /\ interrupts = 0

NextTracing ==
    \/ \E p \in Proc :
         \/ \E call \in {"other", "fork", "exit"} : EnterCall(p, call)
         \/ Fork(p) \/ Perform(p) \/ LeaveCall(p) \/ Exit(p) \/ TakeTrap(p) \/ TakeSignal(p)
         \/ \E sig \in OtherSignal : Send(p, sig)
         \/ Kill(p) \/ attach(p) \/ interrupt(p) \/ wait(p)
         \/ \E options \in OptSets : seize(p, options) \/ HandleInitialStop(p, options)
         \/ \E m \in RestartMode :
              HandleSignal(p, m) \/ HandleGroupStop(p, m) \/ HandleOther(p, m)
    \/ HandleEnd
    \/ Terminated

SpecTracing == InitTracing /\ [][NextTracing]_tracingVars

-----------------------------------------------------------------------------
(***************************************************************************)
(* Properties.                                                             *)
(***************************************************************************)

\* attach() itself is documented to be unreliable about STOP.
Reliable(p) ==
    IF proc[p].how = "attach" \/ p \in known THEN OtherSignal \ {SigNr.STOP} ELSE OtherSignal

\* A tracer that passes on what it takes for signals, and nothing else, changes
\* nothing for its tracees: each signal that was sent to one is still pending,
\* is what it has stopped for, or was delivered once, however group-stops,
\* system calls, interrupts and events mix with it, and after a DETACH, too
\* (Tracee::restart(), decode_event(), getSyscallInfo(), getSigInfo()).
SignalsArriveOnce ==
    \A p \in Proc : Alive(p) \/ proc[p].mode = "free" =>
        \A s \in Reliable(p) :
            owed[p][s] = (IF s \in proc[p].pending THEN 1 ELSE 0)
                       + (IF proc[p].stop = "signal" /\ proc[p].state.signal = s THEN 1 ELSE 0)

\* A WaitStatus that is made of a ChildState says the same, and what a process
\* announced before its exit is how it ends, unless it is killed meanwhile.
StatusAgrees(p, state) ==
    LET wstatus == WaitStatusOf(state)
    IN /\ exited(wstatus) = (state.event = "EXITED")
       /\ signaled(wstatus) = (state.event \in {"KILLED", "DUMPED"})
       /\ dumped(wstatus) = (state.event = "DUMPED")
       /\ stopped(wstatus) = (state.event = "TRAPPED")
       /\ ~continued(wstatus)
       /\ exited(wstatus) => /\ statusOf(wstatus) = state.status
                             /\ announced[p] \in {NoStatus, wstatus}

\* What can be told of a stop: without TRACESYSGOOD the two sides of a system
\* call look alike.
Told(r) ==
    IF r.stop \in {"entry", "exit"} /\ "TRACESYSGOOD" \notin r.opts THEN "call" ELSE r.stop

\* What the tracer sees is what happened: a stop is what the decoders say it
\* is, for a process that was seized or attached to, and the two forms of a wait
\* result agree with each other and with what the process has announced
\* (isPtraceEventStop(), decode_event(), SyscallInfo, WaitStatus,
\* getExitEventMsg()).  Without TRACESYSGOOD a stop at a system call is told from
\* all other stops, but entry and exit are not told from each other.
StopsAreUnderstood ==
    /\ \A p \in Proc : IsSeen(p) => Kind(p) = Told(proc[p])
    /\ seen # Nobody => StatusAgrees(seen.pid, seen.state)
=============================================================================
