----------------------------- MODULE Requests ------------------------------
(***************************************************************************)
(* The requests of cosmos::Tracee that read and write what a stopped       *)
(* tracee has: memory, registers, signal mask and information, pending     *)
(* signals, seccomp programs and system call information.  All of them go  *)
(* through cosmos::ptrace::trace(), which has to tell an error from a      *)
(* value of -1 by errno, and hands a value out for some requests only.     *)
(*                                                                         *)
(* The tracee may be killed between any two calls, and other calls of the  *)
(* tracer leave errors in errno.                                           *)
(***************************************************************************)
EXTENDS Integers, Sequences

CONSTANTS
    Word,       \* what a word or a set of registers may hold: -1 is one of them
    Programs,   \* the lengths of the tracee's seccomp programs, the latest first
    MaxPending, \* bound: pending signals
    MaxRoom     \* bound: instructions and SigInfo structures asked for

ASSUME RequestsAssumption ==
    /\ Word \subseteq Int /\ -1 \in Word
    /\ Programs \in Seq(Nat \ {0})
    /\ MaxPending \in Nat /\ MaxRoom \in Nat

VARIABLES
    tracee,  \* kernel: the tracee
    errno,   \* the tracer's errno
    answer   \* the last call of the tracer, what it gave, and what was due

requestVars == <<tracee, errno, answer>>

ESRCH == 3
ENOENT == 2
EINVAL == 22
None == "none"

Place == {"memory", "registers", "floats", "siginfo", "mask", "thread area"}

\* The stops in which a tracee has something to tell of a system call.
CallStops == {"entry", "exit", "seccomp"}
StopKind == CallStops \union {"signal"}

\* How the system call of a stop ends, for an exit stop.
Returns(v) == [is_error |-> FALSE, rval |-> v]
Fails(e) == [is_error |-> TRUE, rval |-> -e]

-----------------------------------------------------------------------------
(***************************************************************************)
(* trace()                                                                 *)
(***************************************************************************)

is_peek(req) == req \in {"PEEKDATA", "PEEKTEXT", "PEEKUSER"}

\* The requests whose result is handed out.
ReturnsData(req) == is_peek(req) \/ req \in {"SECCOMP_GET_FILTER", "GET_SYSCALL_INFO"}

\* What the kernel answers.
Refuses(code) == [ok |-> FALSE, ret |-> -1, errno |-> code]
Gives(ret) == [ok |-> TRUE, ret |-> ret, errno |-> 0]

\* What becomes of errno: C libraries may reset it after a successful peek.
ErrnoAfter(req, given, before, resets) ==
    IF ~given.ok THEN given.errno ELSE IF is_peek(req) /\ resets THEN 0 ELSE before

Outcome(req, given, after) ==
    LET failed == given.ret = -1 /\ ~(is_peek(req) /\ after = 0)
    IN [threw |-> failed,
        value |-> IF ~failed /\ ReturnsData(req) THEN given.ret ELSE None,
        errno |-> after]

\* Mutant: errno is not reset before a peek.
trace_StaleErrno(req, given, resets) ==
    Outcome(req, given, ErrnoAfter(req, given, errno, resets))

trace(req, given, resets) ==
    Outcome(req, given, ErrnoAfter(req, given, IF is_peek(req) THEN 0 ELSE errno, resets))

-----------------------------------------------------------------------------
(***************************************************************************)
(* The functions of Tracee that read and write words and structures: the   *)
(* request that each of them makes.                                        *)
(***************************************************************************)

Reader ==
    [peekData |-> "PEEKDATA", peekUser |-> "PEEKUSER", getRegisters |-> "GETREGS",
     getFloatRegisters |-> "GETFPREGS", getRegisterSetGeneral |-> "GETREGSET_PRSTATUS",
     getRegisterSetFloat |-> "GETREGSET_FPREGSET", getSigInfo |-> "GETSIGINFO",
     getSigMask |-> "GETSIGMASK", getThreadArea |-> "GET_THREAD_AREA"]

Writer ==
    [pokeData |-> "POKEDATA", pokeUser |-> "POKEUSER", setRegisters |-> "SETREGS",
     setFloatRegisters |-> "SETFPREGS", setRegisterSetGeneral |-> "SETREGSET_PRSTATUS",
     setRegisterSetFloat |-> "SETREGSET_FPREGSET", setSigInfo |-> "SETSIGINFO",
     setSigMask |-> "SETSIGMASK", setThreadArea |-> "SET_THREAD_AREA"]

\* What a request is about, for the kernel: the user area has the registers.
PlaceOf(req) ==
    CASE req \in {"PEEKDATA", "PEEKTEXT", "POKEDATA"} -> "memory"
      [] req \in {"PEEKUSER", "POKEUSER", "GETREGS", "SETREGS",
                  "GETREGSET_PRSTATUS", "SETREGSET_PRSTATUS"} -> "registers"
      [] req \in {"GETFPREGS", "SETFPREGS",
                  "GETREGSET_FPREGSET", "SETREGSET_FPREGSET"} -> "floats"
      [] req \in {"GETSIGINFO", "SETSIGINFO"} -> "siginfo"
      [] req \in {"GETSIGMASK", "SETSIGMASK"} -> "mask"
      [] OTHER -> "thread area"

Stopped == tracee.mode = "stopped"

\* What the kernel makes of a request for a word or a structure.  The signal
\* mask goes with the size of the sigset_t of the C library, which is not the
\* kernel's: it refuses the request in any stop.
Performed(place, ret) ==
    IF ~Stopped THEN Refuses(ESRCH)
    ELSE IF place = "mask" THEN Refuses(EINVAL)
    ELSE Gives(ret)

Answer(call, outcome, value, refused, due) ==
    [call |-> call, threw |-> outcome.threw, value |-> value, refused |-> refused, due |-> due]

\* A peek returns the word; other requests fill in what the caller gave them.
Read(call) ==
    LET req == Reader[call]
        place == PlaceOf(req)
        word == tracee.has[place]
    IN \E resets \in BOOLEAN :
         LET given == Performed(place, IF is_peek(req) THEN word ELSE 0)
             got == trace(req, given, resets)
         IN /\ errno' = got.errno
            /\ answer' = Answer(call, got, IF is_peek(req) THEN got.value
                                           ELSE IF given.ok THEN word ELSE None,
                                ~given.ok, word)
            /\ UNCHANGED tracee

\* The value that was written is due in the place that the function names.
Write(call, word) ==
    LET req == Writer[call]
        place == PlaceOf(req)
        given == Performed(place, 0)
        got == trace(req, given, FALSE)
    IN /\ errno' = got.errno
       /\ tracee' = IF given.ok THEN [tracee EXCEPT !.has[place] = word] ELSE tracee
       /\ answer' = Answer(call, got, tracee'.has[place], ~given.ok, word)

-----------------------------------------------------------------------------
(***************************************************************************)
(* System call information.                                                *)
(***************************************************************************)

\* What the kernel writes into the SyscallInfo: a union, by the kind of stop.
Filled ==
    CASE tracee.stop = "entry"   -> [op |-> "ENTRY", nr |-> tracee.nr]
      [] tracee.stop = "exit"    -> [op |-> "EXIT", is_error |-> tracee.result.is_error,
                                     rval |-> tracee.result.rval]
      [] tracee.stop = "seccomp" -> [op |-> "SECCOMP", nr |-> tracee.nr]
      [] OTHER                   -> [op |-> "NONE"]

isEntry(info) == info.op = "ENTRY"
isExit(info) == info.op = "EXIT"
isSeccomp(info) == info.op = "SECCOMP"

\* entryInfo() and seccompInfo(), as far as the number of the call.
entryInfo(info) == IF isEntry(info) THEN info.nr ELSE None
seccompInfo(info) == IF isSeccomp(info) THEN info.nr ELSE None

exitInfo(info) ==
    IF ~isExit(info) THEN [retVal |-> None, errVal |-> None]
    ELSE [retVal |-> IF info.is_error THEN None ELSE info.rval,
          errVal |-> IF info.is_error THEN -info.rval ELSE None]

\* What the accessors tell, and what happened.
Told(info) == [entry |-> entryInfo(info), seccomp |-> seccompInfo(info), exit |-> exitInfo(info)]

Happened ==
    [entry   |-> IF tracee.stop = "entry" THEN tracee.nr ELSE None,
     seccomp |-> IF tracee.stop = "seccomp" THEN tracee.nr ELSE None,
     exit    |-> [retVal |-> IF tracee.stop = "exit" /\ ~tracee.result.is_error
                             THEN tracee.result.rval ELSE None,
                  errVal |-> IF tracee.stop = "exit" /\ tracee.result.is_error
                             THEN -tracee.result.rval ELSE None]]

\* More data than the structure has room for, as of a newer kernel, is an error.
getSyscallInfo ==
    \E excess \in BOOLEAN :
        LET given == IF Stopped THEN Gives(IF excess THEN 2 ELSE 1) ELSE Refuses(ESRCH)
            got == trace("GET_SYSCALL_INFO", given, FALSE)
            all == [got EXCEPT !.threw = @ \/ got.value = 2]
        IN /\ errno' = got.errno
           /\ answer' = Answer("getSyscallInfo", all, IF Stopped THEN Told(Filled) ELSE None,
                               ~Stopped \/ excess, Happened)
           /\ UNCHANGED tracee

-----------------------------------------------------------------------------
(***************************************************************************)
(* Seccomp programs and pending signals.                                   *)
(***************************************************************************)

Program(prog_index) ==
    IF ~Stopped THEN Refuses(ESRCH)
    ELSE IF prog_index >= Len(Programs) THEN Refuses(ENOENT)
    ELSE Gives(Programs[prog_index + 1])

\* The instructions that a struct sock_fprog has room for.
FprogRoom == 2

\* The process of the tracer has died.
Crashed == [call |-> "crash"]

\* A vector of "room" instructions; if it is empty, the kernel is asked for the
\* length first.  Then the kernel gets the address of a structure on the stack
\* that describes the vector, and copies the whole program over it: the vector
\* keeps what it had.  A longer program reaches past the structure, and then
\* anything may come of the call.
getSeccompFilter(prog_index, room) ==
    LET given == Program(prog_index)
        got == trace("SECCOMP_GET_FILTER", given, FALSE)
        size == IF room = 0 /\ ~got.threw THEN got.value ELSE room
        threw == got.threw \/ got.value < 0 \/ got.value >= size
        overrun == given.ok /\ given.ret > FprogRoom
    IN /\ errno' = got.errno
       /\ \/ \E throws \in IF overrun THEN BOOLEAN ELSE {threw} :
               answer' = Answer("getSeccompFilter", [got EXCEPT !.threw = throws],
                                None, ~given.ok, got.value)
          \/ overrun /\ answer' = Crashed
       /\ UNCHANGED tracee

Lesser(a, b) == IF a < b THEN a ELSE b

\* The signals from an offset on, as many as asked for.
PendingFrom(offset, amount) ==
    SubSeq(tracee.pending, offset + 1, Lesser(Len(tracee.pending), offset + amount))

\* The vector that is returned has the size that trace() returned: if this is
\* no value, then any.  One that is too large cannot be had, and throws.
peekSigInfo(offset, amount) ==
    LET copied == PendingFrom(offset, amount)
        given == IF Stopped THEN Gives(Len(copied)) ELSE Refuses(ESRCH)
        got == trace("PEEKSIGINFO", given, FALSE)
        Sizes == IF got.value = None THEN 0 .. amount + 1 ELSE {got.value}
    IN /\ errno' = got.errno
       /\ \E size \in Sizes :
            answer' = Answer("peekSigInfo", [got EXCEPT !.threw = @ \/ size > amount],
                             [i \in 1 .. Lesser(size, amount) |->
                                 IF i <= Len(copied) THEN copied[i] ELSE None],
                             ~given.ok, copied)
       /\ UNCHANGED tracee

-----------------------------------------------------------------------------
(***************************************************************************)
(* The tracee and the rest of the tracer.                                  *)
(***************************************************************************)

\* The tracer restarts the tracee, which changes, and waits for the next stop.
NextStop ==
    /\ tracee.mode = "stopped"
    /\ \E stop \in StopKind, place \in Place, word \in Word, result \in {Returns(-1), Fails(ENOENT)} :
         tracee' = [tracee EXCEPT !.stop = stop, !.has[place] = word, !.result = result]
    /\ UNCHANGED <<errno, answer>>

Restart ==
    /\ tracee.mode = "stopped"
    /\ tracee' = [tracee EXCEPT !.mode = "running"]
    /\ UNCHANGED <<errno, answer>>

Stop ==
    /\ tracee.mode = "running"
    /\ tracee' = [tracee EXCEPT !.mode = "stopped"]
    /\ UNCHANGED <<errno, answer>>

Killed ==
    /\ tracee.mode # "dead"
    /\ tracee' = [tracee EXCEPT !.mode = "dead", !.pending = <<>>]
    /\ UNCHANGED <<errno, answer>>

\* Signals that are blocked stay pending.
SignalArrives ==
    /\ tracee.mode # "dead" /\ Len(tracee.pending) < MaxPending
    /\ tracee' = [tracee EXCEPT !.pending = Append(@, Len(@) + 1)]
    /\ UNCHANGED <<errno, answer>>

\* Another system call of the tracer fails.
OtherCallFails == errno' = ESRCH /\ UNCHANGED <<tracee, answer>>

NoAnswer == [call |-> None]

\* The tracer has looked at the answer of a call.
Look ==
    /\ answer \notin {NoAnswer, Crashed}
    /\ answer' = NoAnswer
    /\ UNCHANGED <<tracee, errno>>

TracerCalls ==
    \/ \E call \in DOMAIN Reader : Read(call)
    \/ \E call \in DOMAIN Writer, word \in Word : Write(call, word)
    \/ getSyscallInfo
    \/ \E i \in 0 .. Len(Programs), room \in 0 .. MaxRoom : getSeccompFilter(i, room)
    \/ \E offset \in 0 .. MaxPending, amount \in 1 .. MaxRoom : peekSigInfo(offset, amount)

InitRequests ==
    /\ tracee = [mode |-> "stopped", stop |-> "signal", nr |-> 1, result |-> Returns(-1),
                 has |-> [p \in Place |-> 0], pending |-> <<>>]
    /\ errno = 0
    /\ answer = NoAnswer

NextRequests ==
    \/ Look
    \/ /\ answer = NoAnswer
       /\ \/ TracerCalls
          \/ NextStop \/ Restart \/ Stop \/ Killed \/ SignalArrives \/ OtherCallFails

SpecRequests == InitRequests /\ [][NextRequests]_requestVars

-----------------------------------------------------------------------------
(***************************************************************************)
(* Properties.                                                             *)
(***************************************************************************)

\* A call throws if and only if the kernel refused it, and returns what the
\* tracee has otherwise, also if that is -1 and whatever calls failed before;
\* what was written through one function is read through any other one that
\* is about the same thing (trace(), the functions of Tracee, SyscallInfo).
\* Nothing is said of what getSeccompFilter() returns: it may throw in any
\* case, and never puts the program into the vector; only its refusals have to
\* throw.  The kernel refuses all calls of getSigMask() and setSigMask().
AnswersAreTrue ==
    answer.call \notin {None, "crash", "peekSigInfo"} =>
        /\ answer.refused => answer.threw
        /\ answer.call # "getSeccompFilter" =>
             /\ answer.threw => answer.refused
             /\ ~answer.threw => answer.value = answer.due

\* "If no more SigInfo structures exist at the given position then a short or
\* zero item count is returned" (Tracee::peekSigInfo()).
PeekedIsPending ==
    answer.call = "peekSigInfo" /\ ~answer.refused =>
        ~answer.threw /\ answer.value = answer.due
=============================================================================
