--------------------------- MODULE TracingProofs ---------------------------
(***************************************************************************)
(* Proofs about Tracing: the tracer understands all stops, and the signals *)
(* that it passes on arrive once, for any number of processes, signals,    *)
(* interrupts and options.                                                 *)
(***************************************************************************)
EXTENDS Tracing, TLAPS

-----------------------------------------------------------------------------
(* The inductive invariant, for a process p that is r for the kernel *)

\* Of what a wait reports, only the stops have many signals.
ChildState ==
    {Exited(code) : code \in {0, 1}} \union {Killed(sig) : sig \in {SigNr.TRAP, SigNr.KILL}}
      \union {Dumped(SigNr.TRAP)} \union {Trapped(sig) : sig \in Nat}

\* The names of what a process can be in; the proofs rarely look into them.
Modes == {"absent", "free", "running", "stopped", "listening", "zombie", "gone"}
Flags == BOOLEAN
Hows == {"no", "seize", "attach"}
Resumes == {"CONT", "SYSCALL"}
Calls == {"none", "other", "fork", "exit"}
Stops == {"none", "signal", "entry", "exit", "fork", "exiting", "trap", "group"}

Process ==
    [mode : Modes, how : Hows, opts : SUBSET Opt, resume : Resumes,
     call : Calls, performed : Flags, pending : SUBSET OtherSignal,
     grouped : Flags, trap : Flags, stop : Stops,
     continued : Flags, state : ChildState, unread : Flags, message : {0, 256}]

\* The signal that a stop of each kind is reported with.
Reports(r, sig) ==
    CASE r.stop = "signal"  -> sig \in OtherSignal
      [] r.stop \in {"entry", "exit"} ->
            sig = IF "TRACESYSGOOD" \in r.opts THEN SigNr.SYS_TRAP ELSE SigNr.TRAP
      [] r.stop = "fork"    -> sig = WithEvent(Event.FORK)
      [] r.stop = "exiting" -> r.call = "exit" /\ r.performed /\ sig = WithEvent(Event.EXIT)
      [] r.stop = "trap"    -> r.how = "seize" /\ sig = WithEvent(Event.STOP)
      [] r.stop = "group"   -> sig = IF r.how = "seize" THEN SigNr.STOP + 256 * Event.STOP
                                     ELSE SigNr.STOP
      [] OTHER              -> FALSE

\* A process is stopped with a stop of some kind, and what it reports is that.
StopIsReported(r) ==
    /\ r.mode = "stopped" => /\ r.state = Trapped(r.state.signal) /\ r.state.signal \in Nat
                             /\ Reports(r, r.state.signal)
    /\ r.mode # "stopped" => r.stop = "none"
    /\ r.unread => r.mode \in {"stopped", "zombie"}
    /\ r.mode = "zombie" => r.state.event # "TRAPPED"

\* What was announced, if anything, is in the event message, and comes true.
EndsAsAnnounced(r, status) ==
    status # NoStatus =>
        /\ r.mode # "absent" /\ r.call = "exit" /\ r.performed /\ status = r.message
        /\ r.state.event = "EXITED" => 256 * r.state.status = status

\* Options come with the tracer, and end with it.
OptionsAreTracers(r) ==
    r.how = "no" /\ r.mode \in {"running", "stopped", "listening"} => r.opts = {}

\* How many times a signal is on its way to a process.
OnTheWay(r, s) ==
    (IF s \in r.pending THEN 1 ELSE 0)
      + (IF r.stop = "signal" /\ r.state.signal = s THEN 1 ELSE 0)

Lives == {"free", "running", "stopped", "listening"}

\* What is owed to a process is on its way; a STOP may be the one of attach().
OwedIsOnTheWay(p, r, owes, knows) ==
    /\ r.mode \in Lives =>
         \A s \in OtherSignal :
             (s = SigNr.STOP /\ (r.how = "attach" \/ p \in knows)) \/ owes[s] = OnTheWay(r, s)
    /\ r.mode = "absent" => \A s \in OtherSignal : owes[s] = 0

Fits(p, r, owes, status, knows) ==
    /\ r \in Process /\ owes \in [OtherSignal -> Int] /\ status \in Int
    /\ StopIsReported(r) /\ OptionsAreTracers(r)
    /\ EndsAsAnnounced(r, status)
    /\ OwedIsOnTheWay(p, r, owes, knows)

\* What the last wait has returned still holds, unless the process was killed.
SeenIsCurrent ==
    seen # Nobody =>
        /\ seen.pid \in Proc /\ seen.state \in ChildState
        /\ seen.state.event = "TRAPPED" =>
             \/ /\ proc[seen.pid].mode = "stopped" /\ ~proc[seen.pid].unread
                /\ seen.state = proc[seen.pid].state
             \/ proc[seen.pid].mode = "zombie"
        /\ seen.state.event = "EXITED" =>
             announced[seen.pid] \in {NoStatus, 256 * seen.state.status}

IInv ==
    /\ proc \in [Proc -> Process] /\ owed \in [Proc -> [OtherSignal -> Int]]
    /\ announced \in [Proc -> Int] /\ known \subseteq Proc
    /\ \A p \in Proc : Fits(p, proc[p], owed[p], announced[p], known)
    /\ SeenIsCurrent

-----------------------------------------------------------------------------
(* Lemmas *)

\* The numbers behind the names.
LEMMA Numbers ==
    /\ SigNr.NONE = 0 /\ SigNr.TRAP = 5 /\ SigNr.KILL = 9 /\ SigNr.USR1 = 10
    /\ SigNr.CONT = 18 /\ SigNr.STOP = 19 /\ SigNr.SYS_TRAP = 133 /\ SigNr.MAXIMUM = 65
    /\ Event.FORK = 1 /\ Event.EXIT = 6 /\ Event.STOP = 128
    /\ OtherSignal = {5, 10, 18, 19}
    BY DEF SigNr, Event, OtherSignal

\* The names that the operators of the kernel and of the tracer use.
LEMMA Members ==
    /\ "absent" \in Modes /\ "free" \in Modes /\ "running" \in Modes /\ "stopped" \in Modes
    /\ "listening" \in Modes /\ "zombie" \in Modes /\ "gone" \in Modes
    /\ "no" \in Hows /\ "seize" \in Hows /\ "attach" \in Hows
    /\ "CONT" \in Resumes /\ "SYSCALL" \in Resumes
    /\ "none" \in Calls /\ "other" \in Calls /\ "fork" \in Calls /\ "exit" \in Calls
    /\ "none" \in Stops /\ "signal" \in Stops /\ "entry" \in Stops /\ "exit" \in Stops
    /\ "fork" \in Stops /\ "exiting" \in Stops /\ "trap" \in Stops /\ "group" \in Stops
    /\ TRUE \in Flags /\ FALSE \in Flags
    /\ {} \in SUBSET OtherSignal /\ {} \in SUBSET Opt
    BY DEF Modes, Hows, Resumes, Calls, Stops, Flags

\* The states that a wait reports (ChildState).
LEMMA StatesOfChildren ==
    /\ \A code \in {0, 1} : Exited(code) \in ChildState
    /\ Killed(SigNr.TRAP) \in ChildState /\ Killed(SigNr.KILL) \in ChildState
    /\ Dumped(SigNr.TRAP) \in ChildState
    /\ \A sig \in Nat : Trapped(sig) \in ChildState
    BY DEF ChildState

\* A process with one of its flags raised or lowered.
LEMMA FlagChanges ==
    ASSUME NEW r \in Process
    PROVE  /\ [r EXCEPT !.performed = TRUE] \in Process /\ [r EXCEPT !.performed = FALSE] \in Process
           /\ [r EXCEPT !.grouped = TRUE] \in Process /\ [r EXCEPT !.grouped = FALSE] \in Process
           /\ [r EXCEPT !.trap = TRUE] \in Process /\ [r EXCEPT !.trap = FALSE] \in Process
           /\ [r EXCEPT !.continued = TRUE] \in Process /\ [r EXCEPT !.continued = FALSE] \in Process
           /\ [r EXCEPT !.unread = TRUE] \in Process /\ [r EXCEPT !.unread = FALSE] \in Process
<1> DEFINE yes == TRUE
           no == FALSE
<1>1. yes \in Flags /\ no \in Flags
  BY Members
<1> HIDE DEF yes, no
<1>2. /\ [r EXCEPT !.performed = yes] \in Process /\ [r EXCEPT !.performed = no] \in Process
      /\ [r EXCEPT !.grouped = yes] \in Process /\ [r EXCEPT !.grouped = no] \in Process
  BY <1>1 DEF Process
<1>3. /\ [r EXCEPT !.trap = yes] \in Process /\ [r EXCEPT !.trap = no] \in Process
      /\ [r EXCEPT !.continued = yes] \in Process /\ [r EXCEPT !.continued = no] \in Process
  BY <1>1 DEF Process
<1>4. [r EXCEPT !.unread = yes] \in Process /\ [r EXCEPT !.unread = no] \in Process
  BY <1>1 DEF Process
<1> QED BY <1>2, <1>3, <1>4, Zenon DEF yes, no

\* A process that does not exist.
LEMMA AbsentType == Absent \in Process
    BY StatesOfChildren, Members DEF Absent, Process

\* A process that stops (Stopped).
LEMMA StoppedType ==
    ASSUME NEW r \in Process, NEW kind \in Stops, NEW sig \in Nat
    PROVE  /\ Stopped(r, kind, sig) \in Process
           /\ Stopped(r, kind, sig).mode = "stopped" /\ Stopped(r, kind, sig).stop = kind
           /\ Stopped(r, kind, sig).state = Trapped(sig) /\ Stopped(r, kind, sig).unread = TRUE
           /\ Stopped(r, kind, sig).how = r.how /\ Stopped(r, kind, sig).opts = r.opts
           /\ Stopped(r, kind, sig).pending = r.pending /\ Stopped(r, kind, sig).call = r.call
           /\ Stopped(r, kind, sig).performed = r.performed
           /\ Stopped(r, kind, sig).message = r.message
<1> DEFINE a == [r EXCEPT !.mode = "stopped"]
           b == [a EXCEPT !.stop = kind]
           d == [b EXCEPT !.continued = FALSE]
           e == [d EXCEPT !.state = Trapped(sig)]
           f == [e EXCEPT !.unread = TRUE]
<1>1. a \in Process
  BY Members DEF Process
<1>2. b \in Process
  <2> HIDE DEF a
  <2> QED BY <1>1 DEF Process
<1>3. d \in Process
  <2> HIDE DEF b
  <2> QED BY <1>2, FlagChanges, Zenon
<1>4. e \in Process
  <2> HIDE DEF d
  <2> QED BY <1>3, StatesOfChildren DEF Process
<1>5. f \in Process
  <2> HIDE DEF e
  <2> QED BY <1>4, FlagChanges, Zenon
<1>6. Stopped(r, kind, sig) = f
  BY DEF Stopped
<1>7. /\ f.mode = "stopped" /\ f.stop = kind /\ f.state = Trapped(sig) /\ f.unread = TRUE
      /\ f.how = r.how /\ f.opts = r.opts /\ f.pending = r.pending /\ f.call = r.call
      /\ f.performed = r.performed /\ f.message = r.message
  BY DEF Process
<1> HIDE DEF f
<1> QED BY <1>5, <1>6, <1>7

\* A process that ends (Ended).
LEMMA EndedType ==
    ASSUME NEW r \in Process, NEW state \in ChildState
    PROVE  /\ Ended(r, state) \in Process
           /\ Ended(r, state).mode = "zombie" /\ Ended(r, state).stop = "none"
           /\ Ended(r, state).state = state /\ Ended(r, state).unread = TRUE
           /\ Ended(r, state).how = r.how /\ Ended(r, state).opts = r.opts
           /\ Ended(r, state).call = r.call /\ Ended(r, state).performed = r.performed
           /\ Ended(r, state).message = r.message
<1> DEFINE a == [r EXCEPT !.mode = "zombie"]
           b == [a EXCEPT !.stop = "none"]
           d == [b EXCEPT !.state = state]
           e == [d EXCEPT !.unread = TRUE]
           f == [e EXCEPT !.pending = {}]
           g == [f EXCEPT !.trap = FALSE]
           h == [g EXCEPT !.grouped = FALSE]
<1>1. a \in Process
  BY Members DEF Process
<1>2. b \in Process
  <2> HIDE DEF a
  <2> QED BY <1>1, Members DEF Process
<1>3. d \in Process
  <2> HIDE DEF b
  <2> QED BY <1>2 DEF Process
<1>4. e \in Process
  <2> HIDE DEF d
  <2> QED BY <1>3, FlagChanges, Zenon
<1>5. f \in Process
  <2> HIDE DEF e
  <2> QED BY <1>4, Members DEF Process
<1>6. g \in Process
  <2> HIDE DEF f
  <2> QED BY <1>5, FlagChanges, Zenon
<1>7. h \in Process
  <2> HIDE DEF g
  <2> QED BY <1>6, FlagChanges, Zenon
<1>8. Ended(r, state) = h
  BY DEF Ended
<1>9. /\ h.mode = "zombie" /\ h.stop = "none" /\ h.state = state /\ h.unread = TRUE
      /\ h.how = r.how /\ h.opts = r.opts /\ h.call = r.call
      /\ h.performed = r.performed /\ h.message = r.message
  BY DEF Process
<1> HIDE DEF h
<1> QED BY <1>7, <1>8, <1>9

\* The signal of each stop is a number.
LEMMA ReportsNumber ==
    ASSUME NEW r, NEW sig, r.stop # "none", Reports(r, sig),
           r.stop \in {"signal", "entry", "exit", "fork", "exiting", "trap", "group"}
    PROVE  sig \in Nat
    BY Numbers DEF Reports, WithEvent

\* Nothing that is on its way is touched by a stop or an end of one that is
\* not about a signal.
LEMMA SameOwed ==
    ASSUME NEW p, NEW r, NEW owes, NEW status, NEW knows, Fits(p, r, owes, status, knows),
           r.mode \in Lives, r.stop # "signal",
           NEW u, u.stop # "signal", u.pending = r.pending, u.mode # "absent",
           r.how = "attach" => u.how = "attach" \/ p \in knows
    PROVE  OwedIsOnTheWay(p, u, owes, knows)
    BY DEF Fits, OwedIsOnTheWay, OnTheWay

\* A process that runs is stopped and reported (Stopped), not for a signal.
LEMMA StoppedFits ==
    ASSUME NEW p, NEW r, NEW owes, NEW status, NEW knows, Fits(p, r, owes, status, knows),
           r.mode = "running", NEW kind \in {"entry", "exit", "fork", "exiting", "trap", "group"},
           NEW sig, Reports(Stopped(r, kind, sig), sig)
    PROVE  Fits(p, Stopped(r, kind, sig), owes, status, knows)
<1> DEFINE u == Stopped(r, kind, sig)
<1>1. r \in Process /\ r.stop = "none"
  BY DEF Fits, StopIsReported
<1>2. u.stop = kind
  BY <1>1 DEF Stopped, Process
<1>3. sig \in Nat
  BY <1>2, ReportsNumber
<1>4. kind \in Stops
  BY DEF Stops
<1>5. u \in Process
  BY <1>1, <1>3, <1>4, StoppedType
<1>6. /\ u.mode = "stopped" /\ u.state = Trapped(sig) /\ u.how = r.how /\ u.opts = r.opts
      /\ u.pending = r.pending /\ u.call = r.call /\ u.performed = r.performed
      /\ u.message = r.message
  BY <1>1 DEF Stopped, Process
<1>7. u.state.signal = sig /\ u.state.event = "TRAPPED"
  BY <1>6 DEF Trapped
<1> HIDE DEF u
<1>8. StopIsReported(u)
  BY <1>3, <1>6, <1>7 DEF StopIsReported, u
<1>9. EndsAsAnnounced(u, status) /\ OptionsAreTracers(u)
  BY <1>6, <1>7 DEF Fits, EndsAsAnnounced, OptionsAreTracers
<1>10. OwedIsOnTheWay(p, u, owes, knows)
  BY <1>1, <1>2, <1>6, SameOwed DEF Lives
<1>11. owes \in [OtherSignal -> Int] /\ status \in Int
  BY DEF Fits
<1> QED BY <1>5, <1>8, <1>9, <1>10, <1>11 DEF Fits, u

\* A process that runs has ended (Ended).
LEMMA EndedFits ==
    ASSUME NEW p, NEW r, NEW owes, NEW status, NEW knows, Fits(p, r, owes, status, knows),
           r.mode # "absent", NEW state \in ChildState, state.event # "TRAPPED", NEW owes2 \in [OtherSignal -> Int],
           status # NoStatus /\ state.event = "EXITED" => 256 * state.status = status
    PROVE  Fits(p, Ended(r, state), owes2, status, knows)
<1> DEFINE u == Ended(r, state)
<1>1. r \in Process
  BY DEF Fits
<1>2. u \in Process
  BY <1>1, EndedType
<1>3. /\ u.mode = "zombie" /\ u.stop = "none" /\ u.state = state
      /\ u.call = r.call /\ u.performed = r.performed /\ u.message = r.message
  BY <1>1 DEF Ended, Process
<1> HIDE DEF u
<1>4. StopIsReported(u) /\ OptionsAreTracers(u) /\ OwedIsOnTheWay(p, u, owes2, knows)
  BY <1>3 DEF StopIsReported, OptionsAreTracers, OwedIsOnTheWay, Lives
<1>5. EndsAsAnnounced(u, status)
  BY <1>3 DEF Fits, EndsAsAnnounced
<1> QED BY <1>2, <1>4, <1>5 DEF Fits, u

\* A step of one process and of what the tracer keeps of it.
LEMMA OneProcess ==
    ASSUME IInv, NEW p \in Proc, NEW r, NEW owes, NEW status,
           proc' = [proc EXCEPT ![p] = r], owed' = [owed EXCEPT ![p] = owes],
           announced' = [announced EXCEPT ![p] = status], known' \in {known, known \union {p}},
           Fits(p, r, owes, status, known'), SeenIsCurrent'
    PROVE  IInv'
<1>1. r \in Process /\ owes \in [OtherSignal -> Int] /\ status \in Int
  BY DEF Fits
<1>2. /\ proc' \in [Proc -> Process] /\ owed' \in [Proc -> [OtherSignal -> Int]]
      /\ announced' \in [Proc -> Int] /\ known' \subseteq Proc
  BY <1>1 DEF IInv
<1>3. ASSUME NEW q \in Proc PROVE Fits(q, proc'[q], owed'[q], announced'[q], known')
  <2>1. CASE q = p
    BY <2>1 DEF IInv
  <2>2. CASE q # p
    <3>1. proc'[q] = proc[q] /\ owed'[q] = owed[q] /\ announced'[q] = announced[q]
      BY <2>2 DEF IInv
    <3>2. q \in known' <=> q \in known
      BY <2>2
    <3>3. Fits(q, proc[q], owed[q], announced[q], known)
      BY DEF IInv
    <3> QED BY <3>1, <3>2, <3>3 DEF Fits, OwedIsOnTheWay
  <2> QED BY <2>1, <2>2
<1> QED BY <1>2, <1>3 DEF IInv

\* A step of the kernel: who waits to be handled stays as seen, or is killed.
LEMMA KernelStep ==
    ASSUME IInv, NEW p \in Proc, NEW r, NEW owes,
           proc' = [proc EXCEPT ![p] = r], owed' = [owed EXCEPT ![p] = owes],
           UNCHANGED <<seen, known, announced>>,
           Fits(p, r, owes, announced[p], known),
           proc[p].mode = "stopped" =>
               \/ r.mode = "zombie"
               \/ r.mode = "stopped" /\ r.state = proc[p].state /\ r.unread = proc[p].unread,
           proc[p].mode = "zombie" => r.mode = "zombie"
    PROVE  IInv'
<1>1. announced' = [announced EXCEPT ![p] = announced[p]]
  BY DEF IInv
<1>2. SeenIsCurrent'
  <2>1. CASE seen = Nobody
    BY <2>1 DEF SeenIsCurrent
  <2>2. CASE seen # Nobody /\ seen.pid = p
    <3>1. proc'[p] = r
      BY DEF IInv
    <3> QED BY <2>2, <3>1 DEF IInv, SeenIsCurrent
  <2>3. CASE seen # Nobody /\ seen.pid # p
    <3>1. seen.pid \in Proc
      BY <2>3 DEF IInv, SeenIsCurrent
    <3>2. proc'[seen.pid] = proc[seen.pid]
      BY <2>3, <3>1 DEF IInv
    <3> QED BY <2>3, <3>2 DEF IInv, SeenIsCurrent
  <2> QED BY <2>1, <2>2, <2>3
<1> QED BY <1>1, <1>2, OneProcess

\* The same, if nothing new is owed.
LEMMA QuietStep ==
    ASSUME IInv, NEW p \in Proc, NEW r,
           proc' = [proc EXCEPT ![p] = r], UNCHANGED <<owed, seen, known, announced>>,
           Fits(p, r, owed[p], announced[p], known), proc[p].mode = "running"
    PROVE  IInv'
<1>1. owed' = [owed EXCEPT ![p] = owed[p]]
  BY DEF IInv
<1> QED BY <1>1, KernelStep

\* A step of the tracer after which it waits for the next stop.
LEMMA TracerStep ==
    ASSUME IInv, NEW p \in Proc, NEW r, NEW owes, NEW status,
           proc' = [proc EXCEPT ![p] = r], owed' = [owed EXCEPT ![p] = owes],
           announced' = [announced EXCEPT ![p] = status], known' \in {known, known \union {p}},
           seen' = Nobody, Fits(p, r, owes, status, known')
    PROVE  IInv'
<1>1. SeenIsCurrent'
  BY DEF SeenIsCurrent
<1> QED BY <1>1, OneProcess

\* A process that does not change what it reports and what is on its way.
LEMMA SameFits ==
    ASSUME NEW p, NEW r, NEW owes, NEW status, NEW knows, Fits(p, r, owes, status, knows),
           r.mode = "running", NEW u \in Process, u.mode = "running", u.stop = "none",
           u.unread = r.unread, u.state = r.state, u.pending = r.pending,
           u.how = r.how /\ u.opts = r.opts,
           r.call = "exit" => u.call = "exit", r.performed /\ r.call = "exit" => u.performed,
           u.message = r.message \/ status = NoStatus
    PROVE  Fits(p, u, owes, status, knows)
<1>1. StopIsReported(u) /\ OptionsAreTracers(u)
  BY DEF Fits, StopIsReported, OptionsAreTracers
<1>2. EndsAsAnnounced(u, status)
  BY DEF Fits, EndsAsAnnounced
<1>3. OwedIsOnTheWay(p, u, owes, knows)
  BY SameOwed DEF Lives, Fits, StopIsReported
<1> QED BY <1>1, <1>2, <1>3 DEF Fits

-----------------------------------------------------------------------------
(* Steps of the processes and the kernel *)

\* At a system call the process stops, if it was asked to, or goes on.
LEMMA AtCallFits ==
    ASSUME NEW p, NEW r, NEW owes, NEW status, NEW knows, Fits(p, r, owes, status, knows),
           r.mode = "running", NEW kind \in {"entry", "exit"}
    PROVE  Fits(p, AtCall(r, kind), owes, status, knows)
<1>1. CASE r.how = "no" \/ r.resume # "SYSCALL"
  BY <1>1 DEF AtCall
<1>2. CASE ~(r.how = "no" \/ r.resume # "SYSCALL")
  <2> DEFINE sig == IF "TRACESYSGOOD" \in r.opts THEN SigNr.SYS_TRAP ELSE SigNr.TRAP
  <2>1. Stopped(r, kind, sig).stop = kind /\ Stopped(r, kind, sig).opts = r.opts
    BY DEF Fits, Process, Stopped
  <2>2. sig = IF "TRACESYSGOOD" \in r.opts THEN SigNr.SYS_TRAP ELSE SigNr.TRAP
    OBVIOUS
  <2> HIDE DEF sig
  <2>3. Reports(Stopped(r, kind, sig), sig)
    BY <2>1, <2>2 DEF Reports
  <2>4. Fits(p, Stopped(r, kind, sig), owes, status, knows)
    BY <2>3, StoppedFits
  <2> QED BY <1>2, <2>4 DEF AtCall, sig
<1> QED BY <1>1, <1>2

\* EnterCall(), Perform() and LeaveCall().
LEMMA CallsKeep ==
    ASSUME IInv, NEW p \in Proc,
           (\E call \in {"other", "fork", "exit"} : EnterCall(p, call)) \/ Perform(p) \/ LeaveCall(p)
    PROVE  IInv'
<1> DEFINE r == proc[p]
<1>1. Fits(p, r, owed[p], announced[p], known)
  BY DEF IInv
<1>2. r \in Process
  BY <1>1 DEF Fits
<1>3. ASSUME NEW call \in {"other", "fork", "exit"}, EnterCall(p, call) PROVE IInv'
  <2> DEFINE u == [r EXCEPT !.call = call, !.performed = FALSE]
  <2>1. /\ r.mode = "running" /\ r.call = "none"
        /\ proc' = [proc EXCEPT ![p] = AtCall(u, "entry")]
        /\ UNCHANGED <<owed, seen, known, announced>>
    BY <1>3 DEF EnterCall, InUserMode, IInv
  <2>2. u \in Process
    <3> DEFINE v == [r EXCEPT !.call = call]
    <3>1. call \in Calls
      BY Members
    <3>2. v \in Process
      BY <1>2, <3>1 DEF Process
    <3> HIDE DEF v
    <3>3. [v EXCEPT !.performed = FALSE] \in Process
      BY <3>2, FlagChanges, Zenon
    <3> QED BY <3>3 DEF v
  <2>3. /\ u.mode = r.mode /\ u.stop = r.stop /\ u.unread = r.unread /\ u.state = r.state
        /\ u.pending = r.pending /\ u.how = r.how /\ u.opts = r.opts /\ u.message = r.message
    BY <1>2 DEF Process
  <2> HIDE DEF u
  <2>4. Fits(p, u, owed[p], announced[p], known)
    BY <1>1, <2>1, <2>2, <2>3, SameFits DEF Fits, StopIsReported
  <2>5. Fits(p, AtCall(u, "entry"), owed[p], announced[p], known)
    BY <2>1, <2>3, <2>4, AtCallFits
  <2> QED BY <2>1, <2>5, QuietStep
<1>4. CASE Perform(p)
  <2> DEFINE u == [r EXCEPT !.performed = TRUE]
  <2>1. /\ r.mode = "running" /\ r.call = "other"
        /\ proc' = [proc EXCEPT ![p] = u]
        /\ UNCHANGED <<owed, seen, known, announced>>
    BY <1>4 DEF Perform, IInv
  <2>2. u \in Process
    BY <1>2, FlagChanges, Zenon
  <2>3. /\ u.mode = r.mode /\ u.stop = r.stop /\ u.unread = r.unread /\ u.state = r.state
        /\ u.pending = r.pending /\ u.how = r.how /\ u.opts = r.opts /\ u.message = r.message
        /\ u.call = r.call
    BY <1>2 DEF Process
  <2> HIDE DEF u
  <2>4. Fits(p, u, owed[p], announced[p], known)
    BY <1>1, <2>1, <2>2, <2>3, SameFits DEF Fits, StopIsReported
  <2> QED BY <2>1, <2>4, QuietStep
<1>5. CASE LeaveCall(p)
  <2> DEFINE u == [r EXCEPT !.call = "none"]
  <2>1. /\ r.mode = "running" /\ r.call \in {"fork", "other"}
        /\ proc' = [proc EXCEPT ![p] = AtCall(u, "exit")]
        /\ UNCHANGED <<owed, seen, known, announced>>
    BY <1>5 DEF LeaveCall, IInv
  <2>2. u \in Process
    BY <1>2, Members DEF Process
  <2>3. /\ u.mode = r.mode /\ u.stop = r.stop /\ u.unread = r.unread /\ u.state = r.state
        /\ u.pending = r.pending /\ u.how = r.how /\ u.opts = r.opts /\ u.message = r.message
    BY <1>2 DEF Process
  <2> HIDE DEF u
  <2>4. Fits(p, u, owed[p], announced[p], known)
    BY <1>1, <2>1, <2>2, <2>3, SameFits DEF Fits, StopIsReported
  <2>5. Fits(p, AtCall(u, "exit"), owed[p], announced[p], known)
    BY <2>1, <2>3, <2>4, AtCallFits
  <2> QED BY <2>1, <2>5, QuietStep
<1> QED BY <1>3, <1>4, <1>5

\* fork() of a process, whose child is traced in the same way, or not at all.
LEMMA ForkKeeps ==
    ASSUME IInv, NEW p \in Proc, Fork(p)
    PROVE  IInv'
<1> DEFINE r == proc[p]
           done == [r EXCEPT !.performed = TRUE]
           u == IF "TRACEFORK" \in done.opts THEN Stopped(done, "fork", WithEvent(Event.FORK)) ELSE done
           b == Born(done)
<1>1. Fits(p, r, owed[p], announced[p], known)
  BY DEF IInv
<1>2. PICK c \in Proc : /\ proc[c].mode = "absent"
                        /\ proc' = [proc EXCEPT ![p] = u, ![c] = b]
  BY DEF Fork
<1>3. /\ r.mode = "running" /\ r.call = "fork" /\ c # p
      /\ UNCHANGED <<owed, seen, known, announced>>
  BY <1>2 DEF Fork
<1>4. r \in Process
  BY <1>1 DEF Fits
<1>5. /\ done \in Process /\ done.mode = r.mode /\ done.stop = r.stop /\ done.unread = r.unread
      /\ done.state = r.state /\ done.pending = r.pending /\ done.how = r.how
      /\ done.opts = r.opts /\ done.message = r.message /\ done.call = r.call
  <2>1. done \in Process
    BY <1>4, FlagChanges, Zenon
  <2> QED BY <1>4, <2>1 DEF Process
<1> HIDE DEF done
<1>6. Fits(p, done, owed[p], announced[p], known)
  BY <1>1, <1>3, <1>5, SameFits DEF Fits, StopIsReported
<1>7. Fits(p, u, owed[p], announced[p], known)
  <2>1. Stopped(done, "fork", WithEvent(Event.FORK)).stop = "fork"
    BY <1>5 DEF Process, Stopped
  <2>2. Reports(Stopped(done, "fork", WithEvent(Event.FORK)), WithEvent(Event.FORK))
    BY <2>1 DEF Reports
  <2>3. Fits(p, Stopped(done, "fork", WithEvent(Event.FORK)), owed[p], announced[p], known)
    BY <1>3, <1>5, <1>6, <2>2, StoppedFits
  <2> QED BY <1>6, <2>3
<1>8. Fits(c, b, owed[c], announced[c], known)
  <2>1. Fits(c, proc[c], owed[c], announced[c], known)
    BY DEF IInv
  <2>2. announced[c] = NoStatus /\ \A s \in OtherSignal : owed[c][s] = 0
    BY <1>2, <2>1 DEF Fits, EndsAsAnnounced, OwedIsOnTheWay, Lives
  <2>3. Absent \in Process
    BY AbsentType
  <2>4. CASE "TRACEFORK" \notin done.opts
    <3>1. b = [Absent EXCEPT !.mode = "free"]
      BY <2>4 DEF Born
    <3>2. b \in Process
      BY <2>3, <3>1, Members DEF Process
    <3>3. b.mode = "free" /\ b.stop = "none" /\ b.unread = FALSE /\ b.pending = {}
      BY <3>1 DEF Absent
    <3> HIDE DEF b
    <3>4. StopIsReported(b) /\ OptionsAreTracers(b) /\ EndsAsAnnounced(b, announced[c])
      BY <2>2, <3>3 DEF StopIsReported, OptionsAreTracers, EndsAsAnnounced
    <3>5. OwedIsOnTheWay(c, b, owed[c], known)
      BY <2>2, <3>3 DEF OwedIsOnTheWay, OnTheWay
    <3> QED BY <2>1, <3>2, <3>4, <3>5 DEF Fits
  <2>5. CASE "TRACEFORK" \in done.opts
    <3>1. b = [Absent EXCEPT !.mode = "running", !.how = done.how, !.opts = done.opts,
                             !.trap = (done.how = "seize"),
                             !.pending = IF done.how = "seize" THEN {} ELSE {SigNr.STOP}]
      BY <2>5 DEF Born
    <3>2. done.how \in {"seize", "attach"}
      BY <1>3, <1>5, <1>6, <2>5 DEF Fits, OptionsAreTracers, Process, Hows
    <3>3. /\ b.mode = "running" /\ b.stop = "none" /\ b.unread = FALSE /\ b.how = done.how
          /\ b.pending = IF done.how = "seize" THEN {} ELSE {SigNr.STOP}
      BY <3>1 DEF Absent
    <3>4. b \in Process
      <4> DEFINE x == [Absent EXCEPT !.mode = "running"]
                 y == [x EXCEPT !.how = done.how]
                 v == [y EXCEPT !.opts = done.opts]
      <4>1. v \in Process
        <5>1. done.how \in Hows /\ done.opts \in SUBSET Opt
          BY <1>5 DEF Process
        <5>2. x \in Process
          BY <2>3, Members DEF Process
        <5>3. y \in Process
          <6> HIDE DEF x
          <6> QED BY <5>1, <5>2 DEF Process
        <5> HIDE DEF y
        <5> QED BY <5>1, <5>3 DEF Process
      <4>2. (IF done.how = "seize" THEN {} ELSE {SigNr.STOP}) \in SUBSET OtherSignal
        BY DEF OtherSignal
      <4>3. (done.how = "seize") \in Flags
        BY <3>2 DEF Flags
      <4>4. b = [[v EXCEPT !.trap = (done.how = "seize")]
                    EXCEPT !.pending = IF done.how = "seize" THEN {} ELSE {SigNr.STOP}]
        BY <3>1 DEF Absent
      <4>5. \A w \in Process, q \in SUBSET OtherSignal : [w EXCEPT !.pending = q] \in Process
        BY DEF Process
      <4>6. \A w \in Process, q \in Flags : [w EXCEPT !.trap = q] \in Process
        BY DEF Process
      <4> HIDE DEF v, b
      <4> QED BY <4>1, <4>2, <4>3, <4>4, <4>5, <4>6, Zenon
    <3> HIDE DEF b
    <3>5. StopIsReported(b) /\ OptionsAreTracers(b) /\ EndsAsAnnounced(b, announced[c])
      BY <2>2, <3>2, <3>3 DEF StopIsReported, OptionsAreTracers, EndsAsAnnounced
    <3>6. OwedIsOnTheWay(c, b, owed[c], known)
      BY <2>2, <3>2, <3>3 DEF OwedIsOnTheWay, OnTheWay
    <3> QED BY <2>1, <3>4, <3>5, <3>6 DEF Fits
  <2> QED BY <2>4, <2>5
<1> HIDE DEF u, b
<1>9. u \in Process /\ b \in Process
  BY <1>7, <1>8 DEF Fits
<1>10. /\ proc' \in [Proc -> Process] /\ proc'[p] = u /\ proc'[c] = b
       /\ \A q \in Proc \ {p, c} : proc'[q] = proc[q]
  BY <1>2, <1>3, <1>9 DEF IInv
<1>11. \A q \in Proc : Fits(q, proc'[q], owed[q], announced[q], known)
  BY <1>7, <1>8, <1>10 DEF IInv
<1>12. SeenIsCurrent'
  <2>1. seen # Nobody /\ seen.state.event = "TRAPPED" => seen.pid \notin {p, c}
    BY <1>2, <1>3 DEF IInv, SeenIsCurrent
  <2> QED BY <1>3, <1>10, <2>1 DEF IInv, SeenIsCurrent
<1> QED BY <1>3, <1>10, <1>11, <1>12 DEF IInv

\* exit(), with an announcement if the options say so, which is kept.
LEMMA ExitKeeps ==
    ASSUME IInv, NEW p \in Proc, Exit(p)
    PROVE  IInv'
<1> DEFINE r == proc[p]
           zero == [s \in OtherSignal |-> 0]
<1>1. Fits(p, r, owed[p], announced[p], known)
  BY DEF IInv
<1>2. r \in Process
  BY <1>1 DEF Fits
<1>3. /\ r.mode = "running" /\ r.call = "exit" /\ UNCHANGED <<seen, known, announced>>
      /\ owed' = [owed EXCEPT ![p] = IF proc'[p].mode = "zombie" THEN zero ELSE @]
  BY DEF Exit
<1>4. CASE "TRACEEXIT" \in r.opts /\ ~r.performed
  <2>1. PICK code \in {0, 1} :
          proc' = [proc EXCEPT ![p] = Stopped([r EXCEPT !.performed = TRUE, !.message = 256 * code],
                                              "exiting", WithEvent(Event.EXIT))]
    BY <1>4 DEF Exit, IInv
  <2> DEFINE v == [r EXCEPT !.performed = TRUE, !.message = 256 * code]
             u == Stopped(v, "exiting", WithEvent(Event.EXIT))
  <2>2. /\ v \in Process /\ v.mode = r.mode /\ v.stop = r.stop /\ v.state = r.state
        /\ v.unread = r.unread /\ v.how = r.how /\ v.opts = r.opts /\ v.pending = r.pending
        /\ v.call = r.call /\ v.performed = TRUE
    <3> DEFINE msg == 256 * code
               w == [r EXCEPT !.performed = TRUE]
    <3>1. msg \in {0, 256}
      OBVIOUS
    <3>2. w \in Process
      BY <1>2, FlagChanges, Zenon
    <3>3. [w EXCEPT !.message = msg] \in Process
      <4> HIDE DEF w, msg
      <4> QED BY <3>1, <3>2 DEF Process
    <3>4. v = [w EXCEPT !.message = msg]
      OBVIOUS
    <3> HIDE DEF msg
    <3> QED BY <1>2, <3>3, <3>4 DEF Process
  <2>3. proc' = [proc EXCEPT ![p] = u]
    BY <2>1
  <2>4. announced[p] = NoStatus
    BY <1>1, <1>4 DEF Fits, EndsAsAnnounced
  <2>5. r.stop = "none"
    BY <1>1, <1>3 DEF Fits, StopIsReported
  <2> HIDE DEF v, r
  <2>6. Fits(p, v, owed[p], announced[p], known)
    BY <1>1, <1>3, <2>2, <2>4, <2>5, SameFits
  <2>7. u.stop = "exiting" /\ u.mode = "stopped" /\ u.call = v.call /\ u.performed = v.performed
    BY <2>2 DEF Process, Stopped
  <2>8. Reports(u, WithEvent(Event.EXIT))
    BY <1>3, <2>2, <2>7 DEF Reports
  <2>9. Fits(p, u, owed[p], announced[p], known)
    BY <1>3, <2>2, <2>6, <2>8, StoppedFits
  <2> HIDE DEF u
  <2>10. proc'[p] = u
    BY <2>3 DEF IInv
  <2>11. owed' = [owed EXCEPT ![p] = owed[p]]
    BY <1>3, <2>7, <2>10
  <2> QED BY <1>3, <2>3, <2>9, <2>11, KernelStep DEF r
<1>5. CASE ~("TRACEEXIT" \in r.opts /\ ~r.performed)
  <2>1. PICK code \in IF r.performed THEN {r.message \div 256} ELSE {0, 1} :
          proc' = [proc EXCEPT ![p] = Ended(r, Exited(code))]
    BY <1>5 DEF Exit, IInv
  <2>2. code \in {0, 1}
    <3>1. r.message \in {0, 256}
      BY <1>2 DEF Process
    <3> QED BY <2>1, <3>1
  <2>3. announced[p] # NoStatus => r.performed /\ announced[p] = r.message
    BY <1>1 DEF Fits, EndsAsAnnounced
  <2>4. announced[p] # NoStatus => 256 * code = announced[p]
    <3>1. r.message \in {0, 256}
      BY <1>2 DEF Process
    <3> QED BY <2>1, <2>3, <3>1
  <2>5. /\ Exited(code) \in ChildState /\ Exited(code).event = "EXITED"
        /\ Exited(code).status = code
    BY <2>2, StatesOfChildren DEF Exited
  <2>6. zero \in [OtherSignal -> Int]
    OBVIOUS
  <2>7. Fits(p, Ended(r, Exited(code)), zero, announced[p], known)
    <3> HIDE DEF r, zero
    <3> QED BY <1>1, <1>3, <2>4, <2>5, <2>6, EndedFits
  <2>8. Ended(r, Exited(code)).mode = "zombie" /\ proc'[p] = Ended(r, Exited(code))
    BY <1>2, <2>1 DEF Ended, Process, IInv
  <2>9. owed' = [owed EXCEPT ![p] = zero]
    BY <1>3, <2>8
  <2> HIDE DEF r, zero
  <2> QED BY <1>3, <2>1, <2>7, <2>8, <2>9, KernelStep DEF r
<1> QED BY <1>4, <1>5

\* A trap or a group-stop of a process, told to the tracer (TakeTrap()).
LEMMA TrapKeeps ==
    ASSUME IInv, NEW p \in Proc, TakeTrap(p)
    PROVE  IInv'
<1> DEFINE r == proc[p]
           u == [r EXCEPT !.trap = FALSE]
           sig == IF u.grouped THEN SigNr.STOP ELSE SigNr.TRAP
           kind == IF u.grouped THEN "group" ELSE "trap"
<1>1. Fits(p, r, owed[p], announced[p], known)
  BY DEF IInv
<1>2. r \in Process /\ r.mode = "running" /\ UNCHANGED <<owed, seen, known, announced>>
  BY <1>1 DEF Fits, TakeTrap, InUserMode
<1>3. /\ u \in Process /\ u.mode = r.mode /\ u.stop = r.stop /\ u.unread = r.unread
      /\ u.state = r.state /\ u.pending = r.pending /\ u.how = r.how
      /\ u.opts = r.opts /\ u.message = r.message /\ u.call = r.call
      /\ u.performed = r.performed
  <2>1. u \in Process
    BY <1>2, FlagChanges, Zenon
  <2> QED BY <1>2, <2>1 DEF Process
<1>4. proc' = [proc EXCEPT ![p] = IF u.how = "seize" THEN Stopped(u, kind, sig + 256 * Event.STOP)
                                  ELSE IF u.grouped THEN Stopped(u, "group", sig) ELSE u]
  BY DEF TakeTrap, IInv
<1> HIDE DEF u
<1>5. Fits(p, u, owed[p], announced[p], known)
  BY <1>1, <1>2, <1>3, SameFits DEF Fits, StopIsReported
<1>6. CASE u.how = "seize"
  <2> DEFINE v == Stopped(u, kind, sig + 256 * Event.STOP)
  <2>1. v.stop = kind /\ v.how = u.how
    BY <1>3 DEF Stopped, Process
  <2>2. Reports(v, sig + 256 * Event.STOP)
    BY <1>6, <2>1 DEF Reports, WithEvent
  <2>3. kind \in {"group", "trap"}
    OBVIOUS
  <2> HIDE DEF kind, sig
  <2>4. Fits(p, v, owed[p], announced[p], known)
    BY <1>2, <1>3, <1>5, <2>2, <2>3, StoppedFits
  <2>5. proc' = [proc EXCEPT ![p] = v]
    BY <1>4, <1>6, Zenon
  <2> HIDE DEF v
  <2> QED BY <1>2, <2>4, <2>5, QuietStep
<1>7. CASE u.how # "seize" /\ u.grouped
  <2> DEFINE v == Stopped(u, "group", sig)
  <2>1. v.stop = "group" /\ v.how = u.how
    BY <1>3 DEF Stopped, Process
  <2>2. Reports(v, sig)
    BY <1>7, <2>1 DEF Reports
  <2> HIDE DEF sig
  <2>3. Fits(p, v, owed[p], announced[p], known)
    BY <1>2, <1>3, <1>5, <2>2, StoppedFits
  <2> QED BY <1>2, <1>4, <1>7, <2>3, QuietStep
<1>8. CASE u.how # "seize" /\ ~u.grouped
  BY <1>2, <1>4, <1>5, <1>8, QuietStep
<1> QED BY <1>6, <1>7, <1>8

\* A signal on its way becomes the one that the process has stopped for.
LEMMA SignalKeeps ==
    ASSUME IInv, NEW p \in Proc, TakeSignal(p)
    PROVE  IInv'
<1> DEFINE r == proc[p]
<1>1. Fits(p, r, owed[p], announced[p], known)
  BY DEF IInv
<1>2. PICK sig \in r.pending :
          proc' = [proc EXCEPT ![p] = Stopped([r EXCEPT !.pending = r.pending \ {sig}], "signal", sig)]
  <2>1. PICK sig \in r.pending :
          proc' = [proc EXCEPT ![p] = Stopped([r EXCEPT !.pending = @ \ {sig}], "signal", sig)]
    BY DEF TakeSignal
  <2>2. r \in Process
    BY <1>1 DEF Fits
  <2>3. [r EXCEPT !.pending = @ \ {sig}] = [r EXCEPT !.pending = r.pending \ {sig}]
    BY <2>2 DEF Process
  <2> QED BY <2>1, <2>3
<1>3. /\ r \in Process /\ r.mode = "running" /\ r.stop = "none"
      /\ UNCHANGED <<owed, seen, known, announced>>
  BY <1>1 DEF Fits, StopIsReported, TakeSignal, InUserMode
<1> DEFINE v == [r EXCEPT !.pending = r.pending \ {sig}]
           u == Stopped(v, "signal", sig)
<1>4. sig \in OtherSignal /\ sig \in Nat
  BY <1>2, <1>3, Numbers DEF Process
<1>5. /\ v \in Process /\ v.mode = r.mode /\ v.how = r.how /\ v.opts = r.opts
      /\ v.pending = r.pending \ {sig} /\ v.call = r.call /\ v.performed = r.performed
      /\ v.message = r.message
  BY <1>3 DEF Process
<1> HIDE DEF v
<1>6. Trapped(sig) \in ChildState
  BY <1>4, StatesOfChildren
<1>7. u \in Process
  BY <1>4, <1>5, StoppedType, Members
<1>8. /\ u.mode = "stopped" /\ u.state = Trapped(sig) /\ u.how = r.how /\ u.opts = r.opts
      /\ u.pending = r.pending \ {sig} /\ u.call = r.call /\ u.performed = r.performed
      /\ u.message = r.message /\ u.stop = "signal"
  BY <1>5 DEF Stopped, Process
<1>9. u.state.signal = sig /\ u.state.event = "TRAPPED"
  BY <1>8 DEF Trapped
<1> HIDE DEF u
<1>10. StopIsReported(u)
  BY <1>4, <1>8, <1>9 DEF StopIsReported, Reports
<1>11. EndsAsAnnounced(u, announced[p]) /\ OptionsAreTracers(u)
  BY <1>1, <1>3, <1>8, <1>9 DEF Fits, EndsAsAnnounced, OptionsAreTracers
<1>12. OwedIsOnTheWay(p, u, owed[p], known)
  <2>1. \A s \in OtherSignal : OnTheWay(u, s) = OnTheWay(r, s)
    BY <1>2, <1>3, <1>8, <1>9 DEF OnTheWay
  <2> QED BY <1>1, <1>3, <1>8, <2>1 DEF Fits, OwedIsOnTheWay, Lives
<1>13. Fits(p, u, owed[p], announced[p], known)
  BY <1>1, <1>7, <1>10, <1>11, <1>12 DEF Fits
<1> QED BY <1>2, <1>3, <1>13, QuietStep DEF u, v

\* What interrupt() makes of a process (Trap).
LEMMA TrapKeepsShape ==
    ASSUME NEW r \in Process, r.mode \in {"running", "stopped", "listening"}
    PROVE  /\ Trap(r) \in Process
           /\ Trap(r).mode = IF r.mode = "stopped" THEN "stopped" ELSE "running"
           /\ Trap(r).stop = r.stop /\ Trap(r).state = r.state /\ Trap(r).unread = r.unread
           /\ Trap(r).how = r.how /\ Trap(r).opts = r.opts /\ Trap(r).call = r.call
           /\ Trap(r).performed = r.performed /\ Trap(r).message = r.message
           /\ Trap(r).pending = r.pending
<1> DEFINE m == IF r.mode = "stopped" THEN "stopped" ELSE "running"
           v == [r EXCEPT !.mode = m]
           w == [v EXCEPT !.trap = TRUE]
<1>1. Trap(r) = w
  <2>1. CASE r.mode = "stopped"
    <3>1. v = r
      BY <2>1 DEF Process
    <3>2. Trap(r) = [r EXCEPT !.trap = TRUE]
      BY <2>1 DEF Trap
    <3> HIDE DEF v
    <3> QED BY <3>1, <3>2
  <2>2. CASE r.mode # "stopped"
    BY <2>2 DEF Trap
  <2> QED BY <2>1, <2>2
<1>2. m \in Modes
  BY Members
<1>3. m = IF r.mode = "stopped" THEN "stopped" ELSE "running"
  OBVIOUS
<1> HIDE DEF m
<1>4. /\ v \in Process /\ v.mode = m /\ v.stop = r.stop /\ v.state = r.state
      /\ v.unread = r.unread /\ v.how = r.how /\ v.opts = r.opts /\ v.call = r.call
      /\ v.performed = r.performed /\ v.message = r.message /\ v.pending = r.pending
  <2>1. v \in Process
    BY <1>2 DEF Process
  <2> QED BY <1>2, <2>1 DEF Process
<1> HIDE DEF v
<1>5. /\ w \in Process /\ w.mode = v.mode /\ w.stop = v.stop /\ w.state = v.state
      /\ w.unread = v.unread /\ w.how = v.how /\ w.opts = v.opts /\ w.call = v.call
      /\ w.performed = v.performed /\ w.message = v.message /\ w.pending = v.pending
  <2>1. w \in Process
    BY <1>4, FlagChanges, Zenon
  <2> QED BY <1>4, <2>1 DEF Process
<1> HIDE DEF w
<1> QED BY <1>1, <1>3, <1>4, <1>5

\* A CONT that was sent ends a group-stop.
LEMMA ContKeepsShape ==
    ASSUME NEW r \in Process, NEW u, u = [r EXCEPT !.grouped = FALSE, !.continued = TRUE]
    PROVE  /\ u \in Process /\ u.mode = r.mode /\ u.stop = r.stop /\ u.state = r.state
           /\ u.unread = r.unread /\ u.how = r.how /\ u.opts = r.opts /\ u.call = r.call
           /\ u.performed = r.performed /\ u.message = r.message /\ u.pending = r.pending
<1> DEFINE v == [r EXCEPT !.grouped = FALSE]
           w == [v EXCEPT !.continued = TRUE]
<1>1. v \in Process
  BY FlagChanges, Zenon
<1>2. w \in Process
  <2> HIDE DEF v
  <2> QED BY <1>1, FlagChanges, Zenon
<1>3. u = w
  OBVIOUS
<1>4. /\ w.mode = r.mode /\ w.stop = r.stop /\ w.state = r.state
      /\ w.unread = r.unread /\ w.how = r.how /\ w.opts = r.opts /\ w.call = r.call
      /\ w.performed = r.performed /\ w.message = r.message /\ w.pending = r.pending
  BY DEF Process
<1> HIDE DEF w
<1> QED BY <1>2, <1>3, <1>4

\* What Send() makes of a process.
LEMMA SentKeepsShape ==
    ASSUME NEW r \in Process, NEW sig \in OtherSignal, r.mode \in {"running", "stopped", "listening"},
           NEW u, u = Sent(r, sig)
    PROVE  /\ u \in Process
           /\ u.mode \in {r.mode, "running"} /\ (r.mode = "stopped" => u.mode = "stopped")
           /\ u.stop = r.stop /\ u.state = r.state /\ u.unread = r.unread
           /\ u.how = r.how /\ u.opts = r.opts /\ u.call = r.call
           /\ u.performed = r.performed /\ u.message = r.message
           /\ sig \in u.pending /\ u.pending \subseteq r.pending \union {sig}
<1> DEFINE left == CASE sig = SigNr.CONT -> r.pending \ {SigNr.STOP}
                     [] sig = SigNr.STOP -> r.pending \ {SigNr.CONT}
                     [] OTHER -> r.pending
           v == [r EXCEPT !.pending = left \union {sig}]
<1>1. left \subseteq r.pending
  OBVIOUS
<1>2. Sent(r, sig) = IF sig # SigNr.CONT THEN v
                     ELSE IF r.how = "seize" THEN [Trap(v) EXCEPT !.grouped = FALSE, !.continued = TRUE]
                     ELSE [v EXCEPT !.grouped = FALSE, !.continued = TRUE]
  BY DEF Sent, Process
<1> HIDE DEF left
<1>3. left \union {sig} \in SUBSET OtherSignal
  BY <1>1 DEF Process
<1>4. /\ v \in Process /\ v.mode = r.mode /\ v.stop = r.stop /\ v.state = r.state
      /\ v.unread = r.unread /\ v.how = r.how /\ v.opts = r.opts /\ v.call = r.call
      /\ v.performed = r.performed /\ v.message = r.message /\ v.pending = left \union {sig}
  BY <1>3 DEF Process
<1>5. sig \in v.pending /\ v.pending \subseteq r.pending \union {sig}
  BY <1>1, <1>4
<1> HIDE DEF v
<1>6. CASE sig # SigNr.CONT
  BY <1>2, <1>4, <1>5, <1>6
<1>7. CASE sig = SigNr.CONT /\ r.how = "seize"
  <2> DEFINE w == Trap(v)
  <2>1. /\ w \in Process
        /\ w.mode = IF v.mode = "stopped" THEN "stopped" ELSE "running"
        /\ w.stop = v.stop /\ w.state = v.state /\ w.unread = v.unread
        /\ w.how = v.how /\ w.opts = v.opts /\ w.call = v.call
        /\ w.performed = v.performed /\ w.message = v.message /\ w.pending = v.pending
    BY <1>4, TrapKeepsShape
  <2> HIDE DEF w
  <2>2. u = [w EXCEPT !.grouped = FALSE, !.continued = TRUE]
    BY <1>2, <1>7 DEF w
  <2>3. /\ u \in Process /\ u.mode = w.mode /\ u.stop = w.stop /\ u.state = w.state
        /\ u.unread = w.unread /\ u.how = w.how /\ u.opts = w.opts /\ u.call = w.call
        /\ u.performed = w.performed /\ u.message = w.message /\ u.pending = w.pending
    BY <2>1, <2>2, ContKeepsShape, ZenonT(30)
  <2> QED BY <1>4, <1>5, <2>1, <2>3
<1>8. CASE sig = SigNr.CONT /\ r.how # "seize"
  <2>1. u = [v EXCEPT !.grouped = FALSE, !.continued = TRUE]
    BY <1>2, <1>8
  <2>2. /\ u \in Process /\ u.mode = v.mode /\ u.stop = v.stop /\ u.state = v.state
        /\ u.unread = v.unread /\ u.how = v.how /\ u.opts = v.opts /\ u.call = v.call
        /\ u.performed = v.performed /\ u.message = v.message /\ u.pending = v.pending
    BY <1>4, <2>1, ContKeepsShape, ZenonT(30)
  <2> QED BY <1>4, <1>5, <2>2
<1> QED BY <1>6, <1>7, <1>8

\* Each signal that is sent is on its way, once; what it takes away is not owed
\* any more.
LEMMA SendKeeps ==
    ASSUME IInv, NEW p \in Proc, NEW sig \in OtherSignal, Send(p, sig)
    PROVE  IInv'
<1> DEFINE r == proc[p]
           u == Sent(r, sig)
           owes == owed[p]
           owes2 == [s \in OtherSignal |->
                       IF s = sig THEN IF s \in r.pending THEN owes[s] ELSE owes[s] + 1
                       ELSE IF s \in r.pending \ u.pending THEN owes[s] - 1 ELSE owes[s]]
<1>1. Fits(p, r, owes, announced[p], known)
  BY DEF IInv
<1>2. r \in Process /\ owes \in [OtherSignal -> Int]
  BY <1>1 DEF Fits
<1>3. /\ r.mode \in {"running", "stopped", "listening"}
      /\ proc' = [proc EXCEPT ![p] = u] /\ proc'[p] = u
      /\ UNCHANGED <<seen, known, announced>>
  BY DEF Send, Alive, IInv
<1>4. owed' = [owed EXCEPT ![p] = owes2]
  BY <1>3 DEF Send, IInv
<1>5. /\ u \in Process
      /\ u.mode \in {r.mode, "running"} /\ (r.mode = "stopped" => u.mode = "stopped")
      /\ u.stop = r.stop /\ u.state = r.state /\ u.unread = r.unread
      /\ u.how = r.how /\ u.opts = r.opts /\ u.call = r.call
      /\ u.performed = r.performed /\ u.message = r.message
      /\ sig \in u.pending /\ u.pending \subseteq r.pending \union {sig}
  <2> HIDE DEF r
  <2> QED BY <1>2, <1>3, SentKeepsShape
<1>6. owes2 \in [OtherSignal -> Int]
  BY <1>2
<1> HIDE DEF u
<1>7. \A s \in OtherSignal : owes2[s] - owes[s] = OnTheWay(u, s) - OnTheWay(r, s)
  <2> TAKE s \in OtherSignal
  <2>1. owes[s] \in Int
    BY <1>2
  <2>2. CASE s = sig /\ s \in r.pending
    BY <1>5, <2>1, <2>2 DEF OnTheWay
  <2>3. CASE s = sig /\ s \notin r.pending
    BY <1>5, <2>1, <2>3 DEF OnTheWay
  <2>4. CASE s # sig /\ s \in r.pending /\ s \notin u.pending
    BY <1>5, <2>1, <2>4 DEF OnTheWay
  <2>5. CASE s # sig /\ ~(s \in r.pending /\ s \notin u.pending)
    BY <1>5, <2>1, <2>5 DEF OnTheWay
  <2> QED BY <2>2, <2>3, <2>4, <2>5
<1> HIDE DEF owes2
<1>8. \A s \in OtherSignal : OnTheWay(u, s) \in Int /\ OnTheWay(r, s) \in Int
  BY DEF OnTheWay
<1>9. OwedIsOnTheWay(p, u, owes2, known)
  <2>1. u.mode # "absent" /\ r.mode \in Lives
    BY <1>3, <1>5 DEF Lives
  <2>2. ASSUME NEW s \in OtherSignal, ~(s = SigNr.STOP /\ (u.how = "attach" \/ p \in known))
        PROVE  owes2[s] = OnTheWay(u, s)
    <3>1. owes[s] = OnTheWay(r, s)
      BY <1>1, <1>5, <2>1, <2>2 DEF Fits, OwedIsOnTheWay
    <3>2. owes2[s] \in Int /\ owes[s] \in Int
      BY <1>2, <1>6
    <3> QED BY <1>7, <1>8, <3>1, <3>2
  <2> QED BY <2>1, <2>2 DEF OwedIsOnTheWay
<1>10. StopIsReported(u) /\ OptionsAreTracers(u)
  <2>1. u.mode \in {"running", "stopped", "listening"}
    BY <1>3, <1>5
  <2>2. r.mode # "stopped" => u.mode # "stopped"
    BY <1>3, <1>5
  <2>3. StopIsReported(r) /\ OptionsAreTracers(r)
    BY <1>1 DEF Fits
  <2>4. Reports(r, r.state.signal) => Reports(u, r.state.signal)
    BY <1>5 DEF Reports
  <2>5. r.unread => r.mode = "stopped"
    BY <1>3, <2>3 DEF StopIsReported
  <2> QED BY <1>3, <1>5, <2>1, <2>2, <2>3, <2>4, <2>5 DEF StopIsReported, OptionsAreTracers
<1>11. EndsAsAnnounced(u, announced[p])
  BY <1>1, <1>3, <1>5 DEF Fits, EndsAsAnnounced
<1>12. Fits(p, u, owes2, announced[p], known)
  BY <1>1, <1>5, <1>6, <1>9, <1>10, <1>11 DEF Fits
<1> HIDE DEF r
<1> QED BY <1>3, <1>4, <1>5, <1>12, KernelStep DEF r

\* A process that is killed owes nothing, and its end was not announced.
LEMMA KillKeeps ==
    ASSUME IInv, NEW p \in Proc, Kill(p)
    PROVE  IInv'
<1> DEFINE r == proc[p]
           zero == [s \in OtherSignal |-> 0]
           u == Ended(r, Killed(SigNr.KILL))
<1>1. Fits(p, r, owed[p], announced[p], known)
  BY DEF IInv
<1>2. r \in Process
  BY <1>1 DEF Fits
<1>3. /\ r.mode \in {"running", "stopped", "listening"}
      /\ proc' = [proc EXCEPT ![p] = u] /\ owed' = [owed EXCEPT ![p] = zero]
      /\ UNCHANGED <<seen, known, announced>>
  BY DEF Kill, Alive, IInv
<1>4. Killed(SigNr.KILL) \in ChildState /\ Killed(SigNr.KILL).event = "KILLED"
  BY StatesOfChildren DEF Killed
<1>5. u.mode = "zombie"
  BY <1>2 DEF Ended, Process
<1>6. zero \in [OtherSignal -> Int]
  OBVIOUS
<1> HIDE DEF r, zero
<1>7. Fits(p, u, zero, announced[p], known)
  BY <1>1, <1>3, <1>4, <1>6, EndedFits
<1> HIDE DEF u
<1> QED BY <1>3, <1>5, <1>7, KernelStep DEF r

-----------------------------------------------------------------------------
(* Steps of the tracer *)

\* A process becomes a tracee (seize(), attach()); the STOP of attach() is not
\* owed to it.
LEMMA TracingKeeps ==
    ASSUME IInv, NEW p \in Proc,
           attach(p) \/ \E options \in OptSets : seize(p, options)
    PROVE  IInv'
<1> DEFINE r == proc[p]
<1>1. Fits(p, r, owed[p], announced[p], known)
  BY DEF IInv
<1>2. r \in Process
  BY <1>1 DEF Fits
<1>3. ASSUME NEW u \in Process, r.mode = "running", u.mode = "running", r.how = "no",
             u.stop = r.stop, u.state = r.state, u.unread = r.unread, u.call = r.call,
             u.performed = r.performed, u.message = r.message,
             u.how \in {"seize", "attach"},
             u.pending = IF u.how = "attach" THEN r.pending \union {SigNr.STOP} ELSE r.pending
      PROVE  Fits(p, u, owed[p], announced[p], known)
  <2>1. StopIsReported(u) /\ OptionsAreTracers(u)
    BY <1>1, <1>3 DEF Fits, StopIsReported, OptionsAreTracers
  <2>2. EndsAsAnnounced(u, announced[p])
    BY <1>1, <1>3 DEF Fits, EndsAsAnnounced
  <2>3. OwedIsOnTheWay(p, u, owed[p], known)
    BY <1>1, <1>3 DEF Fits, OwedIsOnTheWay, OnTheWay, Lives
  <2> QED BY <1>1, <2>1, <2>2, <2>3 DEF Fits
<1>4. CASE attach(p)
  <2> DEFINE u == [r EXCEPT !.how = "attach", !.pending = @ \union {SigNr.STOP}]
  <2>1. /\ r.mode = "running" /\ r.how = "no" /\ UNCHANGED <<owed, seen, known, announced>>
    BY <1>2, <1>4 DEF attach, Traced
  <2>2. proc' = [proc EXCEPT ![p] = u]
    <3>1. p \in DOMAIN proc
      BY DEF IInv
    <3> QED BY <1>2, <1>4, <3>1 DEF attach, Process
  <2>3. SigNr.STOP \in OtherSignal
    BY DEF OtherSignal
  <2>4. /\ u \in Process /\ u.mode = r.mode /\ u.stop = r.stop /\ u.state = r.state
        /\ u.unread = r.unread /\ u.call = r.call /\ u.performed = r.performed
        /\ u.message = r.message /\ u.how = "attach"
        /\ u.pending = r.pending \union {SigNr.STOP}
    <3> DEFINE v == [r EXCEPT !.how = "attach"]
               more == r.pending \union {SigNr.STOP}
    <3>1. v \in Process
      BY <1>2, Members DEF Process
    <3>2. more \in SUBSET OtherSignal
      BY <1>2, <2>3 DEF Process
    <3>3. u = [v EXCEPT !.pending = more]
      BY <1>2 DEF Process
    <3>4. u \in Process
      <4> HIDE DEF u, v, more
      <4> QED BY <3>1, <3>2, <3>3 DEF Process
    <3> QED BY <1>2, <3>4 DEF Process
  <2> HIDE DEF u, r
  <2>5. Fits(p, u, owed[p], announced[p], known)
    BY <1>3, <2>1, <2>4
  <2> QED BY <2>1, <2>2, <2>5, QuietStep DEF r
<1>5. ASSUME NEW options \in OptSets, seize(p, options) PROVE IInv'
  <2> DEFINE u == [r EXCEPT !.how = "seize", !.opts = options]
  <2>1. /\ r.mode = "running" /\ r.how = "no" /\ UNCHANGED <<owed, seen, known, announced>>
    BY <1>2, <1>5 DEF seize, Traced
  <2>2. proc' = [proc EXCEPT ![p] = u]
    <3>1. p \in DOMAIN proc
      BY DEF IInv
    <3> QED BY <1>2, <1>5, <3>1, ZenonT(30) DEF seize
  <2>3. options \in SUBSET Opt
    BY TracingAssumption
  <2>4. /\ u \in Process /\ u.mode = r.mode /\ u.stop = r.stop /\ u.state = r.state
        /\ u.unread = r.unread /\ u.call = r.call /\ u.performed = r.performed
        /\ u.message = r.message /\ u.how = "seize" /\ u.pending = r.pending
    <3> DEFINE v == [r EXCEPT !.how = "seize"]
    <3>1. v \in Process
      BY <1>2, Members DEF Process
    <3>2. u = [v EXCEPT !.opts = options]
      OBVIOUS
    <3>3. u \in Process
      <4> HIDE DEF u, v
      <4> QED BY <2>3, <3>1, <3>2 DEF Process
    <3> QED BY <1>2, <3>3 DEF Process
  <2> HIDE DEF u, r
  <2>5. Fits(p, u, owed[p], announced[p], known)
    BY <1>3, <2>1, <2>4
  <2> QED BY <2>1, <2>2, <2>5, QuietStep DEF r
<1> QED BY <1>4, <1>5

\* An interrupt leaves what a process reports and what is on its way.
LEMMA InterruptKeeps ==
    ASSUME IInv, NEW p \in Proc, interrupt(p)
    PROVE  IInv'
<1> DEFINE r == proc[p]
           u == Trap(r)
<1>1. Fits(p, r, owed[p], announced[p], known)
  BY DEF IInv
<1>2. r \in Process /\ StopIsReported(r)
  BY <1>1 DEF Fits
<1>3. /\ r.mode \in {"running", "stopped", "listening"} /\ r.how = "seize"
      /\ proc' = [proc EXCEPT ![p] = u] /\ UNCHANGED <<owed, seen, known, announced>>
  BY DEF interrupt, Alive, IInv
<1> HIDE DEF r
<1>4. /\ u \in Process
      /\ u.mode = IF r.mode = "stopped" THEN "stopped" ELSE "running"
      /\ u.stop = r.stop /\ u.state = r.state /\ u.unread = r.unread
      /\ u.how = r.how /\ u.opts = r.opts /\ u.call = r.call
      /\ u.performed = r.performed /\ u.message = r.message /\ u.pending = r.pending
  BY <1>2, <1>3, TrapKeepsShape
<1> HIDE DEF u
<1>5. Reports(r, r.state.signal) => Reports(u, r.state.signal)
  BY <1>4 DEF Reports
<1>6. StopIsReported(u)
  BY <1>2, <1>3, <1>4, <1>5 DEF StopIsReported
<1>7. OptionsAreTracers(u)
  BY <1>3, <1>4 DEF OptionsAreTracers
<1>8. EndsAsAnnounced(u, announced[p])
  BY <1>1, <1>3, <1>4 DEF Fits, EndsAsAnnounced
<1>9. OwedIsOnTheWay(p, u, owed[p], known)
  BY <1>1, <1>3, <1>4 DEF Fits, OwedIsOnTheWay, OnTheWay, Lives
<1>10. Fits(p, u, owed[p], announced[p], known)
  BY <1>1, <1>4, <1>6, <1>7, <1>8, <1>9 DEF Fits
<1>11. owed' = [owed EXCEPT ![p] = owed[p]]
  BY <1>3 DEF IInv
<1> HIDE DEF u
<1> QED BY <1>3, <1>4, <1>10, <1>11, KernelStep, ZenonT(30) DEF r

\* What wait() returns is how the process is, and what it announced.
LEMMA WaitKeeps ==
    ASSUME IInv, NEW p \in Proc, wait(p)
    PROVE  IInv'
<1> DEFINE r == proc[p]
           m == IF r.mode = "zombie" THEN "gone" ELSE r.mode
           u == [r EXCEPT !.unread = FALSE, !.mode = m]
<1>1. Fits(p, r, owed[p], announced[p], known)
  BY DEF IInv
<1>2. r \in Process /\ StopIsReported(r) /\ EndsAsAnnounced(r, announced[p])
  BY <1>1 DEF Fits
<1>3. /\ r.unread /\ UNCHANGED <<owed, known, announced>>
      /\ seen' = [pid |-> p, state |-> r.state]
  BY DEF wait
<1>4. proc' = [proc EXCEPT ![p] = u] /\ proc'[p] = u
  <2>1. p \in DOMAIN proc
    BY DEF IInv
  <2>2. proc' = [proc EXCEPT ![p] = u]
    BY DEF wait
  <2> HIDE DEF u
  <2> QED BY <2>1, <2>2
<1>5. r.mode \in {"stopped", "zombie"}
  BY <1>2, <1>3 DEF StopIsReported
<1>6. m = IF r.mode = "zombie" THEN "gone" ELSE "stopped"
  BY <1>5
<1> HIDE DEF m
<1>7. /\ u \in Process /\ u.mode = m /\ u.unread = FALSE
      /\ u.stop = r.stop /\ u.state = r.state
      /\ u.how = r.how /\ u.opts = r.opts /\ u.call = r.call
      /\ u.performed = r.performed /\ u.message = r.message /\ u.pending = r.pending
  <2> DEFINE v == [r EXCEPT !.mode = m]
  <2>1. m \in Modes
    BY <1>6, Members
  <2>2. /\ v \in Process /\ v.mode = m
        /\ v.stop = r.stop /\ v.state = r.state
        /\ v.how = r.how /\ v.opts = r.opts /\ v.call = r.call
        /\ v.performed = r.performed /\ v.message = r.message /\ v.pending = r.pending
    BY <1>2, <2>1 DEF Process
  <2>3. u = [v EXCEPT !.unread = FALSE]
    BY <1>2 DEF Process
  <2> HIDE DEF u, v
  <2>4. u \in Process
    BY <2>2, <2>3, FlagChanges, Zenon
  <2> QED BY <2>2, <2>3, <2>4 DEF Process
<1> HIDE DEF u, r
<1>8. StopIsReported(u)
  <2>1. Reports(r, r.state.signal) => Reports(u, r.state.signal)
    BY <1>7 DEF Reports
  <2> QED BY <1>2, <1>5, <1>6, <1>7, <2>1 DEF StopIsReported
<1>9. OptionsAreTracers(u)
  BY <1>1, <1>5, <1>6, <1>7 DEF Fits, OptionsAreTracers
<1>10. EndsAsAnnounced(u, announced[p])
  BY <1>2, <1>6, <1>7 DEF EndsAsAnnounced
<1>11. OwedIsOnTheWay(p, u, owed[p], known)
  BY <1>1, <1>5, <1>6, <1>7 DEF Fits, OwedIsOnTheWay, OnTheWay, Lives
<1>12. Fits(p, u, owed[p], announced[p], known)
  BY <1>1, <1>7, <1>8, <1>9, <1>10, <1>11 DEF Fits
<1>13. SeenIsCurrent'
  <2>1. seen'.pid = p /\ seen'.state = r.state
    BY <1>3
  <2>2. r.state \in ChildState
    BY <1>2 DEF Process
  <2>3. r.state.event = "TRAPPED" => u.mode = "stopped" /\ ~u.unread /\ u.state = r.state
    BY <1>2, <1>5, <1>6, <1>7 DEF StopIsReported
  <2>4. r.state.event = "EXITED" => announced[p] \in {NoStatus, 256 * r.state.status}
    BY <1>2 DEF EndsAsAnnounced
  <2> QED BY <1>3, <1>4, <2>1, <2>2, <2>3, <2>4 DEF SeenIsCurrent
<1>14. /\ owed' = [owed EXCEPT ![p] = owed[p]]
       /\ announced' = [announced EXCEPT ![p] = announced[p]]
  BY <1>3 DEF IInv
<1> QED BY <1>3, <1>4, <1>12, <1>13, <1>14, OneProcess

\* What the decoders of the library make of the signal of each stop is the stop
\* (isPtraceEventStop(), decode_event(), getSyscallInfo(), getSigInfo()).
LEMMA StopsAreDecoded ==
    ASSUME NEW p, NEW sig, proc[p].how \in {"no", "seize", "attach"}, Reports(proc[p], sig),
           proc[p].state.signal = sig,
           proc[p].stop \in {"signal", "entry", "exit", "fork", "exiting", "trap", "group"}
    PROVE  Understood(p, sig) = Told(proc[p])
<1> DEFINE kind == proc[p].stop
<1>1. CASE kind = "signal"
  <2>1. sig \in {5, 10, 18, 19}
    BY <1>1, Numbers DEF Reports
  <2>2. ~isPtraceEventStop(sig)
    BY <2>1, Numbers DEF isPtraceEventStop
  <2>3. SiCode(p) = 0 /\ SyscallInfoType(p) = "NONE"
    BY <1>1, Numbers DEF SiCode, SyscallInfoType
  <2> QED BY <1>1, <2>2, <2>3, Numbers DEF Understood, HasSigInfo, Told
<1>2. CASE kind \in {"entry", "exit"}
  <2>1. SiCode(p) = sig /\ sig = IF "TRACESYSGOOD" \in proc[p].opts THEN 133 ELSE 5
    BY <1>2, Numbers DEF Reports, SiCode
  <2>2. ~(isPtraceEventStop(sig) /\ sig # SigNr.SYS_TRAP) /\ sig \in {SigNr.TRAP, SigNr.SYS_TRAP}
    BY <2>1, Numbers DEF isPtraceEventStop
  <2>3. CASE "TRACESYSGOOD" \in proc[p].opts
    <3>1. SyscallInfoType(p) = IF kind = "entry" THEN "ENTRY" ELSE "EXIT"
      BY <1>2, <2>1, <2>3, Numbers DEF SyscallInfoType
    <3> QED BY <1>2, <2>2, <2>3, <3>1 DEF Understood, Told
  <2>4. CASE "TRACESYSGOOD" \notin proc[p].opts
    <3>1. SyscallInfoType(p) = "NONE" /\ sig = SigNr.TRAP /\ SiCode(p) = SigNr.TRAP
      BY <2>1, <2>4, Numbers DEF SyscallInfoType
    <3> QED BY <1>2, <2>2, <2>4, <3>1 DEF Understood, HasSigInfo, Told
  <2> QED BY <2>3, <2>4
<1>3. CASE kind \in {"fork", "exiting", "trap"}
  <2> DEFINE event == CASE kind = "fork" -> 1 [] kind = "exiting" -> 6 [] kind = "trap" -> 128
  <2>1. sig = 5 + 256 * event /\ event \in {1, 6, 128}
    BY <1>3, Numbers DEF Reports, WithEvent
  <2> HIDE DEF event
  <2>2. sig \in {261, 1541, 32773}
    BY <2>1
  <2>3. isPtraceEventStop(sig) /\ sig # SigNr.SYS_TRAP
    BY <2>2, Numbers DEF isPtraceEventStop
  <2>4. sig % 256 = 5 /\ sig \div 256 = event
    BY <2>1, <2>2
  <2>5. decode_event(sig).signr = 5 /\ decode_event(sig).event = event
    BY <2>4 DEF decode_event
  <2> QED BY <1>3, <2>3, <2>5, Numbers DEF Understood, event, Told
<1>4. CASE kind = "group" /\ proc[p].how = "seize"
  <2>1. sig = 19 + 256 * 128
    BY <1>4, Numbers DEF Reports
  <2>2. isPtraceEventStop(sig) /\ sig # SigNr.SYS_TRAP
    BY <2>1, Numbers DEF isPtraceEventStop
  <2>3. sig % 256 = 19 /\ sig \div 256 = 128
    BY <2>1
  <2>4. decode_event(sig).signr = 19 /\ decode_event(sig).event = 128
    BY <2>3 DEF decode_event
  <2> QED BY <1>4, <2>2, <2>4, Numbers DEF Understood, Told
<1>5. CASE kind = "group" /\ proc[p].how # "seize"
  <2>1. sig = 19
    BY <1>5, Numbers DEF Reports
  <2>2. ~isPtraceEventStop(sig) /\ sig \notin {SigNr.TRAP, SigNr.SYS_TRAP}
    BY <2>1, Numbers DEF isPtraceEventStop
  <2> QED BY <1>5, <2>2 DEF Understood, HasSigInfo, Told
<1> QED BY <1>1, <1>2, <1>3, <1>4, <1>5

\* So the tracer understands the stop that it has been told of.
LEMMA SeenIsUnderstood ==
    ASSUME IInv, NEW p \in Proc, IsSeen(p)
    PROVE  /\ Kind(p) = Told(proc[p]) /\ seen.state = proc[p].state
           /\ proc[p].mode = "stopped" /\ ~proc[p].unread
           /\ proc[p].stop = "signal" => proc[p].state.signal \in OtherSignal
<1>1. Fits(p, proc[p], owed[p], announced[p], known)
  BY DEF IInv
<1>2. proc[p].mode = "stopped" /\ proc[p].state = seen.state /\ ~proc[p].unread
  BY DEF IInv, SeenIsCurrent, IsSeen
<1>3. proc[p].state.signal \in Nat /\ Reports(proc[p], proc[p].state.signal)
  BY <1>1, <1>2 DEF Fits, StopIsReported
<1>4. proc[p].stop # "none"
  BY <1>3 DEF Reports
<1>5. Understood(p, proc[p].state.signal) = Told(proc[p])
  BY <1>1, <1>3, <1>4, StopsAreDecoded DEF Fits, Process, Hows, Stops
<1>6. proc[p].stop = "signal" => proc[p].state.signal \in OtherSignal
  BY <1>3 DEF Reports
<1> QED BY <1>2, <1>5, <1>6 DEF Kind

\* What is delivered to a process that stopped for it (Delivered()).
LEMMA DeliveredKeepsShape ==
    ASSUME NEW r \in Process, NEW sig \in OtherSignal, NEW u, u = Delivered(r, sig)
    PROVE  \/ u \in {Ended(r, Killed(SigNr.TRAP)), Ended(r, Dumped(SigNr.TRAP))}
           \/ /\ u \in Process
              /\ u.mode = r.mode /\ u.how = r.how /\ u.opts = r.opts /\ u.resume = r.resume
              /\ u.call = r.call /\ u.performed = r.performed /\ u.pending = r.pending
              /\ u.stop = r.stop /\ u.state = r.state /\ u.unread = r.unread
              /\ u.message = r.message
<1>1. CASE sig = SigNr.STOP
  <2> DEFINE v == [r EXCEPT !.grouped = ~r.continued]
             w == [v EXCEPT !.trap = r.trap \/ ~r.continued]
  <2>1. u = w
    BY <1>1, Numbers DEF Delivered, Process
  <2>2. \A x \in Process, b \in BOOLEAN :
          [x EXCEPT !.grouped = b] \in Process /\ [x EXCEPT !.trap = b] \in Process
    BY FlagChanges, Zenon
  <2>3. (~r.continued) \in BOOLEAN /\ (r.trap \/ ~r.continued) \in BOOLEAN
    OBVIOUS
  <2>4. v \in Process
    BY <2>2, <2>3, Zenon
  <2>5. w \in Process
    <3> HIDE DEF v
    <3> QED BY <2>2, <2>3, <2>4, Zenon
  <2>6. /\ w.mode = r.mode /\ w.how = r.how /\ w.opts = r.opts /\ w.resume = r.resume
        /\ w.call = r.call /\ w.performed = r.performed /\ w.pending = r.pending
        /\ w.stop = r.stop /\ w.state = r.state /\ w.unread = r.unread
        /\ w.message = r.message
    BY DEF Process
  <2> HIDE DEF w
  <2> QED BY <2>1, <2>5, <2>6
<1>2. CASE sig = SigNr.TRAP
  BY <1>2, Numbers DEF Delivered
<1>3. CASE sig \notin {SigNr.STOP, SigNr.TRAP}
  BY <1>3 DEF Delivered
<1> QED BY <1>1, <1>2, <1>3

\* A stopped process that goes on, with the signal it stopped for or without
\* one, has what it was owed (Resumed()).
LEMMA ResumedFits ==
    ASSUME NEW p, NEW r, NEW owes, NEW status, NEW knows, Fits(p, r, owes, status, knows),
           r.mode = "stopped", ~r.unread, NEW restart_mode \in RestartMode, NEW data,
           \/ data = SigNr.NONE
           \/ r.stop = "signal" /\ data = r.state.signal /\ data \in OtherSignal,
           restart_mode = "DETACH" => r.how = "seize" \/ p \in knows,
           NEW u, u = Resumed(r, restart_mode, data), NEW owes2 \in [OtherSignal -> Int],
           u.mode # "zombie" =>
               \A s \in OtherSignal :
                   \/ s = SigNr.STOP /\ (r.how = "attach" \/ p \in knows)
                   \/ owes2[s] = owes[s] - (IF r.stop = "signal" /\ r.state.signal = s THEN 1 ELSE 0)
    PROVE  Fits(p, u, owes2, status, knows)
<1> DEFINE r1 == IF data = SigNr.NONE THEN r ELSE Delivered(r, data)
           endings == {Ended(r, Killed(SigNr.TRAP)), Ended(r, Dumped(SigNr.TRAP))}
<1>1. /\ r \in Process /\ owes \in [OtherSignal -> Int] /\ status \in Int
      /\ StopIsReported(r) /\ OptionsAreTracers(r) /\ EndsAsAnnounced(r, status)
      /\ OwedIsOnTheWay(p, r, owes, knows)
  BY DEF Fits
<1>2. \/ r1 \in endings
      \/ /\ r1 \in Process
         /\ r1.mode = r.mode /\ r1.how = r.how /\ r1.opts = r.opts /\ r1.resume = r.resume
         /\ r1.call = r.call /\ r1.performed = r.performed /\ r1.pending = r.pending
         /\ r1.stop = r.stop /\ r1.state = r.state /\ r1.unread = r.unread
         /\ r1.message = r.message
  <2>1. CASE data = SigNr.NONE
    BY <1>1, <2>1
  <2>2. CASE data # SigNr.NONE
    <3>1. data \in OtherSignal /\ r1 = Delivered(r, data)
      BY <2>2
    <3> HIDE DEF r1
    <3> QED BY <1>1, <3>1, DeliveredKeepsShape
  <2> QED BY <2>1, <2>2
<1>3. u = LET r2 == [r1 EXCEPT !.stop = "none"]
          IN IF r1.mode = "zombie" THEN r1
             ELSE CASE restart_mode = "DETACH" -> [r2 EXCEPT !.mode = "free", !.how = "no"]
                    [] restart_mode = "LISTEN" ->
                          [r2 EXCEPT !.mode = IF r.trap THEN "running" ELSE "listening"]
                    [] OTHER -> [r2 EXCEPT !.mode = "running", !.resume = restart_mode]
  <2>1. data # SigNr.NONE => r.stop = "signal"
    OBVIOUS
  <2> QED BY <2>1 DEF Resumed
<1> HIDE DEF r1
<1>4. CASE r1 \in endings
  <2>1. PICK state \in {Killed(SigNr.TRAP), Dumped(SigNr.TRAP)} : r1 = Ended(r, state)
    BY <1>4
  <2>2. r1.mode = "zombie"
    BY <1>1, <2>1 DEF Ended, Process
  <2>3. u = r1
    BY <1>3, <2>2
  <2>4. state \in ChildState /\ state.event \in {"KILLED", "DUMPED"}
    BY <2>1, StatesOfChildren DEF Killed, Dumped
  <2>5. Fits(p, r1, owes2, status, knows)
    BY <2>1, <2>4, EndedFits
  <2> QED BY <2>3, <2>5
<1>5. CASE r1 \notin endings
  <2> DEFINE r2 == [r1 EXCEPT !.stop = "none"]
  <2>1. /\ r2 \in Process
        /\ r2.mode = r.mode /\ r2.how = r.how /\ r2.opts = r.opts
        /\ r2.call = r.call /\ r2.performed = r.performed /\ r2.pending = r.pending
        /\ r2.stop = "none" /\ r2.state = r.state /\ r2.unread = r.unread
        /\ r2.message = r.message
    BY <1>2, <1>5, Members DEF Process
  <2>2. r1.mode # "zombie"
    BY <1>2, <1>5
  <2> HIDE DEF r2
  <2>3. /\ u \in Process
        /\ u.mode \in {"free", "running", "listening"}
        /\ u.mode = "free" => u.how = "no" /\ (r.how = "seize" \/ p \in knows)
        /\ u.mode # "free" => u.how = r.how
        /\ u.opts = r.opts /\ u.call = r.call /\ u.performed = r.performed
        /\ u.pending = r.pending /\ u.stop = "none" /\ u.state = r.state
        /\ u.unread = r.unread /\ u.message = r.message
    <3>1. CASE restart_mode = "DETACH"
      <4> DEFINE x == [r2 EXCEPT !.mode = "free"]
      <4>1. u = [r2 EXCEPT !.mode = "free", !.how = "no"]
        BY <1>3, <2>2, <3>1 DEF r2
      <4>2. /\ x \in Process /\ x.mode = "free" /\ x.how = r.how /\ x.opts = r.opts
            /\ x.call = r.call /\ x.performed = r.performed /\ x.pending = r.pending
            /\ x.stop = "none" /\ x.state = r.state /\ x.unread = r.unread
            /\ x.message = r.message
        BY <2>1, Members DEF Process
      <4>3. u = [x EXCEPT !.how = "no"]
        BY <4>1
      <4> HIDE DEF x
      <4> QED BY <3>1, <4>2, <4>3, Members DEF Process
    <3>2. CASE restart_mode = "LISTEN"
      <4> DEFINE m == IF r.trap THEN "running" ELSE "listening"
      <4>1. u = [r2 EXCEPT !.mode = m]
        BY <1>3, <2>2, <3>2 DEF r2
      <4>2. m \in {"running", "listening"} /\ m \in Modes
        BY Members
      <4> HIDE DEF m
      <4> QED BY <2>1, <4>1, <4>2 DEF Process
    <3>3. CASE restart_mode \in {"CONT", "SYSCALL"}
      <4> DEFINE x == [r2 EXCEPT !.mode = "running"]
      <4>1. u = [r2 EXCEPT !.mode = "running", !.resume = restart_mode]
        BY <1>3, <2>2, <3>3 DEF r2
      <4>2. /\ x \in Process /\ x.mode = "running" /\ x.how = r.how /\ x.opts = r.opts
            /\ x.call = r.call /\ x.performed = r.performed /\ x.pending = r.pending
            /\ x.stop = "none" /\ x.state = r.state /\ x.unread = r.unread
            /\ x.message = r.message
        BY <2>1, Members DEF Process
      <4>3. u = [x EXCEPT !.resume = restart_mode]
        BY <4>1
      <4>4. restart_mode \in Resumes
        BY <3>3, Members
      <4> HIDE DEF x
      <4> QED BY <3>3, <4>2, <4>3, <4>4 DEF Process
    <3> QED BY <3>1, <3>2, <3>3 DEF RestartMode
  <2>4. StopIsReported(u)
    BY <2>3 DEF StopIsReported
  <2>5. OptionsAreTracers(u)
    BY <1>1, <2>3 DEF OptionsAreTracers
  <2>6. EndsAsAnnounced(u, status)
    BY <1>1, <2>3 DEF EndsAsAnnounced
  <2>7. OwedIsOnTheWay(p, u, owes2, knows)
    <3>1. ASSUME NEW s \in OtherSignal, ~(s = SigNr.STOP /\ (u.how = "attach" \/ p \in knows))
          PROVE  owes2[s] = OnTheWay(u, s)
      <4>1. ~(s = SigNr.STOP /\ (r.how = "attach" \/ p \in knows))
        BY <2>3, <3>1
      <4>2. owes[s] = OnTheWay(r, s)
        BY <1>1, <4>1 DEF OwedIsOnTheWay, Lives
      <4>3. owes2[s] = owes[s] - (IF r.stop = "signal" /\ r.state.signal = s THEN 1 ELSE 0)
        BY <2>3, <4>1
      <4> QED BY <2>3, <4>2, <4>3 DEF OnTheWay
    <3> QED BY <2>3, <3>1 DEF OwedIsOnTheWay
  <2> QED BY <1>1, <2>3, <2>4, <2>5, <2>6, <2>7 DEF Fits
<1> QED BY <1>4, <1>5

\* The STOP of attach() is suppressed and the options are set; it was not owed.
LEMMA InitialStopKeeps ==
    ASSUME IInv, NEW p \in Proc, NEW options \in OptSets, HandleInitialStop(p, options)
    PROVE  IInv'
<1> DEFINE r == proc[p]
           v == [r EXCEPT !.opts = options]
           u == Resumed(v, "SYSCALL", SigNr.NONE)
           knows == known \union {p}
<1>1. Fits(p, r, owed[p], announced[p], known)
  BY DEF IInv
<1>2. /\ r \in Process /\ owed[p] \in [OtherSignal -> Int] /\ announced[p] \in Int
      /\ StopIsReported(r) /\ EndsAsAnnounced(r, announced[p])
      /\ OwedIsOnTheWay(p, r, owed[p], known)
  BY <1>1 DEF Fits
<1>3. /\ IsSeen(p) /\ r.how = "attach" /\ Kind(p) = "signal"
      /\ seen.state.signal = SigNr.STOP
      /\ UNCHANGED <<announced, owed>> /\ known' = knows /\ seen' = Nobody
  BY DEF HandleInitialStop, IsInitialStop
<1>4. /\ r.mode = "stopped" /\ ~r.unread /\ r.stop = "signal"
      /\ r.state.signal = SigNr.STOP
  BY <1>3, SeenIsUnderstood DEF Told
<1>5. proc' = [proc EXCEPT ![p] = u]
  BY DEF HandleInitialStop, setOptions, IInv
<1>6. options \in SUBSET Opt
  BY TracingAssumption
<1>7. /\ v \in Process /\ v.mode = r.mode /\ v.how = r.how
      /\ v.call = r.call /\ v.performed = r.performed /\ v.pending = r.pending
      /\ v.stop = r.stop /\ v.state = r.state /\ v.unread = r.unread
      /\ v.message = r.message
  BY <1>2, <1>6 DEF Process
<1> HIDE DEF v, r
<1>8. Fits(p, v, owed[p], announced[p], knows)
  <2>1. Reports(r, r.state.signal) => Reports(v, r.state.signal)
    BY <1>4, <1>7 DEF Reports
  <2>2. StopIsReported(v) /\ OptionsAreTracers(v)
    BY <1>2, <1>3, <1>4, <1>7, <2>1 DEF StopIsReported, OptionsAreTracers
  <2>3. EndsAsAnnounced(v, announced[p])
    BY <1>2, <1>7 DEF EndsAsAnnounced
  <2>4. OwedIsOnTheWay(p, v, owed[p], knows)
    BY <1>2, <1>7 DEF OwedIsOnTheWay, OnTheWay
  <2> QED BY <1>2, <1>7, <2>2, <2>3, <2>4 DEF Fits
<1>9. Fits(p, u, owed[p], announced[p], knows)
  <2>1. p \in knows
    OBVIOUS
  <2>2. \A s \in OtherSignal :
            \/ s = SigNr.STOP /\ (v.how = "attach" \/ p \in knows)
            \/ owed[p][s] = owed[p][s] - (IF v.stop = "signal" /\ v.state.signal = s THEN 1 ELSE 0)
    BY <1>2, <1>4, <1>7, <2>1
  <2>3. "SYSCALL" \in RestartMode
    BY DEF RestartMode
  <2>4. ~v.unread /\ v.mode = "stopped"
    BY <1>4, <1>7
  <2> HIDE DEF knows
  <2> QED BY <1>2, <1>8, <2>1, <2>2, <2>3, <2>4, ResumedFits
<1>10. /\ owed' = [owed EXCEPT ![p] = owed[p]]
       /\ announced' = [announced EXCEPT ![p] = announced[p]]
  BY <1>3 DEF IInv
<1> HIDE DEF u
<1> QED BY <1>3, <1>5, <1>9, <1>10, TracerStep

\* A request of the tracer passes on what the process has stopped for, once, or
\* nothing if that was no signal (restart(), detach()).
LEMMA RestartKeeps ==
    ASSUME IInv, NEW p \in Proc, NEW restart_mode \in RestartMode, NEW signal,
           IsSeen(p), restart(p, restart_mode, signal),
           IF proc[p].stop = "signal"
           THEN restart_mode # "LISTEN" /\ signal = proc[p].state.signal
           ELSE signal = SigNr.NONE,
           restart_mode = "DETACH" => proc[p].how = "seize" \/ p \in known,
           NEW status \in Int, announced' = [announced EXCEPT ![p] = status],
           status # announced[p] => proc[p].stop = "exiting" /\ status = proc[p].message
                                    /\ proc[p].call = "exit" /\ proc[p].performed,
           seen' = Nobody, known' = known
    PROVE  IInv'
<1> DEFINE r == proc[p]
           data == IF restart_mode # "LISTEN" THEN signal ELSE SigNr.NONE
           u == Resumed(r, restart_mode, data)
           owes2 == IF u.mode = "zombie" THEN [s \in OtherSignal |-> 0]
                    ELSE [s \in OtherSignal |-> IF s = data /\ r.stop = "signal" THEN owed[p][s] - 1
                                             ELSE owed[p][s]]
<1>1. Fits(p, r, owed[p], announced[p], known)
  BY DEF IInv
<1>2. /\ r \in Process /\ owed[p] \in [OtherSignal -> Int]
  BY <1>1 DEF Fits
<1>3. /\ r.mode = "stopped" /\ ~r.unread
      /\ r.stop = "signal" => r.state.signal \in OtherSignal
      /\ r.state = seen.state /\ r.state.event = "TRAPPED"
  BY SeenIsUnderstood DEF IsSeen
<1>4. proc' = [proc EXCEPT ![p] = u] /\ proc'[p] = u
  BY DEF restart, IInv
<1>5. owed' = [owed EXCEPT ![p] = owes2]
  BY <1>4 DEF restart, Settled
<1>6. \/ data = SigNr.NONE /\ r.stop # "signal"
      \/ r.stop = "signal" /\ data = r.state.signal /\ data \in OtherSignal
  BY <1>3
<1> HIDE DEF u
<1>7. owes2 \in [OtherSignal -> Int]
  BY <1>2
<1>8. u.mode # "zombie" =>
        \A s \in OtherSignal :
            owes2[s] = owed[p][s] - (IF r.stop = "signal" /\ r.state.signal = s THEN 1 ELSE 0)
  <2> HAVE u.mode # "zombie"
  <2> TAKE s \in OtherSignal
  <2>1. owes2[s] = IF s = data /\ r.stop = "signal" THEN owed[p][s] - 1 ELSE owed[p][s]
    OBVIOUS
  <2>2. owed[p][s] \in Int
    BY <1>2
  <2> HIDE DEF data, owes2
  <2> QED BY <1>6, <2>1, <2>2
<1> HIDE DEF owes2, data, r
<1>9. Fits(p, r, owed[p], status, known)
  <2>1. CASE status = announced[p]
    BY <1>1, <2>1
  <2>2. CASE status # announced[p]
    <3>1. EndsAsAnnounced(r, status)
      BY <1>3, <2>2 DEF EndsAsAnnounced, r
    <3> QED BY <1>1, <3>1 DEF Fits
  <2> QED BY <2>1, <2>2
<1>10. restart_mode = "DETACH" => r.how = "seize" \/ p \in known
  BY DEF r
<1>11. Fits(p, u, owes2, status, known)
  BY <1>3, <1>6, <1>7, <1>8, <1>9, <1>10, ResumedFits DEF u
<1> QED BY <1>4, <1>5, <1>11, TracerStep

\* The tracer handles what it has understood; for the end that a process
\* announces it asks for the event message (getExitEventMsg()).
LEMMA HandlingKeeps ==
    ASSUME IInv, NEW p \in Proc, NEW m \in RestartMode,
           HandleSignal(p, m) \/ HandleGroupStop(p, m) \/ HandleOther(p, m)
    PROVE  IInv'
<1>1. Fits(p, proc[p], owed[p], announced[p], known)
  BY DEF IInv
<1>2. announced[p] \in Int /\ proc[p] \in Process
  BY <1>1 DEF Fits
<1>3. UNCHANGED announced => announced' = [announced EXCEPT ![p] = announced[p]]
  BY DEF IInv
<1>4. CASE HandleSignal(p, m)
  <2>1. /\ IsSeen(p) /\ Kind(p) = "signal" /\ MayUse(p, m) /\ seen' = Nobody
        /\ restart(p, m, seen.state.signal) /\ UNCHANGED <<known, announced>>
    BY <1>4 DEF HandleSignal
  <2>2. proc[p].stop = "signal" /\ seen.state.signal = proc[p].state.signal
    BY <2>1, SeenIsUnderstood DEF Told
  <2>3. m # "LISTEN" /\ (m = "DETACH" => proc[p].how = "seize" \/ p \in known)
    BY <2>1 DEF MayUse
  <2> QED BY <1>2, <1>3, <2>1, <2>2, <2>3, RestartKeeps
<1>5. CASE HandleGroupStop(p, m)
  <2>1. /\ IsSeen(p) /\ Kind(p) = "group" /\ seen' = Nobody
        /\ IF proc[p].how = "seize" THEN m = "LISTEN" ELSE MayUse(p, m)
        /\ restart(p, m, SigNr.NONE) /\ UNCHANGED <<known, announced>>
    BY <1>5 DEF HandleGroupStop
  <2>2. proc[p].stop = "group"
    BY <2>1, SeenIsUnderstood DEF Told
  <2>3. m = "DETACH" => proc[p].how = "seize" \/ p \in known
    BY <2>1 DEF MayUse
  <2> QED BY <1>2, <1>3, <2>1, <2>2, <2>3, RestartKeeps
<1>6. CASE HandleOther(p, m)
  <2> DEFINE status == IF Kind(p) = "exiting" THEN proc[p].message ELSE announced[p]
  <2>1. /\ IsSeen(p) /\ Kind(p) \notin {"signal", "group"} /\ MayUse(p, m) /\ seen' = Nobody
        /\ restart(p, m, SigNr.NONE) /\ UNCHANGED known
        /\ announced' = [announced EXCEPT ![p] = status]
    BY <1>6 DEF HandleOther, IInv
  <2>2. /\ proc[p].stop # "signal" /\ proc[p].mode = "stopped"
        /\ proc[p].stop = "exiting" <=> Kind(p) = "exiting"
    BY <2>1, SeenIsUnderstood DEF Told
  <2>3. m = "DETACH" => proc[p].how = "seize" \/ p \in known
    BY <2>1 DEF MayUse
  <2>4. proc[p].stop = "exiting" => proc[p].call = "exit" /\ proc[p].performed
    BY <1>1, <2>2 DEF Fits, StopIsReported, Reports
  <2>5. status \in Int
    BY <1>2 DEF Process
  <2>6. status # announced[p] => proc[p].stop = "exiting" /\ status = proc[p].message
    BY <2>2
  <2> HIDE DEF status
  <2> QED BY <2>1, <2>2, <2>3, <2>4, <2>5, <2>6, RestartKeeps
<1> QED BY <1>4, <1>5, <1>6

-----------------------------------------------------------------------------
(* The theorems *)

\* In the beginning one process runs, and nothing was sent, told or announced.
LEMMA InitFits == InitTracing => IInv
<1> SUFFICES ASSUME InitTracing PROVE IInv
  OBVIOUS
<1> DEFINE zero == [s \in OtherSignal |-> 0]
           runs == [Absent EXCEPT !.mode = "running"]
<1>1. Absent \in Process
  BY AbsentType
<1>2. runs \in Process
  BY <1>1, Members DEF Process
<1>3. zero \in [OtherSignal -> Int] /\ NoStatus \in Int
  BY DEF NoStatus
<1>4. ASSUME NEW p \in Proc, NEW r \in {Absent, runs}
      PROVE  Fits(p, r, zero, NoStatus, {})
  <2>1. /\ r \in Process /\ r.mode \in {"absent", "running"} /\ r.stop = "none"
        /\ r.unread = FALSE /\ r.pending = {} /\ r.opts = {}
    <3>1. CASE r = Absent
      BY <1>1, <3>1 DEF Absent
    <3>2. CASE r = runs
      BY <1>2, <3>2 DEF Absent
    <3> QED BY <3>1, <3>2
  <2> HIDE DEF runs, zero
  <2>2. StopIsReported(r) /\ OptionsAreTracers(r) /\ EndsAsAnnounced(r, NoStatus)
    BY <2>1 DEF StopIsReported, OptionsAreTracers, EndsAsAnnounced
  <2>3. OwedIsOnTheWay(p, r, zero, {})
    BY <2>1 DEF OwedIsOnTheWay, OnTheWay, zero
  <2> QED BY <1>3, <2>1, <2>2, <2>3 DEF Fits
<1>5. /\ proc \in [Proc -> Process] /\ \A p \in Proc : proc[p] \in {Absent, runs}
  BY <1>1, <1>2, TracingAssumption DEF InitTracing
<1>6. /\ owed = [p \in Proc |-> zero] /\ announced = [p \in Proc |-> NoStatus]
      /\ known = {} /\ seen = Nobody
  BY DEF InitTracing
<1> HIDE DEF zero, runs
<1>7. \A p \in Proc : Fits(p, proc[p], owed[p], announced[p], known)
  BY <1>4, <1>5, <1>6
<1>8. SeenIsCurrent
  BY <1>6 DEF SeenIsCurrent
<1> QED BY <1>3, <1>5, <1>6, <1>7, <1>8 DEF IInv

\* Each step of a process, of the kernel or of the tracer keeps the invariant.
LEMMA NextKeeps == IInv /\ [NextTracing]_tracingVars => IInv'
<1> SUFFICES ASSUME IInv, [NextTracing]_tracingVars PROVE IInv'
  OBVIOUS
<1>1. ASSUME NEW p \in Proc,
             \/ \E call \in {"other", "fork", "exit"} : EnterCall(p, call)
             \/ Fork(p) \/ Perform(p) \/ LeaveCall(p) \/ Exit(p) \/ TakeTrap(p) \/ TakeSignal(p)
             \/ \E sig \in OtherSignal : Send(p, sig)
             \/ Kill(p) \/ attach(p) \/ interrupt(p) \/ wait(p)
      PROVE  IInv'
  BY <1>1, CallsKeep, ForkKeeps, ExitKeeps, TrapKeeps, SignalKeeps, SendKeeps, KillKeeps,
     TracingKeeps, InterruptKeeps, WaitKeeps
<1>2. ASSUME NEW p \in Proc, NEW options \in OptSets,
             seize(p, options) \/ HandleInitialStop(p, options)
      PROVE  IInv'
  BY <1>2, TracingKeeps, InitialStopKeeps
<1>3. ASSUME NEW p \in Proc, NEW m \in RestartMode,
             HandleSignal(p, m) \/ HandleGroupStop(p, m) \/ HandleOther(p, m)
      PROVE  IInv'
  BY <1>3, HandlingKeeps
<1>4. CASE HandleEnd
  BY <1>4 DEF HandleEnd, IInv, SeenIsCurrent
<1>5. CASE Terminated \/ UNCHANGED tracingVars
  BY <1>5 DEF Terminated, tracingVars, IInv, SeenIsCurrent
<1> QED BY <1>1, <1>2, <1>3, <1>4, <1>5 DEF NextTracing

\* How the kernel keeps the tracees, what the tracer knows of them and what is
\* owed to them fit together, whatever they and the tracer do.
THEOREM Invariance == SpecTracing => []IInv
<1>1. SpecTracing => []IInv
  BY InitFits, NextKeeps, PTL DEF SpecTracing
<1> QED BY <1>1

\* A tracer that passes on what it takes for signals delivers each signal once,
\* for any number of processes and signals (restart(), decode_event(),
\* getSyscallInfo(), getSigInfo()).
THEOREM SignalsReachTracees == SpecTracing => []SignalsArriveOnce
<1>1. IInv => SignalsArriveOnce
  <2> SUFFICES ASSUME IInv, NEW p \in Proc, Alive(p) \/ proc[p].mode = "free",
                      NEW s \in Reliable(p)
               PROVE  owed[p][s] = (IF s \in proc[p].pending THEN 1 ELSE 0)
                        + (IF proc[p].stop = "signal" /\ proc[p].state.signal = s THEN 1 ELSE 0)
    BY DEF SignalsArriveOnce
  <2>1. s \in OtherSignal /\ ~(s = SigNr.STOP /\ (proc[p].how = "attach" \/ p \in known))
    BY DEF Reliable
  <2>2. proc[p].mode \in Lives
    BY DEF Alive, Lives
  <2>3. OwedIsOnTheWay(p, proc[p], owed[p], known)
    BY DEF IInv, Fits
  <2> QED BY <2>1, <2>2, <2>3 DEF OwedIsOnTheWay, OnTheWay
<1> QED BY <1>1, Invariance, PTL

\* The tracer takes each stop for what it is, and what wait() and
\* getExitEventMsg() return agree (decode_event(), SyscallInfo, WaitStatus).
THEOREM StopsAreToldApart == SpecTracing => []StopsAreUnderstood
<1>1. IInv => StopsAreUnderstood
  <2> SUFFICES ASSUME IInv PROVE StopsAreUnderstood
    OBVIOUS
  <2>1. \A p \in Proc : IsSeen(p) => Kind(p) = Told(proc[p])
    BY SeenIsUnderstood
  <2>2. ASSUME seen # Nobody PROVE StatusAgrees(seen.pid, seen.state)
    <3> DEFINE state == seen.state
               wstatus == WaitStatusOf(state)
    <3>1. state \in ChildState
      BY <2>2 DEF IInv, SeenIsCurrent
    <3>2. CASE \E code \in {0, 1} : state = Exited(code)
      <4>1. PICK code \in {0, 1} : state = Exited(code)
        BY <3>2
      <4>2. state.event = "EXITED" /\ state.status = code
        BY <4>1 DEF Exited
      <4>3. announced[seen.pid] \in {NoStatus, 256 * code}
        BY <2>2, <4>2 DEF IInv, SeenIsCurrent
      <4>4. wstatus = 256 * code /\ wstatus \in {0, 256}
        BY <4>2 DEF WaitStatusOf
      <4> HIDE DEF wstatus
      <4>5. wstatus % 128 = 0 /\ wstatus % 256 = 0 /\ (wstatus \div 256) % 256 = code
        BY <4>4
      <4> HIDE DEF state
      <4> QED BY <4>2, <4>3, <4>4, <4>5 DEF StatusAgrees, exited, signaled, dumped, stopped,
                                            continued, statusOf, wstatus, state
    <3>3. CASE \E sig \in {SigNr.TRAP, SigNr.KILL} : state = Killed(sig)
      <4>1. PICK sig \in {5, 9} : state = Killed(sig)
        BY <3>3, Numbers
      <4>2. state.event = "KILLED" /\ state.signal = sig
        BY <4>1 DEF Killed
      <4>3. wstatus \in {5, 9}
        BY <4>2 DEF WaitStatusOf
      <4> HIDE DEF wstatus
      <4>4. /\ wstatus % 128 \notin {0, 127} /\ wstatus % 256 \in {5, 9}
            /\ wstatus # 65535
        BY <4>3
      <4> HIDE DEF state
      <4> QED BY <4>2, <4>4 DEF StatusAgrees, exited, signaled, dumped, stopped, continued,
                                wstatus, state
    <3>4. CASE state = Dumped(SigNr.TRAP)
      <4>1. state.event = "DUMPED" /\ state.signal = 5
        BY <3>4, Numbers DEF Dumped
      <4>2. wstatus = 133
        BY <4>1 DEF WaitStatusOf
      <4> HIDE DEF wstatus
      <4>3. wstatus % 128 = 5 /\ wstatus % 256 = 133
        BY <4>2
      <4> HIDE DEF state
      <4> QED BY <4>1, <4>2, <4>3 DEF StatusAgrees, exited, signaled, dumped, stopped,
                                      continued, wstatus, state
    <3>5. CASE \E sig \in Nat : state = Trapped(sig)
      <4>1. PICK sig \in Nat : state = Trapped(sig)
        BY <3>5
      <4>2. state.event = "TRAPPED" /\ state.signal = sig
        BY <4>1 DEF Trapped
      <4>3. wstatus = 256 * sig + 127
        BY <4>2 DEF WaitStatusOf
      <4> HIDE DEF wstatus
      <4>4. wstatus % 128 = 127 /\ wstatus % 256 = 127
        <5>1. wstatus = 128 * (2 * sig) + 127
          BY <4>3
        <5>2. wstatus \in Int
          BY <4>3
        <5> QED BY <4>3, <5>1, <5>2
      <4> HIDE DEF state
      <4>5. wstatus # 65535
        BY <4>4
      <4> QED BY <4>2, <4>4, <4>5 DEF StatusAgrees, exited, signaled, dumped, stopped,
                                      continued, wstatus, state
    <3> QED BY <3>1, <3>2, <3>3, <3>4, <3>5 DEF ChildState
  <2> QED BY <2>1, <2>2 DEF StopsAreUnderstood
<1> QED BY <1>1, Invariance, PTL
=============================================================================
