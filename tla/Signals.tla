------------------------------ MODULE Signals ------------------------------
(***************************************************************************)
(* Synchronous signal handling: cosmos::signal's masks and wait functions, *)
(* SignalFD, the interpretation of what they return (SigInfo and           *)
(* SignalFD::Info), and proc::wait() as it is called on Signal::CHILD.     *)
(*                                                                         *)
(* The threads of one process share a SignalFD.  Signals of all origins    *)
(* arrive; a thread receives them by a handler, a wait function or the     *)
(* SignalFD.  Whoever receives Signal::CHILD calls proc::wait() with       *)
(* NO_HANG until there is nothing left to collect.                         *)
(***************************************************************************)
EXTENDS Integers, SequencesExt

CONSTANTS
    Thread,
    Child,
    SigSets,   \* the signal sets that the program uses
    Sendable,  \* the signals that come from outside or from the program itself
    MaxSent    \* bound: how many of them are sent

\* The numbers and codes that are compared by value.
SignalNr ==
    [ILL |-> 4, TRAP |-> 5, BUS |-> 7, FPE |-> 8, USR1 |-> 10, SEGV |-> 11,
     CHILD |-> 17, POLL |-> 29, BAD_SYS |-> 31, RT_MIN |-> 34]

Code ==
    [USER |-> 0, KERNEL |-> 128, QUEUE |-> -1, TIMER |-> -2, MESGQ |-> -3, ASYNCIO |-> -4,
     QSIGIO |-> -5, TKILL |-> -6,
     EXITED |-> 1, KILLED |-> 2, BOUND_ERROR |-> 3, PROT_KEY_ERROR |-> 4,
     MCE_ACTION_REQUIRED |-> 4, MCE_ACTION_OPTIONAL |-> 5]

\* A siginfo_t is a union: `fields' are the members that its origin has set.
Origin ==
    [kill |-> {"pid", "uid"}, sigqueue |-> {"pid", "uid", "value"}, tgkill |-> {"pid", "uid"},
     timer |-> {"timerid", "overrun", "value"}, mqueue |-> {"pid", "uid", "value"},
     child |-> {"pid", "uid", "status", "utime", "stime"}, waitid |-> {"pid", "uid", "status"},
     io |-> {"band", "fd"}, plain |-> {"pid", "uid"}, seccomp |-> {"call_addr", "syscall", "arch", "errno"},
     fault |-> {"addr"}, bounds |-> {"addr", "lower", "upper"}, pkey |-> {"addr", "pkey"},
     memory |-> {"addr", "addr_lsb"}]

Info(nr, code, origin) ==
    [nr |-> nr, code |-> code, origin |-> origin, fields |-> Origin[origin], errno |-> "NO_ERROR"]

\* The signals for which si_code tells a reason instead of the source.
Special == {"FPE", "BUS", "ILL", "SEGV", "TRAP", "CHILD", "POLL", "BAD_SYS"}

\* Those are raised by the instruction that a thread executes.
Synchronous == {"seccomp", "fault", "bounds", "pkey", "memory"}

ASSUME SignalsAssumption ==
    /\ SigSets \subseteq SUBSET DOMAIN SignalNr
    /\ \A s \in Sendable :
         /\ s.nr \in DOMAIN SignalNr /\ s.code \in Int
         /\ s.origin \in DOMAIN Origin \ {"child", "waitid"}
         /\ s = Info(s.nr, s.code, s.origin)
    /\ MaxSent \in Nat

\* What the kernel reports of each origin (sigaction(2)): a code that stands for
\* the way of sending, or a positive one with the signal that it explains.  The
\* I/O events of a file come with the signal that setSignal() has chosen: POLL and
\* the plain signals tell the reason, the other special ones SI_SIGIO.  Without a
\* choice, or if the queue is full, POLL comes plain, without data of the file.
ASSUME OriginsAssumption == \A s \in Sendable :
    /\ s.origin = "kill" => s.code = Code.USER
    /\ s.origin = "sigqueue" => s.code = Code.QUEUE
    /\ s.origin = "tgkill" => s.code = Code.TKILL
    /\ s.origin = "timer" => s.code = Code.TIMER
    /\ s.origin = "mqueue" => s.code = Code.MESGQ
    /\ s.origin \in Synchronous => s.code > 0
    /\ s.origin = "io" =>
         \/ s.nr \notin Special \ {"POLL"} /\ s.code \in 1 .. 6
         \/ s.nr \in Special \ {"POLL"} /\ s.code = Code.QSIGIO
    /\ s.origin = "plain" => s.code = Code.KERNEL
    /\ s.origin = "seccomp" => s.nr = "BAD_SYS"
    /\ s.origin = "fault" => s.code # Code.KERNEL
    /\ s.origin = "fault" =>
         \/ s.nr \in {"ILL", "FPE", "TRAP"}
         \/ s.nr = "SEGV" /\ s.code \notin {Code.BOUND_ERROR, Code.PROT_KEY_ERROR}
         \/ s.nr = "BUS" /\ s.code \notin {Code.MCE_ACTION_REQUIRED, Code.MCE_ACTION_OPTIONAL}
    /\ s.origin = "bounds" => s.nr = "SEGV" /\ s.code = Code.BOUND_ERROR
    /\ s.origin = "pkey" => s.nr = "SEGV" /\ s.code = Code.PROT_KEY_ERROR
    /\ s.origin = "memory" =>
         s.nr = "BUS" /\ s.code \in {Code.MCE_ACTION_REQUIRED, Code.MCE_ACTION_OPTIONAL}

VARIABLES
    mask,       \* the signals that each thread blocks
    saved,      \* the mask that suspend() has replaced
    directed,   \* the signals pending for one thread
    pending,    \* those pending for the process
    fd,         \* the SignalFD: open or not, its signal set, and NONBLOCK
    pc,         \* the call that each thread is blocked in, or "runs"
    set,        \* the signals this call waits for
    reaping,    \* the threads that collect children
    child,      \* the state of each child process
    sent,       \* the number of signals sent
    last        \* history: what the last step received, and by which function

queues == <<directed, pending>>
calls == <<pc, set>>
vars == <<mask, saved, directed, pending, fd, pc, set, reaping, child, sent, last>>

None == [via |-> "none"]

Init ==
    /\ mask \in [Thread -> SigSets]
    /\ saved = [t \in Thread |-> {}]
    /\ directed = [t \in Thread |-> <<>>]
    /\ pending = <<>>
    /\ fd = [open |-> FALSE, mask |-> {}, nonblock |-> FALSE]
    /\ pc = [t \in Thread |-> "runs"]
    /\ set = [t \in Thread |-> {}]
    /\ reaping = {}
    /\ child = [c \in Child |-> "runs"]
    /\ sent = 0
    /\ last = None

-----------------------------------------------------------------------------
(* Interpretation: SigInfo and SignalFD::Info *)

isTrustedSource(info) == info.code >= 0

Sources == {"USER", "KERNEL", "QUEUE", "TIMER", "MESGQ", "ASYNCIO", "QSIGIO", "TKILL"}

\* Source{si_code} without a name is the empty set.
source(info) ==
    IF isTrustedSource(info) /\ info.nr \in Special
    THEN {"KERNEL"} ELSE {s \in Sources : Code[s] = info.code}

\* What an accessor returns, and the members of the union that it reads.
View(data, fields) == {[data |-> data, reads |-> fields]}

userSigData(info) ==
    IF source(info) = {"USER"} THEN View("UserSigData", {"pid", "uid"}) ELSE {}

queueSigData(info) ==
    IF source(info) = {"QUEUE"} THEN View("QueueSigData", {"pid", "uid", "value"}) ELSE {}

msgQueueData(info) ==
    IF source(info) = {"MESGQ"} THEN View("MsgQueueData", {"pid", "uid", "value"}) ELSE {}

timerData(info) ==
    IF source(info) = {"TIMER"} THEN View("TimerData", {"timerid", "overrun"}) ELSE {}

\* Mutant: the times are read in results of proc::wait(), too.
childData_Times(info) ==
    IF info.nr = "CHILD" THEN View("ChildData", Origin.child) ELSE {}

\* proc::wait() marks its results with EINVAL, for want of the times.
childData(info) ==
    IF info.nr = "CHILD"
    THEN View("ChildData", {"pid", "uid", "status"} \union
                           IF info.errno = "INVALID_ARG" THEN {} ELSE {"utime", "stime"})
    ELSE {}

sysData(info) ==
    IF info.nr = "BAD_SYS"
    THEN View("SysData", {"call_addr", "syscall", "arch", "errno"}) ELSE {}

pollData(info) == IF info.nr = "POLL" THEN View("PollData", {"fd", "band"}) ELSE {}

illData(info) == IF info.nr = "ILL" THEN View("IllData", {"addr"}) ELSE {}

fpeData(info) == IF info.nr = "FPE" THEN View("FPEData", {"addr"}) ELSE {}

segfaultData(info) ==
    IF info.nr = "SEGV"
    THEN View("SegfaultData",
              {"addr"} \union (IF info.code = Code.BOUND_ERROR THEN {"lower", "upper"} ELSE {})
                       \union (IF info.code = Code.PROT_KEY_ERROR THEN {"pkey"} ELSE {}))
    ELSE {}

busData(info) ==
    IF info.nr = "BUS"
    THEN View("BusData",
              {"addr"} \union IF info.code \in {Code.MCE_ACTION_REQUIRED, Code.MCE_ACTION_OPTIONAL}
                              THEN {"addr_lsb"} ELSE {})
    ELSE {}

SigInfoViews(info) ==
    UNION {userSigData(info), queueSigData(info), msgQueueData(info), timerData(info),
           childData(info), sysData(info), pollData(info),
           illData(info), fpeData(info), segfaultData(info), busData(info)}

\* SignalFD::Info::source()
InfoSource(info) ==
    IF isTrustedSource(info) /\ info.nr \in Special
    THEN {"KERNEL"} ELSE {s \in Sources : Code[s] = info.code}

\* SignalFD::Info: the same without the faults and without the mark of wait().
InfoViews(info) ==
    (IF InfoSource(info) = {"USER"} THEN View("UserSigData", {"pid", "uid"}) ELSE {}) \union
    (IF InfoSource(info) = {"QUEUE"} THEN View("QueueSigData", {"pid", "uid", "value"}) ELSE {}) \union
    (IF InfoSource(info) = {"MESGQ"} THEN View("MsgQueueData", {"pid", "uid", "value"}) ELSE {}) \union
    (IF InfoSource(info) = {"TIMER"} THEN View("TimerData", {"timerid", "overrun"}) ELSE {}) \union
    (IF info.nr = "BAD_SYS"
     THEN View("SysData", {"call_addr", "syscall", "arch", "errno"}) ELSE {}) \union
    (IF info.nr = "CHILD" THEN View("ChildData", Origin.child) ELSE {}) \union
    (IF info.nr = "POLL" THEN View("PollData", {"fd", "band"}) ELSE {})

-----------------------------------------------------------------------------
(* The kernel: signals are sent and delivered *)

\* A standard signal that is pending already is not queued a second time.
Queued(q, info) ==
    IF SignalNr[info.nr] < SignalNr.RT_MIN /\ \E i \in DOMAIN q : q[i].nr = info.nr
    THEN q ELSE Append(q, info)

\* The signals of q that are in sigs; the lowest number comes first.
Deliverable(q, sigs) == {i \in DOMAIN q : q[i].nr \in sigs}

FirstOf(q, sigs) ==
    CHOOSE i \in Deliverable(q, sigs) :
        \A j \in Deliverable(q, sigs) :
            \/ SignalNr[q[i].nr] < SignalNr[q[j].nr]
            \/ q[i].nr = q[j].nr /\ i <= j

IsPending(t, sigs) == Deliverable(directed[t], sigs) # {} \/ Deliverable(pending, sigs) # {}

\* Signals for thread t itself are taken before those for the process.
Taken(t, sigs) ==
    IF Deliverable(directed[t], sigs) # {}
    THEN directed[t][FirstOf(directed[t], sigs)] ELSE pending[FirstOf(pending, sigs)]

Dequeue(t, sigs) ==
    IF Deliverable(directed[t], sigs) # {}
    THEN /\ directed' = [directed EXCEPT ![t] = RemoveAt(@, FirstOf(@, sigs))]
         /\ UNCHANGED pending
    ELSE /\ pending' = RemoveAt(pending, FirstOf(pending, sigs))
         /\ UNCHANGED directed

\* send() with its variants, timers, message queues and I/O events.
SendToProcess ==
    /\ sent < MaxSent /\ sent' = sent + 1
    /\ \E info \in Sendable :
         /\ info.origin \notin Synchronous \union {"tgkill"}
         /\ pending' = Queued(pending, info)
    /\ last' = None
    /\ UNCHANGED <<mask, saved, directed, fd, calls, reaping, child>>

SendToThread(t) ==
    /\ sent < MaxSent /\ sent' = sent + 1
    /\ \E info \in Sendable :
         /\ info.origin = "tgkill"
         /\ directed' = [directed EXCEPT ![t] = Queued(@, info)]
    /\ last' = None
    /\ UNCHANGED <<mask, saved, pending, fd, calls, reaping, child>>

ChildEnds(c) ==
    /\ child[c] = "runs"
    /\ \E event \in {"EXITED", "KILLED"} :
         /\ child' = [child EXCEPT ![c] = event]
         /\ pending' = Queued(pending, Info("CHILD", Code[event], "child"))
    /\ last' = None
    /\ UNCHANGED <<mask, saved, directed, fd, calls, reaping, sent>>

\* Thread t has received info by the function `via': who receives a
\* Signal::CHILD is going to collect children.
Receive(t, via, info) ==
    /\ last' = [via |-> via, info |-> info]
    /\ reaping' = IF info.nr = "CHILD" THEN reaping \union {t} ELSE reaping

\* A handler runs in t, and with it ends suspend(), which restores the mask.
\* Of the other calls only sigwait() is restarted.
Handle(t) ==
    /\ \/ pc[t] \in {"runs", "wait"} /\ UNCHANGED <<calls, mask, saved>>
       \/ /\ pc[t] \in {"wait_info", "timed_wait", "readEvent"}
          /\ pc' = [pc EXCEPT ![t] = "runs"] /\ set' = [set EXCEPT ![t] = {}]
          /\ UNCHANGED <<mask, saved>>
       \/ /\ pc[t] = "suspend"
          /\ pc' = [pc EXCEPT ![t] = "runs"]
          /\ mask' = [mask EXCEPT ![t] = saved[t]] /\ saved' = [saved EXCEPT ![t] = {}]
          /\ UNCHANGED set

Unblocked(t) == DOMAIN SignalNr \ mask[t]

Deliver(t) ==
    /\ t \notin reaping
    /\ IsPending(t, Unblocked(t))
    /\ Dequeue(t, Unblocked(t))
    /\ Receive(t, "handler", Taken(t, Unblocked(t)))
    /\ Handle(t)
    /\ UNCHANGED <<fd, child, sent>>

\* A fault or a trapped system call of t: its handler runs at once.
Fault(t) ==
    /\ sent < MaxSent /\ sent' = sent + 1
    /\ pc[t] = "runs" /\ t \notin reaping
    /\ \E info \in Sendable :
         /\ info.origin \in Synchronous /\ info.nr \notin mask[t]
         /\ Receive(t, "handler", info)
    /\ UNCHANGED <<mask, saved, queues, fd, calls, child>>

-----------------------------------------------------------------------------
(* cosmos::signal *)

\* Thread t is at a point where it may call something.
Idle(t) == pc[t] = "runs" /\ t \notin reaping

SetMask(t, m) ==
    /\ Idle(t)
    /\ mask' = [mask EXCEPT ![t] = m]
    /\ last' = None
    /\ UNCHANGED <<saved, queues, fd, calls, reaping, child, sent>>

block(t) == \E s \in SigSets : SetMask(t, mask[t] \union s)

unblock(t) == \E s \in SigSets : SetMask(t, mask[t] \ s)

set_sigmask(t) == \E s \in SigSets : SetMask(t, s)

\* pause() keeps the mask.
suspend(t) ==
    /\ Idle(t)
    /\ \E s \in SigSets \union {mask[t]} : mask' = [mask EXCEPT ![t] = s]
    /\ saved' = [saved EXCEPT ![t] = mask[t]]
    /\ pc' = [pc EXCEPT ![t] = "suspend"]
    /\ last' = None
    /\ UNCHANGED <<queues, fd, set, reaping, child, sent>>

\* wait(), wait_info() and timed_wait(); poll_info() is a timed_wait() of zero.
\* The signals in the set have to be blocked, as sigwait(3) demands.
StartWait(t) ==
    /\ Idle(t)
    /\ \E s \in SigSets \ {{}}, call \in {"wait", "wait_info", "timed_wait"} :
         /\ s \subseteq mask[t]
         /\ pc' = [pc EXCEPT ![t] = call]
         /\ set' = [set EXCEPT ![t] = s]
    /\ last' = None
    /\ UNCHANGED <<mask, saved, queues, fd, reaping, child, sent>>

EndWait(t) ==
    /\ pc[t] \in {"wait", "wait_info", "timed_wait"}
    /\ t \notin reaping
    /\ IsPending(t, set[t])
    /\ Dequeue(t, set[t])
    /\ Receive(t, pc[t], Taken(t, set[t]))
    /\ pc' = [pc EXCEPT ![t] = "runs"] /\ set' = [set EXCEPT ![t] = {}]
    /\ UNCHANGED <<mask, saved, fd, child, sent>>

\* WaitRes::NO_RESULT
TimeOut(t) ==
    /\ pc[t] = "timed_wait" /\ t \notin reaping
    /\ pc' = [pc EXCEPT ![t] = "runs"] /\ set' = [set EXCEPT ![t] = {}]
    /\ last' = None
    /\ UNCHANGED <<mask, saved, queues, fd, reaping, child, sent>>

-----------------------------------------------------------------------------
(* SignalFD *)

\* The program does not close a SignalFD that another thread reads.
NobodyReads == \A t \in Thread : pc[t] # "readEvent"

\* An open one is closed first.  If signalfd() fails it stays closed.
create(t) ==
    /\ Idle(t) /\ NobodyReads
    /\ \/ \E s \in SigSets \ {{}}, nb \in BOOLEAN :
            fd' = [open |-> TRUE, mask |-> s, nonblock |-> nb]
       \/ fd' = [open |-> FALSE, mask |-> {}, nonblock |-> FALSE]
    /\ last' = None
    /\ UNCHANGED <<mask, saved, queues, calls, reaping, child, sent>>

\* Without a valid one a UsageError is thrown.  Readers go on waiting.
adjustMask(t) ==
    /\ Idle(t) /\ fd.open
    /\ \E s \in SigSets \ {{}} : fd' = [fd EXCEPT !.mask = s]
    /\ last' = None
    /\ UNCHANGED <<mask, saved, queues, calls, reaping, child, sent>>

\* Mutant: read() gets room for several events, and the first is returned.
readEvent_Batch(t) ==
    /\ fd.open /\ t \notin reaping
    /\ pc[t] \in {"runs", "readEvent"}
    /\ \/ /\ IsPending(t, fd.mask)
          /\ Receive(t, "SignalFD", Taken(t, fd.mask))
          /\ directed' = [directed EXCEPT ![t] = SelectSeq(@, LAMBDA i : i.nr \notin fd.mask)]
          /\ pending' = SelectSeq(pending, LAMBDA i : i.nr \notin fd.mask)
          /\ pc' = [pc EXCEPT ![t] = "runs"]
       \/ /\ ~IsPending(t, fd.mask) /\ ~fd.nonblock /\ pc[t] = "runs"
          /\ pc' = [pc EXCEPT ![t] = "readEvent"]
          /\ last' = None /\ UNCHANGED <<queues, reaping>>
    /\ UNCHANGED <<mask, saved, fd, set, child, sent>>

\* One event is read.  With NONBLOCK and without a signal an ApiError is
\* thrown, which changes nothing.
readEvent(t) ==
    /\ fd.open /\ t \notin reaping
    /\ pc[t] \in {"runs", "readEvent"}
    /\ \/ /\ IsPending(t, fd.mask)
          /\ Receive(t, "SignalFD", Taken(t, fd.mask))
          /\ Dequeue(t, fd.mask)
          /\ pc' = [pc EXCEPT ![t] = "runs"]
       \/ /\ ~IsPending(t, fd.mask) /\ ~fd.nonblock /\ pc[t] = "runs"
          /\ pc' = [pc EXCEPT ![t] = "readEvent"]
          /\ last' = None /\ UNCHANGED <<queues, reaping>>
    /\ UNCHANGED <<mask, saved, fd, set, child, sent>>

-----------------------------------------------------------------------------
(* proc::wait() with NO_HANG, until it returns nothing or throws *)

Zombies == {c \in Child : child[c] \in {"EXITED", "KILLED"}}

\* si_errno tells SigInfo::childData() where the structure comes from.
Collect(t) ==
    /\ t \in reaping
    /\ \E c \in Zombies :
         /\ child' = [child EXCEPT ![c] = "gone"]
         /\ last' = [via |-> "waitid",
                     info |-> [Info("CHILD", Code[child[c]], "waitid") EXCEPT !.errno = "INVALID_ARG"]]
    /\ UNCHANGED <<mask, saved, queues, fd, calls, reaping, sent>>

\* si_pid has remained 0, or there is no child at all.
CollectNothing(t) ==
    /\ t \in reaping
    /\ Zombies = {}
    /\ reaping' = reaping \ {t}
    /\ last' = None
    /\ UNCHANGED <<mask, saved, queues, fd, calls, child, sent>>

ThreadStep(t) ==
    \/ SendToThread(t) \/ Deliver(t) \/ Fault(t)
    \/ block(t) \/ unblock(t) \/ set_sigmask(t) \/ suspend(t)
    \/ StartWait(t) \/ EndWait(t) \/ TimeOut(t)
    \/ create(t) \/ adjustMask(t) \/ readEvent(t)
    \/ Collect(t) \/ CollectNothing(t)

Next ==
    \/ SendToProcess
    \/ \E c \in Child : ChildEnds(c)
    \/ \E t \in Thread : ThreadStep(t)

Spec == Init /\ [][Next]_vars

-----------------------------------------------------------------------------
(* Properties *)

\* The states have the types that the code gives them, and a SignalFD that is
\* not open has no signal set.
TypeOK ==
    /\ mask \in [Thread -> SUBSET DOMAIN SignalNr]
    /\ saved \in [Thread -> SUBSET DOMAIN SignalNr]
    /\ fd \in [open : BOOLEAN, mask : SUBSET DOMAIN SignalNr, nonblock : BOOLEAN]
    /\ fd.mask # {} => fd.open
    /\ pc \in [Thread -> {"runs", "wait", "wait_info", "timed_wait", "suspend", "readEvent"}]
    /\ set \in [Thread -> SUBSET DOMAIN SignalNr]
    /\ reaping \subseteq Thread
    /\ child \in [Child -> {"runs", "EXITED", "KILLED", "gone"}]
    /\ sent \in 0 .. MaxSent

\* sigwait() returns a number only.
HasInfo == last # None /\ last.via # "wait"

Views(via, info) == IF via = "SignalFD" THEN InfoViews(info) ELSE SigInfoViews(info)

\* What an accessor returns is what the origin of the signal has put there: no
\* member of the union is read that something else occupies.  For the special
\* signals that holds if the kernel raised them with a reason; user space can send
\* them with other contents, as the comment on SigInfo warns.  It does not hold
\* for a plain POLL, of which pollData() makes an event of the file 0.
DataWasSent ==
    /\ HasInfo
    /\ last.info.nr \in Special => last.info.code > Code.USER
    /\ last.info.origin # "plain"
    =>
        \A v \in Views(last.via, last.info) : v.reads \subseteq last.info.fields

Expected(origin) ==
    CASE origin = "kill" -> "USER" [] origin = "sigqueue" -> "QUEUE" [] origin = "tgkill" -> "TKILL"
      [] origin = "timer" -> "TIMER" [] origin = "mqueue" -> "MESGQ" [] OTHER -> "KERNEL"

\* What source() should tell of a signal.  Of an I/O event on another signal than
\* POLL it cannot: the reason is no source and stays without a name, and SI_SIGIO
\* has an old name.
ExpectedSource(info) ==
    IF info.origin = "io" /\ info.nr # "POLL"
    THEN IF info.nr \in Special THEN {"QSIGIO"} ELSE {}
    ELSE {Expected(info.origin)}

\* source() tells where the signal comes from, on every way of receiving it,
\* except for a special signal that was sent by kill().
SourceIsOrigin ==
    HasInfo /\ ~(last.info.origin = "kill" /\ last.info.nr \in Special) =>
        (IF last.via = "SignalFD" THEN InfoSource(last.info) ELSE source(last.info))
            = ExpectedSource(last.info)

FaultData == {"IllData", "FPEData", "SegfaultData", "BusData"}

\* A signal that is read from the SignalFD has the same interpretation as if a
\* handler or a wait function had received it, but for the faults.
ViewsAgree ==
    HasInfo /\ last.via = "SignalFD" =>
        InfoViews(last.info) = {v \in SigInfoViews(last.info) : v.data \notin FaultData}

\* A program that asks how a signal came, and for the data of that way, is told
\* the truth, and the same on every way of receiving it (SigInfo,
\* SignalFD::Info), with the exceptions that the three parts name.
InfoMatchesOrigin == DataWasSent /\ SourceIsOrigin /\ ViewsAgree

\* Many children may end behind one Signal::CHILD, and while others are being
\* collected: as long as there is a zombie, somebody collects or is going to.
\* All variables keep their types.
NoZombieForgotten ==
    /\ TypeOK
    /\ Zombies # {} =>
          \/ reaping # {}
          \/ Deliverable(pending, {"CHILD"}) # {}
          \/ \E t \in Thread : Deliverable(directed[t], {"CHILD"}) # {}
=============================================================================
