--------------------------- MODULE ProcessProofs ---------------------------
(***************************************************************************)
(* Proofs about what processes receive and what they may do.               *)
(* Signals: what the accessors of SigInfo and SignalFD::Info return is     *)
(* what the origin of the signal has set, and no zombie is forgotten, for  *)
(* any threads, children and signal sets, in whatever order signals queue  *)
(* up and are received.                                                    *)
(* Privileges: what a process gave up, and what restricts it, lasts for    *)
(* any users, limits and number of processes and calls.                    *)
(* Attributes: what was set on a descriptor, an open file or a file stays, *)
(* for any numbers, files and sequences of duplicates and calls.           *)
(***************************************************************************)
EXTENDS Signals, Privileges, Attributes, FiniteSetTheorems, SequenceTheorems,
        WellFoundedInduction, TLAPS

-----------------------------------------------------------------------------
(* Signals: what can be received *)

ChildSignal == {Info("CHILD", Code.EXITED, "child"), Info("CHILD", Code.KILLED, "child")}

\* The signals that are ever queued or raised.
Signal == Sendable \union ChildSignal

\* The results of proc::wait().
WaitResult == {[i EXCEPT !.errno = "INVALID_ARG"] :
                  i \in {Info("CHILD", Code.EXITED, "waitid"), Info("CHILD", Code.KILLED, "waitid")}}

\* What the last step received is genuine: a signal, or a result of wait().
LastIsGenuine ==
    \/ last = None
    \/ last.info \in Signal
    \/ last.via = "waitid" /\ last.info \in WaitResult

QueuesTyped ==
    /\ pending \in Seq(Signal)
    /\ directed \in [Thread -> Seq(Signal)]

\* Some thread is going to collect children, or is told to.
IsComing ==
    \/ reaping # {}
    \/ Deliverable(pending, {"CHILD"}) # {}
    \/ \E t \in Thread : Deliverable(directed[t], {"CHILD"}) # {}

\* The inductive invariant: what is queued is what was sent, and a zombie is
\* followed by a signal or by the thread that the signal has told.
SignalsInv == TypeOK /\ QueuesTyped /\ LastIsGenuine /\ (Zombies # {} => IsComing)

-----------------------------------------------------------------------------
(* Signals: queues *)

\* Every nonempty set of natural numbers has a least element.
LEMMA LeastNatural ==
    ASSUME NEW T, T \subseteq Nat, T # {}
    PROVE  \E m \in T : \A k \in T : m <= k
<1> DEFINE R == OpToRel(<, Nat)
<1>1. IsWellFoundedOn(R, Nat)
  BY NatLessThanWellFounded
<1>2. \A x, y \in Nat : <<x, y>> \in R <=> x < y
  BY DEF OpToRel
<1> HIDE DEF R
<1>3. PICK m \in T : \A k \in T : ~(<<k, m>> \in R)
  BY <1>1, WFMin
<1>4. ASSUME NEW k \in T PROVE m <= k
  <2>1. m \in Nat /\ k \in Nat
    OBVIOUS
  <2>2. ~(k < m)
    BY <1>2, <1>3, <2>1
  <2> QED BY <2>1, <2>2
<1> QED BY <1>4

\* The numbers of the signals tell them apart.
LEMMA NumbersOfSignals ==
    /\ \A a \in DOMAIN SignalNr : SignalNr[a] \in Nat
    /\ \A a, b \in DOMAIN SignalNr : SignalNr[a] = SignalNr[b] => a = b
    /\ "CHILD" \in DOMAIN SignalNr
    /\ SignalNr["CHILD"] < SignalNr.RT_MIN
  BY DEF SignalNr

\* The members of a signal.
LEMMA SignalsHaveNumbers ==
    ASSUME NEW info \in Signal
    PROVE  info.nr \in DOMAIN SignalNr /\ info.code \in Int
<1>1. CASE info \in Sendable
  BY <1>1, SignalsAssumption
<1>2. CASE info \in ChildSignal
  <2>1. info.nr = "CHILD" /\ info.code \in {1, 2}
    BY <1>2 DEF ChildSignal, Info, Code
  <2> QED BY <2>1, NumbersOfSignals
<1> QED BY <1>1, <1>2 DEF Signal

\* The kernel finds the signal with the lowest number that came first.
LEMMA FirstIsDeliverable ==
    ASSUME NEW q \in Seq(Signal), NEW sigs, Deliverable(q, sigs) # {}
    PROVE  FirstOf(q, sigs) \in Deliverable(q, sigs)
<1> DEFINE D == Deliverable(q, sigs)
           Nr(i) == SignalNr[q[i].nr]
<1>1. \A i \in D : i \in Nat /\ q[i] \in Signal
  <2>1. \A i \in D : i \in 1 .. Len(q)
    BY LenProperties DEF Deliverable
  <2>2. Len(q) \in Nat
    BY LenProperties
  <2> QED BY <2>1, <2>2, ElementOfSeq
<1>2. \A i \in D : q[i].nr \in DOMAIN SignalNr /\ Nr(i) \in Nat
  BY <1>1, SignalsHaveNumbers, NumbersOfSignals
<1>3. PICK low \in {Nr(i) : i \in D} : \A n \in {Nr(i) : i \in D} : low <= n
  <2>1. {Nr(i) : i \in D} \subseteq Nat /\ {Nr(i) : i \in D} # {}
    BY <1>2
  <2> HIDE DEF Nr, D
  <2> QED BY <2>1, LeastNatural
<1>4. PICK first \in {i \in D : Nr(i) = low} : \A j \in {i \in D : Nr(i) = low} : first <= j
  <2>1. {i \in D : Nr(i) = low} \subseteq Nat /\ {i \in D : Nr(i) = low} # {}
    BY <1>1, <1>3
  <2> HIDE DEF Nr, D
  <2> QED BY <2>1, LeastNatural
<1>5. first \in D
  BY <1>4
<1>6. ASSUME NEW j \in D
      PROVE  \/ SignalNr[q[first].nr] < SignalNr[q[j].nr]
             \/ q[first].nr = q[j].nr /\ first <= j
  <2>1. Nr(first) = low /\ low <= Nr(j) /\ Nr(j) \in Nat /\ low \in Nat
    BY <1>2, <1>3, <1>4
  <2>2. CASE Nr(j) = low
    <3>1. first <= j
      BY <1>4, <2>2
    <3>2. q[first].nr = q[j].nr
      BY <1>2, <1>5, <2>1, <2>2, NumbersOfSignals
    <3> QED BY <3>1, <3>2
  <2>3. CASE Nr(j) # low
    BY <2>1, <2>3
  <2> QED BY <2>2, <2>3
<1> QED BY <1>5, <1>6 DEF FirstOf

\* A signal leaves its queue, and the others stay.
LEMMA RemovedSignal ==
    ASSUME NEW q \in Seq(Signal), NEW i \in DOMAIN q
    PROVE  /\ RemoveAt(q, i) \in Seq(Signal)
           /\ \A sigs : q[i].nr \notin sigs /\ Deliverable(q, sigs) # {} => Deliverable(RemoveAt(q, i), sigs) # {}
<1> DEFINE before == SubSeq(q, 1, i - 1)
           after == SubSeq(q, i + 1, Len(q))
<1>1. Len(q) \in Nat /\ i \in 1 .. Len(q) /\ DOMAIN q = 1 .. Len(q)
  BY LenProperties
<1>2. \A k \in 1 .. Len(q) : q[k] \in Signal
  BY <1>1, ElementOfSeq
<1>3. /\ before \in Seq(Signal) /\ Len(before) = i - 1
      /\ \A k \in 1 .. i - 1 : before[k] = q[k]
  BY <1>1, <1>2
<1>4. /\ after \in Seq(Signal) /\ Len(after) = Len(q) - i
      /\ \A k \in 1 .. Len(q) - i : after[k] = q[i + k]
  <2>1. \A k \in i + 1 .. Len(q) : q[k] \in Signal
    BY <1>1, <1>2
  <2>2. i + 1 \in Int /\ Len(q) \in Int
    BY <1>1
  <2>3. /\ after \in Seq(Signal)
        /\ Len(after) = IF i + 1 <= Len(q) THEN Len(q) - (i + 1) + 1 ELSE 0
        /\ \A k \in 1 .. Len(q) - (i + 1) + 1 : after[k] = q[i + 1 + k - 1]
    BY SMTT(30), <2>1, <2>2, SubSeqProperties
  <2> HIDE DEF after
  <2>4. Len(q) - (i + 1) + 1 = Len(q) - i /\ Len(after) = Len(q) - i
    BY <1>1, <2>3
  <2>5. \A k \in 1 .. Len(q) - i : i + 1 + k - 1 = i + k
    BY <1>1
  <2> QED BY <2>3, <2>4, <2>5
<1>5. RemoveAt(q, i) = before \o after
  BY DEF RemoveAt
<1> HIDE DEF before, after
<1>6. RemoveAt(q, i) \in Seq(Signal)
  BY <1>3, <1>4, <1>5, ConcatProperties
<1>7. Len(RemoveAt(q, i)) = Len(q) - 1
  <2>1. Len(before \o after) = Len(before) + Len(after)
    BY <1>3, <1>4, ConcatProperties
  <2> QED BY SMTT(30), <1>1, <1>3, <1>4, <1>5, <2>1
<1>8. \A k \in 1 .. i - 1 : RemoveAt(q, i)[k] = q[k]
  BY SMTT(30), <1>1, <1>3, <1>4, <1>5, ConcatProperties
<1>9. \A k \in i .. Len(q) - 1 : RemoveAt(q, i)[k] = q[k + 1]
  <2> SUFFICES ASSUME NEW k \in i .. Len(q) - 1 PROVE (before \o after)[k] = q[k + 1]
    BY <1>5
  <2>1. k \in 1 .. Len(before) + Len(after) /\ k > Len(before) /\ k - Len(before) = k + 1 - i
    BY SMTT(30), <1>1, <1>3, <1>4
  <2>2. (before \o after)[k] = after[k + 1 - i]
    BY SMTT(60), <1>3, <1>4, <2>1, ConcatProperties
  <2>3. k + 1 - i \in 1 .. Len(q) - i /\ i + (k + 1 - i) = k + 1
    BY <1>1
  <2> QED BY <1>4, <2>2, <2>3
<1>10. ASSUME NEW sigs, q[i].nr \notin sigs, NEW k \in Deliverable(q, sigs)
       PROVE  Deliverable(RemoveAt(q, i), sigs) # {}
  <2>1. k \in 1 .. Len(q) /\ q[k].nr \in sigs /\ k # i
    BY <1>1, <1>10 DEF Deliverable
  <2>2. DOMAIN RemoveAt(q, i) = 1 .. Len(q) - 1
    BY <1>6, <1>7, LenProperties
  <2>3. CASE k < i
    BY <1>1, <1>8, <2>1, <2>2, <2>3 DEF Deliverable
  <2>4. CASE k > i
    <3>1. k - 1 \in i .. Len(q) - 1 /\ k - 1 \in 1 .. Len(q) - 1 /\ (k - 1) + 1 = k
      BY <1>1, <2>1, <2>4
    <3>2. RemoveAt(q, i)[k - 1].nr \in sigs
      BY <1>9, <2>1, <3>1
    <3> QED BY <2>2, <3>1, <3>2 DEF Deliverable
  <2> QED BY <1>1, <2>1, <2>3, <2>4
<1> QED BY <1>6, <1>10

\* A signal is queued, or one like it was already.
LEMMA QueuedSignal ==
    ASSUME NEW q \in Seq(Signal), NEW info \in Signal
    PROVE  /\ Queued(q, info) \in Seq(Signal)
           /\ \A sigs : Deliverable(q, sigs) # {} => Deliverable(Queued(q, info), sigs) # {}
           /\ info.nr = "CHILD" => Deliverable(Queued(q, info), {"CHILD"}) # {}
<1>1. CASE Queued(q, info) = q /\ \E i \in DOMAIN q : q[i].nr = info.nr
  BY <1>1 DEF Deliverable
<1>2. CASE Queued(q, info) = Append(q, info)
  <2>1. /\ Append(q, info) \in Seq(Signal) /\ Len(Append(q, info)) = Len(q) + 1
        /\ \A i \in 1 .. Len(q) : Append(q, info)[i] = q[i]
        /\ Append(q, info)[Len(q) + 1] = info
    BY AppendProperties
  <2>2. Len(q) \in Nat /\ DOMAIN q = 1 .. Len(q) /\ DOMAIN Append(q, info) = 1 .. Len(q) + 1
    BY <2>1, LenProperties
  <2> QED BY <1>2, <2>1, <2>2 DEF Deliverable
<1> QED BY <1>1, <1>2 DEF Queued

-----------------------------------------------------------------------------
(* Signals: interpretation *)

\* The sources and their codes are told apart.
LEMMA CodesOfSources ==
    /\ {s \in Sources : Code[s] = 0} = {"USER"}
    /\ {s \in Sources : Code[s] = -1} = {"QUEUE"}
    /\ {s \in Sources : Code[s] = -2} = {"TIMER"}
    /\ {s \in Sources : Code[s] = -3} = {"MESGQ"}
    /\ {s \in Sources : Code[s] = -5} = {"QSIGIO"}
    /\ {s \in Sources : Code[s] = -6} = {"TKILL"}
    /\ {s \in Sources : Code[s] = 128} = {"KERNEL"}
    /\ \A n \in 1 .. 6 : {s \in Sources : Code[s] = n} = {}
  BY DEF Sources, Code

\* What source() returns belongs to the code (SigInfo::source()).
LEMMA SourceHasCode ==
    ASSUME NEW info, NEW s \in Sources, source(info) = {s}
    PROVE  s = "KERNEL" \/ info.code = Code[s]
<1>1. CASE isTrustedSource(info) /\ info.nr \in Special
  BY <1>1 DEF source
<1>2. CASE ~(isTrustedSource(info) /\ info.nr \in Special)
  <2>1. s \in {x \in Sources : Code[x] = info.code}
    BY <1>2 DEF source
  <2> QED BY <2>1
<1> QED BY <1>1, <1>2

\* The origins that the code and the number of a signal leave.
LEMMA OriginsOfSignals ==
    ASSUME NEW info \in Signal
    PROVE  /\ info.fields = Origin[info.origin] /\ info.errno = "NO_ERROR"
           /\ info.code = 0 => info.origin = "kill"
           /\ info.code = -1 => info.origin = "sigqueue"
           /\ info.code = -2 => info.origin = "timer"
           /\ info.code = -3 => info.origin = "mqueue"
           /\ info.code = -6 => info.origin = "tgkill"
           /\ info.code = -5 => info.origin = "io" /\ info.nr \in Special \ {"POLL"}
           /\ info.code > 0 =>
                \/ info.nr \in Special /\ info.origin \in Synchronous \union {"child"}
                \/ info.origin = "io" /\ info.nr = "POLL"
                \/ info.origin = "io" /\ info.nr \notin Special /\ info.code \in 1 .. 6
                \/ info.origin = "plain" /\ info.code = 128
           /\ info.code > 0 \/ info.code \in {0, -1, -2, -3, -5, -6}
<1>1. CASE info \in Sendable
  <2>1. /\ info.origin \in DOMAIN Origin \ {"child", "waitid"}
        /\ info = Info(info.nr, info.code, info.origin) /\ info.code \in Int
    BY <1>1, SignalsAssumption
  <2>2. info.origin \in {"kill", "sigqueue", "tgkill", "timer", "mqueue", "io", "plain",
                         "seccomp", "fault", "bounds", "pkey", "memory"}
    BY <2>1 DEF Origin
  <2>3. info.fields = Origin[info.origin] /\ info.errno = "NO_ERROR"
    BY <2>1 DEF Info
  <2>4. /\ info.origin = "kill" => info.code = 0
        /\ info.origin = "sigqueue" => info.code = -1
        /\ info.origin = "tgkill" => info.code = -6
        /\ info.origin = "timer" => info.code = -2
        /\ info.origin = "mqueue" => info.code = -3
        /\ info.origin \in Synchronous => info.code > 0
        /\ info.origin = "plain" => info.code = 128
        /\ info.origin = "io" =>
             \/ info.nr \notin Special \ {"POLL"} /\ info.code \in 1 .. 6
             \/ info.nr \in Special \ {"POLL"} /\ info.code = -5
    BY <1>1, OriginsAssumption DEF Code
  <2>5. info.origin \in Synchronous => info.nr \in Special
    BY <1>1, OriginsAssumption DEF Special, Synchronous
  <2>6. \/ info.origin \in {"kill", "sigqueue", "tgkill", "timer", "mqueue", "plain", "io"}
        \/ info.origin \in Synchronous
    BY <2>2 DEF Synchronous
  <2> QED BY <2>1, <2>3, <2>4, <2>5, <2>6
<1>2. CASE info \in ChildSignal
  BY <1>2 DEF ChildSignal, Info, Code, Special
<1> QED BY <1>1, <1>2 DEF Signal

\* What raises the signals that have data of their own.
LEMMA OriginsOfSpecial ==
    ASSUME NEW info \in Signal, info.code > 0, info.origin # "plain"
    PROVE  /\ info.nr = "CHILD" => info.origin = "child"
           /\ info.nr = "POLL" => info.origin = "io"
           /\ info.nr = "BAD_SYS" => info.origin = "seccomp"
           /\ info.nr \in {"ILL", "FPE"} => info.origin = "fault"
           /\ info.nr = "SEGV" =>
                \/ info.origin = "fault" /\ info.code \notin {3, 4}
                \/ info.origin = "bounds" /\ info.code = 3
                \/ info.origin = "pkey" /\ info.code = 4
           /\ info.nr = "BUS" =>
                \/ info.origin = "fault" /\ info.code \notin {4, 5}
                \/ info.origin = "memory"
<1>1. CASE info \in Sendable
  <2>1. info.origin \in {"io", "seccomp", "fault", "bounds", "pkey", "memory"}
    <3>1. info.origin \in Synchronous \union {"io"}
      BY <1>1, OriginsOfSignals, SignalsAssumption
    <3> QED BY <3>1 DEF Synchronous
  <2>2. /\ info.origin = "io" => info.nr = "POLL" \/ info.nr \notin Special
        /\ info.origin = "seccomp" => info.nr = "BAD_SYS"
        /\ info.origin = "fault" =>
             \/ info.nr \in {"ILL", "FPE", "TRAP"}
             \/ info.nr = "SEGV" /\ info.code \notin {3, 4}
             \/ info.nr = "BUS" /\ info.code \notin {4, 5}
        /\ info.origin = "bounds" => info.nr = "SEGV" /\ info.code = 3
        /\ info.origin = "pkey" => info.nr = "SEGV" /\ info.code = 4
        /\ info.origin = "memory" => info.nr = "BUS"
    BY <1>1, OriginsAssumption DEF Code
  <2> QED BY <2>1, <2>2 DEF Special
<1>2. CASE info \in ChildSignal
  BY <1>2 DEF ChildSignal, Info
<1> QED BY <1>1, <1>2 DEF Signal

\* The results of proc::wait() are of children, and of nothing else.
LEMMA WaitResults ==
    ASSUME NEW info \in WaitResult
    PROVE  /\ info.nr = "CHILD" /\ info.code \in {1, 2} /\ info.origin = "waitid"
           /\ info.errno = "INVALID_ARG" /\ info.fields = {"pid", "uid", "status"}
  BY DEF WaitResult, Info, Code, Origin

\* A signal has the same interpretation on every way of receiving it, but for
\* the faults.
LEMMA InterpretationsAgree ==
    ASSUME NEW info, info.errno = "NO_ERROR"
    PROVE  InfoViews(info) = {v \in SigInfoViews(info) : v.data \notin FaultData}
<1>1. InfoSource(info) = source(info)
  BY DEF InfoSource, source
<1> DEFINE shared == UNION {userSigData(info), queueSigData(info), msgQueueData(info), timerData(info),
                            childData(info), sysData(info), pollData(info)}
           faults == UNION {illData(info), fpeData(info), segfaultData(info), busData(info)}
<1>2. childData(info) = IF info.nr = "CHILD" THEN View("ChildData", Origin.child) ELSE {}
  <2>1. {"pid", "uid", "status"} \union {"utime", "stime"} = Origin.child
    BY DEF Origin
  <2> QED BY <2>1 DEF childData
<1>3. InfoViews(info) = shared
  BY <1>1, <1>2 DEF InfoViews, userSigData, queueSigData, msgQueueData, timerData, sysData, pollData
<1>4. SigInfoViews(info) = shared \union faults
  BY DEF SigInfoViews
<1>5. \A v \in shared : v.data \notin FaultData
  <2>1. \A v \in userSigData(info) : v.data = "UserSigData"
    BY DEF userSigData, View
  <2>2. \A v \in queueSigData(info) : v.data = "QueueSigData"
    BY DEF queueSigData, View
  <2>3. \A v \in msgQueueData(info) : v.data = "MsgQueueData"
    BY DEF msgQueueData, View
  <2>4. \A v \in timerData(info) : v.data = "TimerData"
    BY DEF timerData, View
  <2>5. \A v \in childData(info) : v.data = "ChildData"
    BY DEF childData, View
  <2>6. \A v \in sysData(info) : v.data = "SysData"
    BY DEF sysData, View
  <2>7. \A v \in pollData(info) : v.data = "PollData"
    BY DEF pollData, View
  <2> QED BY <2>1, <2>2, <2>3, <2>4, <2>5, <2>6, <2>7 DEF FaultData
<1>6. \A v \in faults : v.data \in FaultData
  <2>1. \A v \in illData(info) : v.data = "IllData"
    BY DEF illData, View
  <2>2. \A v \in fpeData(info) : v.data = "FPEData"
    BY DEF fpeData, View
  <2>3. \A v \in segfaultData(info) : v.data = "SegfaultData"
    BY DEF segfaultData, View
  <2>4. \A v \in busData(info) : v.data = "BusData"
    BY DEF busData, View
  <2> QED BY <2>1, <2>2, <2>3, <2>4 DEF FaultData
<1> HIDE DEF shared, faults
<1> QED BY <1>3, <1>4, <1>5, <1>6

\* The accessors read what the origin of a signal has set.
LEMMA DataIsSet ==
    ASSUME NEW info \in Signal, info.nr \in Special => info.code > 0, info.origin # "plain",
           NEW v \in SigInfoViews(info)
    PROVE  v.reads \subseteq info.fields
<1>1. info.fields = Origin[info.origin]
  BY OriginsOfSignals
<1>2. CASE v \in userSigData(info)
  <2>1. source(info) = {"USER"} /\ v.reads = {"pid", "uid"}
    BY <1>2 DEF userSigData, View
  <2>2. info.code = 0
    BY <2>1, SourceHasCode DEF Sources, Code
  <2> QED BY <1>1, <2>1, <2>2, OriginsOfSignals DEF Origin
<1>3. CASE v \in queueSigData(info)
  <2>1. source(info) = {"QUEUE"} /\ v.reads = {"pid", "uid", "value"}
    BY <1>3 DEF queueSigData, View
  <2>2. info.code = -1
    BY <2>1, SourceHasCode DEF Sources, Code
  <2> QED BY <1>1, <2>1, <2>2, OriginsOfSignals DEF Origin
<1>4. CASE v \in msgQueueData(info)
  <2>1. source(info) = {"MESGQ"} /\ v.reads = {"pid", "uid", "value"}
    BY <1>4 DEF msgQueueData, View
  <2>2. info.code = -3
    BY <2>1, SourceHasCode DEF Sources, Code
  <2> QED BY <1>1, <2>1, <2>2, OriginsOfSignals DEF Origin
<1>5. CASE v \in timerData(info)
  <2>1. source(info) = {"TIMER"} /\ v.reads = {"timerid", "overrun"}
    BY <1>5 DEF timerData, View
  <2>2. info.code = -2
    BY <2>1, SourceHasCode DEF Sources, Code
  <2> QED BY <1>1, <2>1, <2>2, OriginsOfSignals DEF Origin
<1>6. CASE v \in childData(info)
  <2>1. info.nr = "CHILD" /\ v.reads \subseteq {"pid", "uid", "status", "utime", "stime"}
    BY <1>6 DEF childData, View
  <2>2. info.origin = "child"
    BY <2>1, OriginsOfSpecial DEF Special
  <2> QED BY <1>1, <2>1, <2>2 DEF Origin
<1>7. CASE v \in sysData(info)
  <2>1. info.nr = "BAD_SYS" /\ v.reads = {"call_addr", "syscall", "arch", "errno"}
    BY <1>7 DEF sysData, View
  <2>2. info.origin = "seccomp"
    BY <2>1, OriginsOfSpecial DEF Special
  <2> QED BY <1>1, <2>1, <2>2 DEF Origin
<1>8. CASE v \in pollData(info)
  <2>1. info.nr = "POLL" /\ v.reads = {"fd", "band"}
    BY <1>8 DEF pollData, View
  <2>2. info.origin = "io"
    BY <2>1, OriginsOfSpecial DEF Special
  <2> QED BY <1>1, <2>1, <2>2 DEF Origin
<1>9. CASE v \in illData(info) \union fpeData(info)
  <2>1. info.nr \in {"ILL", "FPE"} /\ v.reads = {"addr"}
    BY <1>9 DEF illData, fpeData, View
  <2>2. info.origin = "fault"
    BY <2>1, OriginsOfSpecial DEF Special
  <2> QED BY <1>1, <2>1, <2>2 DEF Origin
<1>10. CASE v \in segfaultData(info)
  <2>1. /\ info.nr = "SEGV"
        /\ v.reads \subseteq {"addr"} \union (IF info.code = 3 THEN {"lower", "upper"} ELSE {})
                                     \union (IF info.code = 4 THEN {"pkey"} ELSE {})
    BY <1>10 DEF segfaultData, View, Code
  <2>2. \/ info.origin = "fault" /\ info.code \notin {3, 4}
        \/ info.origin = "bounds" /\ info.code = 3
        \/ info.origin = "pkey" /\ info.code = 4
    BY <2>1, OriginsOfSpecial DEF Special
  <2> QED BY <1>1, <2>1, <2>2 DEF Origin
<1>11. CASE v \in busData(info)
  <2>1. /\ info.nr = "BUS"
        /\ v.reads \subseteq {"addr"} \union (IF info.code \in {4, 5} THEN {"addr_lsb"} ELSE {})
    BY <1>11 DEF busData, View, Code
  <2>2. \/ info.origin = "fault" /\ info.code \notin {4, 5}
        \/ info.origin = "memory"
    BY <2>1, OriginsOfSpecial DEF Special
  <2> QED BY <1>1, <2>1, <2>2 DEF Origin
<1> QED BY <1>2, <1>3, <1>4, <1>5, <1>6, <1>7, <1>8, <1>9, <1>10, <1>11 DEF SigInfoViews

\* A genuine result is interpreted as it should be.
LEMMA GenuineIsUnderstood == LastIsGenuine => InfoMatchesOrigin
<1> SUFFICES ASSUME LastIsGenuine, HasInfo PROVE InfoMatchesOrigin
  BY DEF InfoMatchesOrigin, DataWasSent, SourceIsOrigin, ViewsAgree, HasInfo
<1> DEFINE info == last.info
<1>1. CASE info \in Signal
  <2>1. info.errno = "NO_ERROR"
    BY <1>1, OriginsOfSignals
  <2>2. InfoViews(info) = {v \in SigInfoViews(info) : v.data \notin FaultData}
    BY <2>1, InterpretationsAgree
  <2>3. DataWasSent
    <3> SUFFICES ASSUME info.nr \in Special => info.code > 0, info.origin # "plain",
                        NEW v \in Views(last.via, info)
                 PROVE  v.reads \subseteq info.fields
      BY DEF DataWasSent, Code
    <3>1. v \in SigInfoViews(info)
      BY <2>2 DEF Views
    <3> QED BY <1>1, <3>1, DataIsSet
  <2>4. SourceIsOrigin
    <3> SUFFICES ASSUME ~(info.origin = "kill" /\ info.nr \in Special)
                 PROVE  source(info) = ExpectedSource(info)
      BY DEF SourceIsOrigin, source, InfoSource
    <3>1. CASE info.code > 0 /\ info.nr \in Special
      <4>1. /\ info.origin \in Synchronous \union {"io", "child", "plain"}
            /\ info.origin = "io" => info.nr = "POLL"
        BY <1>1, <3>1, OriginsOfSignals DEF Synchronous
      <4>2. source(info) = {"KERNEL"}
        BY <1>1, <3>1, SignalsHaveNumbers DEF source, isTrustedSource
      <4>3. Expected(info.origin) = "KERNEL"
        BY <4>1 DEF Expected, Synchronous
      <4> QED BY <4>1, <4>2, <4>3 DEF ExpectedSource
    <3>2. CASE info.code > 0 /\ info.nr \notin Special
      <4>1. \/ info.origin = "io" /\ info.code \in 1 .. 6
            \/ info.origin = "plain" /\ info.code = 128
        BY <1>1, <3>2, OriginsOfSignals DEF Special
      <4>2. source(info) = {s \in Sources : Code[s] = info.code}
        BY <3>2 DEF source
      <4>3. CASE info.origin = "io" /\ info.code \in 1 .. 6
        BY <3>2, <4>2, <4>3, CodesOfSources DEF ExpectedSource, Special
      <4>4. CASE info.origin = "plain" /\ info.code = 128
        BY <4>2, <4>4, CodesOfSources DEF ExpectedSource, Expected
      <4> QED BY <4>1, <4>3, <4>4
    <3>3. CASE info.code = 0
      <4>1. info.origin = "kill" /\ info.nr \notin Special
        BY <1>1, <3>3, OriginsOfSignals
      <4>2. source(info) = {"USER"}
        BY <3>3, <4>1, CodesOfSources DEF source
      <4> QED BY <4>1, <4>2 DEF ExpectedSource, Expected
    <3>4. CASE info.code = -5
      <4>1. info.origin = "io" /\ info.nr \in Special \ {"POLL"}
        BY <1>1, <3>4, OriginsOfSignals
      <4>2. source(info) = {"QSIGIO"}
        BY <3>4, CodesOfSources DEF source, isTrustedSource
      <4> QED BY <4>1, <4>2 DEF ExpectedSource
    <3>5. CASE info.code \in {-1, -2, -3, -6}
      <4>1. source(info) = {s \in Sources : Code[s] = info.code}
        BY <3>5 DEF source, isTrustedSource
      <4>2. CASE info.code = -1
        BY <1>1, <4>1, <4>2, CodesOfSources, OriginsOfSignals DEF ExpectedSource, Expected
      <4>3. CASE info.code = -2
        BY <1>1, <4>1, <4>3, CodesOfSources, OriginsOfSignals DEF ExpectedSource, Expected
      <4>4. CASE info.code = -3
        BY <1>1, <4>1, <4>4, CodesOfSources, OriginsOfSignals DEF ExpectedSource, Expected
      <4>5. CASE info.code = -6
        BY <1>1, <4>1, <4>5, CodesOfSources, OriginsOfSignals DEF ExpectedSource, Expected
      <4> QED BY <3>5, <4>2, <4>3, <4>4, <4>5
    <3> QED BY <1>1, <3>1, <3>2, <3>3, <3>4, <3>5, OriginsOfSignals
  <2> QED BY <2>2, <2>3, <2>4 DEF InfoMatchesOrigin, ViewsAgree
<1>2. CASE last.via = "waitid" /\ info \in WaitResult
  <2>1. /\ info.nr = "CHILD" /\ info.code \in {1, 2} /\ info.origin = "waitid"
        /\ info.errno = "INVALID_ARG" /\ info.fields = {"pid", "uid", "status"}
    BY <1>2, WaitResults
  <2>2. source(info) = {"KERNEL"}
    BY <2>1 DEF source, isTrustedSource, Special
  <2>3. SourceIsOrigin
    BY <1>2, <2>1, <2>2 DEF SourceIsOrigin, ExpectedSource, Expected
  <2>4. SigInfoViews(info) = View("ChildData", {"pid", "uid", "status"})
    <3>1. /\ userSigData(info) = {} /\ queueSigData(info) = {}
          /\ msgQueueData(info) = {} /\ timerData(info) = {}
      BY <2>2 DEF userSigData, queueSigData, msgQueueData, timerData
    <3>2. /\ sysData(info) = {} /\ pollData(info) = {} /\ illData(info) = {}
          /\ fpeData(info) = {} /\ segfaultData(info) = {} /\ busData(info) = {}
      BY <2>1 DEF sysData, pollData, illData, fpeData, segfaultData, busData
    <3>3. childData(info) = View("ChildData", {"pid", "uid", "status"})
      <4>1. {"pid", "uid", "status"} \union {} = {"pid", "uid", "status"}
        OBVIOUS
      <4> QED BY <2>1, <4>1 DEF childData
    <3> QED BY <3>1, <3>2, <3>3 DEF SigInfoViews
  <2>5. DataWasSent
    BY <1>2, <2>1, <2>4 DEF DataWasSent, Views, View
  <2> QED BY <1>2, <2>3, <2>5 DEF InfoMatchesOrigin, ViewsAgree
<1> QED BY <1>1, <1>2 DEF LastIsGenuine, HasInfo

-----------------------------------------------------------------------------
(* Signals: the inductive invariant *)

\* In the beginning nothing is queued and all children run.
LEMMA InitInv == Init => SignalsInv
<1> SUFFICES ASSUME Init PROVE SignalsInv
  OBVIOUS
<1>1. mask \in [Thread -> SUBSET DOMAIN SignalNr]
  BY SignalsAssumption DEF Init
<1>2. TypeOK
  BY <1>1, SignalsAssumption DEF Init, TypeOK
<1>3. QueuesTyped
  BY EmptySeq DEF Init, QueuesTyped
<1>4. LastIsGenuine /\ Zombies = {}
  BY DEF Init, LastIsGenuine, Zombies
<1> QED BY <1>2, <1>3, <1>4 DEF SignalsInv

\* A thread takes a signal from its queue or from that of the process.
LEMMA SignalIsTaken ==
    ASSUME QueuesTyped, NEW t \in Thread, NEW sigs, IsPending(t, sigs), Dequeue(t, sigs),
           reaping' = IF Taken(t, sigs).nr = "CHILD" THEN reaping \union {t} ELSE reaping
    PROVE  /\ Taken(t, sigs) \in Signal
           /\ QueuesTyped'
           /\ IsComing => IsComing'
<1>1. directed[t] \in Seq(Signal) /\ pending \in Seq(Signal)
  BY DEF QueuesTyped
<1>2. CASE Deliverable(directed[t], sigs) # {}
  <2> DEFINE i == FirstOf(directed[t], sigs)
  <2>1. i \in DOMAIN directed[t]
    BY <1>1, <1>2, FirstIsDeliverable DEF Deliverable
  <2>2. /\ Taken(t, sigs) = directed[t][i] /\ pending' = pending
        /\ directed' = [directed EXCEPT ![t] = RemoveAt(directed[t], i)]
    BY <1>2 DEF Taken, Dequeue
  <2> HIDE DEF i
  <2>3. directed[t][i] \in Signal
    BY <1>1, <2>1, ElementOfSeq, LenProperties
  <2>4. /\ RemoveAt(directed[t], i) \in Seq(Signal)
        /\ \A some : directed[t][i].nr \notin some /\ Deliverable(directed[t], some) # {}
                       => Deliverable(RemoveAt(directed[t], i), some) # {}
    BY <1>1, <2>1, RemovedSignal
  <2>5. QueuesTyped'
    BY <2>2, <2>4 DEF QueuesTyped
  <2>6. directed'[t] = RemoveAt(directed[t], i) /\ \A u \in Thread \ {t} : directed'[u] = directed[u]
    BY <2>2 DEF QueuesTyped
  <2>7. ASSUME NEW u \in Thread, Deliverable(directed[u], {"CHILD"}) # {} PROVE IsComing'
    <3>1. CASE u # t
      BY <2>6, <2>7, <3>1 DEF IsComing
    <3>2. CASE u = t /\ directed[t][i].nr = "CHILD"
      BY <2>2, <3>2 DEF IsComing
    <3>3. CASE u = t /\ directed[t][i].nr # "CHILD"
      <4>1. directed[t][i].nr \notin {"CHILD"}
        BY <3>3
      <4>2. Deliverable(directed'[t], {"CHILD"}) # {}
        BY <2>4, <2>6, <2>7, <3>3, <4>1
      <4> QED BY <4>2 DEF IsComing
    <3> QED BY <3>1, <3>2, <3>3
  <2>8. reaping # {} \/ Deliverable(pending, {"CHILD"}) # {} => IsComing'
    BY <2>2 DEF IsComing
  <2> QED BY <2>2, <2>3, <2>5, <2>7, <2>8 DEF IsComing
<1>3. CASE Deliverable(directed[t], sigs) = {}
  <2> DEFINE i == FirstOf(pending, sigs)
  <2>1. i \in DOMAIN pending
    BY <1>1, <1>3, FirstIsDeliverable DEF Deliverable, IsPending
  <2>2. /\ Taken(t, sigs) = pending[i] /\ directed' = directed
        /\ pending' = RemoveAt(pending, i)
    BY <1>3 DEF Taken, Dequeue
  <2> HIDE DEF i
  <2>3. pending[i] \in Signal
    BY <1>1, <2>1, ElementOfSeq, LenProperties
  <2>4. /\ RemoveAt(pending, i) \in Seq(Signal)
        /\ \A some : pending[i].nr \notin some /\ Deliverable(pending, some) # {}
                       => Deliverable(RemoveAt(pending, i), some) # {}
    BY <1>1, <2>1, RemovedSignal
  <2>5. QueuesTyped'
    BY <2>2, <2>4 DEF QueuesTyped
  <2>6. CASE pending[i].nr = "CHILD"
    BY <2>2, <2>3, <2>5, <2>6 DEF IsComing
  <2>7. CASE pending[i].nr # "CHILD"
    <3>1. pending[i].nr \notin {"CHILD"}
      BY <2>7
    <3>2. Deliverable(pending, {"CHILD"}) # {} => Deliverable(pending', {"CHILD"}) # {}
      BY <2>2, <2>4, <3>1
    <3> QED BY <2>2, <2>3, <2>5, <2>7, <3>2 DEF IsComing
  <2> QED BY <2>6, <2>7
<1> QED BY <1>2, <1>3

\* A thread that receives a signal, of its queues, by any function.
LEMMA ReceivingKeepsInv ==
    ASSUME SignalsInv, TypeOK', NEW t \in Thread, NEW sigs, NEW via,
           IsPending(t, sigs), Dequeue(t, sigs), Receive(t, via, Taken(t, sigs)), child' = child
    PROVE  SignalsInv'
<1>1. /\ reaping' = IF Taken(t, sigs).nr = "CHILD" THEN reaping \union {t} ELSE reaping
      /\ last' = [via |-> via, info |-> Taken(t, sigs)]
  BY DEF Receive
<1>2. Taken(t, sigs) \in Signal /\ QueuesTyped' /\ (IsComing => IsComing')
  BY <1>1, SignalIsTaken DEF SignalsInv
<1>3. LastIsGenuine'
  BY <1>1, <1>2 DEF LastIsGenuine
<1>4. Zombies' = Zombies
  BY DEF Zombies
<1> QED BY <1>2, <1>3, <1>4 DEF SignalsInv

\* A step that receives nothing and leaves the queues and the children alone.
LEMMA NothingReceived ==
    ASSUME SignalsInv, TypeOK', UNCHANGED <<directed, pending, reaping, child>>, last' \in {None, last}
    PROVE  SignalsInv'
<1>1. QueuesTyped' /\ LastIsGenuine'
  BY DEF SignalsInv, QueuesTyped, LastIsGenuine
<1>2. Zombies' = Zombies /\ (IsComing => IsComing')
  BY DEF Zombies, IsComing
<1> QED BY <1>1, <1>2 DEF SignalsInv

\* Signals come in, from outside, from a thread and with the end of a child.
LEMMA SendingKeepsInv ==
    ASSUME SignalsInv, SendToProcess \/ (\E t \in Thread : SendToThread(t)) \/ \E c \in Child : ChildEnds(c)
    PROVE  SignalsInv'
<1>1. pending \in Seq(Signal) /\ directed \in [Thread -> Seq(Signal)]
  BY DEF SignalsInv, QueuesTyped
<1>2. CASE SendToProcess
  <2>1. PICK info \in Sendable : pending' = Queued(pending, info)
    BY <1>2 DEF SendToProcess
  <2>2. UNCHANGED <<mask, saved, directed, fd, pc, set, reaping, child>> /\ last' = None
    BY <1>2 DEF SendToProcess, calls
  <2>3. sent' \in 0 .. MaxSent
    BY <1>2, SignalsAssumption DEF SendToProcess, SignalsInv, TypeOK
  <2>4. info \in Signal
    BY DEF Signal
  <2>5. /\ pending' \in Seq(Signal)
        /\ Deliverable(pending, {"CHILD"}) # {} => Deliverable(pending', {"CHILD"}) # {}
    BY <1>1, <2>1, <2>4, QueuedSignal
  <2>6. TypeOK'
    BY <2>2, <2>3 DEF SignalsInv, TypeOK
  <2>7. QueuesTyped' /\ LastIsGenuine' /\ Zombies' = Zombies /\ (IsComing => IsComing')
    BY <1>1, <2>2, <2>5 DEF QueuesTyped, LastIsGenuine, Zombies, IsComing
  <2> QED BY <2>6, <2>7 DEF SignalsInv
<1>3. ASSUME NEW t \in Thread, SendToThread(t) PROVE SignalsInv'
  <2>1. PICK info \in Sendable : directed' = [directed EXCEPT ![t] = Queued(directed[t], info)]
    BY <1>3 DEF SendToThread
  <2>2. UNCHANGED <<mask, saved, pending, fd, pc, set, reaping, child>> /\ last' = None
    BY <1>3 DEF SendToThread, calls
  <2>3. sent' \in 0 .. MaxSent
    BY <1>3, SignalsAssumption DEF SendToThread, SignalsInv, TypeOK
  <2>4. info \in Signal /\ directed[t] \in Seq(Signal)
    BY <1>1 DEF Signal
  <2>5. /\ Queued(directed[t], info) \in Seq(Signal)
        /\ Deliverable(directed[t], {"CHILD"}) # {} => Deliverable(Queued(directed[t], info), {"CHILD"}) # {}
    BY <2>4, QueuedSignal
  <2>6. TypeOK'
    BY <2>2, <2>3 DEF SignalsInv, TypeOK
  <2>7. QueuesTyped' /\ LastIsGenuine' /\ Zombies' = Zombies
    BY <1>1, <2>1, <2>2, <2>5 DEF QueuesTyped, LastIsGenuine, Zombies
  <2>8. \A u \in Thread : Deliverable(directed[u], {"CHILD"}) # {} => Deliverable(directed'[u], {"CHILD"}) # {}
    <3>1. directed'[t] = Queued(directed[t], info) /\ \A u \in Thread \ {t} : directed'[u] = directed[u]
      BY <1>1, <2>1
    <3> QED BY <2>5, <3>1
  <2>9. IsComing => IsComing'
    BY <2>2, <2>8 DEF IsComing
  <2> QED BY <2>6, <2>7, <2>9 DEF SignalsInv
<1>4. ASSUME NEW c \in Child, ChildEnds(c) PROVE SignalsInv'
  <2>1. PICK event \in {"EXITED", "KILLED"} :
          child' = [child EXCEPT ![c] = event] /\ pending' = Queued(pending, Info("CHILD", Code[event], "child"))
    BY <1>4 DEF ChildEnds
  <2>2. UNCHANGED <<mask, saved, directed, fd, pc, set, reaping, sent>> /\ last' = None
    BY <1>4 DEF ChildEnds, calls
  <2> DEFINE info == Info("CHILD", Code[event], "child")
  <2>3. info \in Signal /\ info.nr = "CHILD"
    BY DEF Signal, ChildSignal, Info
  <2>4. pending' = Queued(pending, info)
    BY <2>1
  <2> HIDE DEF info
  <2>5. pending' \in Seq(Signal) /\ Deliverable(pending', {"CHILD"}) # {}
    BY <1>1, <2>3, <2>4, QueuedSignal
  <2>6. TypeOK'
    BY <2>1, <2>2 DEF SignalsInv, TypeOK
  <2>7. QueuesTyped' /\ LastIsGenuine' /\ IsComing'
    BY <1>1, <2>2, <2>5 DEF QueuesTyped, LastIsGenuine, IsComing
  <2> QED BY <2>6, <2>7 DEF SignalsInv
<1> QED BY <1>2, <1>3, <1>4

\* A handler runs, and what a wait function and the SignalFD return.
LEMMA DeliveryKeepsInv ==
    ASSUME SignalsInv, NEW t \in Thread, Deliver(t) \/ EndWait(t) \/ readEvent(t)
    PROVE  SignalsInv'
<1>1. TypeOK
  BY DEF SignalsInv
<1>2. CASE Deliver(t)
  <2>1. /\ IsPending(t, Unblocked(t)) /\ Dequeue(t, Unblocked(t))
        /\ Receive(t, "handler", Taken(t, Unblocked(t)))
        /\ Handle(t) /\ UNCHANGED <<fd, child, sent>>
    BY <1>2 DEF Deliver
  <2>2. reaping' \subseteq Thread
    BY <1>1, <2>1 DEF Receive, TypeOK
  <2>3. /\ mask' \in [Thread -> SUBSET DOMAIN SignalNr] /\ saved' \in [Thread -> SUBSET DOMAIN SignalNr]
        /\ pc' \in [Thread -> {"runs", "wait", "wait_info", "timed_wait", "suspend", "readEvent"}]
        /\ set' \in [Thread -> SUBSET DOMAIN SignalNr]
    BY <1>1, <2>1 DEF Handle, calls, TypeOK
  <2>4. TypeOK'
    BY <1>1, <2>1, <2>2, <2>3 DEF TypeOK
  <2> QED BY <2>1, <2>4, ReceivingKeepsInv
<1>3. CASE EndWait(t)
  <2>1. /\ IsPending(t, set[t]) /\ Dequeue(t, set[t]) /\ Receive(t, pc[t], Taken(t, set[t]))
        /\ pc' = [pc EXCEPT ![t] = "runs"] /\ set' = [set EXCEPT ![t] = {}]
        /\ UNCHANGED <<mask, saved, fd, child, sent>>
    BY <1>3 DEF EndWait
  <2>2. reaping' \subseteq Thread
    BY <1>1, <2>1 DEF Receive, TypeOK
  <2>3. TypeOK'
    BY <1>1, <2>1, <2>2 DEF TypeOK
  <2> QED BY <2>1, <2>3, ReceivingKeepsInv
<1>4. CASE readEvent(t)
  <2>1. UNCHANGED <<mask, saved, fd, set, child, sent>>
    BY <1>4 DEF readEvent
  <2>2. CASE /\ IsPending(t, fd.mask) /\ Receive(t, "SignalFD", Taken(t, fd.mask))
             /\ Dequeue(t, fd.mask) /\ pc' = [pc EXCEPT ![t] = "runs"]
    <3>1. reaping' \subseteq Thread
      BY <1>1, <2>2 DEF Receive, TypeOK
    <3>2. TypeOK'
      BY <1>1, <2>1, <2>2, <3>1 DEF TypeOK
    <3> QED BY <2>1, <2>2, <3>2, ReceivingKeepsInv
  <2>3. CASE pc' = [pc EXCEPT ![t] = "readEvent"] /\ last' = None /\ UNCHANGED <<queues, reaping>>
    <3>1. TypeOK'
      BY <1>1, <2>1, <2>3 DEF TypeOK
    <3> QED BY <2>1, <2>3, <3>1, NothingReceived DEF queues
  <2> QED BY <1>4, <2>2, <2>3 DEF readEvent
<1> QED BY <1>2, <1>3, <1>4

\* The handler of a fault runs at once.
LEMMA FaultKeepsInv ==
    ASSUME SignalsInv, NEW t \in Thread, Fault(t)
    PROVE  SignalsInv'
<1>1. TypeOK
  BY DEF SignalsInv
<1>2. PICK info \in Sendable : Receive(t, "handler", info)
  BY DEF Fault
<1>3. UNCHANGED <<mask, saved, pending, directed, fd, pc, set, child>> /\ sent < MaxSent /\ sent' = sent + 1
  BY DEF Fault, queues, calls
<1>4. last'.info = info /\ reaping \subseteq reaping' /\ reaping' \subseteq Thread
  BY <1>1, <1>2 DEF Receive, TypeOK
<1>5. sent' \in 0 .. MaxSent
  BY <1>1, <1>3, SignalsAssumption DEF TypeOK
<1>6. TypeOK'
  BY <1>1, <1>3, <1>4, <1>5 DEF TypeOK
<1>7. QueuesTyped' /\ LastIsGenuine' /\ Zombies' = Zombies /\ (IsComing => IsComing')
  BY <1>3, <1>4 DEF SignalsInv, QueuesTyped, LastIsGenuine, Signal, Zombies, IsComing
<1> QED BY <1>6, <1>7 DEF SignalsInv

\* The mask of a thread is changed (block(), unblock(), set_sigmask(), suspend()).
LEMMA MasksKeepInv ==
    ASSUME SignalsInv, NEW t \in Thread, block(t) \/ unblock(t) \/ set_sigmask(t) \/ suspend(t)
    PROVE  SignalsInv'
<1>1. TypeOK /\ mask[t] \subseteq DOMAIN SignalNr /\ \A s \in SigSets : s \subseteq DOMAIN SignalNr
  BY SignalsAssumption DEF SignalsInv, TypeOK
<1>2. ASSUME NEW m, m \subseteq DOMAIN SignalNr, SetMask(t, m) PROVE SignalsInv'
  <2>1. /\ mask' = [mask EXCEPT ![t] = m] /\ last' = None
        /\ UNCHANGED <<saved, directed, pending, fd, pc, set, reaping, child, sent>>
    BY <1>2 DEF SetMask, queues, calls
  <2>2. TypeOK'
    BY <1>1, <1>2, <2>1 DEF TypeOK
  <2> QED BY <2>1, <2>2, NothingReceived
<1>3. CASE suspend(t)
  <2>1. PICK s \in SigSets \union {mask[t]} : mask' = [mask EXCEPT ![t] = s]
    BY <1>3 DEF suspend
  <2>2. /\ saved' = [saved EXCEPT ![t] = mask[t]] /\ pc' = [pc EXCEPT ![t] = "suspend"] /\ last' = None
        /\ UNCHANGED <<directed, pending, fd, set, reaping, child, sent>>
    BY <1>3 DEF suspend, queues
  <2>3. TypeOK'
    BY <1>1, <2>1, <2>2 DEF TypeOK
  <2> QED BY <2>2, <2>3, NothingReceived
<1>4. CASE block(t) \/ unblock(t) \/ set_sigmask(t)
  <2>1. PICK s \in SigSets : SetMask(t, mask[t] \union s) \/ SetMask(t, mask[t] \ s) \/ SetMask(t, s)
    BY <1>4 DEF block, unblock, set_sigmask
  <2>2. /\ mask[t] \union s \subseteq DOMAIN SignalNr
        /\ mask[t] \ s \subseteq DOMAIN SignalNr /\ s \subseteq DOMAIN SignalNr
    BY <1>1
  <2> QED BY <1>2, <2>1, <2>2
<1> QED BY <1>3, <1>4

\* Calls that begin to wait, time out, and those that change the SignalFD.
LEMMA CallsKeepInv ==
    ASSUME SignalsInv, NEW t \in Thread, StartWait(t) \/ TimeOut(t) \/ create(t) \/ adjustMask(t)
    PROVE  SignalsInv'
<1>1. TypeOK /\ \A s \in SigSets : s \subseteq DOMAIN SignalNr
  BY SignalsAssumption DEF SignalsInv, TypeOK
<1>2. UNCHANGED <<directed, pending, reaping, child>> /\ last' = None
  BY DEF StartWait, TimeOut, create, adjustMask, queues
<1>3. CASE StartWait(t)
  <2>1. PICK s \in SigSets \ {{}}, call \in {"wait", "wait_info", "timed_wait"} :
          pc' = [pc EXCEPT ![t] = call] /\ set' = [set EXCEPT ![t] = s]
    BY <1>3 DEF StartWait
  <2>2. UNCHANGED <<mask, saved, fd, sent>>
    BY <1>3 DEF StartWait
  <2>3. TypeOK'
    BY <1>1, <1>2, <2>1, <2>2 DEF TypeOK
  <2> QED BY <1>2, <2>3, NothingReceived
<1>4. CASE TimeOut(t)
  <2>1. /\ pc' = [pc EXCEPT ![t] = "runs"] /\ set' = [set EXCEPT ![t] = {}]
        /\ UNCHANGED <<mask, saved, fd, sent>>
    BY <1>4 DEF TimeOut
  <2>2. TypeOK'
    BY <1>1, <1>2, <2>1 DEF TypeOK
  <2> QED BY <1>2, <2>2, NothingReceived
<1>5. CASE create(t)
  <2>1. UNCHANGED <<mask, saved, pc, set, sent>>
    BY <1>5 DEF create, calls
  <2>2. /\ fd' \in [open : BOOLEAN, mask : SUBSET DOMAIN SignalNr, nonblock : BOOLEAN]
        /\ fd'.mask # {} => fd'.open
    <3>1. CASE fd' = [open |-> FALSE, mask |-> {}, nonblock |-> FALSE]
      BY <3>1
    <3>2. ASSUME NEW s \in SigSets, NEW nb \in BOOLEAN, fd' = [open |-> TRUE, mask |-> s, nonblock |-> nb]
          PROVE  fd' \in [open : BOOLEAN, mask : SUBSET DOMAIN SignalNr, nonblock : BOOLEAN] /\ fd'.open
      BY <1>1, <3>2
    <3> QED BY <1>5, <3>1, <3>2 DEF create
  <2>3. TypeOK'
    BY <1>1, <1>2, <2>1, <2>2 DEF TypeOK
  <2> QED BY <1>2, <2>3, NothingReceived
<1>6. CASE adjustMask(t)
  <2>1. UNCHANGED <<mask, saved, pc, set, sent>>
    BY <1>6 DEF adjustMask, calls
  <2>2. /\ fd' \in [open : BOOLEAN, mask : SUBSET DOMAIN SignalNr, nonblock : BOOLEAN]
        /\ fd'.mask # {} => fd'.open
    BY <1>1, <1>6 DEF adjustMask, TypeOK
  <2>3. TypeOK'
    BY <1>1, <1>2, <2>1, <2>2 DEF TypeOK
  <2> QED BY <1>2, <2>3, NothingReceived
<1> QED BY <1>3, <1>4, <1>5, <1>6

\* proc::wait() collects a zombie, or finds none.
LEMMA CollectingKeepsInv ==
    ASSUME SignalsInv, NEW t \in Thread, Collect(t) \/ CollectNothing(t)
    PROVE  SignalsInv'
<1>1. TypeOK
  BY DEF SignalsInv
<1>2. CASE Collect(t)
  <2>1. PICK c \in Zombies :
          /\ child' = [child EXCEPT ![c] = "gone"]
          /\ last' = [via |-> "waitid",
                      info |-> [Info("CHILD", Code[child[c]], "waitid") EXCEPT !.errno = "INVALID_ARG"]]
    BY <1>2 DEF Collect
  <2>2. t \in reaping /\ UNCHANGED <<mask, saved, directed, pending, fd, pc, set, reaping, sent>>
    BY <1>2 DEF Collect, queues, calls
  <2>3. c \in Child /\ child[c] \in {"EXITED", "KILLED"}
    BY DEF Zombies
  <2>4. last'.via = "waitid" /\ last'.info \in WaitResult
    BY <2>1, <2>3 DEF WaitResult
  <2>5. TypeOK'
    BY <1>1, <2>1, <2>2 DEF TypeOK
  <2>6. QueuesTyped' /\ LastIsGenuine' /\ IsComing'
    BY <2>2, <2>4 DEF SignalsInv, QueuesTyped, LastIsGenuine, IsComing
  <2> QED BY Zenon, <2>5, <2>6 DEF SignalsInv
<1>3. CASE CollectNothing(t)
  <2>1. /\ Zombies = {} /\ reaping' = reaping \ {t} /\ last' = None
        /\ UNCHANGED <<mask, saved, directed, pending, fd, pc, set, child, sent>>
    BY <1>3 DEF CollectNothing, queues, calls
  <2>2. TypeOK'
    BY <1>1, <2>1 DEF TypeOK
  <2>3. QueuesTyped' /\ LastIsGenuine' /\ Zombies' = {}
    BY <2>1 DEF SignalsInv, QueuesTyped, LastIsGenuine, Zombies
  <2> QED BY <2>2, <2>3 DEF SignalsInv
<1> QED BY <1>2, <1>3

\* Every step keeps the invariant.
LEMMA NextInv == SignalsInv /\ [Next]_vars => SignalsInv'
<1> SUFFICES ASSUME SignalsInv, [Next]_vars PROVE SignalsInv'
  OBVIOUS
<1>1. CASE UNCHANGED vars
  <2>1. TypeOK'
    BY <1>1 DEF vars, SignalsInv, TypeOK
  <2> QED BY <1>1, <2>1, NothingReceived DEF vars
<1>2. CASE SendToProcess \/ \E c \in Child : ChildEnds(c)
  BY <1>2, SendingKeepsInv
<1>3. ASSUME NEW t \in Thread, ThreadStep(t) PROVE SignalsInv'
  BY <1>3, SendingKeepsInv, DeliveryKeepsInv, FaultKeepsInv, MasksKeepInv, CallsKeepInv,
     CollectingKeepsInv DEF ThreadStep
<1> QED BY <1>1, <1>2, <1>3 DEF Next

-----------------------------------------------------------------------------
(* Signals: theorems *)

\* The invariant holds in every reachable state.
THEOREM SignalsInvariance == Spec => []SignalsInv
  BY InitInv, NextInv, PTL DEF Spec

\* A program that asks how a signal came, and for the data of that way, is told
\* the truth, and the same by a handler, a wait function and the SignalFD
\* (SigInfo, SignalFD::Info).  A plain POLL has no data, and an I/O event on
\* another signal than POLL no source with a name.
THEOREM SignalsAreUnderstood == Spec => []InfoMatchesOrigin
<1>1. SignalsInv => InfoMatchesOrigin
  BY GenuineIsUnderstood DEF SignalsInv
<1> QED BY <1>1, SignalsInvariance, PTL

\* However many children end behind one Signal::CHILD, and whoever receives
\* it, a zombie finds somebody who collects it (proc::wait()).
THEOREM ZombiesAreCollected == Spec => []NoZombieForgotten
<1>1. SignalsInv => NoZombieForgotten
  BY DEF SignalsInv, NoZombieForgotten, IsComing
<1> QED BY <1>1, SignalsInvariance, PTL

-----------------------------------------------------------------------------
(* Privileges: the inductive invariant, for a process and what it gave up *)

UserIds == [real : Int, effective : Int, saved : Int, fs : Int]
Capabilities == SUBSET (Capability \union Inheritable)
Limit == [soft : Nat, hard : Nat]

TaskState ==
    [user : UserIds, permitted : Capabilities, active : Capabilities, ambient : Capabilities,
     bounding : Capabilities, secure : [set : SUBSET SecureBit, locked : SUBSET SecureBit],
     no_new_privs : BOOLEAN, mdwe : SUBSET MemoryWriteExecFlag, limits : [LimitType -> Limit],
     sched : [policy : SchedulerPolicy, nice : Int, priority : Int]]

GivenUpState ==
    [user : UserIds, root : BOOLEAN, bounding : SUBSET Capability, privs : BOOLEAN,
     mdwe : SUBSET MemoryWriteExecFlag, locked : SUBSET (SecureBit \X BOOLEAN),
     limits : [LimitsUsed -> Limit], nice : Int, priority : Int]

\* No ID of ROOT is left, and no capability, from which more could be had.
Powerless(t) ==
    /\ ROOT \notin Ids(t.user) \union {t.user.fs}
    /\ t.permitted = {} /\ t.active = {} /\ t.ambient = {}

\* Also the hard limits, up to which the process may help itself, hold back.
RootStaysAway(t, g) ==
    g.root => Powerless(t) /\ g.nice <= BestNice(t) /\ BestPriority(t) <= g.priority

SoftBelowHard(t) == \A l \in LimitType : t.limits[l].soft <= t.limits[l].hard

LimitsAreKnown(t, g) ==
    \A name \in LimitsUsed : \E n \in LimitsUsed :
        ResourceOf[n] = ResourceOf[name] /\ t.limits[ResourceOf[name]] = g.limits[n]

Restricted(t, g) ==
    /\ t.user = g.user
    /\ g.bounding \intersect t.bounding = {}
    /\ g.privs => t.no_new_privs
    /\ g.mdwe = t.mdwe
    /\ \A b \in SecureBit : /\ <<b, TRUE>> \in g.locked => b \in t.secure.set
                            /\ <<b, FALSE>> \in g.locked => b \notin t.secure.set

Holds(t, g) ==
    /\ t \in TaskState /\ g \in GivenUpState
    /\ RootStaysAway(t, g) /\ SoftBelowHard(t) /\ LimitsAreKnown(t, g) /\ Restricted(t, g)

PrivilegesInv ==
    DOMAIN given_up = DOMAIN task /\ \A p \in DOMAIN task : Holds(task[p], given_up[p])

-----------------------------------------------------------------------------
(* Privileges: lemmas *)

\* This is what the property says (RestrictionsLast).
LEMMA HoldsForAll == PrivilegesInv => RestrictionsLast
<1> SUFFICES ASSUME PrivilegesInv, NEW p \in DOMAIN task
             PROVE  LET g == given_up[p]
                    IN /\ task[p].user = g.user
                       /\ g.root => /\ ROOT \notin Ids(task[p].user) \union {task[p].user.fs}
                                    /\ ~has(p, "SETUID")
                                    /\ task[p].sched.nice >= g.nice /\ task[p].sched.priority <= g.priority
                       /\ \A name \in LimitsUsed : getLimit(p, name) \in
                            {g.limits[n] : n \in {m \in LimitsUsed : ResourceOf[m] = ResourceOf[name]}}
                       /\ \A cap \in g.bounding : ~get_cap_in_bounding_set(p, cap)
                       /\ g.privs => get_no_new_privs(p)
                       /\ g.mdwe = get_memory_write_exec_flags(p)
                       /\ \A l \in g.locked : (l[1] \in get_secure_bits(p).set) = l[2]
  BY DEF RestrictionsLast
<1> DEFINE t == task[p]
           g == given_up[p]
<1>1. Holds(t, g)
  BY DEF PrivilegesInv
<1>2. t.user = g.user /\ (g.privs => t.no_new_privs) /\ g.mdwe = t.mdwe
  BY <1>1 DEF Holds, Restricted
<1>3. ASSUME g.root
      PROVE  /\ ROOT \notin Ids(t.user) \union {t.user.fs} /\ "SETUID" \notin t.active
             /\ t.sched.nice >= g.nice /\ t.sched.priority <= g.priority
  <2>1. /\ t.sched.nice \in Int /\ t.sched.priority \in Int /\ g.nice \in Int /\ g.priority \in Int
        /\ t.limits["NICE"].hard \in Int /\ t.limits["RT_PRIO"].hard \in Int
    BY <1>1 DEF Holds, TaskState, GivenUpState, Limit, LimitType
  <2>2. Powerless(t) /\ g.nice <= BestNice(t) /\ BestPriority(t) <= g.priority
    BY <1>1, <1>3 DEF Holds, RootStaysAway
  <2>3. t.sched.nice >= g.nice /\ t.sched.priority <= g.priority
    BY <2>1, <2>2 DEF BestNice, BestPriority, Smaller, Larger
  <2> QED BY <2>2, <2>3 DEF Powerless
<1>4. \A name \in LimitsUsed : t.limits[ResourceOf[name]] \in
        {g.limits[n] : n \in {m \in LimitsUsed : ResourceOf[m] = ResourceOf[name]}}
  BY <1>1 DEF Holds, LimitsAreKnown
<1>5. \A cap \in g.bounding : cap \notin t.bounding
  BY <1>1 DEF Holds, Restricted
<1>6. ASSUME NEW l \in g.locked PROVE (l[1] \in t.secure.set) = l[2]
  <2>1. PICK b \in SecureBit, value \in BOOLEAN : l = <<b, value>>
    BY <1>1 DEF Holds, GivenUpState
  <2>2. CASE value = TRUE
    BY <1>1, <1>6, <2>1, <2>2 DEF Holds, Restricted
  <2>3. CASE value = FALSE
    <3>1. l[1] = b /\ l[2] = FALSE /\ b \notin t.secure.set
      BY <1>1, <1>6, <2>1, <2>3 DEF Holds, Restricted
    <3>2. (b \in t.secure.set) = FALSE
      BY <3>1
    <3> QED BY <3>1, <3>2
  <2> QED BY <2>2, <2>3
<1> QED BY <1>2, <1>3, <1>4, <1>5, <1>6
        DEF has, getLimit, get_limit, get_cap_in_bounding_set, get_no_new_privs,
            get_memory_write_exec_flags, get_secure_bits

\* A call that changes one process (Changes, Only).
LEMMA ChangesKeep ==
    ASSUME PrivilegesInv, NEW p \in DOMAIN task, NEW t, NEW g, Changes(p, t, g), Holds(t, g)
    PROVE  PrivilegesInv'
<1>1. DOMAIN task' = DOMAIN task /\ DOMAIN given_up' = DOMAIN task
  BY DEF Changes, PrivilegesInv
<1>2. /\ task'[p] = t /\ given_up'[p] = g
      /\ \A q \in DOMAIN task \ {p} : task'[q] = task[q] /\ given_up'[q] = given_up[q]
  BY DEF Changes, PrivilegesInv
<1>3. \A q \in DOMAIN task : Holds(task'[q], given_up'[q])
  BY <1>2 DEF PrivilegesInv
<1> QED BY <1>1, <1>3 DEF PrivilegesInv

\* The bounds that are best for a process depend on few of its fields.
LEMMA BoundsDependOnLimits ==
    ASSUME NEW t \in TaskState, NEW u \in TaskState, u.limits = t.limits, u.sched = t.sched
    PROVE  BestNice(u) = BestNice(t) /\ BestPriority(u) = BestPriority(t)
    BY DEF BestNice, BestPriority, Smaller, Larger

\* A process whose limits and scheduling stay is bounded as before.
LEMMA SameLimits ==
    ASSUME NEW t, NEW g, Holds(t, g), NEW u \in TaskState, u.limits = t.limits, u.sched = t.sched,
           NEW h \in GivenUpState, h.limits = g.limits, h.root => g.root /\ Powerless(u),
           h.nice = g.nice, h.priority = g.priority, Restricted(u, h)
    PROVE  Holds(u, h)
<1>1. t \in TaskState /\ g \in GivenUpState
  BY DEF Holds
<1>2. RootStaysAway(u, h)
  BY <1>1, BoundsDependOnLimits DEF Holds, RootStaysAway
<1>3. SoftBelowHard(u) /\ LimitsAreKnown(u, h)
  BY DEF Holds, SoftBelowHard, LimitsAreKnown
<1> QED BY <1>2, <1>3 DEF Holds

-----------------------------------------------------------------------------
(* Privileges: steps of a process and of what it gave up *)

\* Who changes all IDs has no capability left if ROOT is none of them any
\* more, unless the settings say otherwise; and who has none does not become
\* ROOT (set_creds(), the kernel's rules for setresuid()).
LEMMA IdsChange ==
    ASSUME NEW t, NEW g, Holds(t, g), NEW user \in UserIds, user.fs = user.effective,
           "SETUID" \in t.active \/ Ids(user) \subseteq Ids(t.user)
    PROVE  Holds(Adjusted(t, user), GivenUp(g, t, user))
<1> DEFINE u == Adjusted(t, user)
           h == GivenUp(g, t, user)
<1>1. t \in TaskState /\ g \in GivenUpState
  BY DEF Holds
<1>2. BestNice(t) \in Int /\ BestPriority(t) \in Int
  BY SMTT(60), <1>1 DEF BestNice, BestPriority, Smaller, Larger, TaskState, Limit, LimitType
<1>3. u \in TaskState
  BY ZenonT(30), <1>1 DEF Adjusted, TaskState, Capabilities
<1>4. h \in GivenUpState
  BY ZenonT(30), <1>1, <1>2 DEF GivenUp, GivenUpState
<1>5. /\ u.user = user /\ u.limits = t.limits /\ u.sched = t.sched
      /\ u.bounding = t.bounding /\ u.secure = t.secure
      /\ u.no_new_privs = t.no_new_privs /\ u.mdwe = t.mdwe
  BY <1>1 DEF Adjusted, TaskState
<1>6. /\ h.user = user /\ h.limits = g.limits /\ h.bounding = g.bounding
      /\ h.privs = g.privs /\ h.mdwe = g.mdwe /\ h.locked = g.locked
  BY <1>1 DEF GivenUp, GivenUpState
<1>7. Restricted(u, h)
  BY <1>5, <1>6 DEF Holds, Restricted
<1>8. CASE GivesUpRoot(t, user)
  <2>1. h.root = TRUE /\ h.nice = BestNice(t) /\ h.priority = BestPriority(t)
    BY <1>1, <1>8 DEF GivenUp, GivenUpState
  <2>2. Powerless(u)
    <3>1. /\ ROOT \in Ids(t.user) /\ ROOT \notin Ids(user)
          /\ "KEEP_CAPS" \notin t.secure.set /\ "NO_SETUID_FIXUP" \notin t.secure.set
      BY <1>8 DEF GivesUpRoot
    <3>2. user.effective # ROOT /\ user.fs # ROOT
      BY <3>1 DEF Ids
    <3>3. u.permitted = {} /\ u.active = {} /\ u.ambient = {}
      BY <1>1, <3>1, <3>2 DEF Adjusted, TaskState
    <3> QED BY <1>5, <3>1, <3>2, <3>3 DEF Powerless
  <2>3. RootStaysAway(u, h)
    BY <1>1, <1>2, <1>3, <1>5, <2>1, <2>2, BoundsDependOnLimits DEF RootStaysAway
  <2> QED BY <1>3, <1>4, <1>5, <1>6, <1>7, <2>3 DEF Holds, SoftBelowHard, LimitsAreKnown
<1>9. CASE ~GivesUpRoot(t, user)
  <2>1. h.root = g.root /\ h.nice = g.nice /\ h.priority = g.priority
    BY <1>1, <1>9 DEF GivenUp, GivenUpState
  <2>2. ASSUME g.root PROVE Powerless(u)
    <3>1. Powerless(t)
      BY <2>2 DEF Holds, RootStaysAway
    <3>2. ROOT \notin Ids(t.user) /\ ROOT \notin Ids(user) /\ t.user.effective # ROOT
      BY <3>1 DEF Powerless, Ids
    <3>3. user.effective # ROOT /\ user.fs # ROOT
      BY <3>2 DEF Ids
    <3>4. u.permitted = {} /\ u.active = {} /\ u.ambient = {}
      BY <1>1, <3>1, <3>2, <3>3 DEF Adjusted, TaskState, Powerless
    <3> QED BY <1>5, <3>2, <3>3, <3>4 DEF Powerless
  <2> QED BY <1>3, <1>4, <1>5, <1>6, <1>7, <2>1, <2>2, SameLimits
<1> QED BY <1>8, <1>9

\* set_fs_user_id(): who has no ID of ROOT does not get this one of ROOT either.
LEMMA FsUserIdKeeps ==
    ASSUME PrivilegesInv, NEW p \in DOMAIN task, NEW uid \in UserId \union {INVALID},
           set_fs_user_id(p, uid)
    PROVE  PrivilegesInv'
<1> DEFINE t == task[p]
           g == given_up[p]
           u == setfsuid(p, uid)
           h == [g EXCEPT !.user.fs = IF u.user.fs = uid THEN uid ELSE @]
<1>1. Holds(t, g)
  BY DEF PrivilegesInv
<1>2. t \in TaskState /\ g \in GivenUpState /\ uid \in Int
  BY <1>1, PrivilegesAssumption DEF Holds, INVALID
<1>3. Changes(p, u, h)
  BY DEF set_fs_user_id
<1>4. CASE u = t
  <2>1. t.user = g.user
    BY <1>1 DEF Holds, Restricted
  <2>2. h = g
    BY <1>2, <1>4, <2>1 DEF GivenUpState, UserIds
  <2> QED BY <1>1, <1>3, <1>4, <2>2, ChangesKeep
<1>5. CASE u # t
  <2>1. uid \in UserId /\ ("SETUID" \in t.active \/ uid \in Ids(t.user) \union {t.user.fs})
    BY <1>5 DEF setfsuid, has
  <2>2. /\ u \in TaskState /\ u.user = [t.user EXCEPT !.fs = uid]
        /\ u.limits = t.limits /\ u.sched = t.sched /\ u.bounding = t.bounding
        /\ u.secure = t.secure /\ u.no_new_privs = t.no_new_privs /\ u.mdwe = t.mdwe
        /\ u.permitted = t.permitted /\ u.ambient = t.ambient
        /\ u.active \subseteq t.active \union t.permitted
    BY ZenonT(60), <1>2, <2>1 DEF setfsuid, has, TaskState, UserIds, Capabilities, Capability
  <2>3. /\ h \in GivenUpState /\ h.user = [g.user EXCEPT !.fs = uid]
        /\ h.root = g.root /\ h.limits = g.limits /\ h.nice = g.nice /\ h.priority = g.priority
        /\ h.bounding = g.bounding /\ h.privs = g.privs /\ h.mdwe = g.mdwe /\ h.locked = g.locked
    BY SMTT(30), <1>2, <2>2 DEF GivenUpState, TaskState, UserIds
  <2>4. Restricted(u, h)
    BY ZenonT(60), <1>1, <2>2, <2>3 DEF Holds, Restricted
  <2>5. ASSUME g.root PROVE Powerless(u)
    <3>1. Powerless(t)
      BY <1>1, <2>5 DEF Holds, RootStaysAway
    <3>2. uid # ROOT
      BY <2>1, <3>1 DEF Powerless
    <3>3. Ids(u.user) = Ids(t.user) /\ u.user.fs = uid
      BY <1>2, <2>2 DEF Ids, TaskState, UserIds
    <3> QED BY <2>2, <3>1, <3>2, <3>3 DEF Powerless
  <2> HIDE DEF u, h
  <2>6. Holds(u, h)
    BY <1>1, <2>2, <2>3, <2>4, <2>5, SameLimits
  <2> QED BY <1>3, <2>6, ChangesKeep
<1> QED BY <1>4, <1>5

\* Ambient capabilities are some of the permitted ones (raise_ambient_cap(),
\* lower_ambient_cap(), drop_all_ambient_caps()).
LEMMA AmbientKeeps ==
    ASSUME PrivilegesInv, NEW p \in DOMAIN task, NEW caps \in SUBSET (task[p].ambient \union task[p].permitted),
           Only(p, [task[p] EXCEPT !.ambient = caps])
    PROVE  PrivilegesInv'
<1> DEFINE t == task[p]
           g == given_up[p]
           u == [t EXCEPT !.ambient = caps]
<1>1. Holds(t, g)
  BY DEF PrivilegesInv
<1>2. t \in TaskState /\ g \in GivenUpState
  BY <1>1 DEF Holds
<1>3. /\ u \in TaskState /\ u.user = t.user
      /\ u.limits = t.limits /\ u.sched = t.sched /\ u.bounding = t.bounding
      /\ u.secure = t.secure /\ u.no_new_privs = t.no_new_privs /\ u.mdwe = t.mdwe
      /\ u.permitted = t.permitted /\ u.active = t.active /\ u.ambient = caps
  BY <1>2 DEF TaskState, Capabilities
<1>4. Restricted(u, g)
  BY <1>1, <1>3 DEF Holds, Restricted
<1>5. g.root => Powerless(u)
  BY <1>1, <1>3 DEF Holds, RootStaysAway, Powerless
<1>6. Holds(u, g)
  BY <1>1, <1>2, <1>3, <1>4, <1>5, SameLimits
<1> QED BY <1>6, ChangesKeep DEF Only

\* drop_cap_from_bounding_set(), set_secure_bits(), set_no_new_privs() and
\* set_memory_write_exec_flags(): what restricts a process and its programs.
LEMMA RestrictionsKeep ==
    ASSUME PrivilegesInv, NEW p \in DOMAIN task,
           \/ \E cap \in Capability : drop_cap_from_bounding_set(p, cap)
           \/ \E bits \in OneMore(task[p].secure) : set_secure_bits(p, bits)
           \/ set_no_new_privs(p)
           \/ \E flags \in SUBSET MemoryWriteExecFlag : set_memory_write_exec_flags(p, flags)
    PROVE  PrivilegesInv'
<1> DEFINE t == task[p]
           g == given_up[p]
<1>1. Holds(t, g)
  BY DEF PrivilegesInv
<1>2. t \in TaskState /\ g \in GivenUpState
  BY <1>1 DEF Holds
<1>3. ASSUME NEW u \in TaskState, NEW h \in GivenUpState, Changes(p, u, h), Restricted(u, h),
             u.user = t.user, u.limits = t.limits, u.sched = t.sched, u.permitted = t.permitted,
             u.active = t.active, u.ambient = t.ambient,
             h.root = g.root, h.limits = g.limits, h.nice = g.nice, h.priority = g.priority
      PROVE  PrivilegesInv'
  <2>1. g.root => Powerless(u)
    BY <1>1, <1>3 DEF Holds, RootStaysAway, Powerless
  <2>2. Holds(u, h)
    BY <1>1, <1>3, <2>1, SameLimits
  <2> QED BY <1>3, <2>2, ChangesKeep
<1>4. ASSUME NEW cap \in Capability, drop_cap_from_bounding_set(p, cap) PROVE PrivilegesInv'
  <2> DEFINE u == [t EXCEPT !.bounding = @ \ {cap}]
             h == [g EXCEPT !.bounding = @ \union {cap}]
  <2>1. Changes(p, u, h)
    BY <1>4 DEF drop_cap_from_bounding_set
  <2>2. u \in TaskState /\ h \in GivenUpState
    BY ZenonT(30), <1>2 DEF TaskState, GivenUpState, Capabilities
  <2>3. Restricted(u, h)
    BY <1>1, <1>2 DEF Holds, Restricted, TaskState, GivenUpState
  <2>4. /\ u.user = t.user /\ u.limits = t.limits /\ u.sched = t.sched /\ u.permitted = t.permitted
        /\ u.active = t.active /\ u.ambient = t.ambient
        /\ h.root = g.root /\ h.limits = g.limits /\ h.nice = g.nice /\ h.priority = g.priority
    BY <1>2 DEF TaskState, GivenUpState
  <2> QED BY <1>3, <2>1, <2>2, <2>3, <2>4
<1>5. ASSUME NEW bits \in OneMore(t.secure), set_secure_bits(p, bits) PROVE PrivilegesInv'
  <2> DEFINE u == [t EXCEPT !.secure = bits]
             h == [g EXCEPT !.locked = {<<b, b \in bits.set>> : b \in bits.locked}]
  <2>1. Changes(p, u, h)
    BY <1>5 DEF set_secure_bits
  <2>2. bits \in [set : SUBSET SecureBit, locked : SUBSET SecureBit]
    BY <1>2, PrivilegesAssumption DEF OneMore, TaskState, SecureBit
  <2>3. u \in TaskState
    BY <1>2, <2>2 DEF TaskState
  <2>4. {<<b, b \in bits.set>> : b \in bits.locked} \in SUBSET (SecureBit \X BOOLEAN)
    <3>1. ASSUME NEW b PROVE (b \in bits.set) \in BOOLEAN
      <4>1. CASE b \in bits.set
        <5>1. (b \in bits.set) = TRUE
          BY <4>1
        <5> QED BY <5>1
      <4>2. CASE b \notin bits.set
        <5>1. (b \in bits.set) = FALSE
          BY <4>2
        <5> QED BY <5>1
      <4> QED BY <4>1, <4>2
    <3>2. \A b \in bits.locked : b \in SecureBit
      BY <2>2
    <3>3. \A b \in bits.locked : <<b, b \in bits.set>> \in SecureBit \X BOOLEAN
      BY <3>1, <3>2, Zenon
    <3> QED BY <3>3, Zenon
  <2>5. h \in GivenUpState
    BY <1>2, <2>4 DEF GivenUpState
  <2>6. Restricted(u, h)
    <3>1. \A b \in SecureBit : /\ <<b, TRUE>> \in h.locked => b \in bits.set
                               /\ <<b, FALSE>> \in h.locked => b \notin bits.set
      BY <1>2 DEF GivenUpState
    <3> QED BY <1>1, <1>2, <3>1 DEF Holds, Restricted, TaskState, GivenUpState
  <2>7. /\ u.user = t.user /\ u.limits = t.limits /\ u.sched = t.sched /\ u.permitted = t.permitted
        /\ u.active = t.active /\ u.ambient = t.ambient
        /\ h.root = g.root /\ h.limits = g.limits /\ h.nice = g.nice /\ h.priority = g.priority
    BY <1>2 DEF TaskState, GivenUpState
  <2> HIDE DEF u, h
  <2> QED BY <1>3, <2>1, <2>3, <2>5, <2>6, <2>7
<1>6. CASE set_no_new_privs(p)
  <2> DEFINE u == [t EXCEPT !.no_new_privs = TRUE]
             h == [g EXCEPT !.privs = TRUE]
  <2>1. Changes(p, u, h)
    BY <1>6 DEF set_no_new_privs
  <2>2. u \in TaskState /\ h \in GivenUpState
    BY <1>2 DEF TaskState, GivenUpState
  <2>3. Restricted(u, h)
    BY <1>1, <1>2 DEF Holds, Restricted, TaskState, GivenUpState
  <2>4. /\ u.user = t.user /\ u.limits = t.limits /\ u.sched = t.sched /\ u.permitted = t.permitted
        /\ u.active = t.active /\ u.ambient = t.ambient
        /\ h.root = g.root /\ h.limits = g.limits /\ h.nice = g.nice /\ h.priority = g.priority
    BY <1>2 DEF TaskState, GivenUpState
  <2> QED BY <1>3, <2>1, <2>2, <2>3, <2>4
<1>7. ASSUME NEW flags \in SUBSET MemoryWriteExecFlag, set_memory_write_exec_flags(p, flags)
      PROVE  PrivilegesInv'
  <2> DEFINE u == [t EXCEPT !.mdwe = flags]
             h == [g EXCEPT !.mdwe = flags]
  <2>1. Changes(p, u, h)
    BY <1>7 DEF set_memory_write_exec_flags
  <2>2. u \in TaskState /\ h \in GivenUpState
    BY <1>2 DEF TaskState, GivenUpState
  <2>3. Restricted(u, h)
    BY <1>1, <1>2 DEF Holds, Restricted, TaskState, GivenUpState
  <2>4. /\ u.user = t.user /\ u.limits = t.limits /\ u.sched = t.sched /\ u.permitted = t.permitted
        /\ u.active = t.active /\ u.ambient = t.ambient
        /\ h.root = g.root /\ h.limits = g.limits /\ h.nice = g.nice /\ h.priority = g.priority
    BY <1>2 DEF TaskState, GivenUpState
  <2> QED BY <1>3, <2>1, <2>2, <2>3, <2>4
<1> QED BY <1>4, <1>5, <1>6, <1>7

\* A process that has no capability does not get more than its hard limits
\* allow, and one that has some takes the bounds back with them (setLimit()).
LEMMA LimitKeeps ==
    ASSUME PrivilegesInv, NEW p \in DOMAIN task, NEW q \in DOMAIN task, NEW name \in LimitsUsed,
           NEW spec \in Specs, setLimit(p, q, name, spec)
    PROVE  PrivilegesInv'
<1> DEFINE type == ResourceOf[name]
           t == task[q]
           g == given_up[q]
           u == Limited(q, type, spec)
           lowered == [g EXCEPT !.limits[name] = spec]
           h == IF has(p, "SYS_RESOURCE")
                THEN [lowered EXCEPT !.nice = Smaller(@, BestNice(u)), !.priority = Larger(@, BestPriority(u))]
                ELSE lowered
<1>1. Holds(t, g)
  BY DEF PrivilegesInv
<1>2. t \in TaskState /\ g \in GivenUpState
  BY <1>1 DEF Holds
<1>3. /\ Changes(q, u, h) /\ spec.soft <= spec.hard
      /\ spec.hard <= t.limits[type].hard \/ has(p, "SYS_RESOURCE")
  BY DEF setLimit, set_limit, get_limit
<1>4. spec \in Limit /\ spec.soft \in Nat /\ spec.hard \in Nat
  BY PrivilegesAssumption DEF Specs, LimitSpec, Limit
<1>5. \A n \in LimitsUsed : ResourceOf[n] \in LimitType
  BY LimitsAssumption DEF ResourceOf, LimitType
<1>6. /\ u \in TaskState /\ u.limits = [t.limits EXCEPT ![type] = spec]
      /\ u.user = t.user /\ u.sched = t.sched /\ u.bounding = t.bounding
      /\ u.secure = t.secure /\ u.no_new_privs = t.no_new_privs /\ u.mdwe = t.mdwe
      /\ u.permitted = t.permitted /\ u.active = t.active /\ u.ambient = t.ambient
  BY <1>2, <1>4 DEF Limited, TaskState
<1>7. /\ BestNice(t) \in Int /\ BestPriority(t) \in Int
      /\ BestNice(u) \in Int /\ BestPriority(u) \in Int
      /\ g.nice \in Int /\ g.priority \in Int
  BY <1>2, <1>6 DEF BestNice, BestPriority, Smaller, Larger, TaskState, GivenUpState, Limit, LimitType
<1>8. /\ lowered \in GivenUpState /\ lowered.limits = [g.limits EXCEPT ![name] = spec]
      /\ lowered.user = g.user /\ lowered.root = g.root /\ lowered.bounding = g.bounding /\ lowered.privs = g.privs
      /\ lowered.mdwe = g.mdwe /\ lowered.locked = g.locked /\ lowered.nice = g.nice /\ lowered.priority = g.priority
  BY <1>2, <1>4 DEF GivenUpState
<1>9. /\ h \in GivenUpState /\ h.limits = lowered.limits
      /\ h.user = lowered.user /\ h.root = lowered.root /\ h.bounding = lowered.bounding /\ h.privs = lowered.privs
      /\ h.mdwe = lowered.mdwe /\ h.locked = lowered.locked
      /\ IF has(p, "SYS_RESOURCE")
         THEN h.nice = Smaller(g.nice, BestNice(u)) /\ h.priority = Larger(g.priority, BestPriority(u))
         ELSE h.nice = g.nice /\ h.priority = g.priority
  <2> HIDE DEF lowered
  <2>1. CASE has(p, "SYS_RESOURCE")
    BY <1>7, <1>8, <2>1 DEF GivenUpState, Smaller, Larger
  <2>2. CASE ~has(p, "SYS_RESOURCE")
    BY <1>8, <2>2
  <2> QED BY <2>1, <2>2
<1> HIDE DEF u, lowered, h
<1>10. Restricted(u, h)
  BY ZenonT(60), <1>1, <1>6, <1>8, <1>9 DEF Holds, Restricted
<1>11. SoftBelowHard(u)
  BY <1>1, <1>2, <1>3, <1>6 DEF Holds, SoftBelowHard, TaskState
<1>12. LimitsAreKnown(u, h)
  <2>1. SUFFICES ASSUME NEW other \in LimitsUsed
                 PROVE  \E n \in LimitsUsed : /\ ResourceOf[n] = ResourceOf[other]
                                              /\ u.limits[ResourceOf[other]] = h.limits[n]
    BY DEF LimitsAreKnown
  <2>2. DOMAIN t.limits = LimitType /\ DOMAIN g.limits = LimitsUsed
    BY <1>2 DEF TaskState, GivenUpState
  <2>3. CASE ResourceOf[other] = type
    <3>1. u.limits[type] = spec /\ h.limits[name] = spec
      BY <1>5, <1>6, <1>8, <1>9, <2>2
    <3> QED BY <2>3, <3>1
  <2>4. CASE ResourceOf[other] # type
    <3>1. PICK n \in LimitsUsed : /\ ResourceOf[n] = ResourceOf[other]
                                  /\ t.limits[ResourceOf[other]] = g.limits[n]
      BY <1>1 DEF Holds, LimitsAreKnown
    <3>2. n # name
      BY <2>4, <3>1
    <3>3. u.limits[ResourceOf[other]] = t.limits[ResourceOf[other]] /\ h.limits[n] = g.limits[n]
      BY <1>5, <1>6, <1>8, <1>9, <2>2, <2>4, <3>2
    <3> QED BY <3>1, <3>3
  <2> QED BY <2>3, <2>4
<1>13. RootStaysAway(u, h)
  <2>1. SUFFICES ASSUME g.root PROVE Powerless(u) /\ h.nice <= BestNice(u) /\ BestPriority(u) <= h.priority
    BY <1>8, <1>9 DEF RootStaysAway
  <2>2. Powerless(t) /\ g.nice <= BestNice(t) /\ BestPriority(t) <= g.priority
    BY <1>1, <2>1 DEF Holds, RootStaysAway
  <2>3. Powerless(u)
    BY <1>6, <2>2 DEF Powerless
  <2>4. CASE has(p, "SYS_RESOURCE")
    BY <1>7, <1>9, <2>3, <2>4 DEF Smaller, Larger
  <2>5. CASE ~has(p, "SYS_RESOURCE")
    <3>1. \A l \in LimitType : /\ t.limits[l].hard \in Nat /\ u.limits[l].hard \in Nat
                               /\ u.limits[l].hard <= t.limits[l].hard
      <4>1. ASSUME NEW l \in LimitType
            PROVE  /\ t.limits[l].hard \in Nat /\ u.limits[l].hard \in Nat
                   /\ u.limits[l].hard <= t.limits[l].hard
        <5>1. t.limits[l] \in Limit /\ u.limits[l] \in Limit
          BY <1>2, <1>6 DEF TaskState
        <5>2. u.limits[l] = IF l = type THEN spec ELSE t.limits[l]
          BY <1>2, <1>6 DEF TaskState
        <5> QED BY <1>3, <2>5, <5>1, <5>2 DEF Limit
      <4> QED BY <4>1
    <3>2. "NICE" \in LimitType /\ "RT_PRIO" \in LimitType
      BY DEF LimitType
    <3>3. u.sched = t.sched /\ t.sched.nice \in Int /\ t.sched.priority \in Int
      BY <1>2, <1>6 DEF TaskState
    <3>4. BestNice(t) <= BestNice(u) /\ BestPriority(u) <= BestPriority(t)
      BY <3>1, <3>2, <3>3 DEF BestNice, BestPriority, Smaller, Larger
    <3> QED BY <1>7, <1>9, <2>2, <2>3, <2>5, <3>4
  <2> QED BY <2>4, <2>5
<1>14. Holds(u, h)
  BY <1>6, <1>9, <1>10, <1>11, <1>12, <1>13 DEF Holds
<1> QED BY <1>3, <1>14, ChangesKeep

\* Scheduling gets better than the limits allow only where a capability is
\* used (SchedulerSettings::apply(), the kernel's rules for sched_setattr()).
LEMMA SchedulingKeeps ==
    ASSUME PrivilegesInv, NEW p \in DOMAIN task, NEW q \in DOMAIN task, NEW attrs \in Settings,
           apply(p, q, attrs)
    PROVE  PrivilegesInv'
<1> DEFINE t == task[q]
           g == given_up[q]
           u == Scheduled(t, attrs)
           h == IF has(p, "SYS_NICE")
                THEN [g EXCEPT !.nice = Smaller(@, u.sched.nice), !.priority = Larger(@, u.sched.priority)]
                ELSE g
<1>1. Holds(t, g)
  BY DEF PrivilegesInv
<1>2. t \in TaskState /\ g \in GivenUpState
  BY <1>1 DEF Holds
<1>3. Changes(q, u, h) /\ MaySchedule(p, q, attrs)
  BY DEF apply
<1>4. /\ attrs.policy \in SchedulerPolicy /\ attrs.nice \in Int /\ attrs.priority \in Int
      /\ attrs.policy = "OTHER" => attrs.priority = 0
  <2>1. CASE \E nice \in NiceValue \union {INVALID_NICE_PRIO} : attrs = OtherSchedulerSettings(nice)
    BY <2>1, PrivilegesAssumption DEF OtherSchedulerSettings, INVALID_NICE_PRIO, maxNiceValue, SchedulerPolicy
  <2>2. CASE \E policy \in SchedulerPolicy \ {"OTHER"}, n \in Priority :
                 attrs = RealTimeSchedulerSettings(policy, n)
    BY <2>2, PrivilegesAssumption DEF RealTimeSchedulerSettings, SchedulerPolicy
  <2> QED BY <2>1, <2>2 DEF Settings
<1>5. /\ u \in TaskState
      /\ u.sched.nice = IF attrs.policy = "OTHER" THEN Smaller(attrs.nice, maxNiceValue) ELSE t.sched.nice
      /\ u.sched.priority = attrs.priority
      /\ u.limits = t.limits /\ u.user = t.user /\ u.bounding = t.bounding
      /\ u.secure = t.secure /\ u.no_new_privs = t.no_new_privs /\ u.mdwe = t.mdwe
      /\ u.permitted = t.permitted /\ u.active = t.active /\ u.ambient = t.ambient
  BY <1>2, <1>4 DEF Scheduled, TaskState, Smaller, maxNiceValue
<1>6. /\ u.sched.nice \in Int /\ u.sched.priority \in Int
      /\ t.sched.nice \in Int /\ t.sched.priority \in Int /\ g.nice \in Int /\ g.priority \in Int
  BY <1>2, <1>5 DEF TaskState, GivenUpState
<1>7. /\ h \in GivenUpState /\ h.limits = g.limits
      /\ h.user = g.user /\ h.root = g.root /\ h.bounding = g.bounding /\ h.privs = g.privs
      /\ h.mdwe = g.mdwe /\ h.locked = g.locked
      /\ IF has(p, "SYS_NICE")
         THEN h.nice = Smaller(g.nice, u.sched.nice) /\ h.priority = Larger(g.priority, u.sched.priority)
         ELSE h.nice = g.nice /\ h.priority = g.priority
  <2> HIDE DEF u
  <2> QED BY <1>2, <1>6 DEF GivenUpState, Smaller, Larger
<1>8. \/ has(p, "SYS_NICE")
      \/ /\ u.sched.nice >= t.sched.nice \/ u.sched.nice >= 20 - t.limits["NICE"].soft
         /\ attrs.policy # "OTHER" =>
              attrs.priority <= Larger(t.sched.priority, t.limits["RT_PRIO"].soft)
  BY <1>3 DEF MaySchedule, get_limit
<1> HIDE DEF u, h
<1>9. Restricted(u, h)
  BY <1>1, <1>5, <1>7 DEF Holds, Restricted
<1>10. RootStaysAway(u, h)
  <2>1. SUFFICES ASSUME g.root PROVE Powerless(u) /\ h.nice <= BestNice(u) /\ BestPriority(u) <= h.priority
    BY <1>7 DEF RootStaysAway
  <2>2. Powerless(t) /\ g.nice <= BestNice(t) /\ BestPriority(t) <= g.priority
    BY <1>1, <2>1 DEF Holds, RootStaysAway
  <2>3. Powerless(u)
    BY <1>5, <2>2 DEF Powerless
  <2>4. \A l \in {"NICE", "RT_PRIO"} : /\ t.limits[l].hard \in Nat /\ t.limits[l].soft \in Nat
                                       /\ t.limits[l].soft <= t.limits[l].hard
    BY <1>1, <1>2 DEF Holds, SoftBelowHard, TaskState, Limit, LimitType
  <2>5. /\ g.nice <= t.sched.nice /\ g.nice <= 20 - t.limits["NICE"].hard
        /\ t.sched.priority <= g.priority /\ t.limits["RT_PRIO"].hard <= g.priority
        /\ 0 <= g.priority
    BY <1>6, <2>2, <2>4 DEF BestNice, BestPriority, Smaller, Larger
  <2>6. CASE has(p, "SYS_NICE")
    BY <1>5, <1>6, <1>7, <2>3, <2>4, <2>5, <2>6 DEF BestNice, BestPriority, Smaller, Larger
  <2>7. CASE ~has(p, "SYS_NICE")
    <3>1. g.nice <= u.sched.nice
      BY <1>6, <1>8, <2>4, <2>5, <2>7
    <3>2. u.sched.priority <= g.priority
      BY <1>4, <1>5, <1>6, <1>8, <2>4, <2>5, <2>7 DEF Larger
    <3> QED BY <1>5, <1>6, <1>7, <2>3, <2>4, <2>5, <2>7, <3>1, <3>2
            DEF BestNice, BestPriority, Smaller, Larger
  <2> QED BY <2>6, <2>7
<1>11. SoftBelowHard(u) /\ LimitsAreKnown(u, h)
  BY <1>1, <1>5, <1>7 DEF Holds, SoftBelowHard, LimitsAreKnown
<1>12. Holds(u, h)
  BY <1>5, <1>7, <1>9, <1>10, <1>11 DEF Holds
<1> QED BY <1>3, <1>12, ChangesKeep

\* fork(): what is not passed on is not promised to the child either.
LEMMA ForkKeeps ==
    ASSUME PrivilegesInv, NEW p \in DOMAIN task, NEW c, fork(p, c)
    PROVE  PrivilegesInv'
<1> DEFINE t == task[p]
           g == given_up[p]
           u == [t EXCEPT !.mdwe = Passed(@)]
           h == [g EXCEPT !.mdwe = Passed(@)]
<1>1. Holds(t, g)
  BY DEF PrivilegesInv
<1>2. t \in TaskState /\ g \in GivenUpState
  BY <1>1 DEF Holds
<1>3. u \in TaskState /\ h \in GivenUpState
  BY <1>2 DEF Passed, TaskState, GivenUpState
<1>4. Restricted(u, h)
  BY <1>1, <1>2 DEF Holds, Restricted, TaskState, GivenUpState
<1>5. /\ u.user = t.user /\ u.limits = t.limits /\ u.sched = t.sched /\ u.permitted = t.permitted
      /\ u.active = t.active /\ u.ambient = t.ambient
      /\ h.root = g.root /\ h.limits = g.limits /\ h.nice = g.nice /\ h.priority = g.priority
  BY <1>2 DEF TaskState, GivenUpState
<1>6. g.root => Powerless(u)
  BY <1>1, <1>5 DEF Holds, RootStaysAway, Powerless
<1>7. /\ DOMAIN task' = DOMAIN task \union {c} /\ DOMAIN given_up' = DOMAIN task \union {c}
      /\ task'[c] = u /\ given_up'[c] = h
      /\ \A q \in DOMAIN task : task'[q] = task[q] /\ given_up'[q] = given_up[q]
  BY DEF fork
<1> HIDE DEF u, h
<1>8. Holds(u, h)
  BY <1>1, <1>3, <1>4, <1>5, <1>6, SameLimits
<1> QED BY <1>7, <1>8 DEF PrivilegesInv

\* exec(): no program makes a process ROOT that gave it up, except one of ROOT
\* if no_new_privs was not set; then nothing of the kind is promised any more.
LEMMA ExecKeeps ==
    ASSUME PrivilegesInv, NEW p \in DOMAIN task, NEW image \in {"plain", "setuid-root"},
           exec(p, image)
    PROVE  PrivilegesInv'
<1> DEFINE t == task[p]
           g == given_up[p]
           u == Executed(t, image)
           h == [g EXCEPT !.user = u.user, !.root = @ /\ (image = "plain" \/ g.privs),
                          !.mdwe = Passed(@), !.locked = {l \in @ : l # <<"KEEP_CAPS", TRUE>>}]
           e0 == IF image = "setuid-root" /\ ~t.no_new_privs THEN ROOT ELSE t.user.effective
<1>1. Holds(t, g)
  BY DEF PrivilegesInv
<1>2. t \in TaskState /\ g \in GivenUpState
  BY <1>1 DEF Holds
<1>3. Changes(p, u, h)
  BY DEF exec
<1>4. u \in TaskState
  <2> DEFINE setid == e0 # t.user.real
             full == "NOROOT" \notin t.secure.set /\ ROOT \in {e0, t.user.real}
             file == (IF full THEN t.bounding \union Inheritable ELSE {})
                       \union (IF setid THEN {} ELSE t.ambient)
             gains == setid \/ ~(file \subseteq t.permitted)
             e == IF gains /\ t.no_new_privs THEN t.user.real ELSE e0
             ambient == IF setid THEN {} ELSE t.ambient
             permitted == (IF gains /\ t.no_new_privs THEN file \intersect t.permitted ELSE file)
                            \union ambient
             active == IF full /\ e0 = ROOT THEN permitted ELSE ambient
             user == [AsUser(t.user.real, e, e) EXCEPT !.fs = e]
  <2>1. u = [t EXCEPT !.user = user, !.permitted = permitted, !.ambient = ambient, !.active = active,
                      !.secure.set = @ \ {"KEEP_CAPS"}, !.mdwe = Passed(@)]
    BY <1>2 DEF Executed, TaskState
  <2>2. /\ t.user.real \in Int /\ t.user.effective \in Int /\ t.ambient \in Capabilities
        /\ t.permitted \in Capabilities /\ t.bounding \in Capabilities
    BY <1>2 DEF TaskState, UserIds
  <2>3. e \in Int /\ file \in Capabilities /\ ambient \in Capabilities
    BY <2>2 DEF ROOT, Capabilities
  <2>4. permitted \in Capabilities
    BY Zenon, <2>2, <2>3 DEF Capabilities
  <2>5. active \in Capabilities
    BY Zenon, <2>3, <2>4
  <2>6. user \in UserIds
    BY Zenon, <2>2, <2>3 DEF AsUser, UserIds
  <2> HIDE DEF user, permitted, ambient, active, u
  <2> QED BY ZenonT(30), <1>2, <2>1, <2>3, <2>4, <2>5, <2>6 DEF Passed, TaskState
<1>5. /\ u.limits = t.limits /\ u.sched = t.sched /\ u.bounding = t.bounding
      /\ u.no_new_privs = t.no_new_privs /\ u.mdwe = Passed(t.mdwe)
      /\ u.secure.set = t.secure.set \ {"KEEP_CAPS"}
  BY <1>2 DEF Executed, TaskState
<1>6. /\ u.user.real = t.user.real
      /\ u.user.effective \in {e0, t.user.real} /\ u.user.saved = u.user.effective
      /\ u.user.fs = u.user.effective
  BY ZenonT(60), <1>2 DEF Executed, AsUser, TaskState, UserIds
<1>7. /\ h \in GivenUpState /\ h.user = u.user /\ h.limits = g.limits
      /\ h.nice = g.nice /\ h.priority = g.priority
      /\ h.bounding = g.bounding /\ h.privs = g.privs /\ h.mdwe = Passed(g.mdwe)
      /\ h.locked = {l \in g.locked : l # <<"KEEP_CAPS", TRUE>>}
  <2> HIDE DEF u
  <2>1. u.user \in UserIds
    BY <1>4 DEF TaskState
  <2>2. (g.root /\ (image = "plain" \/ g.privs)) \in BOOLEAN
    BY <1>2 DEF GivenUpState
  <2> QED BY ZenonT(30), <1>2, <2>1, <2>2 DEF GivenUpState, Passed
<1>8. h.root => g.root /\ (image = "plain" \/ g.privs)
  BY <1>2 DEF GivenUpState
<1>9. ASSUME h.root PROVE Powerless(u)
  <2>1. Powerless(t) /\ (image = "plain" \/ t.no_new_privs)
    BY <1>1, <1>8, <1>9 DEF Holds, RootStaysAway, Restricted
  <2>2. e0 = t.user.effective /\ e0 # ROOT /\ t.user.real # ROOT
    BY <2>1 DEF Powerless, Ids
  <2>3. u.permitted = {} /\ u.active = {} /\ u.ambient = {}
    BY <1>2, <2>1, <2>2 DEF Executed, TaskState, Powerless
  <2>4. ROOT \notin Ids(u.user) \union {u.user.fs}
    BY <1>6, <2>2 DEF Ids
  <2> QED BY <2>3, <2>4 DEF Powerless
<1> HIDE DEF u, h
<1>10. Restricted(u, h)
  <2>1. /\ g.bounding \intersect t.bounding = {} /\ (g.privs => t.no_new_privs) /\ g.mdwe = t.mdwe
        /\ \A b \in SecureBit : /\ <<b, TRUE>> \in g.locked => b \in t.secure.set
                                /\ <<b, FALSE>> \in g.locked => b \notin t.secure.set
    BY <1>1 DEF Holds, Restricted
  <2>2. ASSUME NEW b \in SecureBit
        PROVE  /\ <<b, TRUE>> \in h.locked => b \in u.secure.set
               /\ <<b, FALSE>> \in h.locked => b \notin u.secure.set
    BY <1>5, <1>7, <2>1
  <2> QED BY <1>5, <1>7, <2>1, <2>2 DEF Restricted
<1>11. Holds(u, h)
  BY <1>1, <1>4, <1>5, <1>7, <1>8, <1>9, <1>10, SameLimits
<1> QED BY <1>3, <1>11, ChangesKeep

-----------------------------------------------------------------------------
(* Privileges: theorems *)

\* The invariant holds for each process in all behaviours (the functions of
\* proc and prctl that change privileges, fork() and exec()).
THEOREM PrivilegesInvariance == SpecPrivileges => []PrivilegesInv
<1>1. InitPrivileges => PrivilegesInv
  <2>1. SUFFICES ASSUME InitPrivileges PROVE PrivilegesInv
    OBVIOUS
  <2>2. PICK user \in {AsUser(ROOT, ROOT, ROOT), AsUser(1, ROOT, ROOT)} :
          /\ task = [p \in {FirstProc} |->
                [user |-> user, permitted |-> Capability, active |-> Capability, ambient |-> {},
                 bounding |-> Capability, secure |-> [set |-> {}, locked |-> {}],
                 no_new_privs |-> FALSE, mdwe |-> {},
                 limits |-> [l \in LimitType |-> FirstLimit(l)],
                 sched |-> [policy |-> "OTHER", nice |-> 0, priority |-> 0]]]
          /\ given_up = [p \in {FirstProc} |-> Nothing(user)]
    BY <2>1 DEF InitPrivileges
  <2> DEFINE t == task[FirstProc]
             g == given_up[FirstProc]
  <2>3. user \in UserIds
    BY <2>2 DEF AsUser, UserIds, ROOT
  <2>4. \A l : /\ FirstLimit(l) \in Limit
               /\ FirstLimit(l).soft <= FirstLimit(l).hard
    BY PrivilegesAssumption DEF FirstLimit, LimitSpec, Limit
  <2>5. \A n \in LimitsUsed : ResourceOf[n] \in LimitType
    BY LimitsAssumption DEF ResourceOf, LimitType
  <2>6. t \in TaskState
    BY <2>2, <2>3, <2>4 DEF TaskState, Capabilities, SchedulerPolicy
  <2>7. g \in GivenUpState
    BY <2>2, <2>3, <2>4 DEF Nothing, GivenUpState, minNiceValue, maxPriority
  <2>8. RootStaysAway(t, g)
    BY <2>2 DEF RootStaysAway, Nothing
  <2>9. SoftBelowHard(t)
    BY <2>2, <2>4 DEF SoftBelowHard
  <2>10. LimitsAreKnown(t, g)
    BY <2>2, <2>5 DEF LimitsAreKnown, Nothing
  <2>11. Restricted(t, g)
    BY <2>2 DEF Restricted, Nothing
  <2> QED BY <2>2, <2>6, <2>7, <2>8, <2>9, <2>10, <2>11 DEF PrivilegesInv, Holds
<1>2. PrivilegesInv /\ [NextPrivileges]_privilegesVars => PrivilegesInv'
  <2>1. SUFFICES ASSUME PrivilegesInv, [NextPrivileges]_privilegesVars PROVE PrivilegesInv'
    OBVIOUS
  <2>2. CASE UNCHANGED privilegesVars
    BY <2>1, <2>2 DEF privilegesVars, PrivilegesInv
  <2>3. ASSUME NEW p \in DOMAIN task, NEW r \in UserId \union {INVALID},
               NEW e \in UserId \union {INVALID}, NEW s \in UserId \union {INVALID},
               set_creds(p, r, e, s)
        PROVE  PrivilegesInv'
    <3> DEFINE t == task[p]
               user == AsUser(Kept(t.user.real, r), Kept(t.user.effective, e), Kept(t.user.saved, s))
    <3>1. Holds(t, given_up[p])
      BY <2>1 DEF PrivilegesInv
    <3>2. /\ "SETUID" \in t.active \/ Ids(user) \subseteq Ids(t.user)
          /\ Changes(p, Adjusted(t, user), GivenUp(given_up[p], t, user))
      BY <2>3 DEF set_creds, has
    <3>3. user \in UserIds /\ user.fs = user.effective
      BY <3>1, PrivilegesAssumption DEF Holds, TaskState, UserIds, AsUser, Kept, INVALID
    <3> HIDE DEF user
    <3>4. Holds(Adjusted(t, user), GivenUp(given_up[p], t, user))
      BY <3>1, <3>2, <3>3, IdsChange
    <3> QED BY <2>1, <3>2, <3>4, ChangesKeep
  <2>4. ASSUME NEW p \in DOMAIN task, NEW uid \in UserId \union {INVALID}, set_fs_user_id(p, uid)
        PROVE  PrivilegesInv'
    BY <2>1, <2>4, FsUserIdKeeps
  <2>5. ASSUME NEW p \in DOMAIN task,
               \/ \E cap \in Capability : raise_ambient_cap(p, cap) \/ lower_ambient_cap(p, cap)
               \/ drop_all_ambient_caps(p)
        PROVE  PrivilegesInv'
    <3>1. PICK caps \in SUBSET (task[p].ambient \union task[p].permitted) :
              Only(p, [task[p] EXCEPT !.ambient = caps])
      BY <2>5 DEF raise_ambient_cap, lower_ambient_cap, drop_all_ambient_caps
    <3> QED BY <2>1, <3>1, AmbientKeeps
  <2>6. ASSUME NEW p \in DOMAIN task,
               \/ \E cap \in Capability : drop_cap_from_bounding_set(p, cap)
               \/ \E bits \in OneMore(task[p].secure) : set_secure_bits(p, bits)
               \/ set_no_new_privs(p)
               \/ \E flags \in SUBSET MemoryWriteExecFlag : set_memory_write_exec_flags(p, flags)
        PROVE  PrivilegesInv'
    BY <2>1, <2>6, RestrictionsKeep
  <2>7. ASSUME NEW p \in DOMAIN task, NEW q \in DOMAIN task, NEW name \in LimitsUsed,
               NEW spec \in Specs, setLimit(p, q, name, spec)
        PROVE  PrivilegesInv'
    BY <2>1, <2>7, LimitKeeps
  <2>8. ASSUME NEW p \in DOMAIN task, NEW q \in DOMAIN task, NEW attrs \in Settings,
               apply(p, q, attrs)
        PROVE  PrivilegesInv'
    BY <2>1, <2>8, SchedulingKeeps
  <2>9. ASSUME NEW p \in DOMAIN task, NEW c \in Proc, fork(p, c) PROVE PrivilegesInv'
    BY <2>1, <2>9, ForkKeeps
  <2>10. ASSUME NEW p \in DOMAIN task, NEW image \in {"plain", "setuid-root"}, exec(p, image)
         PROVE  PrivilegesInv'
    BY <2>1, <2>10, ExecKeeps
  <2>11. ASSUME NEW p \in DOMAIN task, Ends(p) PROVE PrivilegesInv'
    BY <2>1, <2>11 DEF Ends, PrivilegesInv
  <2> QED BY <2>1, <2>2, <2>3, <2>4, <2>5, <2>6, <2>7, <2>8, <2>9, <2>10, <2>11 DEF NextPrivileges
<1> QED BY <1>1, <1>2, PTL DEF SpecPrivileges

\* What a process gave up it does not regain, and what restricts it lasts,
\* whatever it or its children call and execute (set_creds(), the capabilities,
\* prctl, LimitSettings, SchedulerSettings, exec()).
THEOREM WhatIsGivenUpLasts == SpecPrivileges => []RestrictionsLast
<1>1. PrivilegesInv => RestrictionsLast
  BY HoldsForAll
<1> QED BY <1>1, PrivilegesInvariance, PTL

-----------------------------------------------------------------------------
(* Attributes: the inductive invariant *)

\* The fields of open files, of files, and of what the program remembers.
OpenFields == {"file", "mode", "status", "owner", "signal", "lease", "flock", "options"}
FileFields == {"seals", "hint", "pipe"}
PromisedFields == OpenFields \union FileFields \union {"cloexec"}

\* The tables of the kernel fit together.
TablesFit ==
    /\ table = [n \in DOMAIN table |-> table[n]] /\ DOMAIN table \subseteq Number
    /\ opened = [d \in DOMAIN opened |-> opened[d]]
    /\ DOMAIN opened = {table[n].to : n \in DOMAIN table}
    /\ \A n \in DOMAIN table : table[n] = [to |-> table[n].to, cloexec |-> table[n].cloexec]
    /\ \A d \in DOMAIN opened : DOMAIN opened[d] = OpenFields /\ opened[d].file \in FileNodes
    /\ kept = [f \in FileNodes |-> kept[f]]
    /\ \A f \in FileNodes : DOMAIN kept[f] = FileFields

\* The program knows which numbers share an open file, and which a file.
RelationsFit ==
    /\ \A pair : pair \in copies <=>
          \E n, m \in DOMAIN table : pair = <<n, m>> /\ table[n].to = table[m].to
    /\ \A pair : pair \in aliases <=>
          \E n, m \in DOMAIN table : pair = <<n, m>> /\ FileOf(n) = FileOf(m)

\* The program remembers what the kernel has.
Remembered(n) ==
    /\ DOMAIN promised[n] = PromisedFields
    /\ promised[n] = [k \in PromisedFields |-> promised[n][k]]
    /\ \A k \in OpenFields : promised[n][k] = opened[table[n].to][k]
    /\ \A k \in FileFields : promised[n][k] = kept[FileOf(n)][k]
    /\ promised[n].cloexec = table[n].cloexec

AttributesInv ==
    /\ TablesFit
    /\ RelationsFit
    /\ promised = [n \in DOMAIN table |-> promised[n]]
    /\ \A n \in DOMAIN table : Remembered(n)

-----------------------------------------------------------------------------
(* Attributes: steps *)

LEMMA UpdatedFields ==
    ASSUME NEW r, NEW new
    PROVE  /\ DOMAIN Updated(r, new) = DOMAIN r
           /\ Updated(r, new) = [k \in DOMAIN r |-> Updated(r, new)[k]]
           /\ \A k \in DOMAIN r : Updated(r, new)[k] = IF k \in DOMAIN new THEN new[k] ELSE r[k]
    BY DEF Updated

\* A setter changes no table of descriptors and no relation of numbers.
LEMMA SettersKeepTables ==
    ASSUME AttributesInv,
           UNCHANGED <<table, copies, aliases>>,
           opened' = [d \in DOMAIN opened |-> opened'[d]],
           \A d \in DOMAIN opened : DOMAIN opened'[d] = OpenFields /\ opened'[d].file = opened[d].file,
           kept' = [f \in FileNodes |-> kept'[f]],
           \A f \in FileNodes : DOMAIN kept'[f] = FileFields
    PROVE  TablesFit' /\ RelationsFit' /\ \A m \in DOMAIN table : FileOf(m)' = FileOf(m)
<1>1. TablesFit /\ RelationsFit
  BY DEF AttributesInv
<1>2. \A m \in DOMAIN table : table[m].to \in DOMAIN opened
  BY <1>1 DEF TablesFit
<1>3. \A m \in DOMAIN table : FileOf(m)' = FileOf(m)
  BY <1>2 DEF FileOf
<1>4. DOMAIN opened' = DOMAIN opened
  OBVIOUS
<1>5. TablesFit'
  BY <1>1, <1>4 DEF TablesFit
<1>6. RelationsFit'
  BY <1>1, <1>3 DEF RelationsFit
<1> QED BY <1>3, <1>5, <1>6

\* What the program expects when the numbers of a relation share new values.
Shared(relation, n, new) ==
    [m \in DOMAIN promised |-> IF <<n, m>> \in relation THEN Updated(promised[m], new) ELSE promised[m]]

\* What the program expects of a relation with one new value.
LEMMA ExpectedValues ==
    ASSUME AttributesInv, NEW relation, NEW n \in DOMAIN table, NEW new, DOMAIN new \subseteq PromisedFields,
           promised' = [m \in DOMAIN promised |->
                          IF <<n, m>> \in relation THEN Updated(promised[m], new) ELSE promised[m]]
    PROVE  /\ promised' = [m \in DOMAIN table |-> promised'[m]]
           /\ \A m \in DOMAIN table :
                /\ DOMAIN promised'[m] = PromisedFields
                /\ promised'[m] = [k \in PromisedFields |-> promised'[m][k]]
                /\ \A k \in PromisedFields :
                     promised'[m][k] = IF <<n, m>> \in relation /\ k \in DOMAIN new THEN new[k] ELSE promised[m][k]
<1>1. DOMAIN promised = DOMAIN table
  BY DEF AttributesInv
<1>2. \A m \in DOMAIN table : /\ DOMAIN promised[m] = PromisedFields
                              /\ promised[m] = [k \in PromisedFields |-> promised[m][k]]
  BY DEF AttributesInv, Remembered
<1>3. promised' = [m \in DOMAIN table |-> IF <<n, m>> \in relation THEN Updated(promised[m], new) ELSE promised[m]]
  BY <1>1
<1>4. \A m \in DOMAIN table : promised'[m] = IF <<n, m>> \in relation THEN Updated(promised[m], new) ELSE promised[m]
  BY <1>3
<1>5. promised' = [m \in DOMAIN table |-> promised'[m]]
  BY <1>3
<1>6. ASSUME NEW m \in DOMAIN table
      PROVE  /\ DOMAIN promised'[m] = PromisedFields
             /\ promised'[m] = [k \in PromisedFields |-> promised'[m][k]]
             /\ \A k \in PromisedFields :
                  promised'[m][k] = IF <<n, m>> \in relation /\ k \in DOMAIN new THEN new[k] ELSE promised[m][k]
  <2>1. CASE <<n, m>> \in relation
    <3>1. promised'[m] = Updated(promised[m], new)
      BY <1>4, <2>1
    <3>2. /\ DOMAIN Updated(promised[m], new) = PromisedFields
          /\ Updated(promised[m], new) = [k \in PromisedFields |-> Updated(promised[m], new)[k]]
          /\ \A k \in PromisedFields :
               Updated(promised[m], new)[k] = IF k \in DOMAIN new THEN new[k] ELSE promised[m][k]
      <4> DEFINE r == promised[m]
      <4>1. DOMAIN r = PromisedFields
        BY <1>2
      <4>2. /\ DOMAIN Updated(r, new) = DOMAIN r
            /\ Updated(r, new) = [k \in DOMAIN r |-> Updated(r, new)[k]]
            /\ \A k \in DOMAIN r : Updated(r, new)[k] = IF k \in DOMAIN new THEN new[k] ELSE r[k]
        <5> HIDE DEF r
        <5> QED BY UpdatedFields
      <4> QED BY <4>1, <4>2
    <3> QED BY <2>1, <3>1, <3>2
  <2>2. CASE <<n, m>> \notin relation
    BY <1>2, <1>4, <2>2
  <2> QED BY <2>1, <2>2
<1> QED BY <1>5, <1>6

\* An attribute of the open file is set: all duplicates share it.
SetsInOpenFile(n, attribute, value, new) ==
    /\ DOMAIN new = {attribute} /\ new[attribute] = value
    /\ UNCHANGED <<table, kept, copies, aliases>>
    /\ promised' = Shared(copies, n, new)
    /\ opened' = [d \in DOMAIN opened |-> opened'[d]]
    /\ \A d \in DOMAIN opened :
         /\ DOMAIN opened'[d] = OpenFields
         /\ \A k \in OpenFields :
              opened'[d][k] = IF d = table[n].to /\ k = attribute THEN value ELSE opened[d][k]

\* This keeps the invariant (setStatusFlags(), setOwner(), setOption() and so on).
LEMMA OpenFileSetter ==
    ASSUME AttributesInv, NEW n \in DOMAIN table, NEW attribute \in OpenFields \ {"file"}, NEW value, NEW new,
           SetsInOpenFile(n, attribute, value, new)
    PROVE  AttributesInv'
<1> USE DEF SetsInOpenFile
<1>1. /\ UNCHANGED <<copies, aliases>>
      /\ promised' = [m \in DOMAIN table |-> promised'[m]]
      /\ \A m \in DOMAIN table :
           /\ DOMAIN promised'[m] = PromisedFields
           /\ promised'[m] = [k \in PromisedFields |-> promised'[m][k]]
           /\ \A k \in PromisedFields :
                promised'[m][k] = IF <<n, m>> \in copies /\ k \in DOMAIN new THEN new[k] ELSE promised[m][k]
  <2>1. DOMAIN new \subseteq PromisedFields
    BY DEF PromisedFields
  <2> QED BY ZenonT(60), <2>1, ExpectedValues DEF Shared
<1>2. \A d \in DOMAIN opened : opened'[d].file = opened[d].file
  BY DEF OpenFields
<1>3. TablesFit' /\ RelationsFit' /\ \A m \in DOMAIN table : FileOf(m)' = FileOf(m)
  <2>1. kept' = [f \in FileNodes |-> kept'[f]] /\ \A f \in FileNodes : DOMAIN kept'[f] = FileFields
    BY DEF AttributesInv, TablesFit
  <2> QED BY <1>1, <1>2, <2>1, SettersKeepTables
<1>4. ASSUME NEW m \in DOMAIN table
      PROVE  Remembered(m)'
  <2>1. <<n, m>> \in copies <=> table[n].to = table[m].to
    BY DEF AttributesInv, RelationsFit
  <2>2. table[m].to \in DOMAIN opened
    BY DEF AttributesInv, TablesFit
  <2>3. Remembered(m)
    BY DEF AttributesInv
  <2>4. ASSUME NEW k \in OpenFields
        PROVE  promised'[m][k] = opened'[table[m].to][k]
    <3>1. promised'[m][k] = IF table[n].to = table[m].to /\ k = attribute THEN value ELSE promised[m][k]
      BY <1>1, <2>1 DEF PromisedFields
    <3> QED BY ZenonT(60), <2>2, <2>3, <3>1 DEF Remembered
  <2>5. ASSUME NEW k \in FileFields
        PROVE  promised'[m][k] = kept[FileOf(m)][k]
    <3>1. k \notin OpenFields /\ k \in PromisedFields
      BY DEF OpenFields, FileFields, PromisedFields
    <3>2. promised'[m][k] = promised[m][k]
      BY ZenonT(60), <1>1, <3>1
    <3> QED BY <2>3, <3>2 DEF Remembered
  <2>6. promised'[m].cloexec = table[m].cloexec
    <3>1. "cloexec" \notin OpenFields /\ "cloexec" \in PromisedFields
      BY DEF OpenFields, PromisedFields
    <3>2. promised'[m]["cloexec"] = promised[m]["cloexec"]
      BY ZenonT(60), <1>1, <3>1
    <3> QED BY <2>3, <3>2 DEF Remembered
  <2> QED BY ZenonT(30), <1>1, <1>3, <2>4, <2>5, <2>6 DEF Remembered
<1> QED BY <1>1, <1>3, <1>4 DEF AttributesInv

\* An attribute of the file is set: all numbers of the file share it.
SetsInFile(n, attribute, value, new) ==
    /\ DOMAIN new = {attribute} /\ new[attribute] = value
    /\ UNCHANGED <<table, opened, copies, aliases>>
    /\ promised' = Shared(aliases, n, new)
    /\ kept' = [f \in FileNodes |-> kept'[f]]
    /\ \A f \in FileNodes :
         /\ DOMAIN kept'[f] = FileFields
         /\ \A k \in FileFields :
              kept'[f][k] = IF f = FileOf(n) /\ k = attribute THEN value ELSE kept[f][k]

\* This keeps the invariant (addSeals(), setPipeSize(), setInodeReadWriteHint()).
LEMMA FileSetter ==
    ASSUME AttributesInv, NEW n \in DOMAIN table, NEW attribute \in FileFields, NEW value, NEW new,
           SetsInFile(n, attribute, value, new)
    PROVE  AttributesInv'
<1> USE DEF SetsInFile
<1>1. /\ UNCHANGED <<copies, aliases>>
      /\ promised' = [m \in DOMAIN table |-> promised'[m]]
      /\ \A m \in DOMAIN table :
           /\ DOMAIN promised'[m] = PromisedFields
           /\ promised'[m] = [k \in PromisedFields |-> promised'[m][k]]
           /\ \A k \in PromisedFields :
                promised'[m][k] = IF <<n, m>> \in aliases /\ k \in DOMAIN new THEN new[k] ELSE promised[m][k]
  <2>1. DOMAIN new \subseteq PromisedFields
    BY DEF PromisedFields
  <2> QED BY ZenonT(30), <2>1, ExpectedValues DEF Shared
<1>2. TablesFit' /\ RelationsFit' /\ \A m \in DOMAIN table : FileOf(m)' = FileOf(m)
  <2>1. /\ opened' = [d \in DOMAIN opened |-> opened'[d]]
        /\ \A d \in DOMAIN opened : DOMAIN opened'[d] = OpenFields /\ opened'[d].file = opened[d].file
    BY DEF AttributesInv, TablesFit
  <2> QED BY <1>1, <2>1, SettersKeepTables
<1>3. ASSUME NEW m \in DOMAIN table
      PROVE  Remembered(m)'
  <2>1. <<n, m>> \in aliases <=> FileOf(n) = FileOf(m)
    BY DEF AttributesInv, RelationsFit
  <2>2. FileOf(m) \in FileNodes
    BY DEF AttributesInv, TablesFit, FileOf
  <2>3. Remembered(m)
    BY DEF AttributesInv
  <2>4. ASSUME NEW k \in FileFields
        PROVE  promised'[m][k] = kept'[FileOf(m)][k]
    <3>1. promised'[m][k] = IF FileOf(n) = FileOf(m) /\ k = attribute THEN value ELSE promised[m][k]
      BY <1>1, <2>1 DEF PromisedFields
    <3> QED BY ZenonT(30), <2>2, <2>3, <3>1 DEF Remembered
  <2>5. ASSUME NEW k \in OpenFields
        PROVE  promised'[m][k] = opened[table[m].to][k]
    <3>1. k \notin FileFields /\ k \in PromisedFields
      BY DEF OpenFields, FileFields, PromisedFields
    <3>2. promised'[m][k] = promised[m][k]
      BY ZenonT(60), <1>1, <3>1
    <3> QED BY <2>3, <3>2 DEF Remembered
  <2>6. promised'[m].cloexec = table[m].cloexec
    <3>1. "cloexec" \notin FileFields /\ "cloexec" \in PromisedFields
      BY DEF FileFields, PromisedFields
    <3>2. promised'[m]["cloexec"] = promised[m]["cloexec"]
      BY ZenonT(60), <1>1, <3>1
    <3> QED BY <2>3, <3>2 DEF Remembered
  <2> QED BY ZenonT(30), <1>1, <1>2, <2>4, <2>5, <2>6 DEF Remembered
<1> QED BY <1>1, <1>2, <1>3 DEF AttributesInv

\* The same flag for some numbers.
Flagged(f, numbers, cloexec) ==
    [n \in DOMAIN f |-> IF n \in numbers THEN [f[n] EXCEPT !.cloexec = cloexec] ELSE f[n]]

\* setFlags() and close_range() set the flag of descriptor numbers.
LEMMA FlagSetter ==
    ASSUME AttributesInv, NEW numbers \in SUBSET DOMAIN table, NEW cloexec,
           UNCHANGED <<opened, kept, copies, aliases>>,
           table' = Flagged(table, numbers, cloexec), promised' = Flagged(promised, numbers, cloexec)
    PROVE  AttributesInv'
<1>0. /\ table' = [n \in DOMAIN table |->
                     IF n \in numbers THEN [table[n] EXCEPT !.cloexec = cloexec] ELSE table[n]]
      /\ promised' = [n \in DOMAIN table |->
                        IF n \in numbers THEN [promised[n] EXCEPT !.cloexec = cloexec] ELSE promised[n]]
  BY DEF Flagged, AttributesInv
<1>1. TablesFit /\ RelationsFit /\ \A n \in DOMAIN table : Remembered(n)
  BY DEF AttributesInv
<1>2. \A n \in DOMAIN table : table'[n] = [to |-> table[n].to,
                                cloexec |-> IF n \in numbers THEN cloexec ELSE table[n].cloexec]
  <2> SUFFICES ASSUME NEW n \in DOMAIN table
               PROVE  table'[n] = [to |-> table[n].to,
                                   cloexec |-> IF n \in numbers THEN cloexec ELSE table[n].cloexec]
    OBVIOUS
  <2>1. table[n] = [to |-> table[n].to, cloexec |-> table[n].cloexec]
    BY <1>1 DEF TablesFit
  <2> QED BY <1>0, <2>1
<1>3. DOMAIN table' = DOMAIN table /\ table' = [n \in DOMAIN table |-> table'[n]]
  BY <1>0
<1>4. /\ \A n \in DOMAIN table : table'[n].to = table[n].to
      /\ \A n \in DOMAIN table : table'[n] = [to |-> table'[n].to, cloexec |-> table'[n].cloexec]
  <2> SUFFICES ASSUME NEW n \in DOMAIN table
               PROVE  /\ table'[n].to = table[n].to
                      /\ table'[n] = [to |-> table'[n].to, cloexec |-> table'[n].cloexec]
    OBVIOUS
  <2> DEFINE flag == IF n \in numbers THEN cloexec ELSE table[n].cloexec
             to == table[n].to
  <2>1. table'[n] = [to |-> to, cloexec |-> flag]
    BY <1>2
  <2>2. to = table[n].to
    OBVIOUS
  <2> HIDE DEF flag, to
  <2> QED BY <2>1, <2>2
<1>5. \A n \in DOMAIN table : FileOf(n)' = FileOf(n)
  BY <1>4 DEF FileOf
<1>6. TablesFit'
  <2>1. {table'[n].to : n \in DOMAIN table'} = {table[n].to : n \in DOMAIN table}
    BY <1>3, <1>4
  <2> QED BY <1>1, <1>3, <1>4, <2>1 DEF TablesFit
<1>7. RelationsFit'
  BY <1>1, <1>3, <1>4, <1>5 DEF RelationsFit
<1>8. ASSUME NEW n \in DOMAIN table
      PROVE  Remembered(n)'
  <2>1. "cloexec" \notin OpenFields /\ "cloexec" \notin FileFields /\ "cloexec" \in PromisedFields
    BY DEF OpenFields, FileFields, PromisedFields
  <2>2. Remembered(n)
    BY <1>1
  <2>3. /\ DOMAIN promised'[n] = PromisedFields
        /\ promised'[n] = [k \in PromisedFields |-> promised'[n][k]]
        /\ \A k \in PromisedFields : k # "cloexec" => promised'[n][k] = promised[n][k]
        /\ promised'[n].cloexec = IF n \in numbers THEN cloexec ELSE promised[n].cloexec
    <3>1. promised[n] = [k \in PromisedFields |-> promised[n][k]]
      BY <2>2 DEF Remembered
    <3>2. CASE n \in numbers
      <4>1. promised'[n] = [promised[n] EXCEPT !.cloexec = cloexec]
        BY <1>0, <3>2
      <4> QED BY <2>1, <3>1, <3>2, <4>1
    <3>3. CASE n \notin numbers
      <4>1. promised'[n] = promised[n]
        BY <1>0, <3>3
      <4> QED BY <3>1, <3>3, <4>1
    <3> QED BY <3>2, <3>3
  <2>4. OpenFields \subseteq PromisedFields /\ FileFields \subseteq PromisedFields
    BY DEF PromisedFields
  <2>5. \A k \in OpenFields : promised'[n][k] = opened'[table'[n].to][k]
    BY SMTT(30), <1>4, <2>1, <2>2, <2>3, <2>4 DEF Remembered
  <2>6. \A k \in FileFields : promised'[n][k] = kept'[FileOf(n)'][k]
    BY <1>5, <2>1, <2>2, <2>3, <2>4 DEF Remembered
  <2>7. promised'[n].cloexec = table'[n].cloexec
    <3>1. promised[n].cloexec = table[n].cloexec
      BY <2>2 DEF Remembered
    <3> DEFINE flag == IF n \in numbers THEN cloexec ELSE table[n].cloexec
    <3>2. table'[n].cloexec = flag
      <4>1. table'[n] = [to |-> table[n].to, cloexec |-> flag]
        BY <1>2
      <4> HIDE DEF flag
      <4> QED BY <4>1
    <3> QED BY <2>3, <3>1, <3>2
  <2> QED BY <2>3, <2>5, <2>6, <2>7 DEF Remembered
<1>9. promised' = [n \in DOMAIN table' |-> promised'[n]]
  BY <1>0, <1>3
<1> QED BY <1>9, <1>3, <1>6, <1>7, <1>8 DEF AttributesInv

\* Every setter.
LEMMA SettersKeep ==
    ASSUME AttributesInv, NEW n \in DOMAIN table, Sets(n)
    PROVE  AttributesInv'
<1>1. TablesFit /\ RelationsFit /\ Remembered(n) /\ DOMAIN promised = DOMAIN table
  BY DEF AttributesInv
<1>2. /\ table[n].to \in DOMAIN opened /\ FileOf(n) \in FileNodes
      /\ opened = [d \in DOMAIN opened |-> opened[d]] /\ kept = [f \in FileNodes |-> kept[f]]
      /\ \A d \in DOMAIN opened : DOMAIN opened[d] = OpenFields
      /\ \A f \in FileNodes : DOMAIN kept[f] = FileFields
  BY <1>1 DEF TablesFit, FileOf
<1> DEFINE mine == table[n].to
<1>3. ASSUME NEW attribute \in OpenFields \ {"file"}, NEW new, DOMAIN new = {attribute}, InOpenFile(n, new)
      PROVE  AttributesInv'
  <2>1. opened' = [opened EXCEPT ![mine] = Updated(opened[mine], new)]
    BY <1>3 DEF InOpenFile
  <2> DEFINE r == opened[mine]
  <2>2. DOMAIN r = OpenFields
    BY <1>2
  <2>3. /\ DOMAIN Updated(r, new) = DOMAIN r
        /\ \A k \in DOMAIN r : Updated(r, new)[k] = IF k \in DOMAIN new THEN new[k] ELSE r[k]
    <3> HIDE DEF r
    <3> QED BY UpdatedFields
  <2>4. opened' = [d \in DOMAIN opened |-> opened'[d]] /\ opened'[mine] = Updated(r, new)
        /\ \A d \in DOMAIN opened : d # mine => opened'[d] = opened[d]
    BY <1>2, <2>1
  <2>5. \A d \in DOMAIN opened :
          /\ DOMAIN opened'[d] = OpenFields
          /\ \A k \in OpenFields :
               opened'[d][k] = IF d = mine /\ k = attribute THEN new[attribute] ELSE opened[d][k]
    BY <1>2, <1>3, <2>2, <2>3, <2>4
  <2> HIDE DEF r
  <2>6. UNCHANGED <<copies, aliases, table, kept>> /\ promised' = Shared(copies, n, new)
    BY <1>3 DEF InOpenFile, Expects, Shared
  <2>7. SetsInOpenFile(n, attribute, new[attribute], new)
    BY <1>3, <2>4, <2>5, <2>6 DEF SetsInOpenFile
  <2> HIDE DEF mine
  <2> QED BY <2>7, OpenFileSetter
<1>4. ASSUME NEW attribute \in FileFields, NEW new, DOMAIN new = {attribute}, InFile(n, new)
      PROVE  AttributesInv'
  <2>1. kept' = [kept EXCEPT ![FileOf(n)] = Updated(kept[FileOf(n)], new)]
    BY <1>4 DEF InFile
  <2> DEFINE r == kept[FileOf(n)]
  <2>2. DOMAIN r = FileFields
    BY <1>2
  <2>3. /\ DOMAIN Updated(r, new) = DOMAIN r
        /\ \A k \in DOMAIN r : Updated(r, new)[k] = IF k \in DOMAIN new THEN new[k] ELSE r[k]
    <3> HIDE DEF r
    <3> QED BY UpdatedFields
  <2>4. kept' = [f \in FileNodes |-> kept'[f]] /\ kept'[FileOf(n)] = Updated(r, new)
        /\ \A f \in FileNodes : f # FileOf(n) => kept'[f] = kept[f]
    BY <1>2, <2>1
  <2>5. \A f \in FileNodes :
          /\ DOMAIN kept'[f] = FileFields
          /\ \A k \in FileFields :
               kept'[f][k] = IF f = FileOf(n) /\ k = attribute THEN new[attribute] ELSE kept[f][k]
    BY <1>2, <1>4, <2>2, <2>3, <2>4
  <2> HIDE DEF mine, r
  <2>6. UNCHANGED <<copies, aliases, table, opened>> /\ promised' = Shared(aliases, n, new)
    BY <1>4 DEF InFile, Expects, Shared
  <2>7. SetsInFile(n, attribute, new[attribute], new)
    BY <1>4, <2>4, <2>5, <2>6 DEF SetsInFile
  <2> QED BY <2>7, FileSetter
<1>5. ASSUME NEW cloexec \in BOOLEAN, setFlags(n, cloexec)
      PROVE  AttributesInv'
  <2>1. table' = Flagged(table, {n}, cloexec)
    BY <1>1, <1>5 DEF setFlags, TablesFit, Flagged
  <2>2. promised' = Flagged(promised, {n}, cloexec)
    BY <1>5 DEF setFlags, AttributesInv, Flagged
  <2>3. UNCHANGED <<opened, kept, copies, aliases>> /\ {n} \in SUBSET DOMAIN table
    BY <1>5 DEF setFlags
  <2> HIDE DEF mine
  <2> QED BY <2>1, <2>2, <2>3, FlagSetter
<1>6. ASSUME NEW flags, setStatusFlags(n, flags)
      PROVE  AttributesInv'
  <2> DEFINE Changed(old) == (old \ Changeable) \union (flags \intersect Changeable)
             value == Changed(promised[n].status)
             new == [status |-> value]
  <2>1. promised[n].status = opened[mine].status
    BY <1>1 DEF Remembered, OpenFields
  <2>2. opened' = [opened EXCEPT ![mine].status = value]
    BY <1>6, <2>1 DEF setStatusFlags
  <2>3. DOMAIN new = {"status"} /\ new["status"] = value
    OBVIOUS
  <2>4. Expects(copies, n, new) /\ UNCHANGED <<table, kept>>
    BY <1>6 DEF setStatusFlags
  <2> HIDE DEF new, value, mine, Changed
  <2>5. /\ opened' = [d \in DOMAIN opened |-> opened'[d]]
        /\ \A d \in DOMAIN opened :
             /\ DOMAIN opened'[d] = OpenFields
             /\ \A k \in OpenFields :
                  opened'[d][k] = IF d = mine /\ k = "status" THEN value ELSE opened[d][k]
    BY <1>2, <2>2
  <2>6. "status" \in OpenFields \ {"file"}
    BY DEF OpenFields
  <2>7. UNCHANGED <<copies, aliases>> /\ promised' = Shared(copies, n, new)
    BY <2>4 DEF Expects, Shared
  <2>8. SetsInOpenFile(n, "status", value, new)
    BY <2>3, <2>4, <2>5, <2>7 DEF SetsInOpenFile, mine
  <2> QED BY <2>6, <2>8, OpenFileSetter
<1>7. ASSUME NEW option, NEW value, setOption(n, option, value)
      PROVE  AttributesInv'
  <2> DEFINE options == With(promised[n].options, option, value)
             new == [options |-> options]
  <2>1. promised[n].options = opened[mine].options
    BY <1>1 DEF Remembered, OpenFields
  <2>2. opened' = [opened EXCEPT ![mine].options = options]
    BY <1>7, <2>1 DEF setOption, KeyOf
  <2>3. DOMAIN new = {"options"} /\ new["options"] = options
    OBVIOUS
  <2>4. Expects(copies, n, new) /\ UNCHANGED <<table, kept>>
    BY <1>7 DEF setOption
  <2> HIDE DEF new, options, mine
  <2>5. /\ opened' = [d \in DOMAIN opened |-> opened'[d]]
        /\ \A d \in DOMAIN opened :
             /\ DOMAIN opened'[d] = OpenFields
             /\ \A k \in OpenFields :
                  opened'[d][k] = IF d = mine /\ k = "options" THEN options ELSE opened[d][k]
    BY <1>2, <2>2
  <2>6. "options" \in OpenFields \ {"file"}
    BY DEF OpenFields
  <2>7. UNCHANGED <<copies, aliases>> /\ promised' = Shared(copies, n, new)
    BY <2>4 DEF Expects, Shared
  <2>8. SetsInOpenFile(n, "options", options, new)
    BY <2>3, <2>4, <2>5, <2>7 DEF SetsInOpenFile, mine
  <2> QED BY <2>6, <2>8, OpenFileSetter
<1>8. ASSUME NEW seals, addSeals(n, seals)
      PROVE  AttributesInv'
  <2> DEFINE value == promised[n].seals \union seals
             new == [seals |-> value]
  <2>1. promised[n].seals = kept[FileOf(n)].seals
    BY <1>1 DEF Remembered, FileFields
  <2>2. kept' = [kept EXCEPT ![FileOf(n)].seals = value]
    BY <1>8, <2>1 DEF addSeals
  <2>3. DOMAIN new = {"seals"} /\ new["seals"] = value
    OBVIOUS
  <2>4. Expects(aliases, n, new) /\ UNCHANGED <<table, opened>>
    BY <1>8 DEF addSeals
  <2> HIDE DEF new, value, mine
  <2>5. /\ kept' = [f \in FileNodes |-> kept'[f]]
        /\ \A f \in FileNodes :
             /\ DOMAIN kept'[f] = FileFields
             /\ \A k \in FileFields :
                  kept'[f][k] = IF f = FileOf(n) /\ k = "seals" THEN value ELSE kept[f][k]
    BY <1>2, <2>2
  <2>6. "seals" \in FileFields
    BY DEF FileFields
  <2>7. UNCHANGED <<copies, aliases>> /\ promised' = Shared(aliases, n, new)
    BY <2>4 DEF Expects, Shared
  <2>8. SetsInFile(n, "seals", value, new)
    BY <2>3, <2>4, <2>5, <2>7 DEF SetsInFile
  <2> QED BY <2>6, <2>8, FileSetter
<1>9. ASSUME NEW v, \/ InOpenFile(n, [owner |-> v]) \/ InOpenFile(n, [signal |-> v])
                    \/ InOpenFile(n, [lease |-> v]) \/ InOpenFile(n, [flock |-> v])
      PROVE  AttributesInv'
  <2>1. /\ DOMAIN [owner |-> v] = {"owner"} /\ DOMAIN [signal |-> v] = {"signal"}
        /\ DOMAIN [lease |-> v] = {"lease"} /\ DOMAIN [flock |-> v] = {"flock"}
    OBVIOUS
  <2>2. {"owner", "signal", "lease", "flock"} \subseteq OpenFields \ {"file"}
    BY DEF OpenFields
  <2> QED BY <1>3, <1>9, <2>1, <2>2
<1>10. ASSUME NEW v, InFile(n, [pipe |-> v]) \/ InFile(n, [hint |-> v])
       PROVE  AttributesInv'
  <2>1. DOMAIN [pipe |-> v] = {"pipe"} /\ DOMAIN [hint |-> v] = {"hint"}
    OBVIOUS
  <2>2. {"pipe", "hint"} \subseteq FileFields
    BY DEF FileFields
  <2> QED BY <1>4, <1>10, <2>1, <2>2
<1> QED BY <1>5, <1>6, <1>7, <1>8, <1>9, <1>10
        DEF Sets, setOwner, setSignal, setLease, flock, setPipeSize, setInodeReadWriteHint, setLocalPortRange

\* Numbers are closed (close(), close_range(), execve()).
LEMMA ClosesKeeps ==
    ASSUME AttributesInv, NEW numbers, Closes(numbers)
    PROVE  AttributesInv'
<1> DEFINE left == DOMAIN table \ numbers
<1>1. TablesFit /\ RelationsFit /\ \A n \in DOMAIN table : Remembered(n)
  BY DEF AttributesInv
<1>2. /\ table' = [n \in left |-> table[n]]
      /\ promised' = [n \in left |-> promised[n]]
      /\ opened' = [d \in {table'[n].to : n \in DOMAIN table'} |-> opened[d]]
      /\ copies' = {pair \in copies : pair \in left \X left}
      /\ aliases' = {pair \in aliases : pair \in left \X left}
      /\ kept' = kept
  BY DEF Closes, Tables, Forgets, Remembers, Within, AttributesInv
<1> HIDE DEF left
<1>3. /\ DOMAIN table' = left /\ left \subseteq DOMAIN table /\ DOMAIN promised' = left
      /\ \A n \in left : table'[n] = table[n] /\ promised'[n] = promised[n]
  BY <1>2 DEF left
<1>4. /\ DOMAIN opened' = {table'[n].to : n \in DOMAIN table'}
      /\ \A d \in DOMAIN opened' : d \in DOMAIN opened /\ opened'[d] = opened[d]
  <2>1. \A d \in {table'[n].to : n \in DOMAIN table'} : d \in DOMAIN opened
    BY <1>1, <1>3 DEF TablesFit
  <2> QED BY <1>2, <2>1
<1>5. ASSUME NEW n \in left
      PROVE  table'[n].to \in DOMAIN opened' /\ FileOf(n)' = FileOf(n)
  <2>1. table'[n].to \in DOMAIN opened'
    BY <1>3, <1>4
  <2> QED BY <1>3, <1>4, <2>1 DEF FileOf
<1>6. TablesFit'
  <2>1. table' = [n \in DOMAIN table' |-> table'[n]] /\ opened' = [d \in DOMAIN opened' |-> opened'[d]]
    BY <1>2
  <2> QED BY <1>1, <1>2, <1>3, <1>4, <2>1 DEF TablesFit
<1>7. RelationsFit'
  BY <1>1, <1>2, <1>3, <1>5 DEF RelationsFit
<1>8. ASSUME NEW n \in left
      PROVE  Remembered(n)'
  <2>1. Remembered(n)
    BY <1>1, <1>3
  <2>2. opened'[table'[n].to] = opened[table[n].to]
    BY <1>3, <1>4, <1>5
  <2> QED BY ZenonT(30), <1>2, <1>3, <1>5, <2>1, <2>2 DEF Remembered
<1> QED BY <1>2, <1>3, <1>6, <1>7, <1>8 DEF AttributesInv

\* A number is duplicated, in place of another one that was open or not.
LEMMA DuplicatesKeeps ==
    ASSUME AttributesInv, NEW n \in DOMAIN table, NEW m \in Number, NEW cloexec, Duplicates(n, m, cloexec)
    PROVE  AttributesInv'
<1> DEFINE all == DOMAIN table \union {m}
<1>1. TablesFit /\ RelationsFit /\ DOMAIN promised = DOMAIN table /\ n # m
      /\ \A k \in DOMAIN table : Remembered(k)
  BY DEF AttributesInv, Duplicates
<1>2. /\ table' = [k \in all |-> IF k = m THEN [to |-> table[n].to, cloexec |-> cloexec] ELSE table[k]]
      /\ promised' = [k \in all |-> IF k = m THEN [promised[n] EXCEPT !.cloexec = cloexec] ELSE promised[k]]
      /\ opened' = [d \in {table'[k].to : k \in DOMAIN table'} |-> opened[d]]
      /\ copies' = {pair \in Paired(copies, n, m) : pair \in all \X all}
      /\ aliases' = {pair \in Paired(aliases, n, m) : pair \in all \X all}
      /\ kept' = kept
  BY <1>1 DEF Duplicates, Tables, Remembers, Within
<1>3. /\ all \subseteq Number /\ m \in all /\ n \in all /\ \A k \in all : k # m => k \in DOMAIN table
      /\ \A k \in DOMAIN table : k \in all
  BY <1>1 DEF TablesFit
<1> HIDE DEF all
<1> DEFINE from(k) == IF k = m THEN n ELSE k
<1>4. /\ DOMAIN table' = all /\ DOMAIN promised' = all
      /\ \A k \in all : k # m => table'[k] = table[k] /\ promised'[k] = promised[k]
      /\ table'[m] = [to |-> table[n].to, cloexec |-> cloexec]
      /\ promised'[m] = [promised[n] EXCEPT !.cloexec = cloexec]
  BY <1>2, <1>3
<1>5. \A k \in all : from(k) \in DOMAIN table /\ table'[k].to = table[from(k)].to
  BY <1>3, <1>4
<1>6. /\ DOMAIN opened' = {table'[k].to : k \in DOMAIN table'}
      /\ \A d \in DOMAIN opened' : d \in DOMAIN opened /\ opened'[d] = opened[d]
  <2>1. \A d \in {table'[k].to : k \in DOMAIN table'} : d \in DOMAIN opened
    BY <1>1, <1>4, <1>5 DEF TablesFit
  <2> QED BY <1>2, <2>1
<1> HIDE DEF from
<1>7. ASSUME NEW k \in all
      PROVE  table'[k].to \in DOMAIN opened' /\ FileOf(k)' = FileOf(from(k))
             /\ opened'[table'[k].to] = opened[table[from(k)].to]
  <2>1. table'[k].to \in DOMAIN opened'
    BY <1>4, <1>6
  <2>2. opened'[table'[k].to] = opened[table[from(k)].to]
    BY <1>5, <1>6, <2>1
  <2> QED BY <2>1, <2>2 DEF FileOf
<1>8. TablesFit'
  <2>1. table' = [k \in DOMAIN table' |-> table'[k]] /\ opened' = [d \in DOMAIN opened' |-> opened'[d]]
    BY <1>2
  <2>2. \A k \in all : table'[k] = [to |-> table'[k].to, cloexec |-> table'[k].cloexec]
    <3> SUFFICES ASSUME NEW k \in all PROVE table'[k] = [to |-> table'[k].to, cloexec |-> table'[k].cloexec]
      OBVIOUS
    <3>1. CASE k = m
      <4> DEFINE to == table[n].to
      <4>1. table'[k] = [to |-> to, cloexec |-> cloexec]
        BY <1>4, <3>1
      <4> HIDE DEF to
      <4> QED BY <4>1
    <3>2. CASE k # m
      BY <1>1, <1>3, <1>4, <3>2 DEF TablesFit
    <3> QED BY <3>1, <3>2
  <2> QED BY <1>1, <1>2, <1>3, <1>4, <1>6, <2>1, <2>2 DEF TablesFit
\* Both relations are those of equal open files, or equal files.
<1>9. ASSUME NEW relation, NEW key,
             \A pair : pair \in relation <=> \E k, l \in DOMAIN table : pair = <<k, l>> /\ key[k] = key[l],
             NEW pair
      PROVE  pair \in Paired(relation, n, m) /\ pair \in all \X all
               <=> \E k, l \in all : pair = <<k, l>> /\ key[from(k)] = key[from(l)]
  <2> DEFINE siblings == Related(relation, n) \ {m}
  <2>1. \A k : k \in siblings <=> k \in DOMAIN table /\ k # m /\ key[k] = key[n]
    BY <1>1, <1>9 DEF Related
  <2>2. pair \in Paired(relation, n, m) <=>
          \/ pair \in relation /\ m \notin {pair[1], pair[2]}
          \/ pair = <<m, m>>
          \/ \E k \in siblings : pair = <<k, m>> \/ pair = <<m, k>>
    BY DEF Paired
  <2> HIDE DEF siblings
  <2>3. pair \in relation /\ m \notin {pair[1], pair[2]} <=>
          \E k, l \in DOMAIN table : pair = <<k, l>> /\ k # m /\ l # m /\ key[k] = key[l]
    BY <1>9
  <2>4. pair \in all \X all <=> \E k, l \in all : pair = <<k, l>>
    OBVIOUS
  <2>5. \A k \in all : from(k) = IF k = m THEN n ELSE k
    BY DEF from
  <2> QED BY <1>1, <1>3, <2>1, <2>2, <2>3, <2>4, <2>5
<1>10. RelationsFit'
  <2> DEFINE tos == [k \in DOMAIN table |-> table[k].to]
             names == [k \in DOMAIN table |-> FileOf(k)]
  <2>1. \A k \in DOMAIN table : tos[k] = table[k].to /\ names[k] = FileOf(k)
    OBVIOUS
  <2> HIDE DEF tos, names
  <2>2. \A pair : pair \in copies <=> \E k, l \in DOMAIN table : pair = <<k, l>> /\ tos[k] = tos[l]
    BY <1>1, <2>1 DEF RelationsFit
  <2>3. \A pair : pair \in aliases <=> \E k, l \in DOMAIN table : pair = <<k, l>> /\ names[k] = names[l]
    BY <1>1, <2>1 DEF RelationsFit
  <2>4. \A k \in all : tos[from(k)] = table'[k].to /\ names[from(k)] = FileOf(k)'
    BY <1>5, <1>7, <2>1
  <2>5. \A pair : pair \in copies' <=> \E k, l \in all : pair = <<k, l>> /\ table'[k].to = table'[l].to
    <3> SUFFICES ASSUME NEW pair
                 PROVE  pair \in copies' <=> \E k, l \in all : pair = <<k, l>> /\ table'[k].to = table'[l].to
      OBVIOUS
    <3>1. pair \in Paired(copies, n, m) /\ pair \in all \X all
            <=> \E k, l \in all : pair = <<k, l>> /\ tos[from(k)] = tos[from(l)]
      BY <1>9, <2>2
    <3>2. pair \in copies' <=> pair \in Paired(copies, n, m) /\ pair \in all \X all
      BY <1>2
    <3> QED BY <2>4, <3>1, <3>2
  <2>6. \A pair : pair \in aliases' <=> \E k, l \in all : pair = <<k, l>> /\ FileOf(k)' = FileOf(l)'
    <3> SUFFICES ASSUME NEW pair
                 PROVE  pair \in aliases' <=> \E k, l \in all : pair = <<k, l>> /\ FileOf(k)' = FileOf(l)'
      OBVIOUS
    <3>1. pair \in Paired(aliases, n, m) /\ pair \in all \X all
            <=> \E k, l \in all : pair = <<k, l>> /\ names[from(k)] = names[from(l)]
      BY <1>9, <2>3
    <3>2. pair \in aliases' <=> pair \in Paired(aliases, n, m) /\ pair \in all \X all
      BY <1>2
    <3> QED BY <2>4, <3>1, <3>2
  <2> QED BY <1>4, <2>5, <2>6 DEF RelationsFit
<1>11. ASSUME NEW k \in all
       PROVE  Remembered(k)'
  <2>1. Remembered(from(k))
    BY <1>1, <1>5
  <2>2. /\ DOMAIN promised'[k] = PromisedFields
        /\ promised'[k] = [f \in PromisedFields |-> promised'[k][f]]
        /\ \A f \in PromisedFields : f # "cloexec" => promised'[k][f] = promised[from(k)][f]
        /\ promised'[k].cloexec = table'[k].cloexec
    <3>1. CASE k = m
      <4>1. promised[n] = [f \in PromisedFields |-> promised[n][f]] /\ from(k) = n
        BY <1>1, <3>1 DEF Remembered, from
      <4>2. promised'[k] = [promised[n] EXCEPT !.cloexec = cloexec]
        BY <1>4, <3>1
      <4>3. "cloexec" \in PromisedFields
        BY DEF PromisedFields
      <4>4. table'[k].cloexec = cloexec
        BY <1>4, <3>1
      <4> QED BY <4>1, <4>2, <4>3, <4>4
    <3>2. CASE k # m
      <4>1. from(k) = k /\ promised'[k] = promised[k] /\ table'[k] = table[k]
        BY <1>4, <3>2 DEF from
      <4> QED BY <2>1, <4>1 DEF Remembered
    <3> QED BY <3>1, <3>2
  <2>3. /\ OpenFields \subseteq PromisedFields /\ FileFields \subseteq PromisedFields
        /\ "cloexec" \notin OpenFields /\ "cloexec" \notin FileFields
    BY DEF PromisedFields, OpenFields, FileFields
  <2>4. \A f \in OpenFields : promised'[k][f] = opened'[table'[k].to][f]
    BY <1>7, <2>1, <2>2, <2>3 DEF Remembered
  <2>5. \A f \in FileFields : promised'[k][f] = kept'[FileOf(k)'][f]
    BY ZenonT(60), <1>2, <1>7, <2>1, <2>2, <2>3 DEF Remembered
  <2> QED BY <2>2, <2>4, <2>5 DEF Remembered
<1>12. promised' = [k \in DOMAIN table' |-> promised'[k]]
  BY <1>2, <1>4
<1> QED BY <1>4, <1>8, <1>10, <1>11, <1>12 DEF AttributesInv

\* There is room for another open file while a number is free.
LEMMA RoomForOpenFile ==
    ASSUME TablesFit, NEW n \in Number \ DOMAIN table
    PROVE  \E e \in OpenFile : e \notin DOMAIN opened
<1> SUFFICES ASSUME OpenFile \subseteq DOMAIN opened PROVE FALSE
  OBVIOUS
<1> DEFINE Numbers == DOMAIN table
           f == [k \in Numbers |-> table[k].to]
<1>1. IsFiniteSet(Number) /\ Cardinality(OpenFile) >= Cardinality(Number) /\ Numbers \subseteq Number \ {n}
  BY AttributesAssumption DEF TablesFit
<1>2. IsFiniteSet(Numbers) /\ IsFiniteSet(Number \ {n}) /\ Cardinality(Numbers) <= Cardinality(Number \ {n})
  BY <1>1, FS_Subset, FS_RemoveElement
<1>3. Cardinality(Number \ {n}) = Cardinality(Number) - 1 /\ Cardinality(Number) \in Nat
  BY <1>1, FS_RemoveElement, FS_CardinalityType
<1>4. DOMAIN opened = {f[k] : k \in Numbers} /\ DOMAIN f = Numbers
  BY DEF TablesFit
<1>5. f \in Surjection(Numbers, DOMAIN opened)
  <2>1. f \in [Numbers -> DOMAIN opened]
    BY <1>4
  <2>2. \A d \in DOMAIN opened : \E k \in Numbers : f[k] = d
    BY <1>4
  <2> HIDE DEF f, Numbers
  <2> QED BY <2>1, <2>2 DEF Surjection
<1> HIDE DEF f, Numbers
<1>6. IsFiniteSet(DOMAIN opened) /\ Cardinality(DOMAIN opened) <= Cardinality(Numbers)
  BY <1>2, <1>5, FS_Surjection
<1>7. IsFiniteSet(OpenFile) /\ Cardinality(OpenFile) <= Cardinality(DOMAIN opened)
  BY <1>6, FS_Subset
<1>8. Cardinality(OpenFile) \in Nat /\ Cardinality(DOMAIN opened) \in Nat /\ Cardinality(Numbers) \in Nat
      /\ Cardinality(Number \ {n}) \in Nat
  BY <1>2, <1>6, <1>7, FS_CardinalityType
<1> QED BY <1>1, <1>2, <1>3, <1>6, <1>7, <1>8

\* A file is opened under a free number.
LEMMA OpensKeeps ==
    ASSUME AttributesInv, NEW n \in Number, NEW f \in FileNodes, NEW mode, NEW flags, Opens(n, f, mode, flags)
    PROVE  AttributesInv'
<1> DEFINE all == DOMAIN table \union {n}
           known == {m \in DOMAIN promised : promised[m].file = f}
           first == IF known = {} /\ KindOf[f] # "regular" THEN NewFile ELSE kept[f]
           entry == NewOpenFile(f, mode, flags)
           new == [file |-> f, mode |-> mode, cloexec |-> TRUE, status |-> flags, owner |-> "none",
                   signal |-> "default", lease |-> "UNLOCK", flock |-> "UNLOCK",
                   seals |-> first.seals, hint |-> first.hint, pipe |-> first.pipe,
                   options |-> [o \in {} |-> 0]]
           d == CHOOSE e \in OpenFile : e \notin DOMAIN opened
           of == {table'[m].to : m \in DOMAIN table'}
<1>1. TablesFit /\ RelationsFit /\ DOMAIN promised = DOMAIN table /\ n \notin DOMAIN table
      /\ \A m \in DOMAIN table : Remembered(m)
  BY DEF AttributesInv, Opens, isOpen
<1>2. /\ table' = [m \in all |-> IF m = n THEN [to |-> d, cloexec |-> TRUE] ELSE table[m]]
      /\ opened' = [e \in of |-> [x \in DOMAIN opened \union {d} |-> IF x = d THEN entry ELSE opened[x]][e]]
      /\ kept' = [kept EXCEPT ![f] = first]
      /\ copies' = {pair \in copies \union {<<n, n>>} : pair \in all \X all}
      /\ aliases' = {pair \in aliases \union {<<n, n>>} \union {<<n, m>> : m \in known}
                                \union {<<m, n>> : m \in known} : pair \in all \X all}
      /\ promised' = [m \in all |-> IF m = n THEN new ELSE promised[m]]
  BY <1>1 DEF Opens, Tables, Remembers, Within
<1>3. d \notin DOMAIN opened
  BY <1>1, RoomForOpenFile
<1>4. \A m : m \in known <=> m \in DOMAIN table /\ FileOf(m) = f
  <2> SUFFICES ASSUME NEW m \in DOMAIN table PROVE promised[m].file = FileOf(m)
    BY Zenon, <1>1
  <2> QED BY <1>1 DEF Remembered, OpenFields, FileOf
<1>5. /\ DOMAIN entry = OpenFields /\ entry.file = f
      /\ DOMAIN new = PromisedFields /\ new = [k \in PromisedFields |-> new[k]]
      /\ \A k \in OpenFields : new[k] = entry[k]
      /\ \A k \in FileFields : new[k] = first[k]
      /\ new.cloexec = TRUE
  <2>1. DOMAIN entry = OpenFields /\ entry.file = f
    BY DEF NewOpenFile, OpenFields
  <2>2. DOMAIN new = PromisedFields
    BY DEF PromisedFields, OpenFields, FileFields
  <2>3. new = [k \in PromisedFields |-> new[k]]
    BY <2>2
  <2>4. \A k \in OpenFields : new[k] = entry[k]
    BY DEF NewOpenFile, OpenFields
  <2>5. \A k \in FileFields : new[k] = first[k]
    <3> HIDE DEF first
    <3> QED BY DEF FileFields
  <2>6. new.cloexec = TRUE
    OBVIOUS
  <2> QED BY Zenon, <2>1, <2>2, <2>3, <2>4, <2>5, <2>6
<1>6. DOMAIN first = FileFields /\ (known # {} => first = kept[f])
  <2>1. DOMAIN NewFile = FileFields /\ DOMAIN kept[f] = FileFields
    BY <1>1 DEF NewFile, FileFields, TablesFit
  <2> QED BY <2>1
<1> HIDE DEF known, first, entry, new, d
<1>7. /\ DOMAIN table' = all /\ DOMAIN promised' = all
      /\ \A m \in DOMAIN table : m \in all /\ m # n /\ table'[m] = table[m] /\ promised'[m] = promised[m]
      /\ table'[n] = [to |-> d, cloexec |-> TRUE] /\ promised'[n] = new /\ n \in all
      /\ \A m \in all : m = n \/ m \in DOMAIN table
      /\ all \subseteq Number
  BY <1>1, <1>2 DEF TablesFit
<1>8. /\ table'[n].to = d /\ \A m \in DOMAIN table : table'[m].to = table[m].to
      /\ \A m \in DOMAIN table : table[m].to \in DOMAIN opened
  BY <1>1, <1>7 DEF TablesFit
<1> HIDE DEF all
<1>9. /\ DOMAIN opened' = of
      /\ \A e : e \in of <=> e = d \/ e \in DOMAIN opened
      /\ opened'[d] = entry /\ \A e \in DOMAIN opened : opened'[e] = opened[e]
  <2>1. \A e : e \in of <=> e = d \/ e \in DOMAIN opened
    <3>1. DOMAIN opened = {table[m].to : m \in DOMAIN table}
      BY <1>1 DEF TablesFit
    <3> QED BY <1>7, <1>8, <3>1
  <2>2. DOMAIN opened' = of
    BY <1>2
  <2> HIDE DEF of
  <2>3. \A e \in of : opened'[e] = IF e = d THEN entry ELSE opened[e]
    BY <1>2, <2>1
  <2> QED BY <1>3, <2>1, <2>2, <2>3
<1>10. /\ FileOf(n)' = f
       /\ \A m \in DOMAIN table : FileOf(m)' = FileOf(m) /\ opened'[table'[m].to] = opened[table[m].to]
  BY <1>5, <1>8, <1>9 DEF FileOf
<1>11. kept' = [x \in FileNodes |-> kept'[x]] /\ kept'[f] = first /\ \A x \in FileNodes : x # f => kept'[x] = kept[x]
  BY <1>1, <1>2 DEF TablesFit
<1>12. TablesFit'
  <2>1. table' = [m \in DOMAIN table' |-> table'[m]] /\ opened' = [e \in DOMAIN opened' |-> opened'[e]]
    BY <1>2
  <2>2. \A m \in DOMAIN table' : table'[m] = [to |-> table'[m].to, cloexec |-> table'[m].cloexec]
    <3> SUFFICES ASSUME NEW m \in all PROVE table'[m] = [to |-> table'[m].to, cloexec |-> table'[m].cloexec]
      BY <1>7
    <3>1. CASE m = n
      BY <1>7, <3>1
    <3>2. CASE m # n
      BY <1>1, <1>7, <3>2 DEF TablesFit
    <3> QED BY <3>1, <3>2
  <2>3. \A e \in DOMAIN opened' : DOMAIN opened'[e] = OpenFields /\ opened'[e].file \in FileNodes
    BY ZenonT(30), <1>1, <1>5, <1>9 DEF TablesFit
  <2>4. \A x \in FileNodes : DOMAIN kept'[x] = FileFields
    BY <1>1, <1>6, <1>11 DEF TablesFit
  <2> QED BY <1>7, <1>9, <1>11, <2>1, <2>2, <2>3, <2>4 DEF TablesFit
<1>13. \A pair : pair \in copies' <=> \E k, l \in all : pair = <<k, l>> /\ table'[k].to = table'[l].to
  <2> SUFFICES ASSUME NEW pair
               PROVE  pair \in copies' <=> \E k, l \in all : pair = <<k, l>> /\ table'[k].to = table'[l].to
    OBVIOUS
  <2>1. pair \in copies <=> \E k, l \in DOMAIN table : pair = <<k, l>> /\ table[k].to = table[l].to
    BY <1>1 DEF RelationsFit
  <2>2. pair \in all \X all <=> \E k, l \in all : pair = <<k, l>>
    OBVIOUS
  <2>3. pair \in copies' <=> (pair \in copies \/ pair = <<n, n>>) /\ pair \in all \X all
    BY <1>2
  <2> QED BY <1>3, <1>7, <1>8, <2>1, <2>2, <2>3
<1>14. \A pair : pair \in aliases' <=> \E k, l \in all : pair = <<k, l>> /\ FileOf(k)' = FileOf(l)'
  <2> SUFFICES ASSUME NEW pair
               PROVE  pair \in aliases' <=> \E k, l \in all : pair = <<k, l>> /\ FileOf(k)' = FileOf(l)'
    OBVIOUS
  <2>1. pair \in aliases <=> \E k, l \in DOMAIN table : pair = <<k, l>> /\ FileOf(k) = FileOf(l)
    BY <1>1 DEF RelationsFit
  <2>2. pair \in all \X all <=> \E k, l \in all : pair = <<k, l>>
    OBVIOUS
  <2>3. pair \in aliases' <=> /\ \/ pair \in aliases \/ pair = <<n, n>>
                                 \/ \E m \in known : pair = <<n, m>> \/ pair = <<m, n>>
                              /\ pair \in all \X all
    BY <1>2
  <2> QED BY <1>4, <1>7, <1>10, <2>1, <2>2, <2>3
<1>15. ASSUME NEW m \in all
       PROVE  Remembered(m)'
  <2>1. CASE m = n
    <3>1. promised'[m] = new /\ opened'[table'[m].to] = entry /\ kept'[FileOf(m)'] = first /\ table'[m].cloexec = TRUE
      BY <1>7, <1>8, <1>9, <1>10, <1>11, <2>1
    <3> QED BY <1>5, <3>1 DEF Remembered
  <2>2. CASE m \in DOMAIN table
    <3>1. FileOf(m) \in FileNodes
      BY <1>1, <1>8, <2>2 DEF TablesFit, FileOf
    <3>2. kept'[FileOf(m)] = kept[FileOf(m)]
      BY <1>4, <1>6, <1>11, <2>2, <3>1
    <3>3. /\ promised'[m] = promised[m] /\ table'[m] = table[m] /\ FileOf(m)' = FileOf(m)
          /\ opened'[table'[m].to] = opened[table[m].to] /\ Remembered(m)
      BY <1>1, <1>7, <1>10, <2>2
    <3> QED BY <3>2, <3>3 DEF Remembered
  <2> QED BY <1>7, <2>1, <2>2
<1>16. promised' = [m \in DOMAIN table' |-> promised'[m]]
  BY <1>2, <1>7
<1> QED BY <1>7, <1>12, <1>13, <1>14, <1>15, <1>16 DEF AttributesInv, RelationsFit

-----------------------------------------------------------------------------
(* Attributes: results *)

\* The program remembers what the kernel has (SpecAttributes).
THEOREM AttributesInvariance == SpecAttributes => []AttributesInv
<1>1. InitAttributes => AttributesInv
  <2> SUFFICES ASSUME InitAttributes PROVE AttributesInv
    OBVIOUS
  <2>1. DOMAIN table = {} /\ DOMAIN opened = {} /\ DOMAIN promised = {} /\ copies = {} /\ aliases = {}
    BY DEF InitAttributes
  <2>2. table = [n \in DOMAIN table |-> table[n]] /\ opened = [d \in DOMAIN opened |-> opened[d]]
        /\ promised = [n \in DOMAIN table |-> promised[n]]
    BY <2>1 DEF InitAttributes
  <2>3. kept = [f \in FileNodes |-> kept[f]] /\ \A f \in FileNodes : DOMAIN kept[f] = FileFields
    BY DEF InitAttributes, NewFile, FileFields
  <2> QED BY <2>1, <2>2, <2>3 DEF AttributesInv, TablesFit, RelationsFit
<1>2. AttributesInv /\ [NextAttributes]_attributesVars => AttributesInv'
  <2> SUFFICES ASSUME AttributesInv, [NextAttributes]_attributesVars PROVE AttributesInv'
    OBVIOUS
  <2>1. CASE NextAttributes
    <3>1. CASE \E n \in Number, f \in FileNodes, mode \in {"READ_ONLY", "READ_WRITE"}, flags \in {{}, {"SYNC"}} :
                 Opens(n, f, mode, flags)
      BY <3>1, OpensKeeps
    <3>2. ASSUME NEW n \in DOMAIN table, close(n)
          PROVE  AttributesInv'
      BY <3>2, ClosesKeeps DEF close
    <3>3. ASSUME NEW n \in DOMAIN table, Sets(n)
          PROVE  AttributesInv'
      BY <3>3, SettersKeep
    <3>4. ASSUME NEW n \in DOMAIN table, NEW m \in Number, NEW cloexec \in BOOLEAN,
                 Duplicates(n, m, cloexec) \/ DuplicatesAbove(n, m, cloexec)
          PROVE  AttributesInv'
      BY <3>4, DuplicatesKeeps DEF DuplicatesAbove
    <3>5. ASSUME NEW f \in Number, NEW l \in Number, NEW flag \in CloseRangeFlag, close_range(f, l, flag)
          PROVE  AttributesInv'
      <4> DEFINE range == {n \in DOMAIN table : f <= n /\ n <= l}
      <4>1. CASE flag = "CLOSE"
        <5>1. Closes(range)
          BY <3>5, <4>1 DEF close_range
        <5> HIDE DEF range
        <5> QED BY <5>1, ClosesKeeps
      <4>2. CASE flag # "CLOSE"
        <5>1. DOMAIN promised = DOMAIN table /\ range \in SUBSET DOMAIN table
          BY DEF AttributesInv
        <5>2. table' = Flagged(table, range, TRUE) /\ promised' = Flagged(promised, range, TRUE)
              /\ UNCHANGED <<opened, kept, copies, aliases>>
          BY <3>5, <4>2, <5>1 DEF close_range, Flagged
        <5> HIDE DEF range
        <5> QED BY <5>1, <5>2, FlagSetter
      <4> QED BY <4>1, <4>2
    <3>6. CASE executes
      BY Zenon, <3>6, ClosesKeeps DEF executes
    <3> QED BY <2>1, <3>1, <3>2, <3>3, <3>4, <3>5, <3>6 DEF NextAttributes
  <2>2. CASE UNCHANGED attributesVars
    BY <2>2 DEF attributesVars, AttributesInv, TablesFit, RelationsFit, Remembered, FileOf
  <2> QED BY <2>1, <2>2
<1> QED BY <1>1, <1>2, PTL DEF SpecAttributes

\* A program gets for every number what was last set for it, for one of its
\* duplicates or for another number of the same file, and no setter changes
\* what another sets (FileDescriptor, the option classes of sockets).
THEOREM SettingsLast == SpecAttributes => []AttributesAreAsSet
<1>1. AttributesInv => AttributesAreAsSet
  <2> SUFFICES ASSUME AttributesInv PROVE AttributesAreAsSet
    OBVIOUS
  <2>1. DOMAIN table = DOMAIN promised
    BY Zenon DEF AttributesInv
  <2>2. ASSUME NEW n \in DOMAIN table, NEW e, e = promised[n]
        PROVE  /\ getFlags(n) = e.cloexec /\ getStatusFlags(n) = <<e.mode, e.status>>
               /\ getOwner(n) = e.owner /\ getSignal(n) = e.signal
               /\ getLease(n) = e.lease /\ opened[table[n].to].flock = e.flock
               /\ getSeals(n) \in {e.seals, {"throws"}} /\ getPipeSize(n) \in {e.pipe, "throws"}
               /\ getInodeReadWriteHint(n) = e.hint
               /\ isSocket(n) => \A o \in (OptionsUsed \intersect OptionsOf(KindOf[FileOf(n)])) \ {PortRange} :
                    getOption(n, o) = Value(e.options, o) \/ (o = BoundDevice /\ Value(e.options, o) = 0)
               /\ KindOf[FileOf(n)] = "tcp4" => getOption(n, PortRange) = Unpacked(Value(e.options, PortRange))
    <3>1. Remembered(n)
      BY DEF AttributesInv
    <3>2. /\ e.mode = opened[table[n].to].mode /\ e.status = opened[table[n].to].status
          /\ e.owner = opened[table[n].to].owner /\ e.signal = opened[table[n].to].signal
          /\ e.lease = opened[table[n].to].lease /\ e.flock = opened[table[n].to].flock
          /\ e.options = opened[table[n].to].options
      BY <2>2, <3>1 DEF Remembered, OpenFields
    <3>3. e.seals = kept[FileOf(n)].seals /\ e.hint = kept[FileOf(n)].hint /\ e.cloexec = table[n].cloexec
      BY <2>2, <3>1 DEF Remembered, FileFields
    <3>4. \A o : getOption(n, o) = CASE o = BoundDevice -> getStringOption(Value(e.options, o))
                                     [] o = PortRange -> Unpacked(Value(e.options, o))
                                     [] OTHER -> Value(e.options, o)
      BY <3>2 DEF getOption, KeyOf
    <3>5. \A o : o # PortRange => getOption(n, o) = Value(e.options, o) \/ (o = BoundDevice /\ Value(e.options, o) = 0)
      BY <3>4 DEF getStringOption
    <3>6. BoundDevice # PortRange
      BY DEF BoundDevice, PortRange
    <3>7. getOption(n, PortRange) = Unpacked(Value(e.options, PortRange))
      BY <3>4, <3>6
    <3>8. getFlags(n) = e.cloexec /\ getStatusFlags(n) = <<e.mode, e.status>>
          /\ getOwner(n) = e.owner /\ getSignal(n) = e.signal /\ getLease(n) = e.lease
          /\ getSeals(n) \in {e.seals, {"throws"}} /\ getPipeSize(n) \in {e.pipe, "throws"}
          /\ getInodeReadWriteHint(n) = e.hint
      BY <3>2, <3>3 DEF getFlags, getStatusFlags, getOwner, getSignal, getLease, getSeals, getPipeSize,
                        getInodeReadWriteHint
    <3> QED BY <3>2, <3>5, <3>7, <3>8
  <2> QED BY <2>1, <2>2 DEF AttributesAreAsSet
<1> QED BY <1>1, AttributesInvariance, PTL

============================================================================
