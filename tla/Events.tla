------------------------------- MODULE Events -------------------------------
(***************************************************************************)
(* An event loop on the event sources of libcosmos: a Poller that monitors *)
(* an INotify, an EventFile and a TimerFD.                                 *)
(*                                                                         *)
(* One thread runs the loop.  It reports to wait() for, and handles, what  *)
(* other threads cause: files change, a thread signals the EventFile, the  *)
(* timer ticks and is set again.  The epoll instance and the queues behind *)
(* the descriptors belong to the kernel.                                   *)
(***************************************************************************)
EXTENDS Integers, SequencesExt

CONSTANTS
    Configs,      \* the arguments of the calls that create and monitor the objects
    IoBufferSize, \* the number of events that fit into the INotify's buffer
    QueueLimit,   \* the number of events that the kernel keeps for the INotify
    CounterMax,   \* the limit of the EventFile's counter
    MaxChanges,   \* bound: the number of file changes
    MaxSignals,   \* bound: the number of calls of EventFile::signal()
    MaxFaults     \* bound: the number of errors and of changes of the monitoring

Source == {"inotify", "event", "timer"}

Modes == {"level", "edge", "oneshot"}

\* A blocking EventFile is read once for each report, which is too little if
\* one report stands for several units: such a program is not correct.
MayUse(config, s, mode) ==
    ~(s = "event" /\ mode = "edge" /\ config.semaphore /\ ~config.nonblock)

ASSUME EventsAssumption ==
    /\ \A c \in Configs :
         /\ c \in [mode : [Source -> Modes], max_events : Nat \ {0},
                   initval : 0 .. CounterMax, semaphore : BOOLEAN, nonblock : BOOLEAN]
         /\ \A s \in Source : MayUse(c, s, c.mode[s])
    /\ IoBufferSize \in Nat \ {0} /\ QueueLimit \in Nat \ {0}
    /\ CounterMax \in Nat \ {0} /\ MaxChanges \in Nat /\ MaxSignals \in Nat /\ MaxFaults \in Nat

VARIABLES
    config,     \* chosen at the start
    queue,      \* the events that the kernel keeps for the INotify
    counter,    \* of the EventFile
    increment,  \* what a thread in EventFile::signal() adds, or 0
    timer,      \* "closed", or a TimerFD that is "disarmed" or "armed"
    ticked,     \* it has ticked since it was set or read
    valid,      \* the Poller has an epoll instance
    interest,   \* how the instance monitors each source
    ready,      \* its list of sources that may be ready
    m_events,   \* the Poller's storage for the results of epoll_pwait2()
    batch,      \* what wait() has returned and the loop has not handled
    pc,         \* where the loop is
    m_buffer,   \* the INotify's buffer,
    m_offset,   \* and the position of the next event in it
    produced,   \* history: the events that the kernel has queued,
    received,   \* and those that readEvent() has returned
    signals,    \* the number of calls of signal()
    faults      \* the number of errors and changes

files == <<queue, produced>>
inotify == <<m_buffer, m_offset, received>>
eventFile == <<counter, increment, signals>>
timerFD == <<timer, ticked>>
poller == <<valid, interest, ready, m_events>>
loop == <<batch, pc>>
vars == <<config, files, inotify, eventFile, timerFD, poller, loop, faults>>

Init ==
    /\ config \in Configs
    /\ queue = <<>> /\ produced = <<>>
    /\ m_buffer = <<>> /\ m_offset = 0 /\ received = <<>>
    /\ counter = config.initval /\ increment = 0 /\ signals = 0
    /\ timer = "closed" /\ ticked = FALSE
    /\ valid = FALSE /\ interest = [s \in Source |-> "none"] /\ ready = <<>> /\ m_events = <<>>
    /\ batch = <<>> /\ pc = "setup"
    /\ faults = 0

-----------------------------------------------------------------------------
(* The kernel *)

isOpen(s) == s = "timer" => timer # "closed"

Readable(s) ==
    CASE s = "inotify" -> queue # <<>>
      [] s = "event" -> counter > 0
      [] s = "timer" -> ticked

\* The members of a list that are in T, in their order.
Chosen(list, T) ==
    LET c[k \in 0 .. Len(list)] ==
            IF k = 0 THEN <<>>
            ELSE IF list[k] \in T THEN Append(c[k - 1], list[k]) ELSE c[k - 1]
    IN c[Len(list)]

\* Something happens to a source that is monitored.
Woken(list, s) ==
    IF interest[s] \in Modes /\ ~Contains(list, s) THEN Append(list, s) ELSE list

Wake(s) ==
    /\ ready' = Woken(ready, s)
    /\ UNCHANGED <<valid, interest, m_events>>

Overflow == 0

\* Without room for the event one that says so is queued, but not two of them.
FileChanges ==
    /\ Len(SelectSeq(produced, LAMBDA e : e # Overflow)) < MaxChanges
    /\ LET event == IF Len(queue) < QueueLimit THEN Len(produced) + 1 ELSE Overflow IN
       /\ ~(event = Overflow /\ Contains(queue, Overflow))
       /\ queue' = Append(queue, event) /\ produced' = Append(produced, event)
    /\ Wake("inotify")
    /\ UNCHANGED <<config, inotify, eventFile, timerFD, loop, faults>>

\* A timer with an interval goes on.
Tick ==
    /\ timer = "armed" /\ ~ticked
    /\ ticked' = TRUE /\ timer' \in {"armed", "disarmed"}
    /\ Wake("timer")
    /\ UNCHANGED <<config, files, inotify, eventFile, loop, faults>>

-----------------------------------------------------------------------------
(* The other threads *)

\* setTime() and disarm(): ticks that have happened are forgotten.
setTime ==
    /\ timer # "closed"
    /\ timer' \in {"armed", "disarmed"} /\ ticked' = FALSE
    /\ UNCHANGED <<config, files, inotify, eventFile, poller, loop, faults>>

StartSignal ==
    /\ increment = 0 /\ signals < MaxSignals
    /\ increment' \in 1 .. CounterMax /\ signals' = signals + 1
    /\ UNCHANGED <<config, files, inotify, counter, timerFD, poller, loop, faults>>

\* signal() blocks as long as the sum exceeds the limit.
signal ==
    /\ increment > 0 /\ counter + increment <= CounterMax
    /\ counter' = counter + increment /\ increment' = 0
    /\ Wake("event")
    /\ UNCHANGED <<config, files, inotify, signals, timerFD, loop, faults>>

\* With NONBLOCK it throws WouldBlock instead.
SignalWouldBlock ==
    /\ config.nonblock /\ increment > 0 /\ counter + increment > CounterMax
    /\ increment' = 0
    /\ UNCHANGED <<config, files, inotify, counter, signals, timerFD, poller, loop, faults>>

-----------------------------------------------------------------------------
(* Setting up *)

Fault == faults < MaxFaults /\ faults' = faults + 1

\* epoll_ctl() looks at the state of the source.
Monitor(s, mode) ==
    /\ interest' = [interest EXCEPT ![s] = mode]
    /\ ready' = IF Readable(s) /\ ~Contains(ready, s) THEN Append(ready, s) ELSE ready
    /\ UNCHANGED <<valid, m_events>>

Forget(s) ==
    /\ interest' = [interest EXCEPT ![s] = "none"]
    /\ ready' = Chosen(ready, Source \ {s})

\* Poller::create().  If epoll_create1() fails the program tries again.
Create ==
    /\ pc = "setup" /\ ~valid
    /\ \/ /\ valid' = TRUE /\ m_events' = [i \in 1 .. config.max_events |-> "none"]
          /\ UNCHANGED faults
       \/ Fault /\ UNCHANGED <<valid, m_events>>
    /\ UNCHANGED <<config, files, inotify, eventFile, timerFD, interest, ready, loop>>

\* TimerFD::create() closes the timer that is open, and if timerfd_create()
\* fails there is none.  The number of the old one may be used again.
CreateTimer(ok) ==
    /\ timer' = IF ok THEN "disarmed" ELSE "closed"
    /\ ticked' = FALSE
    /\ Forget("timer")
    /\ UNCHANGED <<config, files, inotify, eventFile, valid, m_events, loop>>

OpenTimer ==
    /\ pc = "setup" /\ timer = "closed"
    /\ \/ CreateTimer(TRUE) /\ UNCHANGED faults
       \/ CreateTimer(FALSE) /\ Fault

addFD(s) ==
    /\ pc = "setup" /\ valid
    /\ isOpen(s) /\ interest[s] = "none"
    /\ \/ Monitor(s, config.mode[s]) /\ UNCHANGED faults
       \/ Fault /\ UNCHANGED poller
    /\ UNCHANGED <<config, files, inotify, eventFile, timerFD, loop>>

SetupDone ==
    /\ pc = "setup" /\ valid
    /\ \A s \in Source : isOpen(s) /\ interest[s] # "none"
    /\ pc' = "wait"
    /\ UNCHANGED <<config, files, inotify, eventFile, timerFD, poller, batch, faults>>

-----------------------------------------------------------------------------
(* Changes that the loop makes between two calls and while it handles events *)

Changes == pc \in {"setup", "handle"} /\ Fault

modFD(s) ==
    /\ Changes /\ interest[s] # "none"
    /\ \E mode \in Modes : MayUse(config, s, mode) /\ Monitor(s, mode)
    /\ UNCHANGED <<config, files, inotify, eventFile, timerFD, loop>>

delFD(s) ==
    /\ Changes /\ interest[s] # "none"
    /\ Forget(s)
    /\ UNCHANGED <<config, files, inotify, eventFile, timerFD, valid, m_events, loop>>

RenewTimer == Changes /\ timer # "closed" /\ CreateTimer(TRUE)

close ==
    /\ Changes /\ valid
    /\ valid' = FALSE /\ m_events' = <<>>
    /\ interest' = [s \in Source |-> "none"] /\ ready' = <<>>
    /\ UNCHANGED <<config, files, inotify, eventFile, timerFD, loop>>

-----------------------------------------------------------------------------
(* Poller::wait() *)

\* epoll_pwait2() looks at the sources of the ready list once more.
ReadyNow == Chosen(ready, {s \in Source : Readable(s)})

Smaller(m, n) == IF m < n THEN m ELSE n

Reported == LET now == ReadyNow IN SubSeq(now, 1, Smaller(Len(now), config.max_events))

\* Those that are monitored by level go to the end of the list.
Scan(reported) ==
    /\ ready' = LET now == ReadyNow
                IN SubSeq(now, Len(reported) + 1, Len(now))
                       \o Chosen(reported, {s \in Source : interest[s] = "level"})
    /\ interest' = [s \in Source |->
                       IF interest[s] = "oneshot" /\ Contains(reported, s)
                       THEN "disabled" ELSE interest[s]]
    /\ m_events' = reported \o SubSeq(m_events, Len(reported) + 1, Len(m_events))

\* Mutant: the last event is left out of the result.
wait_OneLess ==
    /\ pc = "wait" /\ ReadyNow # <<>>
    /\ LET reported == Reported IN
       /\ Scan(reported)
       /\ batch' = SubSeq(m_events', 1, Len(reported) - 1)
    /\ pc' = "handle"
    /\ UNCHANGED <<config, files, inotify, eventFile, timerFD, valid, faults>>

wait ==
    /\ pc = "wait" /\ ReadyNow # <<>>
    /\ LET reported == Reported IN
       /\ Scan(reported)
       /\ batch' = SubSeq(m_events', 1, Len(reported))
    /\ pc' = "handle"
    /\ UNCHANGED <<config, files, inotify, eventFile, timerFD, valid, faults>>

\* The result is empty after the timeout.
WaitTimesOut ==
    /\ pc = "wait" /\ ReadyNow = <<>>
    /\ ready' = <<>> /\ batch' = <<>> /\ pc' = "handle"
    /\ UNCHANGED <<config, files, inotify, eventFile, timerFD, valid, interest, m_events, faults>>

\* epoll_pwait2() is interrupted and either called again with the whole
\* timeout, or the exception leads to another round of the loop.
WaitInterrupted ==
    /\ pc = "wait" /\ Fault
    /\ pc' \in {"wait", "setup"}
    /\ UNCHANGED <<config, files, inotify, eventFile, timerFD, poller, batch>>

-----------------------------------------------------------------------------
(* Handling: the loop reads from the sources in the batch *)

Handles(s) == pc = "handle" /\ batch # <<>> /\ Head(batch) = s

\* ONESHOT monitoring is started again, and the next report is handled.
Finish(s) ==
    /\ IF interest[s] = "disabled" THEN Monitor(s, "oneshot") ELSE UNCHANGED poller
    /\ batch' = Tail(batch) /\ UNCHANGED pc

NextRound ==
    /\ pc = "handle" /\ batch = <<>>
    /\ pc' = "setup"
    /\ UNCHANGED <<config, files, inotify, eventFile, timerFD, poller, batch, faults>>

Garbage == -1

Resized(buffer, n) == [i \in 1 .. n |-> IF i <= Len(buffer) THEN buffer[i] ELSE Garbage]

\* Mutant: the offset is reset after a successful read only.
FailedRead_KeepsOffset ==
    /\ m_buffer' = Resized(m_buffer, IoBufferSize)
    /\ UNCHANGED <<m_offset, received, files>>

\* The state in which read() is called, and which its exception leaves.
FailedRead ==
    /\ m_buffer' = Resized(m_buffer, IoBufferSize)
    /\ m_offset' = IoBufferSize
    /\ UNCHANGED <<received, files>>

Refill ==
    LET n == Smaller(Len(queue), IoBufferSize) IN
    /\ m_buffer' = SubSeq(queue, 1, n)
    /\ m_offset' = 1 /\ received' = Append(received, queue[1])
    /\ queue' = SubSeq(queue, n + 1, Len(queue))
    /\ UNCHANGED produced

FromBuffer ==
    /\ m_offset' = m_offset + 1
    /\ received' = Append(received, m_buffer[m_offset + 1])
    /\ UNCHANGED <<m_buffer, files>>

\* tryReadEvent(), until it returns nothing: the Poller knows nothing of what
\* is in the buffer.  After another error the loop calls it again.
tryReadEvent ==
    /\ Handles("inotify")
    /\ \/ m_offset < Len(m_buffer) /\ FromBuffer /\ UNCHANGED <<poller, loop, faults>>
       \/ m_offset >= Len(m_buffer) /\ queue # <<>> /\ Refill /\ UNCHANGED <<poller, loop, faults>>
       \/ m_offset >= Len(m_buffer) /\ queue # <<>> /\ FailedRead /\ Fault /\ UNCHANGED <<poller, loop>>
       \/ m_offset >= Len(m_buffer) /\ queue = <<>> /\ FailedRead /\ Finish("inotify") /\ UNCHANGED faults
    /\ UNCHANGED <<config, eventFile, timerFD>>

\* EventFile::wait(): once if it may block, and else until it throws.
ReadEventFile ==
    /\ Handles("event")
    /\ \/ /\ counter > 0
          /\ counter' = IF config.semaphore THEN counter - 1 ELSE 0
          /\ IF config.nonblock THEN UNCHANGED <<poller, loop>> ELSE Finish("event")
       \/ /\ counter = 0 /\ config.nonblock
          /\ Finish("event") /\ UNCHANGED counter
       \/ /\ counter = 0 /\ ~config.nonblock
          /\ pc' = "blocked" /\ UNCHANGED <<counter, poller, batch>>
    /\ UNCHANGED <<config, files, inotify, increment, signals, timerFD, faults>>

\* TimerFD::wait() with NONBLOCK.  The report may be stale: it throws.
ReadTimer ==
    /\ Handles("timer")
    /\ ticked' = FALSE /\ UNCHANGED timer
    /\ Finish("timer")
    /\ UNCHANGED <<config, files, inotify, eventFile, faults>>

-----------------------------------------------------------------------------

LoopStep ==
    \/ Create \/ OpenTimer \/ SetupDone
    \/ \E s \in Source : addFD(s)
    \/ wait \/ NextRound
    \/ tryReadEvent \/ ReadEventFile \/ ReadTimer

Change ==
    \/ RenewTimer \/ close
    \/ \E s \in Source : modFD(s) \/ delFD(s)

Next ==
    \/ FileChanges \/ Tick \/ setTime \/ StartSignal \/ signal \/ SignalWouldBlock
    \/ LoopStep \/ Change \/ WaitTimesOut \/ WaitInterrupted

\* The threads that run the loop and that signal are scheduled.  Nothing has to
\* happen in the environment.
Fairness == WF_vars(LoopStep) /\ WF_vars(signal)

Spec == Init /\ [][Next]_vars /\ Fairness

-----------------------------------------------------------------------------
(* Properties *)

Buffered == SubSeq(m_buffer, m_offset + 1, Len(m_buffer))

\* readEvent() returns every event that the kernel has queued, in its order and
\* once, whatever read() throws in between.
EventsInOrder == received \o Buffered \o queue = produced

\* No source that has something to read is out of sight: it is in the list of
\* the kernel, or the loop is going to handle it.  Events in the INotify's
\* buffer are seen by the loop only.  And what the Poller reports can be read:
\* the loop does not hang in EventFile::wait() while other sources have events.
NothingUnnoticed ==
    /\ \A s \in Source :
         interest[s] # "none" /\ Readable(s) => Contains(ready, s) \/ Contains(batch, s)
    /\ Buffered # <<>> => Contains(batch, "inotify")
    /\ \A s \in Source : interest[s] = "disabled" => Contains(batch, s)
    /\ pc # "blocked"

\* Everything that happens is handled, and signal() returns, although the
\* timer may tick all the time.
EventsAreHandled ==
    /\ \A s \in Source : Readable(s) ~> ~Readable(s)
    /\ increment > 0 ~> increment = 0
=============================================================================
