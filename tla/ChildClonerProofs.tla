------------------------- MODULE ChildClonerProofs -------------------------
(***************************************************************************)
(* Theorems about ChildCloner, for any number of threads that call run()   *)
(* and any configurations of their ChildCloners.                           *)
(***************************************************************************)
EXTENDS ChildCloner, TLAPS

(***************************************************************************)
(* The inductive invariant, for the caller c and its child.                *)
(***************************************************************************)

\* run() has an outcome from the time on that it knows it.
Knows(c) ==
    /\ pc[c] \in {"idle", "ready", "forked", "cloned", "reading"} => outcome[c] = "none"
    /\ pc[c] \in {"readtext", "killing", "collecting"} =>
         outcome[c] \in {"ApiError", "RuntimeError", "READ_FAILED"}
    /\ pc[c] = "done" => outcome[c] # "none"

\* There is a child when run() is past its creation, and else there is none.
\* A run() that throws is done with its child, unless it was interrupted.
HasChild(c) ==
    /\ pc[c] \in {"idle", "ready"} => stage[c] = "none"
    /\ stage[c] = "none" =>
         \/ pc[c] \in {"idle", "ready"}
         \/ pc[c] = "done" /\ outcome[c] \in {"UsageError", "ApiError"}
    /\ pc[c] = "done" /\ outcome[c] \notin {"ok", "INTERRUPTED"} =>
         stage[c] \in {"none", "reaped"} /\ handle[c] # "open"
    /\ stage[c] \in {"none"} \union Living <=> status[c] = "none"

\* The pidfd is there before the child does anything: only fork() leaves a
\* time in between, in which the child waits for the event or is done.
HasPidFD(c) ==
    /\ pc[c] \in {"idle", "ready", "forked"} => handle[c] = "none"
    /\ pc[c] \in {"cloned", "reading", "readtext"} => handle[c] = "open"
    /\ handle[c] = "none" =>
         /\ ~event[c]
         /\ stage[c] \in {"none", "forked", "zombie", "reaped"}
         /\ stage[c] # "none" => running_on_valgrind

\* The child has an error exactly when it left its setup for the report, and
\* not the whole program of it, or ended before.
HasCause(c) ==
    /\ stage[c] \in {"none", "forked", "setup", "callback", "execve", "program"} => cause[c] = "none"
    /\ stage[c] \in {"report", "explain", "leave"} => cause[c] \in Reported /\ config[c].forward
    /\ handle[c] = "none" => cause[c] \notin Reported

\* The parent's write end is open until run() reads, the child's own one until
\* its setup is over: there is no end-of-file before.
HoldsPipe(c) ==
    /\ config[c].forward /\ pc[c] \in {"ready", "forked", "cloned"} => Parent \in writers[c]
    /\ config[c].forward /\ stage[c] \in PreExec => c \in writers[c]

\* What the child writes first, and what run() makes of it.
Errno(c) == IF cause[c] = "execve" THEN "errno" ELSE "NO_ERROR"
Thrown(c) == IF cause[c] = "execve" THEN "ApiError" ELSE "RuntimeError"

\* The child's report up to its end, which no signal cut short.
Told(c) == stage[c] \in {"zombie", "reaped"} /\ status[c] # "signal"

\* Nothing is in the pipe but the report of the child's error, the part of it
\* that run() did not read yet.
HasReport(c) ==
    /\ ~config[c].forward => pipe[c] = <<>> /\ pc[c] \notin {"reading", "readtext"}
    /\ cause[c] \notin Reported => pipe[c] = <<>>
    /\ pc[c] \in {"idle", "ready", "forked", "cloned", "reading"} =>
         /\ pipe[c] \in {<<>>, <<Errno(c)>>, <<Errno(c), "text">>}
         /\ stage[c] = "report" => pipe[c] = <<>>
         /\ stage[c] = "explain" => pipe[c] = <<Errno(c)>>
         /\ config[c].forward /\ cause[c] \in Reported /\ (stage[c] = "leave" \/ Told(c)) =>
              pipe[c] # <<>> /\ (cause[c] # "callback" => pipe[c] = <<Errno(c), "text">>)
    /\ pc[c] = "readtext" =>
         /\ cause[c] \in Reported /\ outcome[c] = Thrown(c)
         /\ pipe[c] \in {<<>>, <<"text">>}
         /\ stage[c] \in {"explain", "leave", "zombie", "reaped"}
         /\ stage[c] = "explain" => pipe[c] = <<>>
         /\ stage[c] = "leave" \/ Told(c) => cause[c] = "callback" \/ pipe[c] = <<"text">>

\* What run() throws is what the child ran into; and what it returns from
\* is past its setup.
Believes(c) ==
    /\ pc[c] \in {"killing", "collecting"} /\ handle[c] = "open" /\ outcome[c] # "READ_FAILED" =>
         /\ cause[c] \in Reported /\ stage[c] \in {"leave", "zombie", "reaped"}
         /\ outcome[c] = Thrown(c) \/ status[c] = "signal"
    /\ pc[c] \in {"killing", "collecting"} => handle[c] # "closed"
    /\ pc[c] = "done" /\ config[c].forward =>
         /\ outcome[c] = "ok" => stage[c] \notin {"none"} \union PreExec
         /\ cause[c] \in Reported =>
              \/ outcome[c] = Thrown(c)
              \/ status[c] = "signal"
              \/ outcome[c] \in {"READ_FAILED", "NO_CHILD", "INTERRUPTED"}

CInv(c) ==
    /\ Knows(c) /\ HasChild(c) /\ HasPidFD(c) /\ HasCause(c)
    /\ HoldsPipe(c) /\ HasReport(c) /\ Believes(c)

IInv == TypeOK /\ \A c \in Caller : CInv(c)

\* What the thread c does.
ThreadStep(c) == RunStep(c) \/ ReadFails(c)

Step(c) == ThreadStep(c) \/ ChildStep(c) \/ ProgramExits(c) \/ Killed(c) \/ OtherWaits(c)

\* What a step of c and its child leaves of the caller d: its pipe may get or
\* lose writers, but not d's parent and not d's child.
Same(d) ==
    /\ pc'[d] = pc[d] /\ outcome'[d] = outcome[d] /\ handle'[d] = handle[d]
    /\ event'[d] = event[d] /\ pipe'[d] = pipe[d]
    /\ stage'[d] = stage[d] /\ cause'[d] = cause[d] /\ status'[d] = status[d]
    /\ Parent \in writers[d] => Parent \in writers'[d]
    /\ d \in writers[d] => d \in writers'[d]

\* A caller and a child disturb no other caller and no other child.
LEMMA OthersKeep ==
    ASSUME TypeOK, NEW c \in Caller, Step(c), NEW d \in Caller, d # c
    PROVE  Same(d)
<1> USE ChildClonerAssumption DEF TypeOK, Same, caller, offspring, channel, settings,
                                  End, CloseParentEnd, ClosePidFD, ForkChild
<1>1. CASE ThreadStep(c)
  <2>1. Begin(c) => Same(d)
    BY DEF Begin
  <2>2. CreationFails(c) \/ Clone3(c) \/ Fork(c) => Same(d)
    BY DEF CreationFails, Clone3, Fork
  <2>3. OpenPidFD(c) \/ OpenPidFDFails(c) \/ ReturnAtOnce(c) \/ CloseWriteEnd(c) => Same(d)
    BY DEF OpenPidFD, OpenPidFDFails, ReturnAtOnce, CloseWriteEnd
  <2>4. ReadErrno(c) \/ ReadNoError(c) \/ ReadText(c) \/ ReadNoText(c) \/ ReadFails(c) => Same(d)
    BY DEF ReadErrno, ReadNoError, ReadText, ReadNoText, ReadFails, Receive
  <2>5. KillChild(c) \/ CollectChild(c) \/ CollectNothing(c) \/ CollectInterrupted(c) => Same(d)
    BY DEF KillChild, CollectChild, CollectNothing, CollectInterrupted
  <2> QED BY <1>1, <2>1, <2>2, <2>3, <2>4, <2>5 DEF ThreadStep, RunStep
<1>2. ASSUME NEW st, Terminate(c, st)
      PROVE  Same(d)
  BY <1>2 DEF Terminate, CloseFiles
<1>3. ASSUME NEW from, NEW to, Goto(c, from, to) /\ UNCHANGED cause
      PROVE  Same(d)
  BY <1>3 DEF Goto
<1>4. ASSUME NEW from, NEW why, NEW st, ChildFails(c, from, why, st)
      PROVE  Same(d)
  BY <1>4 DEF ChildFails, CloseFiles
<1>5. Exec(c) \/ StartFails(c) \/ ReportErrno(c) \/ ReportText(c) => Same(d)
  BY DEF Exec, StartFails, ReportErrno, ReportText, CloseFiles
<1>6. CASE ChildStep(c) \/ ProgramExits(c) \/ Killed(c) \/ OtherWaits(c)
  BY <1>2, <1>3, <1>4, <1>5, <1>6
     DEF ChildStep, ProgramExits, Killed, OtherWaits, StartChild, SetUp, SetUpFails,
         CallbackReturns, CallbackThrows, CallbackExits, ExecFails, ExitAfterReport
<1> QED BY <1>1, <1>6 DEF Step

\* Then what the invariant says of d stays true.
LEMMA SameKeeps ==
    ASSUME NEW d \in Caller, CInv(d), Same(d), UNCHANGED settings
    PROVE  CInv(d)'
<1> USE DEF Same, settings, CInv
<1>1. Knows(d)'
  BY DEF Knows
<1>2. HasChild(d)'
  BY DEF HasChild
<1>3. HasPidFD(d)'
  BY DEF HasPidFD
<1>4. HasCause(d)'
  BY DEF HasCause
<1>5. HoldsPipe(d)'
  BY DEF HoldsPipe
<1>6. HasReport(d)'
  BY DEF HasReport, Errno, Thrown, Told
<1>7. Believes(d)'
  BY DEF Believes, Thrown
<1> QED BY <1>1, <1>2, <1>3, <1>4, <1>5, <1>6, <1>7

\* Nobody changes the settings.
LEMMA SettingsStay ==
    ASSUME NEW c \in Caller, Step(c)
    PROVE  UNCHANGED settings
<1>1. CASE ThreadStep(c)
  BY <1>1 DEF ThreadStep, ReadFails, RunStep, Begin, CreationFails, Clone3, Fork, OpenPidFD, OpenPidFDFails, ReturnAtOnce,
              CloseWriteEnd, ReadErrno, ReadNoError, ReadText, ReadNoText, KillChild, CollectChild,
              CollectNothing, CollectInterrupted
<1>2. CASE ChildStep(c) \/ ProgramExits(c) \/ Killed(c) \/ OtherWaits(c)
  BY <1>2 DEF ChildStep, ProgramExits, Killed, OtherWaits, StartChild, StartFails, SetUp, SetUpFails,
              CallbackReturns, CallbackThrows, CallbackExits, Exec, ExecFails, ReportErrno, ReportText,
              ExitAfterReport, Terminate, Goto, ChildFails
<1> QED BY <1>1, <1>2 DEF Step

\* The types of the packets survive reading and writing.
LEMMA PacketTypes ==
    ASSUME NEW s \in Seq({"errno", "NO_ERROR", "text"}), NEW p \in {"errno", "NO_ERROR", "text"}
    PROVE  /\ Append(s, p) \in Seq({"errno", "NO_ERROR", "text"})
           /\ s # <<>> => Tail(s) \in Seq({"errno", "NO_ERROR", "text"})
OBVIOUS

\* A function with a new value of the right type is of that type.
LEMMA UpdateType ==
    ASSUME NEW S, NEW T, NEW f \in [S -> T], NEW x \in S, NEW v \in T
    PROVE  [f EXCEPT ![x] = v] \in [S -> T]
OBVIOUS

\* All variables keep their types.  The ranges of the functions are names in
\* the steps; what they contain is stated once, in <1>1 to <1>3.
LEMMA TypesStay ==
    ASSUME TypeOK, NEW c \in Caller, Step(c)
    PROVE  TypeOK'
<1> DEFINE Places == {"idle", "ready", "forked", "cloned", "reading", "readtext",
                      "killing", "collecting", "done"}
           Handles == {"none", "open", "closed"}
           Packets == Seq({"errno", "NO_ERROR", "text"})
           Holders == SUBSET (Caller \union {Parent})
           Stages == {"none", "zombie", "reaped"} \union Living
           Typed == /\ pc \in [Caller -> Places] /\ outcome \in [Caller -> Outcomes]
                    /\ handle \in [Caller -> Handles]
                    /\ event \in [Caller -> BOOLEAN] /\ pipe \in [Caller -> Packets]
                    /\ writers \in [Caller -> Holders]
                    /\ stage \in [Caller -> Stages] /\ cause \in [Caller -> Errors]
                    /\ status \in [Caller -> Statuses]
                    /\ doomed \subseteq Caller /\ aborted \in BOOLEAN
<1>1. /\ "ready" \in Places /\ "forked" \in Places /\ "cloned" \in Places /\ "reading" \in Places
      /\ "readtext" \in Places /\ "killing" \in Places /\ "collecting" \in Places /\ "done" \in Places
      /\ "open" \in Handles /\ "closed" \in Handles
  OBVIOUS
<1>2. /\ "ok" \in Outcomes /\ "UsageError" \in Outcomes /\ "ApiError" \in Outcomes
      /\ "RuntimeError" \in Outcomes /\ "NO_CHILD" \in Outcomes /\ "INTERRUPTED" \in Outcomes
      /\ "READ_FAILED" \in Outcomes
      /\ "SUCCESS" \in Statuses /\ "PRE_EXEC_ERROR" \in Statuses /\ "PROG_NOT_FOUND" \in Statuses
      /\ "PROG_NOT_EXECUTABLE" \in Statuses /\ "own" \in Statuses /\ "signal" \in Statuses
      /\ "execve" \in Errors /\ "setup" \in Errors /\ "callback" \in Errors /\ "start" \in Errors
  BY DEF Outcomes, Statuses, Errors, Reported
<1>3. /\ "forked" \in Stages /\ "setup" \in Stages /\ "callback" \in Stages /\ "execve" \in Stages
      /\ "report" \in Stages /\ "explain" \in Stages /\ "leave" \in Stages
      /\ "program" \in Stages /\ "zombie" \in Stages /\ "reaped" \in Stages
  BY DEF Living, PreExec
<1>4. /\ {} \in Holders /\ {Parent} \in Holders
      /\ \A W \in Holders : W \ {Parent} \in Holders /\ W \ {c} \in Holders /\ W \union {c} \in Holders
  OBVIOUS
<1>5. \A s \in Packets : /\ s # <<>> => Tail(s) \in Packets
                         /\ Append(s, "errno") \in Packets /\ Append(s, "NO_ERROR") \in Packets
                         /\ Append(s, "text") \in Packets
  BY PacketTypes
<1>6. TypeOK => Typed
  BY DEF TypeOK
<1>7. TypeOK /\ UNCHANGED settings /\ Typed' => TypeOK'
  BY DEF TypeOK, settings
<1> HIDE DEF Places, Handles, Packets, Holders, Stages
<1> SUFFICES Typed'
  BY <1>7, SettingsStay
<1> USE <1>6 DEF caller, offspring, channel
<1>8. ASSUME NEW out \in Outcomes, End(c, out)
      PROVE  pc' \in [Caller -> Places] /\ outcome' \in [Caller -> Outcomes]
  BY <1>1, <1>8 DEF End
<1>9. CloseParentEnd(c) => writers' \in [Caller -> Holders]
  <2> DEFINE rest == writers[c] \ {Parent}
  <2>1. rest \in Holders
    BY <1>4
  <2>2. CloseParentEnd(c) => writers' = [writers EXCEPT ![c] = rest]
    BY DEF CloseParentEnd
  <2> HIDE DEF rest
  <2> QED BY <2>1, <2>2, UpdateType
<1>10. ClosePidFD(c) => handle' \in [Caller -> Handles]
  BY <1>1 DEF ClosePidFD
<1>11. ForkChild(c) => writers' \in [Caller -> Holders] /\ stage' \in [Caller -> Stages]
  <2>1. \A p \in Caller : writers[p] \in Holders
    OBVIOUS
  <2> DEFINE heirs(p) == IF Parent \in writers[p] THEN writers[p] \union {c} ELSE writers[p]
  <2>2. \A p \in Caller : heirs(p) \in Holders
    BY <1>4, <2>1
  <2>3. ForkChild(c) => writers' = [p \in Caller |-> heirs(p)]
    BY DEF ForkChild
  <2>4. ForkChild(c) => stage' \in [Caller -> Stages]
    BY <1>3 DEF ForkChild
  <2> HIDE DEF heirs
  <2> QED BY <2>2, <2>3, <2>4
<1>12. CloseFiles(c) => writers' \in [Caller -> Holders]
  <2> DEFINE rest(p) == writers[p] \ {c}
  <2>1. \A p \in Caller : rest(p) \in Holders
    BY <1>4
  <2>2. CloseFiles(c) => writers' = [p \in Caller |-> rest(p)]
    BY DEF CloseFiles
  <2> HIDE DEF rest
  <2> QED BY <2>1, <2>2
<1>13. CASE ThreadStep(c)
  <2>1. Begin(c) => Typed'
    <3>1. ASSUME Begin(c)
          PROVE  pc' \in [Caller -> Places] /\ outcome' \in [Caller -> Outcomes]
      BY <1>1, <1>2, <1>8, <3>1 DEF Begin
    <3>2. ASSUME Begin(c)
          PROVE  writers' \in [Caller -> Holders]
      <4>1. [writers EXCEPT ![c] = {Parent}] \in [Caller -> Holders]
        BY <1>4, UpdateType
      <4> QED BY <3>2, <4>1 DEF Begin
    <3> QED BY <3>1, <3>2 DEF Begin
  <2>2. CreationFails(c) => Typed'
    BY <1>2, <1>8, <1>9 DEF CreationFails
  <2>3. Clone3(c) => Typed'
    BY <1>1, <1>11 DEF Clone3
  <2>4. Fork(c) => Typed'
    BY <1>1, <1>11 DEF Fork
  <2>5. OpenPidFD(c) => Typed'
    BY <1>1 DEF OpenPidFD
  <2>6. OpenPidFDFails(c) => Typed'
    BY <1>1, <1>2 DEF OpenPidFDFails
  <2>7. ReturnAtOnce(c) => Typed'
    BY <1>2, <1>8 DEF ReturnAtOnce
  <2>8. CloseWriteEnd(c) => Typed'
    BY <1>1, <1>9 DEF CloseWriteEnd
  <2>9. ReadNoError(c) => Typed'
    BY <1>2, <1>8 DEF ReadNoError
  <2>10. ReadNoText(c) => Typed'
    BY <1>1, <1>2 DEF ReadNoText
  <2>11. ASSUME NEW p, Receive(c, p)
         PROVE  pipe' \in [Caller -> Packets]
    BY <1>5, <2>11 DEF Receive
  <2>12. ReadErrno(c) => Typed'
    BY <1>1, <1>2, <2>11 DEF ReadErrno
  <2>13. ReadText(c) => Typed'
    BY <1>1, <2>11 DEF ReadText
  <2>14. KillChild(c) => Typed'
    BY <1>1 DEF KillChild
  <2>15. CollectChild(c) => Typed'
    BY <1>1, <1>3, <1>9, <1>10 DEF CollectChild
  <2>16. CollectNothing(c) => Typed'
    BY <1>2, <1>8, <1>9, <1>10 DEF CollectNothing
  <2>17. CollectInterrupted(c) => Typed'
    BY <1>2, <1>8, <1>9 DEF CollectInterrupted
  <2>18. ReadFails(c) => Typed'
    BY <1>1, <1>2 DEF ReadFails
  <2> HIDE DEF Typed
  <2> QED BY <1>13, <2>1, <2>2, <2>3, <2>4, <2>5, <2>6, <2>7, <2>8, <2>9, <2>10, <2>12, <2>13, <2>14,
             <2>15, <2>16, <2>17, <2>18 DEF ThreadStep, RunStep
<1>14. ASSUME NEW st \in Statuses, Terminate(c, st)
       PROVE  Typed'
  BY <1>3, <1>12, <1>14 DEF Terminate
<1>15. ASSUME NEW from, NEW to \in Stages, Goto(c, from, to) /\ UNCHANGED cause
       PROVE  Typed'
  BY <1>15 DEF Goto
<1>16. ASSUME NEW from, NEW why \in Errors, NEW st \in Statuses, ChildFails(c, from, why, st)
       PROVE  Typed'
  BY <1>3, <1>12, <1>16 DEF ChildFails
<1>17. Exec(c) => Typed'
  BY <1>3, <1>12 DEF Exec
<1>18. ReportErrno(c) => Typed'
  <2> DEFINE longer == Append(pipe[c], IF cause[c] = "execve" THEN "errno" ELSE "NO_ERROR")
  <2>1. longer \in Packets
    BY <1>5
  <2>2. ReportErrno(c) => pipe' = [pipe EXCEPT ![c] = longer]
    BY DEF ReportErrno
  <2> HIDE DEF longer
  <2>3. ReportErrno(c) => pipe' \in [Caller -> Packets]
    BY <2>1, <2>2, UpdateType
  <2> QED BY <1>3, <2>3 DEF ReportErrno
<1>19. ReportText(c) => Typed'
  <2> DEFINE longer == Append(pipe[c], "text")
  <2>1. longer \in Packets
    BY <1>5
  <2>2. ReportText(c) => pipe' = [pipe EXCEPT ![c] = longer] \/ pipe' = pipe
    BY DEF ReportText
  <2> HIDE DEF longer
  <2>3. ReportText(c) => pipe' \in [Caller -> Packets]
    BY <2>1, <2>2, UpdateType
  <2> QED BY <1>3, <2>3 DEF ReportText
<1>20. CASE ChildStep(c) \/ ProgramExits(c) \/ Killed(c) \/ OtherWaits(c)
  <2> HIDE DEF Typed
  <2>0. StartFails(c) => Typed'
    BY <1>2, <1>3, <1>12 DEF StartFails, Typed
  <2>1. CallbackExits(c) \/ ExitAfterReport(c) \/ ProgramExits(c) \/ Killed(c) => Typed'
    BY <1>2, <1>14 DEF CallbackExits, ExitAfterReport, ProgramExits, Killed
  <2>2. StartChild(c) \/ SetUp(c) \/ OtherWaits(c) => Typed'
    BY <1>3, <1>15 DEF StartChild, SetUp, OtherWaits
  <2>3. CallbackReturns(c) => Typed'
    BY <1>2, <1>3, <1>14, <1>15 DEF CallbackReturns
  <2>4. SetUpFails(c) \/ CallbackThrows(c) \/ ExecFails(c) => Typed'
    BY <1>2, <1>16 DEF SetUpFails, CallbackThrows, ExecFails
  <2> QED BY <1>17, <1>18, <1>19, <1>20, <2>0, <2>1, <2>2, <2>3, <2>4 DEF ChildStep
<1> QED BY <1>13, <1>20 DEF Step

\* The packets that the invariant speaks of, read and written.
LEMMA Packets ==
    ASSUME NEW a, NEW b
    PROVE  /\ Append(<<>>, a) = <<a>> /\ Append(<<a>>, b) = <<a, b>>
           /\ Head(<<a>>) = a /\ Tail(<<a>>) = <<>>
           /\ Head(<<a, b>>) = a /\ Tail(<<a, b>>) = <<b>>
           /\ <<a>> # <<>> /\ <<a, b>> # <<>> /\ <<a, b>> # <<a>>
<1>1. Append(<<>>, a) = <<a>>
  OBVIOUS
<1>2. Append(<<a>>, b) = <<a, b>>
  <2>1. <<a>> \in Seq({a, b}) /\ <<a, b>> \in Seq({a, b})
    OBVIOUS
  <2>2. Append(<<a>>, b) \in Seq({a, b}) /\ Len(Append(<<a>>, b)) = 2
    BY <2>1
  <2>3. Append(<<a>>, b)[1] = a /\ Append(<<a>>, b)[2] = b
    BY <2>1
  <2>4. \A s \in Seq({a, b}) : Len(s) = 2 /\ s[1] = a /\ s[2] = b => s = <<a, b>>
    OBVIOUS
  <2> QED BY <2>2, <2>3, <2>4
<1>3. Head(<<a>>) = a /\ Head(<<a, b>>) = a
  OBVIOUS
<1>4. Tail(<<a>>) = <<>>
  OBVIOUS
<1>5. Tail(<<a, b>>) = <<b>>
  OBVIOUS
<1>6. Len(<<>>) = 0 /\ Len(<<a>>) = 1 /\ Len(<<a, b>>) = 2
  OBVIOUS
<1>7. <<a>> # <<>> /\ <<a, b>> # <<>> /\ <<a, b>> # <<a>>
  BY <1>6
<1> QED BY <1>1, <1>2, <1>3, <1>4, <1>5, <1>7

\* Reading the errno leaves the text, if it is there already.
LEMMA FirstPacket ==
    ASSUME NEW e, NEW p, p \in {<<e>>, <<e, "text">>}
    PROVE  /\ Head(p) = e /\ Tail(p) \in {<<>>, <<"text">>}
           /\ p = <<e>> => Tail(p) = <<>>
           /\ p = <<e, "text">> => Tail(p) = <<"text">>
<1>1. Head(<<e>>) = e /\ Tail(<<e>>) = <<>>
  BY Packets
<1>2. Head(<<e, "text">>) = e /\ Tail(<<e, "text">>) = <<"text">> /\ <<e, "text">> # <<e>>
  BY Packets
<1> QED BY <1>1, <1>2

\* The errno tells run() what to throw.
LEMMA ReadErrnoKeeps ==
    ASSUME TypeOK, TypeOK', NEW c \in Caller, CInv(c), ReadErrno(c)
    PROVE  CInv(c)'
<1>1. /\ pipe[c] # <<>> /\ Head(pipe[c]) \in {"errno", "NO_ERROR"} /\ pipe'[c] = Tail(pipe[c])
      /\ outcome'[c] = IF Head(pipe[c]) = "errno" THEN "ApiError" ELSE "RuntimeError"
      /\ pc[c] = "reading" /\ pc'[c] = "readtext"
      /\ UNCHANGED <<settings, handle, event, writers, offspring>>
  BY DEF ReadErrno, Receive, TypeOK
<1>2. cause[c] \in Reported /\ config[c].forward /\ pipe[c] \in {<<Errno(c)>>, <<Errno(c), "text">>}
  BY <1>1 DEF CInv, HasReport
<1>3. /\ Head(pipe[c]) = Errno(c) /\ pipe'[c] \in {<<>>, <<"text">>}
      /\ pipe[c] = <<Errno(c)>> => pipe'[c] = <<>>
      /\ pipe[c] = <<Errno(c), "text">> => pipe'[c] = <<"text">>
  <2> DEFINE e == Errno(c)
  <2>1. pipe[c] \in {<<e>>, <<e, "text">>}
    BY <1>2
  <2> HIDE DEF e
  <2>2. /\ Head(pipe[c]) = e /\ Tail(pipe[c]) \in {<<>>, <<"text">>}
        /\ pipe[c] = <<e>> => Tail(pipe[c]) = <<>>
        /\ pipe[c] = <<e, "text">> => Tail(pipe[c]) = <<"text">>
    BY <2>1, FirstPacket
  <2> QED BY <1>1, <2>2 DEF e
<1>4. /\ stage[c] \in {"explain", "leave", "zombie", "reaped"}
      /\ stage[c] = "explain" => pipe'[c] = <<>>
      /\ stage[c] = "leave" \/ Told(c) => cause[c] = "callback" \/ pipe'[c] = <<"text">>
  BY <1>1, <1>2, <1>3 DEF CInv, HasReport, HasCause, HasChild, TypeOK, Living, PreExec, Reported
<1>5. outcome'[c] = Thrown(c)
  BY <1>1, <1>3 DEF Errno, Thrown
<1>6. HasReport(c)'
  BY <1>1, <1>2, <1>3, <1>4, <1>5 DEF HasReport, Thrown, Told, settings, offspring
<1> QED BY <1>1, <1>5, <1>6
        DEF CInv, Knows, HasChild, HasPidFD, HasCause, HoldsPipe, Believes, Thrown, settings, offspring

\* What the thread c does keeps the invariant of c.
LEMMA RunKeeps ==
    ASSUME TypeOK, TypeOK', NEW c \in Caller, CInv(c), ThreadStep(c)
    PROVE  CInv(c)'
<1> USE ChildClonerAssumption
    DEF TypeOK, CInv, Knows, HasChild, HasPidFD, HasCause, HoldsPipe, HasReport, Believes,
        Errno, Thrown, Told, Living, PreExec, Reported,
        caller, offspring, channel, settings, End, CloseParentEnd, ClosePidFD
<1>1. Begin(c) => CInv(c)'
  BY DEF Begin
<1>2. CreationFails(c) => CInv(c)'
  BY DEF CreationFails
<1>3. Clone3(c) => CInv(c)'
  BY DEF Clone3, ForkChild
<1>4. Fork(c) => CInv(c)'
  BY DEF Fork, ForkChild
<1>5. OpenPidFD(c) => CInv(c)'
  BY DEF OpenPidFD
<1>6. OpenPidFDFails(c) => CInv(c)'
  BY DEF OpenPidFDFails
<1>7. ReturnAtOnce(c) => CInv(c)'
  BY DEF ReturnAtOnce
<1>8. CloseWriteEnd(c) => CInv(c)'
  BY DEF CloseWriteEnd
<1>9. ReadErrno(c) => CInv(c)'
  BY ReadErrnoKeeps
<1>10. ReadNoError(c) => CInv(c)'
  BY DEF ReadNoError, EndOfFile
<1>11. ReadText(c) => CInv(c)'
  BY Packets DEF ReadText, Receive
<1>12. ReadNoText(c) => CInv(c)'
  BY DEF ReadNoText, EndOfFile
<1>13. KillChild(c) => CInv(c)'
  BY DEF KillChild
<1>14. CollectChild(c) => CInv(c)'
  BY DEF CollectChild
<1>15. CollectNothing(c) => CInv(c)'
  BY DEF CollectNothing
<1>16. CollectInterrupted(c) => CInv(c)'
  BY DEF CollectInterrupted
<1>17. ReadFails(c) => CInv(c)'
  BY DEF ReadFails
<1> HIDE DEF TypeOK, CInv
<1> QED BY <1>1, <1>2, <1>3, <1>4, <1>5, <1>6, <1>7, <1>8, <1>9, <1>10, <1>11, <1>12, <1>13, <1>14,
           <1>15, <1>16, <1>17 DEF ThreadStep, RunStep

\* A child that ends keeps the invariant if it ran into no error, ended its
\* report or was killed.
LEMMA TerminateKeeps ==
    ASSUME TypeOK, TypeOK', NEW c \in Caller, CInv(c),
           NEW st, st \in Statuses \ {"none"}, Terminate(c, st),
           stage[c] \in Living, handle[c] = "none" => stage[c] = "forked",
           cause[c] \in Reported => stage[c] = "leave" \/ st = "signal"
    PROVE  CInv(c)'
<1> USE DEF TypeOK, CInv, Terminate, CloseFiles, settings, caller, Living, PreExec
<1>1. /\ stage'[c] = "zombie" /\ status'[c] = st /\ status[c] = "none"
      /\ pc'[c] # "done" \/ outcome'[c] \in {"ok", "INTERRUPTED"}
  BY DEF HasChild
<1>2. Knows(c)' /\ HasChild(c)'
  BY <1>1 DEF Knows, HasChild
<1>3. HasPidFD(c)' /\ HasCause(c)'
  BY <1>1 DEF HasPidFD, HasCause
<1>4. HoldsPipe(c)'
  BY <1>1, ChildClonerAssumption DEF HoldsPipe
<1>5. HasReport(c)'
  BY <1>1 DEF HasReport, HasCause, Errno, Thrown, Told
<1>6. Believes(c)'
  BY <1>1 DEF Believes, Thrown
<1> QED BY <1>2, <1>3, <1>4, <1>5, <1>6

\* So does a child that ends before its setup.
LEMMA StartFailsKeeps ==
    ASSUME TypeOK, TypeOK', NEW c \in Caller, CInv(c), StartFails(c)
    PROVE  CInv(c)'
<1> USE DEF TypeOK, CInv, StartFails, CloseFiles, settings, caller, Living, PreExec, Reported
<1>1. /\ stage[c] = "forked" /\ stage'[c] = "zombie"
      /\ cause[c] = "none" /\ cause'[c] = "start"
      /\ status[c] = "none" /\ status'[c] = "PRE_EXEC_ERROR"
      /\ pc'[c] # "done" \/ outcome'[c] \in {"ok", "INTERRUPTED"}
  BY DEF HasChild, HasCause
<1>2. Knows(c)' /\ HasChild(c)'
  BY <1>1 DEF Knows, HasChild
<1>3. HasPidFD(c)' /\ HasCause(c)'
  BY <1>1 DEF HasPidFD, HasCause
<1>4. HoldsPipe(c)'
  BY <1>1, ChildClonerAssumption DEF HoldsPipe
<1>5. HasReport(c)'
  BY <1>1 DEF HasReport, HasCause, Errno, Thrown, Told
<1>6. Believes(c)'
  BY <1>1 DEF Believes, Thrown
<1> QED BY <1>2, <1>3, <1>4, <1>5, <1>6

\* So does a child that goes on in its setup.
LEMMA GotoKeeps ==
    ASSUME TypeOK, TypeOK', NEW c \in Caller, CInv(c),
           NEW from, NEW to, Goto(c, from, to), UNCHANGED cause,
           <<from, to>> \in {<<"forked", "setup">>, <<"setup", "callback">>, <<"callback", "execve">>},
           handle[c] # "none"
    PROVE  CInv(c)'
<1>1. /\ stage[c] = from /\ stage'[c] = to
      /\ from \in {"forked", "setup", "callback"} /\ to \in {"setup", "callback", "execve"}
  BY DEF Goto, TypeOK
<1> QED BY <1>1 DEF TypeOK, CInv, Goto, settings, caller, channel, Living, PreExec, Knows, HasChild,
                    HasPidFD, HasCause, HoldsPipe, HasReport, Believes, Errno, Thrown, Told

\* So does a child that fails in its setup, for it reports that or is done
\* with nobody to report to.
LEMMA ChildFailsKeeps ==
    ASSUME TypeOK, TypeOK', NEW c \in Caller, CInv(c),
           NEW from \in {"setup", "callback", "execve"}, NEW why \in Reported,
           NEW st \in {"PRE_EXEC_ERROR", "PROG_NOT_FOUND", "PROG_NOT_EXECUTABLE"},
           ChildFails(c, from, why, st)
    PROVE  CInv(c)'
<1> USE DEF TypeOK, CInv, ChildFails, CloseFiles, settings, caller, Living, PreExec, Reported
<1>1. /\ stage[c] = from /\ cause[c] = "none" /\ cause'[c] = why
      /\ handle[c] # "none" /\ pipe[c] = <<>>
      /\ pc[c] \notin {"idle", "ready", "readtext"}
      /\ pc[c] \in {"killing", "collecting"} => outcome[c] = "READ_FAILED"
      /\ pc[c] # "done" \/ outcome[c] \in {"ok", "INTERRUPTED"}
      /\ pc[c] = "done" /\ config[c].forward => outcome[c] = "INTERRUPTED"
  BY DEF HasChild, HasPidFD, HasCause, HasReport, Believes
<1>2. CASE config[c].forward
  <2>1. /\ stage'[c] = "report" /\ status'[c] = status[c] /\ writers'[c] = writers[c]
    BY <1>2
  <2>2. Knows(c)' /\ HasChild(c)' /\ HasPidFD(c)' /\ HasCause(c)' /\ HoldsPipe(c)'
    BY <1>1, <1>2, <2>1 DEF Knows, HasChild, HasPidFD, HasCause, HoldsPipe, Errors
  <2>3. HasReport(c)' /\ Believes(c)'
    BY <1>1, <1>2, <2>1 DEF HasReport, Believes, Errno, Thrown, Told
  <2> QED BY <2>2, <2>3
<1>3. CASE ~config[c].forward
  <2>1. stage'[c] = "zombie" /\ status'[c] = st
    BY <1>3
  <2>2. Knows(c)' /\ HasChild(c)' /\ HasPidFD(c)' /\ HasCause(c)' /\ HoldsPipe(c)'
    BY <1>1, <1>3, <2>1 DEF Knows, HasChild, HasPidFD, HasCause, HoldsPipe, Errors
  <2>3. HasReport(c)' /\ Believes(c)'
    BY <1>1, <1>3, <2>1 DEF HasReport, Believes, Errno, Thrown, Told
  <2> QED BY <2>2, <2>3
<1> QED BY <1>2, <1>3

\* So does a child that writes its report.
LEMMA ReportKeeps ==
    ASSUME TypeOK, TypeOK', NEW c \in Caller, CInv(c), ReportErrno(c) \/ ReportText(c)
    PROVE  CInv(c)'
<1>0. /\ Append(<<>>, Errno(c)) = <<Errno(c)>> /\ Append(<<>>, "text") = <<"text">>
      /\ Append(<<Errno(c)>>, "text") = <<Errno(c), "text">>
      /\ <<Errno(c)>> # <<>> /\ <<Errno(c), "text">> # <<>>
  BY Packets, ZenonT(30)
<1> USE DEF TypeOK, CInv, settings, caller, Living, PreExec
<1>1. ASSUME ReportErrno(c)
      PROVE  CInv(c)'
  <2>1. /\ stage[c] = "report" /\ stage'[c] = "explain"
        /\ pipe'[c] = Append(pipe[c], Errno(c))
    BY <1>1 DEF ReportErrno, Errno
  <2>2. pc[c] \in {"idle", "ready", "forked", "cloned", "reading"} => pipe'[c] = <<Errno(c)>>
    <3>1. pc[c] \in {"idle", "ready", "forked", "cloned", "reading"} => pipe[c] = <<>>
      BY <2>1 DEF HasReport
    <3> QED BY <1>0, <2>1, <3>1
  <2>3. Knows(c)' /\ HasChild(c)' /\ HasPidFD(c)' /\ HasCause(c)' /\ HoldsPipe(c)' /\ Believes(c)'
    BY <1>1, <2>1 DEF ReportErrno, Knows, HasChild, HasPidFD, HasCause, HoldsPipe, Believes, Thrown
  <2>4. HasReport(c)'
    BY <1>1, <2>1, <2>2 DEF ReportErrno, HasReport, HasCause, Thrown, Told, Errno
  <2> QED BY <2>3, <2>4
<1>2. ASSUME ReportText(c)
      PROVE  CInv(c)'
  <2>1. /\ stage[c] = "explain" /\ stage'[c] = "leave"
        /\ \/ pipe'[c] = Append(pipe[c], "text")
           \/ cause[c] = "callback" /\ pipe'[c] = pipe[c]
    <3>1. stage[c] = "explain" /\ stage'[c] = "leave"
      BY <1>2 DEF ReportText
    <3>2. \/ pipe' = [pipe EXCEPT ![c] = Append(@, "text")]
          \/ cause[c] = "callback" /\ UNCHANGED pipe
      BY <1>2 DEF ReportText
    <3>3. pipe' = [pipe EXCEPT ![c] = Append(@, "text")] => pipe'[c] = Append(pipe[c], "text")
      OBVIOUS
    <3>4. UNCHANGED pipe => pipe'[c] = pipe[c]
      OBVIOUS
    <3> QED BY <3>1, <3>2, <3>3, <3>4
  <2>2. pc[c] \in {"idle", "ready", "forked", "cloned", "reading"} =>
            \/ pipe'[c] = <<Errno(c), "text">>
            \/ cause[c] = "callback" /\ pipe'[c] = <<Errno(c)>>
    <3>1. pc[c] \in {"idle", "ready", "forked", "cloned", "reading"} => pipe[c] = <<Errno(c)>>
      BY <2>1 DEF HasReport
    <3> QED BY <1>0, <2>1, <3>1
  <2>3. pc[c] = "readtext" =>
            \/ pipe'[c] = <<"text">>
            \/ cause[c] = "callback" /\ pipe'[c] = <<>>
    <3>1. pc[c] = "readtext" => pipe[c] = <<>>
      BY <2>1 DEF HasReport
    <3> QED BY <1>0, <2>1, <3>1
  <2>4. Knows(c)' /\ HasChild(c)' /\ HasPidFD(c)' /\ HasCause(c)' /\ HoldsPipe(c)' /\ Believes(c)'
    BY <1>2, <2>1 DEF ReportText, Knows, HasChild, HasPidFD, HasCause, HoldsPipe, Believes, Thrown
  <2>5. HasReport(c)'
    <3>1. /\ config'[c] = config[c] /\ cause'[c] = cause[c] /\ status'[c] = status[c]
          /\ pc'[c] = pc[c] /\ outcome'[c] = outcome[c]
          /\ Errno(c)' = Errno(c) /\ Thrown(c)' = Thrown(c)
      BY <1>2 DEF ReportText, Errno, Thrown
    <3>2. cause[c] \in Reported /\ config[c].forward
      BY <2>1 DEF HasCause
    <3> HIDE DEF TypeOK, CInv
    <3>3. pc[c] = "readtext" => outcome[c] = Thrown(c)
      BY DEF CInv, HasReport
    <3> QED BY <1>0, <2>1, <2>2, <2>3, <3>1, <3>2, <3>3 DEF HasReport
  <2> QED BY <2>4, <2>5
<1> HIDE DEF TypeOK, CInv
<1> QED BY <1>1, <1>2

\* What the child of c does, and what happens to it, keeps the invariant of c.
LEMMA ChildKeeps ==
    ASSUME TypeOK, TypeOK', NEW c \in Caller, CInv(c),
           ChildStep(c) \/ ProgramExits(c) \/ Killed(c) \/ OtherWaits(c)
    PROVE  CInv(c)'
<1>1. /\ handle[c] = "none" => stage[c] \in {"none", "forked", "zombie", "reaped"} /\ ~event[c]
      /\ handle[c] = "none" /\ stage[c] = "forked" => running_on_valgrind
      /\ stage[c] \in {"none", "forked", "setup", "callback", "execve", "program"} =>
           cause[c] = "none" /\ cause[c] \notin Reported
  BY DEF CInv, HasPidFD, HasCause, Reported
<1>2. StartChild(c) => CInv(c)'
  <2> SUFFICES ASSUME StartChild(c)
               PROVE  CInv(c)'
    OBVIOUS
  <2>1. stage[c] = "forked" /\ Goto(c, "forked", "setup") /\ UNCHANGED cause
    BY DEF StartChild, Goto
  <2>2. handle[c] # "none"
    BY <1>1, <2>1 DEF StartChild
  <2> QED BY <2>1, <2>2, GotoKeeps
<1>3. StartFails(c) => CInv(c)'
  BY StartFailsKeeps
<1>4. SetUp(c) => CInv(c)'
  BY <1>1, GotoKeeps DEF SetUp, Goto
<1>5. SetUpFails(c) => CInv(c)'
  BY ChildFailsKeeps DEF SetUpFails, Reported
<1>6. CallbackReturns(c) => CInv(c)'
  <2>1. stage[c] = "callback" /\ Terminate(c, "SUCCESS") => CInv(c)'
    BY <1>1, TerminateKeeps DEF Statuses, Living, PreExec
  <2>2. Goto(c, "callback", "execve") /\ UNCHANGED cause => CInv(c)'
    BY <1>1, GotoKeeps DEF Goto
  <2> QED BY <2>1, <2>2 DEF CallbackReturns
<1>7. CallbackThrows(c) => CInv(c)'
  BY ChildFailsKeeps DEF CallbackThrows, Reported
<1>8. CallbackExits(c) => CInv(c)'
  BY <1>1, TerminateKeeps DEF CallbackExits, Statuses, Living, PreExec
<1>9. Exec(c) => CInv(c)'
  <2> SUFFICES ASSUME Exec(c)
               PROVE  CInv(c)'
    OBVIOUS
  <2>1. stage[c] = "execve" /\ stage'[c] = "program" /\ cause[c] = "none" /\ handle[c] # "none"
    BY <1>1 DEF Exec, TypeOK
  <2>2. Knows(c)' /\ HasChild(c)' /\ HasPidFD(c)' /\ HasCause(c)'
    BY <2>1 DEF Exec, CInv, Knows, HasChild, HasPidFD, HasCause, Living, PreExec,
                settings, caller
  <2>3. HoldsPipe(c)'
    BY <2>1, ChildClonerAssumption
       DEF Exec, CloseFiles, CInv, HoldsPipe, PreExec, settings, caller, TypeOK
  <2>4. HasReport(c)' /\ Believes(c)'
    BY <2>1 DEF Exec, CInv, HasReport, Believes, HasChild, Errno, Thrown, Told, PreExec, settings, caller
  <2> QED BY <2>2, <2>3, <2>4 DEF CInv
<1>10. ExecFails(c) => CInv(c)'
  BY ChildFailsKeeps DEF ExecFails, Reported
<1>11. ReportErrno(c) \/ ReportText(c) => CInv(c)'
  BY ReportKeeps
<1>12. ExitAfterReport(c) => CInv(c)'
  BY <1>1, TerminateKeeps DEF ExitAfterReport, Statuses, Living, PreExec
<1>13. ProgramExits(c) => CInv(c)'
  BY <1>1, TerminateKeeps DEF ProgramExits, Statuses, Living, PreExec
<1>14. Killed(c) => CInv(c)'
  BY <1>1, TerminateKeeps DEF Killed, Statuses, Living, PreExec
<1>15. OtherWaits(c) => CInv(c)'
  <2> SUFFICES ASSUME OtherWaits(c)
               PROVE  CInv(c)'
    OBVIOUS
  <2>1. /\ stage[c] = "zombie" /\ stage'[c] = "reaped" /\ ~running_on_valgrind
        /\ UNCHANGED <<settings, caller, channel, cause, status>>
    BY DEF OtherWaits, Goto, TypeOK
  <2>2. Knows(c)' /\ HasChild(c)' /\ HasPidFD(c)' /\ HasCause(c)' /\ HoldsPipe(c)'
    BY <2>1 DEF CInv, Knows, HasChild, HasPidFD, HasCause, HoldsPipe, Living, PreExec,
                settings, caller, channel
  <2>3. HasReport(c)' /\ Believes(c)'
    BY <2>1 DEF CInv, HasReport, Believes, HasChild, Errno, Thrown, Told, PreExec, settings, caller, channel
  <2> QED BY <2>2, <2>3 DEF CInv
<1> QED BY <1>2, <1>3, <1>4, <1>5, <1>6, <1>7, <1>8, <1>9, <1>10, <1>11, <1>12, <1>13, <1>14, <1>15
        DEF ChildStep

\* Init establishes the invariant.
LEMMA InitIInv == Init => IInv
<1> SUFFICES ASSUME Init
             PROVE  IInv
  OBVIOUS
<1>1. TypeOK
  <2>1. <<>> \in Seq({"errno", "NO_ERROR", "text"})
    OBVIOUS
  <2> QED BY <2>1 DEF Init, TypeOK, Outcomes, Errors, Statuses
<1>2. ASSUME NEW c \in Caller
      PROVE  CInv(c)
  BY <1>2 DEF Init, CInv, Knows, HasChild, HasPidFD, HasCause, HoldsPipe, HasReport, Believes, Told,
              Living, PreExec, Reported
<1> QED BY <1>1, <1>2 DEF IInv

\* Every step preserves it.
LEMMA NextIInv == IInv /\ [Next]_vars => IInv'
<1> SUFFICES ASSUME IInv, [Next]_vars
             PROVE  IInv'
  OBVIOUS
<1>1. ASSUME NEW c \in Caller, Step(c)
      PROVE  IInv'
  <2>1. TypeOK'
    BY <1>1, TypesStay DEF IInv
  <2>2. CInv(c)'
    BY <1>1, <2>1, RunKeeps, ChildKeeps DEF IInv, Step
  <2>3. ASSUME NEW d \in Caller, d # c
        PROVE  CInv(d)'
    BY <1>1, <2>3, OthersKeep, SettingsStay, SameKeeps DEF IInv
  <2> QED BY <2>1, <2>2, <2>3 DEF IInv
<1>2. ASSUME UNCHANGED vars
      PROVE  IInv'
  <2>1. TypeOK'
    BY <1>2 DEF IInv, TypeOK, vars, settings, caller, channel, offspring
  <2>2. ASSUME NEW d \in Caller
        PROVE  CInv(d)'
    <3>1. Same(d) /\ UNCHANGED settings
      BY <1>2 DEF Same, vars, caller, channel, offspring
    <3> QED BY <3>1, SameKeeps DEF IInv
  <2> QED BY <2>1, <2>2 DEF IInv
<1> QED BY <1>1, <1>2 DEF Next, Step, ThreadStep

\* Whatever callers, children, signals and other waiters do, every caller's
\* pipe, pidfd and outcome fit to where its child is.
THEOREM Invariance == Spec => []IInv
BY InitIInv, NextIInv, PTL DEF Spec

-----------------------------------------------------------------------------
(* What the callers may rely on *)

\* The child does nothing before its parent has the pidfd: "the child process
\* will not exec() before the parent process signals".
THEOREM NoExecWithoutPidFD == Spec => []PidFDBeforeExec
<1>1. IInv => PidFDBeforeExec
  BY DEF IInv, CInv, HasPidFD, PidFDBeforeExec, Living, PreExec
<1> QED BY <1>1, Invariance, PTL

\* A run() that throws has collected its child and closed the pidfd, unless a
\* signal interrupted it.
THEOREM FailedRunsLeaveNothing == Spec => []FailureLeavesNothing
<1>1. IInv => FailureLeavesNothing
  BY DEF IInv, CInv, HasChild, FailureLeavesNothing
<1> QED BY <1>1, Invariance, PTL

\* With setForwardChildErrors(true) run() throws what its child ran into from
\* runChild() on, unless its own reading or waiting fails, and returns only when
\* the child is past its setup, whichever processes hold on to the pipe.
THEOREM RunThrowsWhatTheChildReports == Spec => []ReportedErrorsAreThrown
<1>1. IInv => ReportedErrorsAreThrown
  BY DEF IInv, CInv, Believes, Thrown, ReportedErrorsAreThrown
<1> QED BY <1>1, Invariance, PTL

-----------------------------------------------------------------------------
(* ChildCloner implements Launch *)

\* Launch takes c for broken.
BrokenIs(c) == cause[c] \in Reported /\ status[c] \notin {"none", "signal"}

\* The child is in its setup.
Preparing == PreExec \ {"forked"}

\* The values that Launch sees, from those of the detailed state.
LEMMA ViewIs ==
    ASSUME TypeOK, NEW c \in Caller
    PROVE  /\ pc[c] # "done" \/ outcome[c] = "INTERRUPTED" => ResultOf(c) = "none"
           /\ pc[c] = "done" /\ outcome[c] = "ok" => ResultOf(c) = "ok"
           /\ pc[c] = "done" /\ outcome[c] \notin {"ok", "INTERRUPTED"} => ResultOf(c) = "error"
           /\ stage[c] = "none" => ChildOf(c) = "absent"
           /\ stage[c] = "forked" => ChildOf(c) = "unready"
           /\ stage[c] \in Preparing => ChildOf(c) = "setup"
           /\ stage[c] = "program" => ChildOf(c) = "program"
           /\ stage[c] = "zombie" => ChildOf(c) = "dead"
           /\ stage[c] = "reaped" => ChildOf(c) = "gone"
<1>1. /\ pc[c] # "done" \/ outcome[c] = "INTERRUPTED" => ResultOf(c) = "none"
      /\ pc[c] = "done" /\ outcome[c] = "ok" => ResultOf(c) = "ok"
      /\ pc[c] = "done" /\ outcome[c] \notin {"ok", "INTERRUPTED"} => ResultOf(c) = "error"
  BY DEF ResultOf
<1>2. /\ stage[c] = "none" => ChildOf(c) = "absent"
      /\ stage[c] = "forked" => ChildOf(c) = "unready"
      /\ stage[c] \in Preparing => ChildOf(c) = "setup"
      /\ stage[c] = "program" => ChildOf(c) = "program"
      /\ stage[c] = "zombie" => ChildOf(c) = "dead"
      /\ stage[c] = "reaped" => ChildOf(c) = "gone"
  BY DEF ChildOf, PreExec, Preparing
<1> QED BY <1>1, <1>2

\* The steps of Launch for c, told by what c and its child are before and after.
Turns(c, result1, result2, child1, child2) ==
    /\ ResultOf(c) = result1 /\ ResultOf(c)' = result2
    /\ ChildOf(c) = child1 /\ ChildOf(c)' = child2

Rest(c) == UNCHANGED <<ResultOf(c), ChildOf(c), BrokenIs(c)>>

Creates(c) == Turns(c, "none", "none", "absent", "unready") /\ UNCHANGED BrokenIs(c)
Begins(c) == \E r : Turns(c, r, r, "unready", "setup") /\ UNCHANGED BrokenIs(c)
Becomes(c) == \E r : Turns(c, r, r, "setup", "program") /\ UNCHANGED BrokenIs(c)
Dies(c) ==
    \E r, k : /\ Turns(c, r, r, k, "dead") /\ k \in {"unready", "setup", "program"}
              /\ UNCHANGED BrokenIs(c) \/ (k = "setup" /\ BrokenIs(c)')
Collects(c) ==
    \E r1, r2 : /\ Turns(c, r1, r2, "dead", "gone") /\ UNCHANGED BrokenIs(c)
                /\ r1 = "none" \/ OtherWaiter
                /\ r2 = r1 \/ (r1 = "none" /\ r2 = "error")
Fails(c) == \E k \in {"absent", "gone"} : Turns(c, "none", "error", k, k) /\ UNCHANGED BrokenIs(c)
Succeeds(c) ==
    \E k : /\ Turns(c, "none", "ok", k, k) /\ UNCHANGED BrokenIs(c)
           /\ k # "absent"
           /\ config[c].forward => k \notin {"unready", "setup"} /\ ~BrokenIs(c)

LaunchStep(c) ==
    \/ Rest(c) \/ Creates(c) \/ Begins(c) \/ Becomes(c) \/ Dies(c)
    \/ Collects(c) \/ Fails(c) \/ Succeeds(c)

\* They are the steps of Launch indeed, if nothing happens to other callers.
LEMMA LaunchStepMaps ==
    ASSUME NEW c \in Caller, LaunchStep(c), UNCHANGED config,
           \A d \in Caller \ {c} : Rest(d)
    PROVE  [Launching!Next]_(Launching!vars)
<1> DEFINE result == [d \in Caller |-> ResultOf(d)]
           child == [d \in Caller |-> ChildOf(d)]
           broken == {d \in Caller : cause[d] \in Reported /\ status[d] \notin {"none", "signal"}}
           forwarding == {d \in Caller : config[d].forward}
<1>1. forwarding' = forwarding
  OBVIOUS
<1>2. /\ result' = [result EXCEPT ![c] = ResultOf(c)']
      /\ child' = [child EXCEPT ![c] = ChildOf(c)']
      /\ UNCHANGED BrokenIs(c) => broken' = broken
      /\ BrokenIs(c)' => broken' = broken \union {c}
      /\ c \in broken <=> BrokenIs(c)
      /\ c \in forwarding <=> config[c].forward
      /\ result[c] = ResultOf(c) /\ child[c] = ChildOf(c)
  BY DEF Rest, BrokenIs
<1> HIDE DEF result, child, broken, forwarding
<1>3. /\ ResultOf(c)' = ResultOf(c) => result' = result
      /\ ChildOf(c)' = ChildOf(c) => child' = child
  BY <1>2 DEF result, child
<1>4. CASE Rest(c)
  BY <1>1, <1>2, <1>3, <1>4 DEF Rest, Launching!vars, result, child, broken, forwarding
<1>5. CASE Creates(c)
  <2>1. Launching!Create(c)
    BY <1>2, <1>3, <1>5 DEF Creates, Turns, Launching!Create, result, child, broken
  <2> QED BY <1>1, <2>1 DEF Launching!Next, forwarding
<1>6. CASE Becomes(c)
  <2>1. Launching!Become(c)
    BY <1>2, <1>3, <1>6 DEF Becomes, Turns, Launching!Become, result, child, broken
  <2> QED BY <1>1, <2>1 DEF Launching!Next, forwarding
<1>7. CASE Dies(c)
  <2>1. Launching!Die(c)
    BY <1>2, <1>3, <1>7 DEF Dies, Turns, Launching!Die, result, child, broken
  <2> QED BY <1>1, <2>1 DEF Launching!Next, forwarding
<1>8. CASE Collects(c)
  <2>1. Launching!Collect(c)
    BY <1>2, <1>3, <1>8 DEF Collects, Turns, Launching!Collect, result, child, broken
  <2> QED BY <1>1, <2>1 DEF Launching!Next, forwarding
<1>9. CASE Fails(c)
  <2>1. Launching!Fail(c)
    BY <1>2, <1>3, <1>9 DEF Fails, Turns, Launching!Fail, result, child, broken
  <2> QED BY <1>1, <2>1 DEF Launching!Next, forwarding
<1>10. CASE Succeeds(c)
  <2>1. Launching!Succeed(c)
    BY <1>2, <1>3, <1>10 DEF Succeeds, Turns, Launching!Succeed, result, child, broken, forwarding
  <2> QED BY <1>1, <2>1 DEF Launching!Next, forwarding
<1>11. CASE Begins(c)
  <2>1. Launching!BeginSetup(c)
    BY <1>2, <1>3, <1>11 DEF Begins, Turns, Launching!BeginSetup, result, child, broken
  <2> QED BY <1>1, <2>1 DEF Launching!Next, forwarding
<1> QED BY <1>4, <1>5, <1>6, <1>7, <1>8, <1>9, <1>10, <1>11 DEF LaunchStep

\* What run() does shows in Launch as it should.
LEMMA RunMaps ==
    ASSUME IInv, IInv', NEW c \in Caller, ThreadStep(c)
    PROVE  LaunchStep(c)
<1> USE DEF caller, offspring, channel, settings, End, BrokenIs, LaunchStep
<1>0. TypeOK /\ TypeOK' /\ CInv(c) /\ CInv(c)'
  BY DEF IInv
<1>1. /\ pc[c] # "done" \/ outcome[c] = "INTERRUPTED" => ResultOf(c) = "none"
      /\ stage[c] = "none" => ChildOf(c) = "absent"
      /\ stage[c] = "forked" => ChildOf(c) = "unready"
      /\ stage[c] \in Preparing => ChildOf(c) = "setup"
      /\ stage[c] = "program" => ChildOf(c) = "program"
      /\ stage[c] = "zombie" => ChildOf(c) = "dead"
      /\ stage[c] = "reaped" => ChildOf(c) = "gone"
  BY <1>0, ViewIs
<1>2. /\ pc'[c] # "done" \/ outcome'[c] = "INTERRUPTED" => ResultOf(c)' = "none"
      /\ pc'[c] = "done" /\ outcome'[c] = "ok" => ResultOf(c)' = "ok"
      /\ pc'[c] = "done" /\ outcome'[c] \notin {"ok", "INTERRUPTED"} => ResultOf(c)' = "error"
      /\ stage'[c] = "forked" => ChildOf(c)' = "unready"
      /\ stage'[c] = "reaped" => ChildOf(c)' = "gone"
  BY <1>0 DEF ResultOf, ChildOf, PreExec
<1>3. stage' = stage => ChildOf(c)' = ChildOf(c)
  BY DEF ChildOf
<1>4. Begin(c) => LaunchStep(c)
  <2> SUFFICES ASSUME Begin(c)
               PROVE  LaunchStep(c)
    OBVIOUS
  <2>1. /\ pc[c] = "idle" /\ stage[c] = "none" /\ stage' = stage /\ UNCHANGED BrokenIs(c)
        /\ pc'[c] = "done" => outcome'[c] \in {"UsageError", "ApiError"}
    BY <1>0 DEF Begin, CInv, HasChild, TypeOK
  <2>2. Rest(c) \/ Fails(c)
    BY <1>1, <1>2, <1>3, <2>1 DEF Rest, Fails, Turns
  <2> QED BY <2>2
<1>5. CreationFails(c) => LaunchStep(c)
  <2> SUFFICES ASSUME CreationFails(c)
               PROVE  LaunchStep(c)
    OBVIOUS
  <2>1. /\ pc[c] = "ready" /\ stage[c] = "none" /\ stage' = stage /\ UNCHANGED BrokenIs(c)
        /\ pc'[c] = "done" /\ outcome'[c] = "ApiError"
    BY <1>0 DEF CreationFails, CInv, HasChild, TypeOK
  <2>2. Fails(c)
    BY <1>1, <1>2, <1>3, <2>1 DEF Fails, Turns
  <2> QED BY <2>2
<1>6. Clone3(c) \/ Fork(c) => LaunchStep(c)
  <2> SUFFICES ASSUME Clone3(c) \/ Fork(c)
               PROVE  LaunchStep(c)
    OBVIOUS
  <2>1. /\ pc[c] = "ready" /\ stage[c] = "none" /\ stage'[c] = "forked" /\ UNCHANGED BrokenIs(c)
        /\ pc'[c] # "done"
    BY <1>0 DEF Clone3, Fork, ForkChild, CInv, HasChild, TypeOK
  <2>2. Creates(c)
    BY <1>1, <1>2, <2>1 DEF Creates, Turns
  <2> QED BY <2>2
<1>7. ASSUME \/ OpenPidFD(c) \/ OpenPidFDFails(c) \/ CloseWriteEnd(c)
             \/ ReadErrno(c) \/ ReadText(c) \/ ReadNoText(c) \/ ReadFails(c)
             \/ KillChild(c) \/ CollectInterrupted(c)
      PROVE  LaunchStep(c)
  <2>1. /\ pc[c] # "done" /\ (pc'[c] # "done" \/ outcome'[c] = "INTERRUPTED")
        /\ stage' = stage /\ UNCHANGED BrokenIs(c)
    BY <1>0, <1>7 DEF OpenPidFD, OpenPidFDFails, CloseWriteEnd, ReadErrno, ReadText, ReadNoText,
                      ReadFails, KillChild, CollectInterrupted, TypeOK
  <2>2. Rest(c)
    BY <1>1, <1>2, <1>3, <2>1 DEF Rest
  <2> QED BY <2>2
<1>8. ReturnAtOnce(c) => LaunchStep(c)
  <2> SUFFICES ASSUME ReturnAtOnce(c)
               PROVE  LaunchStep(c)
    OBVIOUS
  <2>1. /\ pc[c] = "cloned" /\ ~config[c].forward /\ pc'[c] = "done" /\ outcome'[c] = "ok"
        /\ stage' = stage /\ stage[c] # "none" /\ UNCHANGED BrokenIs(c)
    BY <1>0 DEF ReturnAtOnce, CInv, HasChild, TypeOK
  <2>2. ChildOf(c) # "absent"
    BY <2>1 DEF ChildOf
  <2>3. Succeeds(c)
    BY <1>1, <1>2, <1>3, <2>1, <2>2 DEF Succeeds, Turns
  <2> QED BY <2>3
<1>9. ReadNoError(c) => LaunchStep(c)
  <2> SUFFICES ASSUME ReadNoError(c)
               PROVE  LaunchStep(c)
    OBVIOUS
  <2>1. /\ pc[c] = "reading" /\ pc'[c] = "done" /\ outcome'[c] = "ok"
        /\ stage' = stage /\ UNCHANGED BrokenIs(c)
        /\ pipe[c] = <<>> /\ writers[c] = {}
    BY <1>0 DEF ReadNoError, EndOfFile, TypeOK
  <2>2. /\ config[c].forward /\ stage[c] \notin {"none"} \union PreExec
        /\ cause[c] \in Reported => status[c] \in {"none", "signal"}
    <3>1. config[c].forward /\ stage[c] \notin {"none"} \union PreExec
      BY <1>0, <2>1 DEF CInv, HasReport, HasChild, HoldsPipe
    <3>2. ASSUME cause[c] \in Reported
          PROVE  status[c] = "signal"
      <4>1. ~Told(c) /\ stage[c] \in {"program", "zombie", "reaped"}
        BY <1>0, <2>1, <3>1, <3>2 DEF CInv, HasReport, TypeOK, Living
      <4>2. stage[c] # "program"
        BY <1>0, <3>2 DEF CInv, HasCause, Reported
      <4> QED BY <4>1, <4>2 DEF Told
    <3> QED BY <3>1, <3>2
  <2>3. ChildOf(c) \notin {"absent", "unready", "setup"}
    BY <2>2 DEF ChildOf, PreExec
  <2>4. Succeeds(c)
    BY <1>1, <1>2, <1>3, <2>1, <2>2, <2>3 DEF Succeeds, Turns
  <2> QED BY <2>4
<1>10. CollectChild(c) => LaunchStep(c)
  <2> SUFFICES ASSUME CollectChild(c)
               PROVE  LaunchStep(c)
    OBVIOUS
  <2>1. /\ pc[c] = "collecting" /\ pc'[c] = "done" /\ outcome'[c] \in {"ApiError", "RuntimeError", "READ_FAILED"}
        /\ stage[c] = "zombie" /\ stage'[c] = "reaped" /\ UNCHANGED BrokenIs(c)
    BY <1>0 DEF CollectChild, CInv, Knows, TypeOK
  <2>2. Collects(c)
    BY <1>1, <1>2, <2>1 DEF Collects, Turns
  <2> QED BY <2>2
<1>11. CollectNothing(c) => LaunchStep(c)
  <2> SUFFICES ASSUME CollectNothing(c)
               PROVE  LaunchStep(c)
    OBVIOUS
  <2>1. /\ pc[c] = "collecting" /\ pc'[c] = "done" /\ outcome'[c] = "NO_CHILD"
        /\ stage[c] = "reaped" /\ stage' = stage /\ UNCHANGED BrokenIs(c)
    BY <1>0 DEF CollectNothing, TypeOK
  <2>2. Fails(c)
    BY <1>1, <1>2, <1>3, <2>1 DEF Fails, Turns
  <2> QED BY <2>2
<1> QED BY <1>4, <1>5, <1>6, <1>7, <1>8, <1>9, <1>10, <1>11 DEF ThreadStep, RunStep

\* What its child does and what happens to it does as well.
LEMMA ChildMaps ==
    ASSUME IInv, IInv', NEW c \in Caller,
           ChildStep(c) \/ ProgramExits(c) \/ Killed(c) \/ OtherWaits(c)
    PROVE  LaunchStep(c)
<1> USE DEF caller, settings, BrokenIs, LaunchStep
<1>0. TypeOK /\ CInv(c) /\ CInv(c)'
  BY DEF IInv
<1>1. /\ stage[c] = "forked" => ChildOf(c) = "unready"
      /\ stage[c] \in Preparing => ChildOf(c) = "setup"
      /\ stage[c] = "program" => ChildOf(c) = "program"
      /\ stage[c] = "zombie" => ChildOf(c) = "dead"
  BY <1>0, ViewIs
<1>2. /\ stage'[c] \in Preparing => ChildOf(c)' = "setup"
      /\ stage'[c] = "program" => ChildOf(c)' = "program"
      /\ stage'[c] = "zombie" => ChildOf(c)' = "dead"
      /\ stage'[c] = "reaped" => ChildOf(c)' = "gone"
  BY DEF ChildOf, PreExec, Preparing
<1>3. UNCHANGED caller => ResultOf(c)' = ResultOf(c)
  BY DEF ResultOf
<1>4. /\ stage[c] \in {"none"} \union Living <=> status[c] = "none"
      /\ stage[c] \in {"none", "forked", "setup", "callback", "execve", "program"} => cause[c] = "none"
  BY <1>0 DEF CInv, HasChild, HasCause
<1>5. ASSUME NEW st \in Statuses \ {"none"}, Terminate(c, st), stage[c] \in Living
      PROVE  LaunchStep(c)
  <2>1. stage'[c] = "zombie" /\ status'[c] = st /\ cause'[c] = cause[c] /\ UNCHANGED caller
    BY <1>0, <1>5 DEF Terminate, TypeOK
  <2>2. UNCHANGED BrokenIs(c) \/ (stage[c] \in Preparing /\ BrokenIs(c)')
    BY <1>4, <1>5, <2>1 DEF Preparing, PreExec, Living, Reported
  <2>3. stage[c] = "forked" \/ stage[c] \in Preparing \/ stage[c] = "program"
    BY <1>5 DEF Preparing, Living
  <2>4. ChildOf(c) \in {"unready", "setup", "program"} /\ ChildOf(c)' = "dead"
    BY <1>1, <1>2, <2>1, <2>3
  <2>5. stage[c] \in Preparing => ChildOf(c) = "setup"
    BY <1>1
  <2>6. Dies(c)
    BY <1>3, <2>1, <2>2, <2>4, <2>5, Zenon DEF Dies, Turns
  <2> QED BY <2>6
<1>6. ASSUME NEW from \in Preparing, NEW to \in Preparing, Goto(c, from, to), UNCHANGED cause
      PROVE  LaunchStep(c)
  <2>1. stage[c] \in Preparing /\ stage'[c] \in Preparing /\ UNCHANGED BrokenIs(c) /\ UNCHANGED caller
    BY <1>0, <1>6 DEF Goto, TypeOK
  <2>2. Rest(c)
    BY <1>1, <1>2, <1>3, <2>1 DEF Rest
  <2> QED BY <2>2
<1>7. ASSUME NEW from \in {"setup", "callback", "execve"}, NEW why \in Reported,
             NEW st \in {"PRE_EXEC_ERROR", "PROG_NOT_FOUND", "PROG_NOT_EXECUTABLE"},
             ChildFails(c, from, why, st)
      PROVE  LaunchStep(c)
  <2>1. /\ stage[c] \in Preparing /\ cause[c] = "none" /\ status[c] = "none" /\ cause'[c] \in Reported
        /\ UNCHANGED caller
    BY <1>0, <1>4, <1>7 DEF ChildFails, Preparing, PreExec, Living, TypeOK
  <2>2. CASE config[c].forward
    <3>1. stage'[c] \in Preparing /\ status'[c] = "none"
      BY <1>0, <1>7, <2>1, <2>2 DEF ChildFails, Preparing, PreExec, TypeOK
    <3>2. Rest(c)
      BY <1>1, <1>2, <1>3, <2>1, <3>1 DEF Rest, Reported
    <3> QED BY <3>2
  <2>3. CASE ~config[c].forward
    <3>1. stage'[c] = "zombie" /\ status'[c] = st
      BY <1>0, <1>7, <2>3 DEF ChildFails, TypeOK
    <3>2. BrokenIs(c)'
      BY <1>7, <2>1, <3>1
    <3>3. Dies(c)
      BY <1>1, <1>2, <1>3, <2>1, <3>1, <3>2 DEF Dies, Turns
    <3> QED BY <3>3
  <2> QED BY <2>2, <2>3
<1>8. ASSUME ReportErrno(c) \/ ReportText(c)
      PROVE  LaunchStep(c)
  <2>1. stage[c] \in Preparing /\ stage'[c] \in Preparing /\ UNCHANGED BrokenIs(c) /\ UNCHANGED caller
    BY <1>0, <1>8 DEF ReportErrno, ReportText, TypeOK, Preparing, PreExec
  <2>2. Rest(c)
    BY <1>1, <1>2, <1>3, <2>1 DEF Rest
  <2> QED BY <2>2
<1>9. ASSUME Exec(c)
      PROVE  LaunchStep(c)
  <2>1. /\ stage[c] = "execve" /\ stage'[c] = "program" /\ UNCHANGED BrokenIs(c) /\ UNCHANGED caller
    BY <1>0, <1>9 DEF Exec, TypeOK
  <2>2. Becomes(c)
    BY <1>1, <1>2, <1>3, <2>1 DEF Becomes, Turns, Preparing, PreExec
  <2> QED BY <2>2
<1>10. ASSUME OtherWaits(c)
       PROVE  LaunchStep(c)
  <2>1. /\ stage[c] = "zombie" /\ stage'[c] = "reaped" /\ UNCHANGED BrokenIs(c) /\ UNCHANGED caller
        /\ OtherWaiter
    BY <1>0, <1>10 DEF OtherWaits, Goto, TypeOK
  <2>2. Collects(c)
    BY <1>1, <1>2, <1>3, <2>1 DEF Collects, Turns
  <2> QED BY <2>2
<1>11. {"setup", "callback", "execve"} \subseteq Preparing /\ PreExec \subseteq Living
       /\ {"setup", "callback", "execve"} \subseteq PreExec
       /\ "leave" \in Living /\ "program" \in Living
       /\ {"SUCCESS", "PRE_EXEC_ERROR", "own", "signal"} \subseteq Statuses \ {"none"}
  BY DEF Preparing, PreExec, Living, Statuses
<1>12. ASSUME ChildStep(c)
       PROVE  LaunchStep(c)
  <2>0. StartChild(c) => LaunchStep(c)
    <3> SUFFICES ASSUME StartChild(c)
                 PROVE  LaunchStep(c)
      OBVIOUS
    <3>1. /\ stage[c] = "forked" /\ stage'[c] = "setup" /\ UNCHANGED BrokenIs(c) /\ UNCHANGED caller
      BY <1>0 DEF StartChild, Goto, TypeOK
    <3>2. Begins(c)
      BY <1>1, <1>2, <1>3, <1>11, <3>1 DEF Begins, Turns
    <3> QED BY <3>2
  <2>1. StartFails(c) => LaunchStep(c)
    <3> SUFFICES ASSUME StartFails(c)
                 PROVE  LaunchStep(c)
      OBVIOUS
    <3>1. /\ stage[c] = "forked" /\ stage'[c] = "zombie" /\ UNCHANGED caller
          /\ cause[c] = "none" /\ cause'[c] = "start"
      BY <1>0, <1>4 DEF StartFails, TypeOK
    <3>2. UNCHANGED BrokenIs(c)
      BY <3>1 DEF Reported
    <3>3. Dies(c)
      BY <1>1, <1>2, <1>3, <3>1, <3>2 DEF Dies, Turns
    <3> QED BY <3>3
  <2>2. SetUp(c) \/ CallbackExits(c) \/ ExitAfterReport(c) => LaunchStep(c)
    BY <1>5, <1>6, <1>11 DEF SetUp, CallbackExits, ExitAfterReport
  <2>3. SetUpFails(c) \/ CallbackThrows(c) \/ ExecFails(c) => LaunchStep(c)
    BY <1>7 DEF SetUpFails, CallbackThrows, ExecFails, Reported
  <2>4. CallbackReturns(c) => LaunchStep(c)
    BY <1>5, <1>6, <1>11 DEF CallbackReturns
  <2> QED BY <1>8, <1>9, <1>12, <2>0, <2>1, <2>2, <2>3, <2>4 DEF ChildStep
<1>13. ProgramExits(c) \/ Killed(c) => LaunchStep(c)
  BY <1>5, <1>11 DEF ProgramExits, Killed
<1> QED BY <1>10, <1>12, <1>13

\* The initial states are initial states of Launch.
LEMMA InitMaps == Init => Launching!Init
<1> SUFFICES ASSUME Init
             PROVE  Launching!Init
  OBVIOUS
<1>1. \A c \in Caller : ResultOf(c) = "none" /\ ChildOf(c) = "absent" /\ cause[c] = "none"
  <2> SUFFICES ASSUME NEW c \in Caller
               PROVE  ResultOf(c) = "none" /\ ChildOf(c) = "absent" /\ cause[c] = "none"
    OBVIOUS
  <2>1. pc[c] = "idle" /\ stage[c] = "none" /\ cause[c] = "none"
    BY DEF Init
  <2>2. ResultOf(c) = "none"
    BY <2>1 DEF ResultOf
  <2>3. ChildOf(c) = "absent"
    BY <2>1 DEF ChildOf, PreExec
  <2> QED BY <2>1, <2>2, <2>3
<1> QED BY <1>1 DEF Launching!Init, Reported

\* Every step is a step of Launch, or changes nothing that Launch sees.
LEMMA NextMaps == IInv /\ IInv' /\ [Next]_vars => [Launching!Next]_(Launching!vars)
<1> SUFFICES ASSUME IInv, IInv', [Next]_vars
             PROVE  [Launching!Next]_(Launching!vars)
  OBVIOUS
<1>1. ASSUME NEW c \in Caller, Step(c)
      PROVE  [Launching!Next]_(Launching!vars)
  <2>1. LaunchStep(c)
    BY <1>1, RunMaps, ChildMaps DEF Step
  <2>2. UNCHANGED config
    BY <1>1, SettingsStay DEF settings
  <2>3. ASSUME NEW d \in Caller \ {c}
        PROVE  Rest(d)
    <3>1. Same(d)
      BY <1>1, OthersKeep DEF IInv
    <3> QED BY <3>1 DEF Same, Rest, ResultOf, ChildOf, BrokenIs
  <2> QED BY <2>1, <2>2, <2>3, LaunchStepMaps
<1>2. ASSUME UNCHANGED vars
      PROVE  UNCHANGED Launching!vars
  BY <1>2 DEF vars, settings, caller, offspring, Launching!vars, ResultOf, ChildOf
<1> QED BY <1>1, <1>2 DEF Next, Step, ThreadStep

\* Whatever the interleaving of callers, children, signals and other waiters,
\* a caller sees its run() succeed or fail as Launch promises.
THEOREM RunImplementsLaunch == Spec => ImplementsLaunch
<1>1. IInv /\ IInv' /\ [Next]_vars => [Launching!Next]_(Launching!vars)
  BY NextMaps
<1> QED BY <1>1, InitMaps, Invariance, PTL DEF Spec, ImplementsLaunch, Launching!Spec
=============================================================================
