--------------------------- MODULE SubProcProofs ---------------------------
(***************************************************************************)
(* Theorems about SubProc, for any number of objects, children, process    *)
(* numbers and file descriptors.                                           *)
(***************************************************************************)
EXTENDS SubProc, TLAPS

\* A child that some object was created for has come into being, and a call
\* in progress belongs to an object that is running().
Bound ==
    /\ \A o \in Obj : child[o] # NoChild => life[child[o]] # "unborn"
    /\ \A o \in Obj : pc[o] # "idle" => running(o)

\* The inductive invariant that holds whatever the environment does.
IInv == TypeOK /\ OwnChild /\ PidfdHeldOnce /\ Bound

\* Signals change the lives of the processes they reach, within Alive and
\* Dead: nobody is born or reaped by a signal.
LEMMA SignalEffect ==
    ASSUME TypeOK, NEW c \in Child, NEW s \in Signals
    PROVE  /\ AfterSignal(c, s) \in {"unborn", "reaped"} \union Alive \union Dead
           /\ NewsAfterSignal(c, s) \in {"none", "stopped", "continued"}
           /\ life[c] \notin Alive => AfterSignal(c, s) = life[c]
           /\ life[c] \in Alive => AfterSignal(c, s) \in Alive \union Dead
           /\ ~CoreDumps /\ life[c] # "dumped" => AfterSignal(c, s) # "dumped"
<1>1. life[c] \in {"unborn", "reaped"} \union Alive \union Dead
      /\ news[c] \in {"none", "stopped", "continued"}
  BY DEF TypeOK
<1>2. s \in {"KILL", "ABORT", "STOP", "CONT"} /\ CoreDumps \in BOOLEAN
  BY SubProcAssumption
<1>3. NewsAfterSignal(c, s) \in {"none", "stopped", "continued"}
  BY <1>1 DEF NewsAfterSignal
<1>4. life[c] \notin Alive => AfterSignal(c, s) = life[c]
  BY DEF AfterSignal, Alive
<1>5. ASSUME life[c] \in Alive
      PROVE  /\ AfterSignal(c, s) \in Alive \union Dead
             /\ ~CoreDumps => AfterSignal(c, s) # "dumped"
  <2>1. CASE life[c] = "running"
    BY <1>2, <2>1 DEF AfterSignal, Alive, Dead
  <2>2. CASE life[c] = "stopped"
    BY <1>2, <2>2 DEF AfterSignal, Alive, Dead
  <2> QED BY <1>5, <2>1, <2>2 DEF Alive
<1> QED BY <1>1, <1>3, <1>4, <1>5

\* Deliver() keeps the types and does what SignalEffect says.
LEMMA DeliverEffect ==
    ASSUME TypeOK, NEW C, NEW s \in Signals, Deliver(C, s)
    PROVE  /\ life' \in [Child -> {"unborn", "reaped"} \union Alive \union Dead]
           /\ news' \in [Child -> {"none", "stopped", "continued"}]
           /\ \A c \in Child : life[c] \notin Alive => life'[c] = life[c]
           /\ \A c \in Child : life[c] \in Alive => life'[c] \in Alive \union Dead
           /\ \A c \in Child : c \notin C => life'[c] = life[c]
           /\ ~CoreDumps => \A c \in Child : life[c] # "dumped" => life'[c] # "dumped"
BY SignalEffect DEF Deliver, TypeOK

\* Init establishes the invariant.
LEMMA InitIInv == Init => IInv
<1> SUFFICES ASSUME Init
             PROVE  IInv
  OBVIOUS
<1>1. TypeOK
  BY DEF Init, TypeOK
<1>2. OwnChild /\ Bound
  BY DEF Init, OwnChild, Bound, running
<1>3. PidfdHeldOnce
  BY SubProcAssumption DEF Init, PidfdHeldOnce
<1> QED BY <1>1, <1>2, <1>3 DEF IInv

\* reset() frees the pidfd of its object and disturbs no other object.
LEMMA ResetEffect ==
    ASSUME IInv, NEW o \in Obj, running(o), reset(o)
    PROVE  /\ m_pid' \in [Obj -> Pid \union {NoPid}]
           /\ m_child_fd' \in [Obj -> Fd \union {NoFd}]
           /\ fdtab' \in [Fd -> Child \union {NoChild}]
           /\ ~running(o)'
           /\ \A q \in Obj : q # o =>
                 /\ m_child_fd'[q] = m_child_fd[q]
                 /\ m_pid'[q] = m_pid[q]
                 /\ running(q) => fdtab'[m_child_fd[q]] = fdtab[m_child_fd[q]]
           /\ PidfdHeldOnce'
           /\ UNCHANGED <<pidOf, child>> => OwnChild'
<1> USE SubProcAssumption
<1>1. /\ m_pid' \in [Obj -> Pid \union {NoPid}]
      /\ m_child_fd' \in [Obj -> Fd \union {NoFd}]
      /\ fdtab' \in [Fd -> Child \union {NoChild}]
      /\ ~running(o)'
      /\ m_pid'[o] = NoPid
  BY DEF reset, IInv, TypeOK, running
<1>2. m_child_fd[o] \in Fd
  BY DEF IInv, TypeOK, running
<1>3. ASSUME NEW q \in Obj, q # o
      PROVE  /\ m_child_fd'[q] = m_child_fd[q]
             /\ m_pid'[q] = m_pid[q]
             /\ running(q) => fdtab'[m_child_fd[q]] = fdtab[m_child_fd[q]]
  BY <1>2, <1>3 DEF reset, IInv, TypeOK, PidfdHeldOnce, running
<1>4. PidfdHeldOnce'
  BY <1>1, <1>2, <1>3 DEF reset, IInv, TypeOK, PidfdHeldOnce, running
<1>5. ASSUME UNCHANGED <<pidOf, child>>
      PROVE  OwnChild'
  BY <1>1, <1>3, <1>5 DEF IInv, OwnChild, running
<1> QED BY <1>1, <1>3, <1>4, <1>5

\* A step that only changes what children do keeps the invariant.
LEMMA LivesOnly ==
    ASSUME IInv, UNCHANGED <<pidOf, fdtab, object, aborted, flags, joined, child>>,
           life' \in [Child -> {"unborn", "reaped"} \union Alive \union Dead],
           news' \in [Child -> {"none", "stopped", "continued"}],
           \A c \in Child : life[c] # "unborn" => life'[c] # "unborn",
           pc' \in [Obj -> {"idle", "waiting", "polling", "killing"}],
           victims' \in [Obj -> SUBSET (Pid \union {NoPid})],
           \A o \in Obj : pc'[o] # "idle" => running(o)
    PROVE  IInv'
<1>1. TypeOK'
  BY DEF IInv, TypeOK, object
<1>2. OwnChild' /\ PidfdHeldOnce'
  BY DEF IInv, OwnChild, PidfdHeldOnce, running, object
<1>3. Bound'
  BY SubProcAssumption DEF IInv, TypeOK, Bound, running, object
<1> QED BY <1>1, <1>2, <1>3 DEF IInv

\* Updating a table at two places keeps its type.
LEMMA UpdatedTwice ==
    ASSUME NEW A, NEW B, NEW h \in [A -> B], NEW a \in A, NEW b \in A, NEW v \in B, NEW w \in B
    PROVE  [h EXCEPT ![a] = v, ![b] = w] \in [A -> B]
  OBVIOUS

\* Every step preserves it.
LEMMA NextIInv == IInv /\ [Next]_vars => IInv'
<1> SUFFICES ASSUME IInv, [Next]_vars
             PROVE  IInv'
  OBVIOUS
<1> USE SubProcAssumption
<1>1. ASSUME NEW o \in Obj, NEW c \in Child, NEW p \in Pid, NEW f \in Fd, Spawn(o, c, p, f)
      PROVE  IInv'
  <2>1. CASE running(o)
    BY <1>1, <2>1 DEF Spawn, IInv, TypeOK, OwnChild, PidfdHeldOnce, Bound, running,
                      kernel, object, client
  <2>2. CASE ~running(o)
    <3>1. TypeOK'
      <4>1. life' \in [Child -> {"unborn", "reaped"} \union Alive \union Dead]
        BY <1>1, <2>2 DEF Spawn, IInv, TypeOK, Alive
      <4>2. pidOf' \in [Child -> Pid \union {NoPid}] /\ fdtab' \in [Fd -> Child \union {NoChild}]
        BY <1>1, <2>2 DEF Spawn, IInv, TypeOK
      <4>3. m_pid' \in [Obj -> Pid \union {NoPid}] /\ m_child_fd' \in [Obj -> Fd \union {NoFd}]
        BY <1>1, <2>2 DEF Spawn, IInv, TypeOK
      <4>4. child' \in [Obj -> Child \union {NoChild}]
        BY <1>1, <2>2 DEF Spawn, IInv, TypeOK
      <4>5. joined' \in [Obj -> BOOLEAN]
        BY <1>1, <2>2, ZenonT(30) DEF Spawn, IInv, TypeOK
      <4> QED BY <1>1, <2>2, <4>1, <4>2, <4>3, <4>4, <4>5 DEF Spawn, IInv, TypeOK
    <3>2. OwnChild'
      BY <1>1, <2>2 DEF Spawn, IInv, TypeOK, OwnChild, PidfdHeldOnce, Bound, running, FreeFds
    <3>3. PidfdHeldOnce'
      BY <1>1, <2>2 DEF Spawn, IInv, TypeOK, OwnChild, PidfdHeldOnce, running, FreeFds
    <3>4. Bound'
      BY <1>1, <2>2 DEF Spawn, IInv, TypeOK, Bound, running
    <3> QED BY <3>1, <3>2, <3>3, <3>4 DEF IInv
  <2> QED BY <2>1, <2>2
<1>2. ASSUME NEW to \in Obj, NEW from \in Obj, MoveAssign(to, from)
      PROVE  IInv'
  <2>1. CASE running(to)
    BY <1>2, <2>1 DEF MoveAssign, IInv, TypeOK, OwnChild, PidfdHeldOnce, Bound, running,
                      kernel, object, client
  <2>2. CASE ~running(to)
    <3>1. TypeOK'
      <4>0. /\ m_pid' = [m_pid EXCEPT ![to] = m_pid[from], ![from] = NoPid]
            /\ m_child_fd' = [m_child_fd EXCEPT ![to] = m_child_fd[from], ![from] = NoFd]
            /\ joined' = [joined EXCEPT ![to] = joined[from], ![from] = TRUE]
            /\ child' = [child EXCEPT ![to] = child[from], ![from] = NoChild]
        BY <1>2, <2>2 DEF MoveAssign
      <4>1. m_pid' \in [Obj -> Pid \union {NoPid}]
        <5> DEFINE S == Pid \union {NoPid}
        <5>1. m_pid \in [Obj -> S] /\ NoPid \in S
          BY DEF IInv, TypeOK
        <5> HIDE DEF S
        <5>2. m_pid[from] \in S
          BY <5>1
        <5>3. [m_pid EXCEPT ![to] = m_pid[from], ![from] = NoPid] \in [Obj -> S]
          BY <5>1, <5>2, UpdatedTwice
        <5> QED BY <4>0, <5>3 DEF S
      <4>2. m_child_fd' \in [Obj -> Fd \union {NoFd}]
        <5> DEFINE S == Fd \union {NoFd}
        <5>1. m_child_fd \in [Obj -> S] /\ NoFd \in S
          BY DEF IInv, TypeOK
        <5> HIDE DEF S
        <5>2. m_child_fd[from] \in S
          BY <5>1
        <5>3. [m_child_fd EXCEPT ![to] = m_child_fd[from], ![from] = NoFd] \in [Obj -> S]
          BY <5>1, <5>2, UpdatedTwice
        <5> QED BY <4>0, <5>3 DEF S
      <4>3. joined' \in [Obj -> BOOLEAN]
        <5> DEFINE S == BOOLEAN
        <5>1. joined \in [Obj -> S] /\ TRUE \in S
          BY DEF IInv, TypeOK
        <5> HIDE DEF S
        <5>2. joined[from] \in S
          BY <5>1
        <5>3. [joined EXCEPT ![to] = joined[from], ![from] = TRUE] \in [Obj -> S]
          BY <5>1, <5>2, UpdatedTwice
        <5> QED BY <4>0, <5>3 DEF S
      <4>4. child' \in [Obj -> Child \union {NoChild}]
        <5> DEFINE S == Child \union {NoChild}
        <5>1. child \in [Obj -> S] /\ NoChild \in S
          BY DEF IInv, TypeOK
        <5> HIDE DEF S
        <5>2. child[from] \in S
          BY <5>1
        <5>3. [child EXCEPT ![to] = child[from], ![from] = NoChild] \in [Obj -> S]
          BY <5>1, <5>2, UpdatedTwice
        <5> QED BY <4>0, <5>3 DEF S
      <4>5. UNCHANGED <<life, news, pidOf, fdtab, pc, flags, victims, aborted>>
        BY <1>2, <2>2 DEF MoveAssign, kernel
      <4> QED BY <4>1, <4>2, <4>3, <4>4, <4>5 DEF IInv, TypeOK
    <3>2. OwnChild'
      BY <1>2, <2>2 DEF MoveAssign, IInv, TypeOK, OwnChild, running, kernel
    <3>3. PidfdHeldOnce'
      <4>1. UNCHANGED fdtab
            /\ m_child_fd' = [m_child_fd EXCEPT ![to] = m_child_fd[from], ![from] = NoFd]
        BY <1>2, <2>2 DEF MoveAssign, kernel
      <4>2. ASSUME NEW f \in Fd, fdtab'[f] # NoChild
            PROVE  \E o \in Obj : m_child_fd'[o] = f
        <5>1. PICK o \in Obj : m_child_fd[o] = f
          BY <4>1, <4>2 DEF IInv, PidfdHeldOnce
        <5>2. o # to
          BY <2>2, <5>1 DEF running
        <5> QED BY <4>1, <5>1, <5>2 DEF IInv, TypeOK
      <4>3. ASSUME NEW f \in Fd, NEW o1 \in Obj, NEW o2 \in Obj,
                   m_child_fd'[o1] = f, m_child_fd'[o2] = f
            PROVE  o1 = o2
        BY SMTT(30), <4>1, <4>3 DEF IInv, TypeOK, PidfdHeldOnce
      <4> QED BY <4>2, <4>3 DEF PidfdHeldOnce
    <3>4. Bound'
      BY <1>2, <2>2 DEF MoveAssign, IInv, TypeOK, Bound, running, kernel
    <3> QED BY <3>1, <3>2, <3>3, <3>4 DEF IInv
  <2> QED BY <2>1, <2>2
<1>3. ASSUME NEW o \in Obj, Destroy(o)
      PROVE  IInv'
  <2>1. TypeOK'
    <3>1. aborted' \in BOOLEAN
      BY <1>3, Zenon DEF Destroy, running
    <3>2. child' \in [Obj -> Child \union {NoChild}]
      BY <1>3 DEF Destroy, IInv, TypeOK, client
    <3> QED BY <1>3, <3>1, <3>2 DEF Destroy, IInv, TypeOK, kernel, object, client
  <2>2. OwnChild' /\ PidfdHeldOnce' /\ Bound'
    BY SMTT(30), <1>3 DEF Destroy, IInv, TypeOK, OwnChild, PidfdHeldOnce, Bound, running,
                kernel, object, client
  <2> QED BY <2>1, <2>2 DEF IInv
<1>4. ASSUME NEW o \in Obj, NEW fl \in WaitFlagSets, WaitBegin(o, fl) \/ PollBegin(o, fl)
      PROVE  IInv'
  <2>1. TypeOK'
    BY <1>4 DEF WaitBegin, PollBegin, IInv, TypeOK, kernel, object
  <2>2. OwnChild' /\ PidfdHeldOnce' /\ Bound'
    BY <1>4 DEF WaitBegin, PollBegin, IInv, TypeOK, OwnChild, PidfdHeldOnce, Bound, running,
                kernel, object
  <2> QED BY <2>1, <2>2 DEF IInv
<1>5. ASSUME NEW o \in Obj, WaitReturns(o)
      PROVE  IInv'
  <2> DEFINE c == fdtab[m_child_fd[o]]
  <2>1. running(o) /\ c \in Child /\ c = child[o]
    BY <1>5 DEF WaitReturns, IInv, TypeOK, OwnChild, Bound
  <2>2. PICK e \in Events(c, flags[o]) :
          /\ IF "LEAVE_INFO" \notin flags[o]
             THEN /\ life' = [life EXCEPT ![c] = IF e \in Dead THEN "reaped" ELSE @]
                  /\ news' = [news EXCEPT ![c] = "none"]
             ELSE UNCHANGED <<life, news>>
          /\ IF "LEAVE_INFO" \notin flags[o] /\ e \in {"exited", "killed"}
             THEN reset(o)
             ELSE UNCHANGED <<object, fdtab>>
          /\ joined' = [joined EXCEPT ![o] = "LEAVE_INFO" \notin flags[o] /\ e \in Dead]
    BY <1>5 DEF WaitReturns
  <2>3. /\ pc' = [pc EXCEPT ![o] = "idle"]
        /\ flags' = [flags EXCEPT ![o] = {}]
        /\ UNCHANGED <<pidOf, victims, child, aborted>>
    BY <1>5 DEF WaitReturns
  <2>4. /\ life' \in [Child -> {"unborn", "reaped"} \union Alive \union Dead]
        /\ news' \in [Child -> {"none", "stopped", "continued"}]
        /\ \A d \in Child : life[d] # "unborn" => life'[d] # "unborn"
    BY <2>1, <2>2 DEF IInv, TypeOK
  <2>5. /\ m_pid' \in [Obj -> Pid \union {NoPid}]
        /\ m_child_fd' \in [Obj -> Fd \union {NoFd}]
        /\ fdtab' \in [Fd -> Child \union {NoChild}]
        /\ \A q \in Obj : q # o => m_child_fd'[q] = m_child_fd[q]
        /\ OwnChild' /\ PidfdHeldOnce'
    <3>1. CASE reset(o)
      BY <2>1, <2>3, <3>1, ResetEffect
    <3>2. CASE UNCHANGED <<object, fdtab>>
      BY <2>3, <3>2 DEF IInv, TypeOK, OwnChild, PidfdHeldOnce, running, object
    <3> QED BY <2>2, <3>1, <3>2
  <2>6. joined' \in [Obj -> BOOLEAN]
    BY <2>2, Zenon DEF IInv, TypeOK
  <2>7. TypeOK'
    BY <2>3, <2>4, <2>5, <2>6 DEF IInv, TypeOK
  <2>8. Bound'
    BY <2>3, <2>4, <2>5 DEF IInv, TypeOK, Bound, running
  <2> QED BY <2>5, <2>7, <2>8 DEF IInv
<1>6. ASSUME NEW o \in Obj, WaitFindsNoChild(o)
      PROVE  IInv'
  <2>1. running(o)
    BY <1>6 DEF WaitFindsNoChild, IInv, Bound
  <2>2. reset(o) /\ UNCHANGED <<pidOf, child>>
    BY <1>6 DEF WaitFindsNoChild
  <2>3. /\ m_pid' \in [Obj -> Pid \union {NoPid}]
        /\ m_child_fd' \in [Obj -> Fd \union {NoFd}]
        /\ fdtab' \in [Fd -> Child \union {NoChild}]
        /\ \A q \in Obj : q # o => m_child_fd'[q] = m_child_fd[q]
        /\ OwnChild' /\ PidfdHeldOnce'
    BY <2>1, <2>2, ResetEffect
  <2>4. joined' \in [Obj -> BOOLEAN]
    BY <1>6, Zenon DEF WaitFindsNoChild, IInv, TypeOK
  <2>5. TypeOK'
    BY <1>6, <2>3, <2>4 DEF WaitFindsNoChild, IInv, TypeOK
  <2>6. Bound'
    BY <1>6, <2>3 DEF WaitFindsNoChild, IInv, TypeOK, Bound, running
  <2> QED BY <2>3, <2>5, <2>6 DEF IInv
<1>7. ASSUME NEW o \in Obj, WaitInterrupted(o) \/ PollTimeout(o) \/ PollReady(o)
      PROVE  IInv'
  <2>1. TypeOK'
    BY <1>7 DEF WaitInterrupted, PollTimeout, PollReady, IInv, TypeOK, kernel, object
  <2>2. OwnChild' /\ PidfdHeldOnce' /\ Bound'
    BY <1>7 DEF WaitInterrupted, PollTimeout, PollReady, IInv, TypeOK, OwnChild,
                PidfdHeldOnce, Bound, running, kernel, object
  <2> QED BY <2>1, <2>2 DEF IInv
<1>8. ASSUME NEW o \in Obj, NEW s \in Signals, Kill(o, s)
      PROVE  IInv'
  BY <1>8, DeliverEffect, LivesOnly DEF Kill, IInv, TypeOK, Bound, Alive, Dead, client
<1>9. ASSUME NEW o \in Obj, KillReadsPid(o)
      PROVE  IInv'
  <2>1. fdtab[m_child_fd[o]] \in Child
    BY <1>9 DEF KillReadsPid, IInv, TypeOK, OwnChild
  <2> QED BY <1>9, <2>1, LivesOnly DEF KillReadsPid, IInv, TypeOK, Bound, kernel, object
<1>10. ASSUME NEW o \in Obj, NEW s \in Signals, KillByPid(o, s)
       PROVE  IInv'
  BY <1>10, DeliverEffect, LivesOnly DEF KillByPid, IInv, TypeOK, Bound, Alive, Dead
<1>11. ASSUME NEW c \in Child, Exit(c) \/ OtherWaits(c)
       PROVE  IInv'
  BY <1>11, LivesOnly DEF Exit, OtherWaits, IInv, TypeOK, Bound, Alive, Dead, client
<1>12. ASSUME NEW c \in Child, NEW s \in Signals, ChildSignaled(c, s)
       PROVE  IInv'
  BY <1>12, DeliverEffect, LivesOnly DEF ChildSignaled, IInv, TypeOK, Bound, Alive, Dead, client
<1>13. CASE UNCHANGED vars
  BY <1>13 DEF vars, kernel, object, client, IInv, TypeOK, OwnChild, PidfdHeldOnce, Bound, running
<1> QED
  BY <1>1, <1>2, <1>3, <1>4, <1>5, <1>6, <1>7, <1>8, <1>9, <1>10, <1>11, <1>12, <1>13
     DEF Next, SubProcStep, Environment

\* In every reachable state the types are right, ...
THEOREM TypeCorrect == Spec => []TypeOK
<1>1. IInv => TypeOK
  BY DEF IInv
<1> QED BY <1>1, InitIInv, NextIInv, PTL DEF Spec

\* ... no move, wait, kill or recycled number makes an object refer to another
\* process than its own, ...
THEOREM HandlesOwnChild == Spec => []OwnChild
<1>1. IInv => OwnChild
  BY DEF IInv
<1> QED BY <1>1, InitIInv, NextIInv, PTL DEF Spec

\* ... and no pidfd is leaked or held twice.
THEOREM NoLeakedPidfd == Spec => []PidfdHeldOnce
<1>1. IInv => PidfdHeldOnce
  BY DEF IInv
<1> QED BY <1>1, InitIInv, NextIInv, PTL DEF Spec
-----------------------------------------------------------------------------
(* Nothing is orphaned, provided every wait asks for termination *)

JoiningWaits == \A fl \in WaitFlagSets : "WAIT_FOR_EXITED" \in fl

\* The flags of a wait in progress are those that the client passed.
ClientFlags ==
    \A o \in Obj : pc[o] \in {"waiting", "polling"} => flags[o] \in WaitFlagSets

LEMMA NextClientFlags == IInv /\ ClientFlags /\ [Next]_vars => ClientFlags'
<1> SUFFICES ASSUME IInv, ClientFlags, [Next]_vars
             PROVE  ClientFlags'
  OBVIOUS
<1>1. /\ pc \in [Obj -> {"idle", "waiting", "polling", "killing"}]
      /\ flags \in [Obj -> SUBSET WaitFlag]
  BY DEF IInv, TypeOK
<1>2. CASE UNCHANGED <<pc, flags>>
  BY <1>2 DEF ClientFlags
<1>3. ASSUME NEW o \in Obj, NEW fl \in WaitFlagSets, WaitBegin(o, fl) \/ PollBegin(o, fl)
      PROVE  ClientFlags'
  BY <1>1, <1>3 DEF WaitBegin, PollBegin, ClientFlags
<1>4. ASSUME NEW o \in Obj, pc' = [pc EXCEPT ![o] = "idle"], flags' = [flags EXCEPT ![o] = {}]
      PROVE  ClientFlags'
  BY <1>1, <1>4 DEF ClientFlags
<1>5. ASSUME NEW o \in Obj, PollReady(o)
      PROVE  ClientFlags'
  BY <1>1, <1>5 DEF PollReady, ClientFlags
<1>6. ASSUME NEW o \in Obj, UNCHANGED flags,
             pc' = [pc EXCEPT ![o] = "killing"] \/ pc' = [pc EXCEPT ![o] = "idle"]
      PROVE  ClientFlags'
  BY <1>1, <1>6 DEF ClientFlags
<1> QED
  <2>1. CASE UNCHANGED vars
    BY <1>2, <2>1 DEF vars, client
  <2>2. ASSUME NEW c \in Child, Environment(c)
        PROVE  ClientFlags'
    BY <1>2, <2>2 DEF Environment, Exit, ChildSignaled, OtherWaits, client
  <2>3. ASSUME NEW o \in Obj, SubProcStep(o)
        PROVE  ClientFlags'
    <3>1. ASSUME NEW c \in Child, NEW p \in Pid, NEW f \in Fd, Spawn(o, c, p, f)
          PROVE  ClientFlags'
      BY <1>2, <3>1 DEF Spawn, client
    <3>2. ASSUME NEW from \in Obj, MoveAssign(o, from)
          PROVE  ClientFlags'
      BY <1>2, <3>2 DEF MoveAssign, client
    <3>3. ASSUME Destroy(o) \/ \E s \in Signals : Kill(o, s)
          PROVE  ClientFlags'
      BY <1>2, <3>3 DEF Destroy, Kill, client
    <3>4. ASSUME WaitReturns(o) \/ WaitFindsNoChild(o) \/ WaitInterrupted(o) \/ PollTimeout(o)
          PROVE  ClientFlags'
      BY <1>4, <3>4 DEF WaitReturns, WaitFindsNoChild, WaitInterrupted, PollTimeout
    <3>5. ASSUME KillReadsPid(o) \/ \E s \in Signals : KillByPid(o, s)
          PROVE  ClientFlags'
      BY <1>6, <3>5 DEF KillReadsPid, KillByPid
    <3> QED BY <1>3, <1>5, <2>3, <3>1, <3>2, <3>3, <3>4, <3>5 DEF SubProcStep
  <2> QED BY <2>1, <2>2, <2>3 DEF Next

Existing(c) == life[c] \in Alive \union Dead

\* Nobody lets go of a pidfd and nobody is born.
LEMMA HandlesKept ==
    ASSUME NoOrphan, UNCHANGED <<fdtab, m_child_fd>>,
           \A c \in Child : Existing(c)' => Existing(c)
    PROVE  NoOrphan'
BY DEF NoOrphan, running, Existing

\* An object is reset whose child does not exist any more.
LEMMA ResetKeepsOthers ==
    ASSUME IInv, NoOrphan, NEW o \in Obj, running(o), reset(o),
           life'[fdtab[m_child_fd[o]]] \notin Alive \union Dead,
           \A c \in Child : Existing(c)' => Existing(c)
    PROVE  NoOrphan'
<1> SUFFICES ASSUME NEW c \in Child, Existing(c)'
             PROVE  \E q \in Obj : running(q)' /\ fdtab'[m_child_fd'[q]] = c
  BY DEF NoOrphan, Existing
<1>1. PICK q \in Obj : running(q) /\ fdtab[m_child_fd[q]] = c
  BY DEF NoOrphan, Existing
<1>2. q # o
  BY <1>1 DEF Existing
<1> QED BY <1>1, <1>2, ResetEffect DEF running

LEMMA NextNoOrphan ==
    ASSUME JoiningWaits, IInv, ClientFlags, NoOrphan, [Next]_vars
    PROVE  NoOrphan'
<1> USE SubProcAssumption
<1>1. ASSUME NEW o \in Obj, NEW c \in Child, NEW p \in Pid, NEW f \in Fd, Spawn(o, c, p, f)
      PROVE  NoOrphan'
  <2>1. CASE running(o)
    BY <1>1, <2>1, HandlesKept DEF Spawn, kernel, object, Existing
  <2>2. CASE ~running(o)
    <3>1. fdtab' = [fdtab EXCEPT ![f] = c] /\ m_child_fd' = [m_child_fd EXCEPT ![o] = f]
      BY <1>1, <2>2 DEF Spawn
    <3>2. running(o)' /\ fdtab'[m_child_fd'[o]] = c
      BY <3>1 DEF IInv, TypeOK, running
    <3>3. ASSUME NEW q \in Obj, running(q)
          PROVE  running(q)' /\ fdtab'[m_child_fd'[q]] = fdtab[m_child_fd[q]]
      BY <1>1, <2>2, <3>1, <3>3 DEF Spawn, FreeFds, IInv, TypeOK, OwnChild, running
    <3>4. ASSUME NEW d \in Child, d # c
          PROVE  life'[d] = life[d]
      BY <1>1, <2>2, <3>4 DEF Spawn, IInv, TypeOK
    <3> QED BY <3>2, <3>3, <3>4 DEF NoOrphan
  <2> QED BY <2>1, <2>2
<1>2. ASSUME NEW to \in Obj, NEW from \in Obj, MoveAssign(to, from)
      PROVE  NoOrphan'
  <2>1. CASE running(to)
    BY <1>2, <2>1, HandlesKept DEF MoveAssign, kernel, object, Existing
  <2>2. CASE ~running(to)
    <3>1. UNCHANGED kernel
          /\ m_child_fd' = [m_child_fd EXCEPT ![to] = m_child_fd[from], ![from] = NoFd]
      BY <1>2, <2>2 DEF MoveAssign
    <3>2. ASSUME NEW q \in Obj, running(q)
          PROVE  \E r \in Obj : running(r)' /\ fdtab'[m_child_fd'[r]] = fdtab[m_child_fd[q]]
      <4>1. CASE q = from
        BY <2>2, <3>1, <3>2, <4>1 DEF kernel, IInv, TypeOK, running
      <4>2. CASE q # from
        BY <2>2, <3>1, <3>2, <4>2 DEF kernel, IInv, TypeOK, running
      <4> QED BY <4>1, <4>2
    <3>3. ASSUME NEW c \in Child, Existing(c)'
          PROVE  \E r \in Obj : running(r)' /\ fdtab'[m_child_fd'[r]] = c
      <4>1. PICK q \in Obj : running(q) /\ fdtab[m_child_fd[q]] = c
        BY <3>1, <3>3 DEF NoOrphan, Existing, kernel
      <4> QED BY <3>2, <4>1
    <3> QED BY <3>3 DEF NoOrphan, Existing
  <2> QED BY <2>1, <2>2
<1>3. ASSUME NEW o \in Obj, WaitReturns(o)
      PROVE  NoOrphan'
  <2> DEFINE c == fdtab[m_child_fd[o]]
  <2>1. running(o) /\ c \in Child
    BY <1>3 DEF WaitReturns, IInv, TypeOK, OwnChild, Bound
  <2>2. PICK e \in Events(c, flags[o]) :
          /\ IF "LEAVE_INFO" \notin flags[o]
             THEN life' = [life EXCEPT ![c] = IF e \in Dead THEN "reaped" ELSE @]
             ELSE UNCHANGED life
          /\ IF "LEAVE_INFO" \notin flags[o] /\ e \in {"exited", "killed"}
             THEN reset(o)
             ELSE UNCHANGED <<object, fdtab>>
    BY <1>3 DEF WaitReturns
  <2>3. \A d \in Child : Existing(d)' => Existing(d)
    BY <2>1, <2>2 DEF IInv, TypeOK, Existing, Alive, Dead
  <2>4. CASE "LEAVE_INFO" \notin flags[o] /\ e \in {"exited", "killed"}
    <3>1. reset(o) /\ life'[c] = "reaped"
      BY <2>1, <2>2, <2>4 DEF IInv, TypeOK, Dead
    <3> QED BY <2>1, <2>3, <3>1, ResetKeepsOthers DEF Alive, Dead
  <2>5. CASE ~("LEAVE_INFO" \notin flags[o] /\ e \in {"exited", "killed"})
    BY <2>2, <2>3, <2>5, HandlesKept DEF object
  <2> QED BY <2>4, <2>5
<1>4. ASSUME NEW o \in Obj, WaitFindsNoChild(o)
      PROVE  NoOrphan'
  <2>1. running(o) /\ fdtab[m_child_fd[o]] \in Child
    BY <1>4 DEF WaitFindsNoChild, IInv, TypeOK, OwnChild, Bound
  <2>2. "WAIT_FOR_EXITED" \in flags[o]
    BY <1>4 DEF WaitFindsNoChild, ClientFlags, JoiningWaits
  <2>3. life[fdtab[m_child_fd[o]]] = "reaped"
    BY <1>4, <2>2 DEF WaitFindsNoChild, NoneToWaitFor
  <2>4. reset(o) /\ life'[fdtab[m_child_fd[o]]] = "reaped" /\ UNCHANGED life
    BY <1>4, <2>3 DEF WaitFindsNoChild
  <2>5. \A d \in Child : Existing(d)' => Existing(d)
    BY <2>4 DEF Existing
  <2> QED BY <2>1, <2>4, <2>5, ResetKeepsOthers DEF Alive, Dead
<1>5. ASSUME NEW o \in Obj, NEW s \in Signals, Kill(o, s) \/ KillByPid(o, s)
      PROVE  NoOrphan'
  <2>1. PICK C : Deliver(C, s)
    BY <1>5 DEF Kill, KillByPid
  <2>2. \A c \in Child : Existing(c)' => Existing(c)
    BY <2>1, DeliverEffect DEF IInv, Existing
  <2> QED BY <1>5, <2>2, HandlesKept DEF Kill, KillByPid, object
<1>6. ASSUME NEW c \in Child, NEW s \in Signals, ChildSignaled(c, s)
      PROVE  NoOrphan'
  <2>1. \A d \in Child : Existing(d)' => Existing(d)
    BY <1>6, DeliverEffect DEF ChildSignaled, IInv, Existing
  <2> QED BY <1>6, <2>1, HandlesKept DEF ChildSignaled, object
<1>7. ASSUME NEW c \in Child, Exit(c) \/ OtherWaits(c)
      PROVE  NoOrphan'
  <2>1. \A d \in Child : Existing(d)' => Existing(d)
    BY <1>7 DEF Exit, OtherWaits, IInv, TypeOK, Existing, Alive, Dead
  <2> QED BY <1>7, <2>1, HandlesKept DEF Exit, OtherWaits, object
<1>8. CASE UNCHANGED <<life, fdtab, m_child_fd>>
  BY <1>8, HandlesKept DEF Existing
<1>9. ASSUME NEW o \in Obj,
             \/ Destroy(o) \/ WaitInterrupted(o)
             \/ PollReady(o) \/ PollTimeout(o) \/ KillReadsPid(o)
             \/ \E fl \in WaitFlagSets : WaitBegin(o, fl) \/ PollBegin(o, fl)
      PROVE  NoOrphan'
  BY <1>8, <1>9 DEF Destroy, WaitInterrupted, PollReady, PollTimeout, KillReadsPid,
                    WaitBegin, PollBegin, kernel, object
<1>10. CASE UNCHANGED vars
  BY <1>8, <1>10 DEF vars, kernel, object
<1> QED
  BY <1>1, <1>2, <1>3, <1>4, <1>5, <1>6, <1>7, <1>9, <1>10 DEF Next, SubProcStep, Environment

\* If no client waits for stops alone, then every child that still exists can
\* be waited for through some object.
THEOREM NothingOrphaned ==
    ASSUME JoiningWaits
    PROVE  Spec => []NoOrphan
<1>1. Init => ClientFlags /\ NoOrphan
  BY DEF Init, ClientFlags, NoOrphan, Alive, Dead
<1>2. IInv /\ ClientFlags /\ NoOrphan /\ [Next]_vars => NoOrphan'
  BY NextNoOrphan
<1> QED BY <1>1, <1>2, InitIInv, NextIInv, NextClientFlags, PTL DEF Spec
-----------------------------------------------------------------------------
(* Joined objects are released, provided that no child dumps core *)

NothingDumped == \A c \in Child : life[c] # "dumped"

LEMMA NextNothingDumped ==
    ASSUME ~CoreDumps, IInv, NothingDumped, [Next]_vars
    PROVE  NothingDumped'
<1>1. ASSUME NEW C, NEW s \in Signals, Deliver(C, s)
      PROVE  NothingDumped'
  BY <1>1, DeliverEffect DEF IInv, NothingDumped
<1>2. CASE UNCHANGED life
  BY <1>2 DEF NothingDumped
<1>3. ASSUME NEW c \in Child, NEW l \in {"running", "exited", "reaped"},
             life' = [life EXCEPT ![c] = l]
      PROVE  NothingDumped'
  BY <1>3 DEF IInv, TypeOK, NothingDumped
<1>4. ASSUME NEW o \in Obj, SubProcStep(o)
      PROVE  NothingDumped'
  <2>1. ASSUME NEW c \in Child, NEW p \in Pid, NEW f \in Fd, Spawn(o, c, p, f)
        PROVE  NothingDumped'
    BY <1>2, <1>3, <2>1 DEF Spawn, kernel
  <2>2. ASSUME NEW from \in Obj, MoveAssign(o, from)
        PROVE  NothingDumped'
    BY <1>2, <2>2 DEF MoveAssign, kernel
  <2>3. ASSUME WaitReturns(o)
        PROVE  NothingDumped'
    <3> DEFINE c == fdtab[m_child_fd[o]]
    <3>1. c \in Child
      BY <2>3 DEF WaitReturns, IInv, TypeOK, OwnChild, Bound
    <3>2. PICK e \in Events(c, flags[o]) :
            IF "LEAVE_INFO" \notin flags[o]
            THEN life' = [life EXCEPT ![c] = IF e \in Dead THEN "reaped" ELSE @]
            ELSE UNCHANGED life
      BY <2>3 DEF WaitReturns
    <3> QED BY <3>1, <3>2 DEF IInv, TypeOK, NothingDumped
  <2>4. ASSUME NEW s \in Signals, Kill(o, s) \/ KillByPid(o, s)
        PROVE  NothingDumped'
    BY <1>1, <2>4 DEF Kill, KillByPid
  <2>5. ASSUME \/ Destroy(o) \/ WaitFindsNoChild(o) \/ WaitInterrupted(o)
               \/ PollReady(o) \/ PollTimeout(o) \/ KillReadsPid(o)
               \/ \E fl \in WaitFlagSets : WaitBegin(o, fl) \/ PollBegin(o, fl)
        PROVE  NothingDumped'
    BY <1>2, <2>5 DEF Destroy, WaitFindsNoChild, WaitInterrupted, PollReady, PollTimeout,
                      KillReadsPid, WaitBegin, PollBegin, kernel
  <2> QED BY <1>4, <2>1, <2>2, <2>3, <2>4, <2>5 DEF SubProcStep
<1>5. ASSUME NEW c \in Child, Environment(c)
      PROVE  NothingDumped'
  BY <1>1, <1>3, <1>5 DEF Environment, Exit, ChildSignaled, OtherWaits
<1>6. CASE UNCHANGED vars
  BY <1>2, <1>6 DEF vars, kernel
<1> QED BY <1>4, <1>5, <1>6 DEF Next

LEMMA NextJoinedIsReleased ==
    ASSUME IInv, NothingDumped, JoinedIsReleased, [Next]_vars
    PROVE  JoinedIsReleased'
<1> USE SubProcAssumption
<1>1. CASE UNCHANGED <<joined, m_child_fd>>
  BY <1>1 DEF JoinedIsReleased, running
<1>2. ASSUME NEW o \in Obj, NEW c \in Child, NEW p \in Pid, NEW f \in Fd, Spawn(o, c, p, f)
      PROVE  JoinedIsReleased'
  <2>1. CASE running(o)
    BY <1>1, <1>2, <2>1 DEF Spawn, object, client
  <2>2. CASE ~running(o)
    <3>1. m_child_fd' = [m_child_fd EXCEPT ![o] = f] /\ joined' = [joined EXCEPT ![o] = FALSE]
      BY <1>2, <2>2 DEF Spawn
    <3>2. ~joined'[o]
      BY <3>1, Zenon DEF IInv, TypeOK
    <3>3. \A q \in Obj : q # o => joined'[q] = joined[q] /\ m_child_fd'[q] = m_child_fd[q]
      BY <3>1, ZenonT(30) DEF IInv, TypeOK
    <3> QED BY <3>2, <3>3 DEF JoinedIsReleased, running
  <2> QED BY <2>1, <2>2
<1>3. ASSUME NEW to \in Obj, NEW from \in Obj, MoveAssign(to, from)
      PROVE  JoinedIsReleased'
  <2>1. CASE running(to)
    BY <1>1, <1>3, <2>1 DEF MoveAssign, object, client
  <2>2. CASE ~running(to)
    <3>1. /\ m_child_fd' = [m_child_fd EXCEPT ![to] = m_child_fd[from], ![from] = NoFd]
          /\ joined' = [joined EXCEPT ![to] = joined[from], ![from] = TRUE]
      BY <1>3, <2>2 DEF MoveAssign
    <3>2. \A q \in Obj :
            /\ q = from => m_child_fd'[q] = NoFd
            /\ q # from /\ q = to => m_child_fd'[q] = m_child_fd[from] /\ joined'[q] = joined[from]
            /\ q # from /\ q # to => m_child_fd'[q] = m_child_fd[q] /\ joined'[q] = joined[q]
      BY <3>1, ZenonT(30) DEF IInv, TypeOK
    <3> QED BY <3>2 DEF JoinedIsReleased, running
  <2> QED BY <2>1, <2>2
<1>4. ASSUME NEW o \in Obj, WaitReturns(o)
      PROVE  JoinedIsReleased'
  <2>1. running(o)
    BY <1>4 DEF WaitReturns, IInv, Bound
  <2>2. PICK e \in Events(fdtab[m_child_fd[o]], flags[o]) :
          /\ IF "LEAVE_INFO" \notin flags[o] /\ e \in {"exited", "killed"}
             THEN reset(o)
             ELSE UNCHANGED <<object, fdtab>>
          /\ joined' = [joined EXCEPT ![o] = "LEAVE_INFO" \notin flags[o] /\ e \in Dead]
    BY <1>4 DEF WaitReturns
  <2>3. e # "dumped"
    BY <1>4 DEF WaitReturns, Events, IInv, TypeOK, OwnChild, Bound, NothingDumped, Dead
  <2>4. joined'[o] => "LEAVE_INFO" \notin flags[o] /\ e \in Dead
    BY <2>2, ZenonT(30) DEF IInv, TypeOK
  <2>5. \A q \in Obj : q # o => joined'[q] = joined[q]
    BY <2>2, ZenonT(30) DEF IInv, TypeOK
  <2>6. \A q \in Obj : q # o => m_child_fd'[q] = m_child_fd[q]
    BY <2>1, <2>2, ResetEffect DEF object
  <2>7. joined'[o] => ~running(o)'
    BY <2>1, <2>2, <2>3, <2>4, ResetEffect DEF Dead
  <2> QED BY <2>5, <2>6, <2>7 DEF JoinedIsReleased, running
<1>5. ASSUME NEW o \in Obj, WaitFindsNoChild(o)
      PROVE  JoinedIsReleased'
  <2>1. running(o) /\ reset(o)
    BY <1>5 DEF WaitFindsNoChild, IInv, Bound
  <2>2. \A q \in Obj : q # o => joined'[q] = joined[q]
    BY <1>5, ZenonT(30) DEF WaitFindsNoChild, IInv, TypeOK
  <2> QED BY <2>1, <2>2, ResetEffect DEF JoinedIsReleased, running
<1>6. ASSUME NEW o \in Obj, SubProcStep(o)
      PROVE  JoinedIsReleased'
  <2>1. ASSUME \/ Destroy(o) \/ WaitInterrupted(o)
               \/ PollReady(o) \/ PollTimeout(o) \/ KillReadsPid(o)
               \/ \E fl \in WaitFlagSets : WaitBegin(o, fl) \/ PollBegin(o, fl)
               \/ \E s \in Signals : Kill(o, s) \/ KillByPid(o, s)
        PROVE  JoinedIsReleased'
    BY <1>1, <2>1 DEF Destroy, WaitInterrupted, PollReady, PollTimeout, KillReadsPid,
                      WaitBegin, PollBegin, Kill, KillByPid, object, client
  <2> QED BY <1>2, <1>3, <1>4, <1>5, <1>6, <2>1 DEF SubProcStep
<1>7. ASSUME NEW c \in Child, Environment(c)
      PROVE  JoinedIsReleased'
  BY <1>1, <1>7 DEF Environment, Exit, ChildSignaled, OtherWaits, object, client
<1>8. CASE UNCHANGED vars
  BY <1>1, <1>8 DEF vars, object, client
<1> QED BY <1>6, <1>7, <1>8 DEF Next

\* Without core dumps a client that joins its children never meets a running()
\* object where it destroys or overwrites one.
THEOREM JoinReleases ==
    ASSUME ~CoreDumps
    PROVE  Spec => []JoinedIsReleased
<1>1. Init => NothingDumped /\ JoinedIsReleased
  BY DEF Init, NothingDumped, JoinedIsReleased, running
<1>2. IInv /\ NothingDumped /\ [Next]_vars => NothingDumped'
  BY NextNothingDumped
<1>3. IInv /\ NothingDumped /\ JoinedIsReleased /\ [Next]_vars => JoinedIsReleased'
  BY NextJoinedIsReleased
<1> QED BY <1>1, <1>2, <1>3, InitIInv, NextIInv, PTL DEF Spec
-----------------------------------------------------------------------------
(* Signals go to the own child, provided that they are sent by pidfd *)

NotKillingByPid == ~running_on_valgrind => \A o \in Obj : pc[o] # "killing"

LEMMA NextNotKillingByPid ==
    ASSUME IInv, NotKillingByPid, [Next]_vars
    PROVE  NotKillingByPid'
<1>0. UNCHANGED running_on_valgrind
  BY DEF Next, vars
<1> SUFFICES ASSUME ~running_on_valgrind
             PROVE  NotKillingByPid'
  BY <1>0 DEF NotKillingByPid
<1>1. CASE UNCHANGED pc
  BY <1>0, <1>1 DEF NotKillingByPid
<1>2. ASSUME NEW o \in Obj, NEW l \in {"idle", "waiting", "polling"}, pc' = [pc EXCEPT ![o] = l]
      PROVE  NotKillingByPid'
  BY <1>0, <1>2 DEF IInv, TypeOK, NotKillingByPid
<1>3. ASSUME NEW o \in Obj, SubProcStep(o)
      PROVE  NotKillingByPid'
  <2>1. ASSUME NEW c \in Child, NEW p \in Pid, NEW f \in Fd, Spawn(o, c, p, f)
        PROVE  NotKillingByPid'
    BY <1>1, <2>1 DEF Spawn, client
  <2>2. ASSUME \/ Destroy(o)
               \/ \E from \in Obj : MoveAssign(o, from)
               \/ \E s \in Signals : Kill(o, s)
        PROVE  NotKillingByPid'
    BY <1>1, <2>2 DEF Destroy, MoveAssign, Kill, client
  <2>3. ASSUME \/ WaitReturns(o) \/ WaitFindsNoChild(o) \/ WaitInterrupted(o)
               \/ PollReady(o) \/ PollTimeout(o)
               \/ \E fl \in WaitFlagSets : WaitBegin(o, fl) \/ PollBegin(o, fl)
               \/ \E s \in Signals : KillByPid(o, s)
        PROVE  NotKillingByPid'
    BY <1>2, <2>3 DEF WaitReturns, WaitFindsNoChild, WaitInterrupted, PollReady, PollTimeout,
                      WaitBegin, PollBegin, KillByPid
  <2> QED BY <1>3, <2>1, <2>2, <2>3 DEF SubProcStep, KillReadsPid
<1>4. ASSUME NEW c \in Child, Environment(c)
      PROVE  NotKillingByPid'
  BY <1>1, <1>4 DEF Environment, Exit, ChildSignaled, OtherWaits, client
<1>5. CASE UNCHANGED vars
  BY <1>1, <1>5 DEF vars, client
<1> QED BY <1>3, <1>4, <1>5 DEF Next

\* Without Valgrind kill() never reaches a process that is not the object's
\* own child, whatever happened to that child's number.
THEOREM SignalsAreForOwnChild == Spec => SignalsOwnChildOnly
<1> DEFINE OwnOnly == ~running_on_valgrind =>
                        \A o \in Obj, s \in Signals :
                            Kill(o, s) \/ KillByPid(o, s) =>
                                \A c \in Child : life'[c] # life[c] => c = child[o]
<1>1. Init => NotKillingByPid
  BY DEF Init, NotKillingByPid
<1>2. IInv /\ NotKillingByPid /\ [Next]_vars => NotKillingByPid'
  BY NextNotKillingByPid
<1>3. ASSUME IInv, NotKillingByPid
      PROVE  OwnOnly
  <2> SUFFICES ASSUME ~running_on_valgrind, NEW o \in Obj, NEW s \in Signals, Kill(o, s),
                      NEW c \in Child, life'[c] # life[c]
               PROVE  c = child[o]
    BY <1>3 DEF NotKillingByPid, KillByPid
  <2>1. c \in {fdtab[m_child_fd[o]]}
    BY <1>3, DeliverEffect DEF Kill, IInv
  <2> QED BY <1>3, <2>1 DEF Kill, IInv, OwnChild
<1>4. IInv /\ NotKillingByPid => [OwnOnly]_vars
  BY <1>3
<1> QED BY <1>1, <1>2, <1>4, InitIInv, NextIInv, PTL DEF Spec, SignalsOwnChildOnly
-----------------------------------------------------------------------------
(* SubProc implements ChildHandles, provided both of joining waits and core  *)
(* dumps that cannot happen                                                  *)

LEMMA PhaseFacts ==
    ASSUME TypeOK, NEW c \in Child
    PROVE  /\ life[c] = "unborn" => PhaseOf(c) = "unborn"
           /\ life[c] \in Alive => PhaseOf(c) = "live"
           /\ life[c] \in Dead => PhaseOf(c) = "dead"
           /\ life[c] = "reaped" => PhaseOf(c) = "gone"
BY DEF TypeOK, PhaseOf, Alive, Dead

LEMMA InitRefines == Init => Handles!Init
<1> SUFFICES ASSUME Init
             PROVE  Handles!Init
  OBVIOUS
<1>1. \A o \in Obj : HandleOf(o) = NoChild
  BY DEF Init, HandleOf, running
<1>2. \A c \in Child : PhaseOf(c) = "unborn"
  BY DEF Init, PhaseOf, Alive, Dead
<1> QED BY <1>1, <1>2 DEF Handles!Init

\* Children that die, of their own accord or by a signal.
LEMMA DyingRefines ==
    ASSUME IInv, IInv', UNCHANGED <<fdtab, m_child_fd>>,
           \A c \in Child : life[c] \notin Alive => life'[c] = life[c],
           \A c \in Child : life[c] \in Alive => life'[c] \in Alive \union Dead
    PROVE  Handles!Next
<1> DEFINE C == {c \in Child : life[c] \in Alive /\ life'[c] \in Dead}
<1>1. TypeOK /\ TypeOK'
  BY DEF IInv
<1>2. \A o \in Obj : HandleOf(o)' = HandleOf(o)
  BY DEF HandleOf, running
<1>3. \A c \in C : PhaseOf(c) = "live"
  BY <1>1, PhaseFacts
<1>4. \A c \in Child : PhaseOf(c)' = IF c \in C THEN "dead" ELSE PhaseOf(c)
  <2> SUFFICES ASSUME NEW c \in Child
               PROVE  PhaseOf(c)' = IF c \in C THEN "dead" ELSE PhaseOf(c)
    OBVIOUS
  <2>1. CASE c \in C
    BY <2>1 DEF PhaseOf, Alive, Dead
  <2>2. CASE c \notin C
    <3>1. CASE life[c] \in Alive
      BY <2>2, <3>1 DEF PhaseOf, Alive, Dead
    <3>2. CASE life[c] \notin Alive
      BY <2>2, <3>2 DEF PhaseOf
    <3> QED BY <3>1, <3>2
  <2> QED BY <2>1, <2>2
<1>5. Handles!Die(C)
  BY <1>2, <1>3, <1>4 DEF Handles!Die
<1>6. C \in SUBSET Child
  OBVIOUS
<1> QED BY <1>5, <1>6 DEF Handles!Next

\* Where neither pidfds nor lives change.
LEMMA StutterRefines ==
    ASSUME UNCHANGED <<life, fdtab, m_child_fd>>
    PROVE  UNCHANGED Handles!vars
BY DEF Handles!vars, HandleOf, PhaseOf, running

LEMMA SpawnRefines ==
    ASSUME IInv, NEW o \in Obj, NEW c \in Child, NEW p \in Pid, NEW f \in Fd, Spawn(o, c, p, f)
    PROVE  Handles!Next \/ UNCHANGED Handles!vars
<1>1. CASE running(o)
  BY <1>1, StutterRefines DEF Spawn, kernel, object
<1>2. CASE ~running(o)
  <2>1. /\ life[c] = "unborn" /\ fdtab[f] = NoChild
        /\ life' = [life EXCEPT ![c] = "running"]
        /\ fdtab' = [fdtab EXCEPT ![f] = c]
        /\ m_child_fd' = [m_child_fd EXCEPT ![o] = f]
    BY <1>2 DEF Spawn, FreeFds
  <2>2. HandleOf(o) = NoChild /\ HandleOf(o)' = c
    BY <1>2, <2>1, SubProcAssumption DEF HandleOf, running, IInv, TypeOK
  <2>3. \A q \in Obj : q # o => HandleOf(q)' = HandleOf(q)
    BY <2>1, SubProcAssumption DEF HandleOf, running, IInv, TypeOK, OwnChild
  <2>4. PhaseOf(c) = "unborn" /\ PhaseOf(c)' = "live"
    BY <2>1 DEF PhaseOf, IInv, TypeOK, Alive, Dead
  <2>5. \A d \in Child : d # c => PhaseOf(d)' = PhaseOf(d)
    BY <2>1 DEF PhaseOf, IInv, TypeOK
  <2>6. Handles!Acquire(o, c)
    BY <2>2, <2>3, <2>4, <2>5 DEF Handles!Acquire
  <2> QED BY <2>6 DEF Handles!Next
<1> QED BY <1>1, <1>2

LEMMA MoveRefines ==
    ASSUME IInv, NEW to \in Obj, NEW from \in Obj, MoveAssign(to, from)
    PROVE  Handles!Next \/ UNCHANGED Handles!vars
<1>1. CASE running(to)
  BY <1>1, StutterRefines DEF MoveAssign, kernel, object
<1>2. CASE ~running(to)
  <2>1. UNCHANGED <<life, fdtab>>
        /\ m_child_fd' = [m_child_fd EXCEPT ![to] = m_child_fd[from], ![from] = NoFd]
    BY <1>2 DEF MoveAssign, kernel
  <2>2. CASE to = from
    <3>1. m_child_fd' = m_child_fd
      BY <1>2, <2>1, <2>2 DEF running, IInv, TypeOK
    <3> QED BY <2>1, <3>1, StutterRefines
  <2>3. CASE to # from
    <3>1. HandleOf(to) = NoChild /\ HandleOf(to)' = HandleOf(from) /\ HandleOf(from)' = NoChild
      BY <1>2, <2>1, <2>3 DEF HandleOf, running, IInv, TypeOK
    <3>2. \A q \in Obj : q # to /\ q # from => HandleOf(q)' = HandleOf(q)
      BY <2>1 DEF HandleOf, running, IInv, TypeOK
    <3>3. \A c \in Child : PhaseOf(c)' = PhaseOf(c)
      BY <2>1 DEF PhaseOf
    <3>4. Handles!Transfer(from, to)
      BY <2>3, <3>1, <3>2, <3>3 DEF Handles!Transfer
    <3> QED BY <3>4 DEF Handles!Next
  <2> QED BY <2>2, <2>3
<1> QED BY <1>1, <1>2

\* After reset() the object is bound to nothing and the others as before.
LEMMA ResetHandles ==
    ASSUME IInv, NEW o \in Obj, running(o), reset(o)
    PROVE  /\ HandleOf(o)' = NoChild
           /\ \A q \in Obj : q # o => HandleOf(q)' = HandleOf(q)
<1>1. HandleOf(o)' = NoChild
  BY ResetEffect DEF HandleOf
<1>2. ASSUME NEW q \in Obj, q # o
      PROVE  HandleOf(q)' = HandleOf(q)
  BY <1>2, ResetEffect DEF HandleOf, running
<1> QED BY <1>1, <1>2

LEMMA WaitRefines ==
    ASSUME IInv, NothingDumped, NEW o \in Obj, WaitReturns(o)
    PROVE  Handles!Next \/ UNCHANGED Handles!vars
<1>1. PICK c \in Child : running(o) /\ c = fdtab[m_child_fd[o]] /\ HandleOf(o) = c
  BY DEF WaitReturns, IInv, TypeOK, OwnChild, Bound, HandleOf
<1>2. PICK e \in Events(c, flags[o]) :
        /\ IF "LEAVE_INFO" \notin flags[o]
           THEN life' = [life EXCEPT ![c] = IF e \in Dead THEN "reaped" ELSE @]
           ELSE UNCHANGED life
        /\ IF "LEAVE_INFO" \notin flags[o] /\ e \in {"exited", "killed"}
           THEN reset(o)
           ELSE UNCHANGED <<object, fdtab>>
  BY <1>1 DEF WaitReturns
<1>3. e \in Dead => e = life[c] /\ e \in {"exited", "killed"}
  BY <1>1 DEF Events, NothingDumped, Dead
<1>4. CASE "LEAVE_INFO" \notin flags[o] /\ e \in Dead
  <2>1. reset(o) /\ life' = [life EXCEPT ![c] = "reaped"]
    BY <1>2, <1>3, <1>4
  <2>2. PhaseOf(c) = "dead" /\ PhaseOf(c)' = "gone"
    <3>1. life[c] \in Dead /\ life'[c] = "reaped"
      BY <1>1, <1>3, <1>4, <2>1 DEF IInv, TypeOK
    <3> QED BY <3>1 DEF PhaseOf, Alive, Dead
  <2>3. \A d \in Child : d # c => PhaseOf(d)' = PhaseOf(d)
    BY <2>1 DEF PhaseOf, IInv, TypeOK
  <2>4. Handles!Collect(o)
    BY <1>1, <2>1, <2>2, <2>3, ResetHandles DEF Handles!Collect
  <2> QED BY <2>4 DEF Handles!Next
<1>5. CASE ~("LEAVE_INFO" \notin flags[o] /\ e \in Dead)
  <2>1. UNCHANGED <<fdtab, m_child_fd>>
    BY <1>2, <1>5 DEF object, Dead
  <2>2. life' = life
    BY <1>1, <1>2, <1>5 DEF IInv, TypeOK
  <2> QED BY <2>1, <2>2, StutterRefines
<1> QED BY <1>4, <1>5

LEMMA NoChildRefines ==
    ASSUME JoiningWaits, IInv, ClientFlags, NEW o \in Obj, WaitFindsNoChild(o)
    PROVE  Handles!Next
<1> DEFINE c == fdtab[m_child_fd[o]]
<1>1. running(o) /\ c \in Child /\ HandleOf(o) = c
  BY DEF WaitFindsNoChild, IInv, TypeOK, OwnChild, Bound, HandleOf
<1>2. life[c] = "reaped" /\ reset(o) /\ UNCHANGED life
  BY DEF WaitFindsNoChild, ClientFlags, JoiningWaits, NoneToWaitFor
<1>3. PhaseOf(c) = "gone"
  BY <1>1, <1>2, PhaseFacts DEF IInv
<1>4. \A d \in Child : PhaseOf(d)' = PhaseOf(d)
  BY <1>2 DEF PhaseOf
<1>5. Handles!GiveUp(o)
  BY <1>1, <1>2, <1>3, <1>4, ResetHandles DEF Handles!GiveUp
<1> QED BY <1>5 DEF Handles!Next

LEMMA StealRefines ==
    ASSUME IInv, NEW c \in Child, OtherWaits(c)
    PROVE  Handles!Next
<1>1. OtherWaiter /\ life[c] \in Dead /\ life' = [life EXCEPT ![c] = "reaped"]
      /\ UNCHANGED <<fdtab, object>>
  BY DEF OtherWaits
<1>2. PhaseOf(c) = "dead" /\ PhaseOf(c)' = "gone"
  BY <1>1 DEF PhaseOf, IInv, TypeOK, Alive, Dead
<1>3. \A d \in Child : d # c => PhaseOf(d)' = PhaseOf(d)
  BY <1>1 DEF PhaseOf, IInv, TypeOK
<1>4. \A q \in Obj : HandleOf(q)' = HandleOf(q)
  BY <1>1 DEF HandleOf, running, object
<1>5. Handles!Steal(c)
  BY <1>1, <1>2, <1>3, <1>4 DEF Handles!Steal
<1> QED BY <1>5 DEF Handles!Next

LEMMA NextRefines ==
    ASSUME JoiningWaits, IInv, IInv', ClientFlags, NothingDumped, [Next]_vars
    PROVE  Handles!Next \/ UNCHANGED Handles!vars
<1>1. ASSUME NEW C, NEW s \in Signals, Deliver(C, s), UNCHANGED <<fdtab, m_child_fd>>
      PROVE  Handles!Next
  BY <1>1, DeliverEffect, DyingRefines DEF IInv
<1>2. ASSUME NEW o \in Obj, SubProcStep(o)
      PROVE  Handles!Next \/ UNCHANGED Handles!vars
  <2>1. ASSUME NEW s \in Signals, Kill(o, s) \/ KillByPid(o, s)
        PROVE  Handles!Next
    BY <1>1, <2>1 DEF Kill, KillByPid, object
  <2>2. ASSUME \/ Destroy(o) \/ WaitInterrupted(o)
               \/ PollReady(o) \/ PollTimeout(o) \/ KillReadsPid(o)
               \/ \E fl \in WaitFlagSets : WaitBegin(o, fl) \/ PollBegin(o, fl)
        PROVE  UNCHANGED Handles!vars
    BY <2>2, StutterRefines DEF Destroy, WaitInterrupted, PollReady, PollTimeout, KillReadsPid,
                                WaitBegin, PollBegin, kernel, object
  <2> QED BY <1>2, <2>1, <2>2, SpawnRefines, MoveRefines, WaitRefines, NoChildRefines
             DEF SubProcStep
<1>3. ASSUME NEW c \in Child, Environment(c)
      PROVE  Handles!Next
  <2>1. ASSUME Exit(c)
        PROVE  Handles!Next
    BY <2>1, DyingRefines DEF Exit, IInv, TypeOK, Alive, Dead, object
  <2>2. ASSUME NEW s \in Signals, ChildSignaled(c, s)
        PROVE  Handles!Next
    BY <1>1, <2>2 DEF ChildSignaled, object
  <2> QED BY <1>3, <2>1, <2>2, StealRefines DEF Environment
<1>4. CASE UNCHANGED vars
  BY <1>4, StutterRefines DEF vars, kernel, object
<1> QED BY <1>2, <1>3, <1>4 DEF Next

\* Clients that wait for termination, and children that dump no core, make a
\* SubProc the exclusive handle that ChildHandles describes.
THEOREM Refinement ==
    ASSUME JoiningWaits, ~CoreDumps
    PROVE  Spec => ImplementsHandles
<1>1. Init => ClientFlags /\ NothingDumped
  BY DEF Init, ClientFlags, NothingDumped
<1>2. IInv /\ NothingDumped /\ [Next]_vars => NothingDumped'
  BY NextNothingDumped
<1>3. IInv /\ IInv' /\ ClientFlags /\ NothingDumped /\ [Next]_vars => [Handles!Next]_(Handles!vars)
  BY NextRefines
<1> QED
  BY <1>1, <1>2, <1>3, InitIInv, NextIInv, NextClientFlags, InitRefines, PTL
     DEF Spec, ImplementsHandles, Handles!Spec
=============================================================================
