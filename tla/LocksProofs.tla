---------------------------- MODULE LocksProofs ----------------------------
(***************************************************************************)
(* Proofs about Locks: guards keep threads apart, what is locked is what   *)
(* guards locked, and no wakeup is lost, for any number of threads, guards *)
(* and bytes.                                                              *)
(*                                                                         *)
(* The first two need clients that do not lock the mutex twice; the second *)
(* one also clients that leave the offset of a file alone while a lock     *)
(* counts from it.  The third one holds for any client.                    *)
(***************************************************************************)
EXTENDS Locks, FiniteSetTheorems, TLAPS

-----------------------------------------------------------------------------
(* The inductive invariant *)

Doing == {"runs", "locks", "relocks", "waits", "waits timed", "wakes", "checks"}
Away == {"waits", "waits timed", "wakes"}
OnRWLock == {"ReadLockGuard", "WriteLockGuard"}

\* What may be constructed at place n of a stack: a guard of the mutex first
\* or right after a reverse guard, this right after a guard of the mutex, and
\* one guard each of the read-write lock and of the file, in this order.
MayBeAt(s, n, g) ==
    /\ is(g, "MutexGuard") => n = 1 \/ is(s[n - 1], "MutexReverseGuard")
    /\ is(g, "MutexReverseGuard") => n > 1 /\ is(s[n - 1], "MutexGuard")
    /\ g.type \in OnRWLock => \A k \in 1 .. n - 1 : s[k].type \notin OnRWLock \union OnFile
    /\ g.type \in OnFile => \A k \in 1 .. n - 1 : s[k].type \notin OnFile

Ordered(s) == \A n \in 1 .. Len(s) : MayBeAt(s, n, s[n])

\* The last guard of the mutex has not been reversed.
HoldsMutex(s) ==
    \E i \in 1 .. Len(s) :
        /\ is(s[i], "MutexGuard")
        /\ \A j \in i .. Len(s) : ~is(s[j], "MutexReverseGuard")

Typed ==
    /\ TypeOK
    /\ guards \in [Thread -> Seq(Guard)]
    /\ covers \in [Thread -> Seq(SUBSET Byte)]

\* No destructor throws.
Runs == program = "runs"

StacksAreOrdered == \A t \in Thread : Ordered(guards[t])

\* A constructor that waits for its lock may put its guard on the stack.
ConstructionsMay ==
    \A t \in Thread : pc[t] = "locks" =>
        /\ want[t] \in Guard /\ want[t].type \notin {"MutexReverseGuard", "OFDLock"}
        /\ Len(guards[t]) < MaxGuards
        /\ MayBeAt(guards[t], Len(guards[t]) + 1, want[t])

\* A thread waits on the condition with a guard of the mutex innermost.
WaitsAreGuarded ==
    \A t \in Thread :
        /\ pc[t] \in Away \union {"checks"} => Innermost(t, "MutexGuard")
        /\ pc[t] = "relocks" => Innermost(t, "MutexReverseGuard")

MutexFollows ==
    \A t \in Thread : owner = t <=> HoldsMutex(guards[t]) /\ pc[t] \notin Away

RWLockFollows ==
    \A t \in Thread :
        /\ \A i \in 1 .. Len(guards[t]) :
              guards[t][i].type \in OnRWLock => rw[t] = RWType(guards[t][i])
        /\ rw[t] # "UNLOCK" => \E i \in 1 .. Len(guards[t]) : guards[t][i].type \in OnRWLock

\* What the kernel and the C library grant excludes nothing that they granted.
GrantsExclude ==
    \A t, u \in Thread : t # u =>
        /\ rw[t] = "UNLOCK" \/ Compatible(rw[t], rw[u])
        /\ \A b \in Byte : locks[t][b] = "UNLOCK" \/ Compatible(locks[t][b], locks[u][b])

FileFollows ==
    \A t \in Thread : \A i \in 1 .. Len(guards[t]) :
        guards[t][i].type \in OnFile =>
            \A b \in covers[t][i] : locks[t][b] = guards[t][i].m_lock.type

\* With careful clients, a guard still means the bytes that it locked.
BytesAreKnown ==
    "offset" \notin Careless =>
        \A t \in Thread :
            /\ \A i \in 1 .. Len(guards[t]) :
                  guards[t][i].type \in OnFile =>
                      covers[t][i] = Region(t, guards[t][i].m_lock)
            /\ \A b \in Byte : locks[t][b] # "UNLOCK" =>
                  \E i \in 1 .. Len(guards[t]) :
                      guards[t][i].type \in OnFile /\ b \in covers[t][i]

IInv ==
    /\ Typed
    /\ Runs
    /\ StacksAreOrdered
    /\ ConstructionsMay
    /\ WaitsAreGuarded
    /\ MutexFollows
    /\ RWLockFollows
    /\ GrantsExclude
    /\ FileFollows
    /\ BytesAreKnown

-----------------------------------------------------------------------------
(* Stacks *)

\* What Append() gives, for the stacks of guards and covers (Push).
LEMMA Pushed ==
    ASSUME NEW S, NEW s \in Seq(S), NEW x \in S
    PROVE  /\ Append(s, x) \in Seq(S)
           /\ Len(s) \in Nat
           /\ Len(Append(s, x)) = Len(s) + 1
           /\ \A i \in 1 .. Len(s) : Append(s, x)[i] = s[i]
           /\ Append(s, x)[Len(s) + 1] = x
    OBVIOUS

\* What SubSeq() gives for a part of a stack (ButLast).
LEMMA Prefix ==
    ASSUME NEW S, NEW s \in Seq(S), NEW n \in 0 .. Len(s)
    PROVE  SubSeq(s, 1, n) \in Seq(S) /\ Len(SubSeq(s, 1, n)) = n
    OBVIOUS

\* What ButLast() gives, for the stacks of guards and covers (Pop).
LEMMA Popped ==
    ASSUME NEW S, NEW s \in Seq(S), s # <<>>
    PROVE  /\ ButLast(s) \in Seq(S)
           /\ Len(s) \in Nat \ {0}
           /\ Len(ButLast(s)) = Len(s) - 1
           /\ \A i \in 1 .. Len(s) - 1 : ButLast(s)[i] = s[i]
           /\ s[Len(s)] \in S
<1>1. Len(s) \in Nat \ {0}
  OBVIOUS
<1>2. s[Len(s)] \in S
  BY <1>1
<1>3. ButLast(s) \in Seq(S) /\ Len(ButLast(s)) = Len(s) - 1
  <2>1. Len(s) - 1 \in 0 .. Len(s)
    BY <1>1
  <2> QED BY <2>1, Prefix, Zenon DEF ButLast
<1>4. \A i \in 1 .. Len(s) - 1 : ButLast(s)[i] = s[i]
  BY <1>1 DEF ButLast
<1> QED BY <1>1, <1>2, <1>3, <1>4

\* What the client contract allows a thread to construct may be on top of its
\* stack (MayConstruct), unless the client may lock a mutex twice.
LEMMA ContractMay ==
    ASSUME Typed, "recursion" \notin Careless, NEW t \in Thread, NEW g \in Guard,
           MayConstruct(t, g)
    PROVE  MayBeAt(guards[t], Len(guards[t]) + 1, g)
<1> DEFINE s == guards[t]
<1>1. s \in Seq(Guard) /\ Len(s) \in Nat
  BY DEF Typed
<1>2. ASSUME is(g, "MutexGuard"), Len(s) # 0
      PROVE  is(s[Len(s)], "MutexReverseGuard")
  <2>1. SUFFICES ASSUME ~is(s[Len(s)], "MutexReverseGuard") PROVE FALSE
    OBVIOUS
  <2>2. InEffect(t, Len(s)) /\ Len(s) \in DOMAIN s
    BY <1>1, <1>2, <2>1 DEF InEffect, is
  <2>3. SubjectOf(s[Len(s)]) \in Locked(t)
    BY <2>1, <2>2 DEF Locked
  <2>4. Locked(t) = {}
    BY <1>2 DEF MayConstruct, Before, SubjectOf, is, OnFile
  <2> QED BY <2>3, <2>4
<1>3. ASSUME NEW k \in 1 .. Len(s), s[k].type \in OnRWLock \union OnFile
      PROVE  /\ s[k].type \in OnFile => "file" \in Locked(t)
             /\ s[k].type \in OnRWLock => "rwlock" \in Locked(t)
  <2>1. k \in DOMAIN s /\ InEffect(t, k) /\ ~is(s[k], "MutexReverseGuard")
    BY <1>1, <1>3 DEF InEffect, is, OnRWLock, OnFile
  <2>2. SubjectOf(s[k]) \in Locked(t)
    BY <2>1 DEF Locked
  <2> QED BY <2>2 DEF SubjectOf, OnRWLock, OnFile
<1>4. CASE is(g, "MutexReverseGuard")
  <2>1. Innermost(t, "MutexGuard")
    BY <1>4 DEF MayConstruct
  <2> QED BY <1>1, <1>4, <2>1 DEF Innermost, MayBeAt, is, OnRWLock, OnFile
<1>5. CASE is(g, "MutexGuard")
  BY <1>1, <1>2, <1>5 DEF MayBeAt, is, OnRWLock, OnFile
<1>6. CASE g.type \in OnRWLock
  <2>1. Locked(t) \subseteq {"mutex"}
    BY <1>6 DEF MayConstruct, Before, SubjectOf, is, OnFile, OnRWLock
  <2> QED BY <1>1, <1>3, <1>6, <2>1 DEF MayBeAt, is, OnRWLock, OnFile
<1>7. CASE g.type \in OnFile
  <2>1. Locked(t) \subseteq {"mutex", "rwlock"}
    BY <1>7 DEF MayConstruct, Before, SubjectOf, is, OnFile
  <2> QED BY <1>1, <1>3, <1>7, <2>1 DEF MayBeAt, is, OnRWLock, OnFile
<1> QED BY <1>4, <1>5, <1>6, <1>7 DEF Guard, Plain, is, OnRWLock

\* A guard that is pushed reverses or holds the mutex, or leaves it as it was
\* (Constructed, Reverse, SetOFDLock).
LEMMA PushedHolds ==
    ASSUME NEW s \in Seq(Guard), NEW g \in Guard, Ordered(s), MayBeAt(s, Len(s) + 1, g)
    PROVE  /\ Ordered(Append(s, g))
           /\ is(g, "MutexGuard") => ~HoldsMutex(s) /\ HoldsMutex(Append(s, g))
           /\ is(g, "MutexReverseGuard") => HoldsMutex(s) /\ ~HoldsMutex(Append(s, g))
           /\ g.type \in OnRWLock \union OnFile => (HoldsMutex(Append(s, g)) <=> HoldsMutex(s))
<1> DEFINE r == Append(s, g)
<1>1. /\ r \in Seq(Guard) /\ Len(s) \in Nat /\ Len(r) = Len(s) + 1
      /\ \A i \in 1 .. Len(s) : r[i] = s[i]
      /\ r[Len(s) + 1] = g
  BY Pushed
<1> HIDE DEF r
<1>2. Ordered(r)
  <2>1. SUFFICES ASSUME NEW n \in 1 .. Len(r) PROVE MayBeAt(r, n, r[n])
    BY DEF Ordered
  <2>2. CASE n = Len(s) + 1
    BY <1>1, <2>2 DEF MayBeAt
  <2>3. CASE n # Len(s) + 1
    <3>1. n \in 1 .. Len(s) /\ MayBeAt(s, n, s[n])
      BY <1>1, <2>3 DEF Ordered
    <3> QED BY SMTT(60), <1>1, <3>1 DEF MayBeAt
  <2> QED BY <2>2, <2>3
<1>3. is(g, "MutexGuard") => ~HoldsMutex(s) /\ HoldsMutex(r)
  BY <1>1 DEF HoldsMutex, MayBeAt, is
<1>4. is(g, "MutexReverseGuard") => HoldsMutex(s) /\ ~HoldsMutex(r)
  BY <1>1 DEF HoldsMutex, MayBeAt, is
<1>5. g.type \in OnRWLock \union OnFile => (HoldsMutex(r) <=> HoldsMutex(s))
  BY SMTT(30), <1>1 DEF HoldsMutex, is, OnRWLock, OnFile
<1> QED BY <1>2, <1>3, <1>4, <1>5 DEF r

\* The same for a guard that is popped (Destroy, Relocked).
LEMMA PoppedHolds ==
    ASSUME NEW s \in Seq(Guard), s # <<>>, Ordered(s)
    PROVE  LET g == s[Len(s)] IN
           /\ Ordered(ButLast(s))
           /\ is(g, "MutexGuard") => HoldsMutex(s) /\ ~HoldsMutex(ButLast(s))
           /\ is(g, "MutexReverseGuard") => ~HoldsMutex(s) /\ HoldsMutex(ButLast(s))
           /\ g.type \in OnRWLock \union OnFile => (HoldsMutex(ButLast(s)) <=> HoldsMutex(s))
<1> DEFINE r == ButLast(s)
           g == s[Len(s)]
<1>1. /\ r \in Seq(Guard) /\ Len(s) \in Nat \ {0} /\ Len(r) = Len(s) - 1
      /\ \A i \in 1 .. Len(s) - 1 : r[i] = s[i]
  BY Popped
<1> HIDE DEF r
<1>2. Ordered(r)
  <2>1. SUFFICES ASSUME NEW n \in 1 .. Len(r) PROVE MayBeAt(r, n, r[n])
    BY DEF Ordered
  <2>2. n \in 1 .. Len(s) - 1 /\ MayBeAt(s, n, s[n]) /\ r[n] = s[n]
    BY <1>1, <2>1 DEF Ordered
  <2>3. \A k \in 1 .. n - 1 : r[k] = s[k]
    BY <1>1, <2>2
  <2>4. n > 1 => n - 1 \in 1 .. n - 1
    BY <1>1, <2>2
  <2> QED BY <2>2, <2>3, <2>4 DEF MayBeAt
<1>3. MayBeAt(s, Len(s), g)
  BY <1>1 DEF Ordered
<1>4. is(g, "MutexGuard") => HoldsMutex(s) /\ ~HoldsMutex(r)
  BY SMTT(30), <1>1, <1>3 DEF HoldsMutex, MayBeAt, is
<1>5. is(g, "MutexReverseGuard") => ~HoldsMutex(s) /\ HoldsMutex(r)
  BY <1>1, <1>3 DEF HoldsMutex, MayBeAt, is
<1>6. g.type \in OnRWLock \union OnFile => (HoldsMutex(r) <=> HoldsMutex(s))
  BY SMTT(60), <1>1 DEF HoldsMutex, is, OnRWLock, OnFile
<1> QED BY <1>2, <1>4, <1>5, <1>6 DEF r

-----------------------------------------------------------------------------
(* Steps that push a guard *)

\* What a thread does for a guard that it puts on its stack.
Acquires(t, g) ==
    \/ /\ g.type \in OnFile /\ FileFree(t, g.m_lock)
       /\ SetBytes(t, Region(t, g.m_lock), g.m_lock.type)
       /\ UNCHANGED <<owner, rw>>
    \/ /\ is(g, "MutexGuard") /\ owner = NoThread
       /\ owner' = t
       /\ UNCHANGED <<rw, locks>>
    \/ /\ is(g, "MutexReverseGuard") /\ owner = t
       /\ owner' = NoThread
       /\ UNCHANGED <<rw, locks>>
    \/ /\ g.type \in OnRWLock /\ \A u \in Thread : Compatible(RWType(g), rw[u])
       /\ rw' = [rw EXCEPT ![t] = RWType(g)]
       /\ UNCHANGED <<owner, locks>>

PushStep(t, g) ==
    /\ Len(guards[t]) < MaxGuards
    /\ MayBeAt(guards[t], Len(guards[t]) + 1, g)
    /\ pc[t] \in {"runs", "locks"}
    /\ Acquires(t, g)
    /\ Push(t, g, Bytes(t, g))
    /\ pc' = [pc EXCEPT ![t] = "runs"]
    /\ \E w \in Guard \union {Nothing} : want' = [want EXCEPT ![t] = w]
    /\ UNCHANGED <<offset, shop, program>>

\* Constructed, Reverse and SetOFDLock push a guard that may be there.
LEMMA PushesAreSteps ==
    ASSUME IInv, "recursion" \notin Careless, NEW t \in Thread,
           \/ Constructed(t)
           \/ Reverse(t)
           \/ \E g \in Kind[t] : SetOFDLock(t, g)
    PROVE  \E g \in Guard : PushStep(t, g)
<1> USE LocksAssumption
<1>1. CASE Constructed(t)
  <2>1. want[t] \in Guard /\ want[t].type \notin {"MutexReverseGuard", "OFDLock"}
    BY <1>1 DEF IInv, ConstructionsMay, Constructed
  <2>2. Acquires(t, want[t])
    BY <1>1, <2>1 DEF Constructed, Acquires, Free, Take, is, Guard, Plain, OnFile, OnRWLock
  <2>3. PushStep(t, want[t])
    BY <1>1, <2>2 DEF PushStep, IInv, ConstructionsMay, Constructed
  <2> QED BY <2>1, <2>3
<1>2. CASE Reverse(t)
  <2> DEFINE g == [type |-> "MutexReverseGuard"]
  <2>1. g \in Guard
    BY DEF Guard, Plain
  <2>2. MayBeAt(guards[t], Len(guards[t]) + 1, g)
    BY <1>2, <2>1, ContractMay DEF IInv, Reverse
  <2>3. Acquires(t, g) /\ Bytes(t, g) = {}
    BY <1>2 DEF Reverse, Acquires, is, Bytes, OnFile
  <2>4. pc' = [pc EXCEPT ![t] = "runs"] /\ want' = [want EXCEPT ![t] = want[t]]
    BY <1>2 DEF Reverse, Running, IInv, Typed, TypeOK
  <2>5. PushStep(t, g)
    BY ZenonT(30), <1>2, <2>2, <2>3, <2>4 DEF PushStep, Reverse, Running, IInv, Typed, TypeOK
  <2> QED BY <2>1, <2>5
<1>3. ASSUME NEW g \in Kind[t], SetOFDLock(t, g)
      PROVE  \E h \in Guard : PushStep(t, h)
  <2>1. g \in Guard
    OBVIOUS
  <2>2. MayBeAt(guards[t], Len(guards[t]) + 1, g)
    BY <1>3, <2>1, ContractMay DEF IInv, SetOFDLock
  <2>3. Acquires(t, g)
    BY <1>3 DEF SetOFDLock, Acquires, Take, is, OnFile
  <2>4. pc' = [pc EXCEPT ![t] = "runs"] /\ want' = [want EXCEPT ![t] = want[t]]
    BY <1>3 DEF SetOFDLock, Running, IInv, Typed, TypeOK
  <2>5. PushStep(t, g)
    BY <1>3, <2>2, <2>3, <2>4 DEF PushStep, SetOFDLock, Running, IInv, Typed, TypeOK
  <2> QED BY <2>1, <2>5
<1> QED BY <1>1, <1>2, <1>3

LockType == {"UNLOCK", "READ_LOCK", "WRITE_LOCK"}

\* The kernel's tables keep their types when a lock is taken or released.
LEMMA BytesTyped ==
    ASSUME Typed, NEW t \in Thread, NEW bytes \in SUBSET Byte, NEW type \in LockType,
           SetBytes(t, bytes, type)
    PROVE  /\ locks' \in [Thread -> [Byte -> LockType]]
           /\ \A b \in Byte : locks'[t][b] = IF b \in bytes THEN type ELSE locks[t][b]
           /\ \A u \in Thread \ {t} : locks'[u] = locks[u]
    BY ZenonT(30) DEF Typed, TypeOK, SetBytes, LockType

\* The stacks after a guard has been pushed.
LEMMA PushedStacks ==
    ASSUME Typed, NEW t \in Thread, NEW g \in Guard, Push(t, g, Bytes(t, g))
    PROVE  /\ guards' \in [Thread -> Seq(Guard)] /\ covers' \in [Thread -> Seq(SUBSET Byte)]
           /\ Bytes(t, g) \in SUBSET Byte
           /\ guards'[t] = Append(guards[t], g)
           /\ Len(guards[t]) \in Nat
           /\ Len(guards'[t]) = Len(guards[t]) + 1 /\ Len(covers'[t]) = Len(guards[t]) + 1
           /\ \A i \in 1 .. Len(guards[t]) :
                 guards'[t][i] = guards[t][i] /\ covers'[t][i] = covers[t][i]
           /\ guards'[t][Len(guards[t]) + 1] = g
           /\ covers'[t][Len(guards[t]) + 1] = Bytes(t, g)
           /\ \A u \in Thread \ {t} : guards'[u] = guards[u] /\ covers'[u] = covers[u]
<1>1. Bytes(t, g) \in SUBSET Byte
  BY DEF Bytes, Region
<1>2. guards[t] \in Seq(Guard) /\ covers[t] \in Seq(SUBSET Byte) /\ Len(covers[t]) = Len(guards[t])
  BY DEF Typed, TypeOK
<1>3. /\ guards'[t] = Append(guards[t], g) /\ covers'[t] = Append(covers[t], Bytes(t, g))
      /\ \A u \in Thread \ {t} : guards'[u] = guards[u] /\ covers'[u] = covers[u]
      /\ guards' = [guards EXCEPT ![t] = Append(guards[t], g)]
      /\ covers' = [covers EXCEPT ![t] = Append(covers[t], Bytes(t, g))]
  BY DEF Push, Typed
<1>4. /\ Append(guards[t], g) \in Seq(Guard) /\ Len(guards[t]) \in Nat
      /\ Len(Append(guards[t], g)) = Len(guards[t]) + 1
      /\ \A i \in 1 .. Len(guards[t]) : Append(guards[t], g)[i] = guards[t][i]
      /\ Append(guards[t], g)[Len(guards[t]) + 1] = g
  BY <1>2, Pushed
<1>5. /\ Append(covers[t], Bytes(t, g)) \in Seq(SUBSET Byte)
      /\ Len(Append(covers[t], Bytes(t, g))) = Len(covers[t]) + 1
      /\ \A i \in 1 .. Len(covers[t]) : Append(covers[t], Bytes(t, g))[i] = covers[t][i]
      /\ Append(covers[t], Bytes(t, g))[Len(covers[t]) + 1] = Bytes(t, g)
  BY <1>1, <1>2, Pushed
<1>6. guards' \in [Thread -> Seq(Guard)] /\ covers' \in [Thread -> Seq(SUBSET Byte)]
  BY <1>3, <1>4, <1>5 DEF Typed
<1> QED BY <1>1, <1>2, <1>3, <1>4, <1>5, <1>6

\* A guard that is pushed keeps the invariant (Constructed, Reverse, SetOFDLock).
LEMMA PushKeeps ==
    ASSUME IInv, NEW t \in Thread, NEW g \in Guard, PushStep(t, g)
    PROVE  IInv'
<1> USE LocksAssumption
<1> DEFINE n == Len(guards[t]) + 1
<1>1. /\ Typed /\ Push(t, g, Bytes(t, g)) /\ Acquires(t, g)
      /\ MayBeAt(guards[t], n, g) /\ n \in 1 .. MaxGuards
  <2>1. Len(guards[t]) \in Nat
    BY DEF IInv, Typed
  <2> QED BY <2>1 DEF IInv, PushStep
<1>1a. /\ guards' \in [Thread -> Seq(Guard)] /\ covers' \in [Thread -> Seq(SUBSET Byte)]
      /\ guards[t] \in Seq(Guard)
      /\ guards'[t] = Append(guards[t], g)
      /\ Bytes(t, g) \in SUBSET Byte
  BY <1>1, PushedStacks DEF Typed
<1>2. /\ n \in Nat /\ Len(guards[t]) = n - 1
      /\ Len(guards'[t]) = n /\ Len(covers'[t]) = n
      /\ \A i \in 1 .. n - 1 : guards'[t][i] = guards[t][i] /\ covers'[t][i] = covers[t][i]
      /\ guards'[t][n] = g /\ covers'[t][n] = Bytes(t, g)
      /\ \A u \in Thread \ {t} : guards'[u] = guards[u] /\ covers'[u] = covers[u]
  BY <1>1, PushedStacks DEF Typed
<1>3. /\ Ordered(guards'[t])
      /\ is(g, "MutexGuard") => ~HoldsMutex(guards[t]) /\ HoldsMutex(guards'[t])
      /\ is(g, "MutexReverseGuard") => HoldsMutex(guards[t]) /\ ~HoldsMutex(guards'[t])
      /\ g.type \in OnRWLock \union OnFile => (HoldsMutex(guards'[t]) <=> HoldsMutex(guards[t]))
  BY <1>1, <1>1a, PushedHolds DEF IInv, StacksAreOrdered
<1>4. pc[t] \notin Away /\ pc'[t] = "runs" /\ \A u \in Thread \ {t} : pc'[u] = pc[u]
  BY ZenonT(30), <1>1 DEF PushStep, Typed, TypeOK, Away
<1>5. /\ \A i \in 1 .. n : g.type \in OnRWLock /\ guards'[t][i].type \in OnRWLock => i = n
      /\ \A i \in 1 .. n : g.type \in OnFile /\ guards'[t][i].type \in OnFile => i = n
  <2>1. SUFFICES ASSUME NEW i \in 1 .. n, i # n
                 PROVE  /\ ~(g.type \in OnRWLock /\ guards'[t][i].type \in OnRWLock)
                        /\ ~(g.type \in OnFile /\ guards'[t][i].type \in OnFile)
    BY Zenon
  <2>2. i \in 1 .. n - 1
    <3>1. n \in Nat
      BY <1>2
    <3> HIDE DEF n
    <3> QED BY <2>1, <3>1
  <2>3. guards'[t][i] = guards[t][i]
    BY <1>2, <2>2
  <2>4. MayBeAt(guards[t], n, g)
    BY <1>1
  <2> HIDE DEF n
  <2> QED BY <2>2, <2>3, <2>4, Zenon DEF MayBeAt
<1>6. \E w \in Guard \union {Nothing} : want' = [want EXCEPT ![t] = w]
  BY DEF PushStep
<1>7. g.type \in OnFile =>
        /\ locks' \in [Thread -> [Byte -> LockType]]
        /\ g.m_lock.type \in LockType \ {"UNLOCK"}
        /\ Bytes(t, g) = Region(t, g.m_lock)
        /\ \A b \in Byte : locks'[t][b] = IF b \in Bytes(t, g) THEN g.m_lock.type ELSE locks[t][b]
        /\ \A u \in Thread \ {t} : locks'[u] = locks[u]
        /\ FileFree(t, g.m_lock)
  <2>1. SUFFICES ASSUME g.type \in OnFile PROVE <1>7!2
    OBVIOUS
  <2>2. g.m_lock.type \in LockType \ {"UNLOCK"}
    BY <2>1 DEF Guard, Plain, OnFile, FileLock, LockType
  <2>3. /\ Bytes(t, g) = Region(t, g.m_lock)
        /\ SetBytes(t, Bytes(t, g), g.m_lock.type)
        /\ FileFree(t, g.m_lock)
    BY <1>1, <2>1 DEF Acquires, Bytes, is, OnFile, OnRWLock
  <2>4. /\ locks' \in [Thread -> [Byte -> LockType]]
        /\ \A b \in Byte : locks'[t][b] = IF b \in Bytes(t, g) THEN g.m_lock.type ELSE locks[t][b]
        /\ \A u \in Thread \ {t} : locks'[u] = locks[u]
    <3> DEFINE type == g.m_lock.type
               bytes == Bytes(t, g)
    <3>1. Typed /\ bytes \in SUBSET Byte /\ type \in LockType /\ SetBytes(t, bytes, type)
      BY <1>1, <1>1a, <2>2, <2>3
    <3> HIDE DEF type, bytes
    <3>2. /\ locks' \in [Thread -> [Byte -> LockType]]
          /\ \A b \in Byte : locks'[t][b] = IF b \in bytes THEN type ELSE locks[t][b]
          /\ \A u \in Thread \ {t} : locks'[u] = locks[u]
      BY <3>1, BytesTyped
    <3> QED BY <3>2 DEF type, bytes
  <2> QED BY <2>2, <2>3, <2>4
<1>8. g.type \notin OnFile => locks' = locks
  BY <1>1 DEF Acquires
<1>9. /\ g.type \in OnRWLock => /\ rw' = [rw EXCEPT ![t] = RWType(g)]
                                /\ \A u \in Thread : Compatible(RWType(g), rw[u])
      /\ g.type \notin OnRWLock => rw' = rw
      /\ RWType(g) \in LockType \ {"UNLOCK"}
      /\ \A u \in Thread : rw'[u] = IF u = t /\ g.type \in OnRWLock THEN RWType(g) ELSE rw[u]
      /\ rw \in [Thread -> LockType] /\ rw' \in [Thread -> LockType]
  <2>1. rw \in [Thread -> LockType]
    BY <1>1 DEF Typed, TypeOK, LockType
  <2>2. RWType(g) \in LockType \ {"UNLOCK"}
    BY DEF RWType, LockType
  <2> QED BY <1>1, <2>1, <2>2 DEF Acquires, is, OnFile, OnRWLock
<1>10. /\ is(g, "MutexGuard") => owner = NoThread /\ owner' = t
       /\ is(g, "MutexReverseGuard") => owner = t /\ owner' = NoThread
       /\ g.type \in OnRWLock \union OnFile => owner' = owner
       /\ is(g, "MutexGuard") \/ is(g, "MutexReverseGuard") \/ g.type \in OnRWLock \union OnFile
  BY <1>1 DEF Acquires, is, OnFile, OnRWLock
<1>11. UNCHANGED <<offset, work, owed, program>>
  BY DEF PushStep, shop
<1> HIDE DEF n
<1>12. Typed'
  <2>1. locks' \in [Thread -> [Byte -> LockType]]
    BY <1>1, <1>7, <1>8 DEF Typed, TypeOK, LockType
  <2>2. rw' \in [Thread -> LockType]
    BY <1>9
  <2>3. owner' \in Thread \union {NoThread}
    BY <1>1, <1>10 DEF Typed, TypeOK
  <2>4. pc' \in [Thread -> Doing]
    BY <1>1 DEF PushStep, Typed, TypeOK, Doing
  <2>5. want' \in [Thread -> Guard \union {Nothing}]
    <3>1. want \in [Thread -> Guard \union {Nothing}]
      BY <1>1 DEF Typed, TypeOK
    <3>2. PICK w \in Guard \union {Nothing} : want' = [want EXCEPT ![t] = w]
      BY <1>6
    <3> DEFINE G == Guard \union {Nothing}
    <3>3. want \in [Thread -> G] /\ w \in G
      BY <3>1
    <3> HIDE DEF G
    <3>4. want' \in [Thread -> G]
      BY <3>2, <3>3
    <3> QED BY <3>4 DEF G
  <2>6. ASSUME NEW u \in Thread
        PROVE  /\ Len(guards'[u]) \in 0 .. MaxGuards /\ Len(covers'[u]) = Len(guards'[u])
               /\ \A i \in DOMAIN guards'[u] :
                     guards'[u][i] \in Guard /\ covers'[u][i] \subseteq Byte
    <3>1. Len(guards'[u]) \in 0 .. MaxGuards /\ Len(covers'[u]) = Len(guards'[u])
      <4>1. Len(guards[u]) \in 0 .. MaxGuards /\ Len(covers[u]) = Len(guards[u])
        BY <1>1 DEF Typed, TypeOK
      <4>2. CASE u = t
        BY <1>1, <1>2, <4>2
      <4>3. CASE u # t
        BY <1>2, <4>1, <4>3
      <4> QED BY <4>2, <4>3
    <3>2. guards'[u] \in Seq(Guard) /\ covers'[u] \in Seq(SUBSET Byte)
      BY <1>1a
    <3> QED BY <3>1, <3>2
  <2> QED BY <1>1, <1>1a, <1>11, <2>1, <2>2, <2>3, <2>4, <2>5, <2>6
      DEF Typed, TypeOK, LockType, Doing
<1>13. Runs'
  BY <1>11 DEF IInv, Runs
<1>14. StacksAreOrdered'
  BY <1>2, <1>3 DEF IInv, StacksAreOrdered
<1>15. ConstructionsMay'
  <2>1. SUFFICES ASSUME NEW u \in Thread, pc'[u] = "locks"
                 PROVE  /\ want'[u] \in Guard /\ want'[u].type \notin {"MutexReverseGuard", "OFDLock"}
                        /\ Len(guards'[u]) < MaxGuards
                        /\ MayBeAt(guards'[u], Len(guards'[u]) + 1, want'[u])
    BY DEF ConstructionsMay
  <2>2. u # t
    BY <1>4, <2>1
  <2>3. pc[u] = "locks" /\ guards'[u] = guards[u]
    BY <1>2, <1>4, <2>1, <2>2
  <2>4. want \in [Thread -> Guard \union {Nothing}]
    BY <1>1 DEF Typed, TypeOK
  <2>5. want'[u] = want[u]
    BY <1>6, <2>2, <2>4
  <2>6. /\ want[u] \in Guard /\ want[u].type \notin {"MutexReverseGuard", "OFDLock"}
        /\ Len(guards[u]) < MaxGuards
        /\ MayBeAt(guards[u], Len(guards[u]) + 1, want[u])
    BY <2>3 DEF IInv, ConstructionsMay
  <2> QED BY <2>3, <2>5, <2>6
<1>16. WaitsAreGuarded'
  <2>1. SUFFICES ASSUME NEW u \in Thread
                 PROVE  /\ pc'[u] \in Away \union {"checks"} => Innermost(u, "MutexGuard")'
                        /\ pc'[u] = "relocks" => Innermost(u, "MutexReverseGuard")'
    BY DEF WaitsAreGuarded
  <2>2. CASE u = t
    BY <1>4, <2>2 DEF Away
  <2>3. CASE u # t
    <3>1. pc'[u] = pc[u] /\ guards'[u] = guards[u]
      BY <1>2, <1>4, <2>3
    <3>2. /\ pc[u] \in Away \union {"checks"} => Innermost(u, "MutexGuard")
          /\ pc[u] = "relocks" => Innermost(u, "MutexReverseGuard")
      BY DEF IInv, WaitsAreGuarded
    <3> QED BY <3>1, <3>2 DEF Innermost
  <2> QED BY <2>2, <2>3
<1>17. MutexFollows'
  <2>1. SUFFICES ASSUME NEW u \in Thread
                 PROVE  owner' = u <=> HoldsMutex(guards'[u]) /\ pc'[u] \notin Away
    BY DEF MutexFollows
  <2>2. owner = u <=> HoldsMutex(guards[u]) /\ pc[u] \notin Away
    BY DEF IInv, MutexFollows
  <2>3. CASE u = t
    BY <1>3, <1>4, <1>10, <2>2, <2>3 DEF Away
  <2>4. CASE u # t
    BY <1>2, <1>4, <1>10, <2>2, <2>4
  <2> QED BY <2>3, <2>4
<1>18. RWLockFollows'
  <2>1. SUFFICES ASSUME NEW u \in Thread
                 PROVE  /\ \A i \in 1 .. Len(guards'[u]) :
                              guards'[u][i].type \in OnRWLock => rw'[u] = RWType(guards'[u][i])
                        /\ rw'[u] # "UNLOCK" =>
                              \E i \in 1 .. Len(guards'[u]) : guards'[u][i].type \in OnRWLock
    BY DEF RWLockFollows
  <2>2. /\ \A i \in 1 .. Len(guards[u]) :
              guards[u][i].type \in OnRWLock => rw[u] = RWType(guards[u][i])
        /\ rw[u] # "UNLOCK" => \E i \in 1 .. Len(guards[u]) : guards[u][i].type \in OnRWLock
    BY DEF IInv, RWLockFollows
  <2>3. CASE u # t
    BY <1>2, <1>9, <2>2, <2>3
  <2>4. CASE u = t /\ g.type \in OnRWLock
    <3>1. \A i \in 1 .. n : guards'[t][i].type \in OnRWLock => i = n
      BY <1>5, <2>4
    <3>2. n \in 1 .. n
      BY <1>2
    <3> QED BY <1>2, <1>9, <2>4, <3>1, <3>2
  <2>5. CASE u = t /\ g.type \notin OnRWLock
    <3>1. \A i \in 1 .. n : guards'[t][i].type \in OnRWLock => i \in 1 .. n - 1
      BY <1>2, <2>5
    <3>2. \A i \in 1 .. n - 1 : i \in 1 .. n
      BY <1>2
    <3> QED BY ZenonT(30), <1>2, <1>9, <2>2, <2>5, <3>1, <3>2
  <2> QED BY <2>3, <2>4, <2>5
<1>19. GrantsExclude'
  <2>1. SUFFICES ASSUME NEW u \in Thread, NEW v \in Thread, u # v
                 PROVE  /\ rw'[u] = "UNLOCK" \/ Compatible(rw'[u], rw'[v])
                        /\ \A b \in Byte :
                             locks'[u][b] = "UNLOCK" \/ Compatible(locks'[u][b], locks'[v][b])
    BY DEF GrantsExclude
  <2>2. /\ rw[u] = "UNLOCK" \/ Compatible(rw[u], rw[v])
        /\ \A b \in Byte : locks[u][b] = "UNLOCK" \/ Compatible(locks[u][b], locks[v][b])
    BY <2>1 DEF IInv, GrantsExclude
  <2>3. rw'[u] = "UNLOCK" \/ Compatible(rw'[u], rw'[v])
    <3>1. CASE g.type \notin OnRWLock
      BY <1>9, <2>2, <3>1
    <3>2. CASE g.type \in OnRWLock /\ u = t
      BY <1>9, <2>1, <3>2
    <3>3. CASE g.type \in OnRWLock /\ v = t
      BY <1>9, <2>1, <3>3 DEF Compatible
    <3>4. CASE g.type \in OnRWLock /\ u # t /\ v # t
      BY <1>9, <2>2, <3>4
    <3> QED BY <3>1, <3>2, <3>3, <3>4
  <2>4. ASSUME NEW b \in Byte
        PROVE  locks'[u][b] = "UNLOCK" \/ Compatible(locks'[u][b], locks'[v][b])
    <3>1. CASE g.type \notin OnFile
      BY <1>8, <2>2, <3>1
    <3>2. CASE g.type \in OnFile /\ b \notin Bytes(t, g)
      BY <1>7, <2>2, <3>2
    <3>3. CASE g.type \in OnFile /\ b \in Bytes(t, g)
      <4>1. \A w \in Thread \ {t} : Compatible(g.m_lock.type, locks[w][b])
        BY <1>7, <3>3 DEF FileFree
      <4>2. CASE u = t
        BY <1>7, <2>1, <3>3, <4>1, <4>2
      <4>3. CASE v = t
        <5>1. {g.m_lock.type, locks[u][b]} = {locks[u][b], g.m_lock.type}
          OBVIOUS
        <5>2. locks'[u][b] = locks[u][b] /\ locks'[v][b] = g.m_lock.type
          BY <1>7, <2>1, <3>3, <4>3
        <5> QED BY <2>1, <4>1, <4>3, <5>1, <5>2 DEF Compatible
      <4>4. CASE u # t /\ v # t
        BY <1>7, <2>2, <3>3, <4>4
      <4> QED BY <4>2, <4>3, <4>4
    <3> QED BY <3>1, <3>2, <3>3
  <2> QED BY <2>3, <2>4
<1>20. FileFollows'
  <2>1. SUFFICES ASSUME NEW u \in Thread, NEW i \in 1 .. Len(guards'[u]),
                        guards'[u][i].type \in OnFile, NEW b \in covers'[u][i]
                 PROVE  locks'[u][b] = guards'[u][i].m_lock.type
    BY DEF FileFollows
  <2>2. b \in Byte
    <3>1. covers'[u] \in Seq(SUBSET Byte) /\ i \in 1 .. Len(covers'[u])
      BY <1>12, <2>1 DEF Typed, TypeOK
    <3> QED BY <2>1, <3>1
  <2>3. CASE u # t
    <3>1. locks'[u] = locks[u] /\ guards'[u] = guards[u] /\ covers'[u] = covers[u]
      BY <1>2, <1>7, <1>8, <2>3
    <3> QED BY <2>1, <3>1 DEF IInv, FileFollows
  <2>4. CASE u = t /\ g.type \in OnFile
    BY <1>2, <1>5, <1>7, <2>1, <2>2, <2>4
  <2>5. CASE u = t /\ g.type \notin OnFile
    <3>1. i \in 1 .. n - 1
      BY <1>2, <2>1, <2>5
    <3> QED BY SMTT(60), <1>2, <1>8, <2>1, <2>5, <3>1 DEF IInv, FileFollows, n
  <2> QED BY <2>3, <2>4, <2>5
<1>21. BytesAreKnown'
  <2>1. SUFFICES ASSUME "offset" \notin Careless, NEW u \in Thread
                 PROVE  /\ \A i \in 1 .. Len(guards'[u]) : guards'[u][i].type \in OnFile =>
                              covers'[u][i] = Region(u, guards'[u][i].m_lock)
                        /\ \A b \in Byte : locks'[u][b] # "UNLOCK" =>
                              \E i \in 1 .. Len(guards'[u]) :
                                  guards'[u][i].type \in OnFile /\ b \in covers'[u][i]
    BY <1>11 DEF BytesAreKnown, Region
  <2>2. /\ \A i \in 1 .. Len(guards[u]) : guards[u][i].type \in OnFile =>
              covers[u][i] = Region(u, guards[u][i].m_lock)
        /\ \A b \in Byte : locks[u][b] # "UNLOCK" =>
              \E i \in 1 .. Len(guards[u]) : guards[u][i].type \in OnFile /\ b \in covers[u][i]
    BY <2>1 DEF IInv, BytesAreKnown
  <2>3. CASE u # t
    <3>1. locks'[u] = locks[u]
      BY <1>7, <1>8, <2>3
    <3> QED BY ZenonT(30), <1>2, <2>2, <2>3, <3>1
  <2>4. CASE u = t /\ g.type \notin OnFile
    <3>1. \A i \in 1 .. n : guards'[t][i].type \in OnFile => i \in 1 .. n - 1
      BY <1>2, <2>4
    <3>2. \A i \in 1 .. n - 1 : i \in 1 .. n
      BY <1>2
    <3> QED BY ZenonT(60), <1>2, <1>8, <2>2, <2>4, <3>1, <3>2
  <2>5. CASE u = t /\ g.type \in OnFile
    <3>1. \A i \in 1 .. n - 1 : guards[t][i].type \notin OnFile
      BY <1>2, <1>5, <2>5
    <3>2. \A b \in Byte : locks[t][b] = "UNLOCK"
      BY <1>2, <2>2, <2>5, <3>1
    <3>3. n \in 1 .. n
      BY <1>2
    <3>4. \A i \in 1 .. n : guards'[t][i].type \in OnFile => i = n
      BY <1>5, <2>5
    <3>5. \A b \in Byte : locks'[t][b] # "UNLOCK" => b \in covers'[t][n]
      BY <1>2, <1>7, <2>5, <3>2
    <3>6. guards'[t][n] = g /\ covers'[t][n] = Region(t, g.m_lock)
      BY <1>2, <1>7, <2>5
    <3> QED BY <1>2, <2>5, <3>3, <3>4, <3>5, <3>6
  <2> QED BY <2>3, <2>4, <2>5
<1> QED BY <1>12, <1>13, <1>14, <1>15, <1>16, <1>17, <1>18, <1>19, <1>20, <1>21 DEF IInv

-----------------------------------------------------------------------------
(* Steps that pop a guard *)

\* What a thread does for the guard that it takes from its stack.
GivesBack(t, g) ==
    \/ /\ g.type \in OnFile
       /\ SetBytes(t, Region(t, g.m_lock), "UNLOCK")
       /\ UNCHANGED <<owner, rw>>
    \/ /\ is(g, "MutexGuard") /\ owner = t
       /\ owner' = NoThread
       /\ UNCHANGED <<rw, locks>>
    \/ /\ is(g, "MutexReverseGuard") /\ owner = NoThread
       /\ owner' = t
       /\ UNCHANGED <<rw, locks>>
    \/ /\ g.type \in OnRWLock
       /\ rw' = [rw EXCEPT ![t] = "UNLOCK"]
       /\ UNCHANGED <<owner, locks>>

PopStep(t) ==
    /\ guards[t] # <<>>
    /\ GivesBack(t, guards[t][Len(guards[t])])
    /\ Pop(t)
    /\ pc[t] \in {"runs", "relocks"}
    /\ pc' = [pc EXCEPT ![t] = "runs"]
    /\ UNCHANGED <<offset, want, shop, program>>

\* Destroy and Relocked pop a guard that still has its lock: no destructor throws.
LEMMA PopsAreSteps ==
    ASSUME IInv, NEW t \in Thread, Destroy(t) \/ Relocked(t)
    PROVE  PopStep(t)
<1> DEFINE g == guards[t][Len(guards[t])]
<1>1. /\ guards[t] \in Seq(Guard)
      /\ pc \in [Thread -> Doing]
  BY DEF IInv, Typed, TypeOK, Doing
<1>2. CASE Destroy(t)
  <2>1. guards[t] # <<>> /\ g \in Guard /\ Len(guards[t]) \in 1 .. Len(guards[t])
    <3>1. guards[t] # <<>>
      BY <1>2 DEF Destroy
    <3>2. Len(guards[t]) \in Nat \ {0} /\ g \in Guard
      BY <1>1, <3>1, Popped
    <3> QED BY <3>1, <3>2
  <2>2. ~is(g, "MutexReverseGuard") /\ pc[t] = "runs" /\ Release(t, g)
    BY <1>2, <2>1 DEF Destroy, Innermost, Running
  <2>3. is(g, "MutexGuard") => owner = t
    <3>1. SUFFICES ASSUME is(g, "MutexGuard") PROVE HoldsMutex(guards[t])
      BY <2>2 DEF IInv, MutexFollows, Away
    <3>2. \A j \in Len(guards[t]) .. Len(guards[t]) : guards[t][j] = g
      BY <2>1
    <3> QED BY <2>1, <2>2, <3>1, <3>2 DEF HoldsMutex, is
  <2>4. GivesBack(t, g) /\ program' = program
    BY <2>1, <2>2, <2>3 DEF Release, GivesBack, is, Guard, Plain, OnFile, OnRWLock
  <2>5. pc' = [pc EXCEPT ![t] = "runs"]
    BY <1>1, <1>2, <2>2 DEF Destroy
  <2> QED BY <1>2, <2>1, <2>2, <2>4, <2>5 DEF Destroy, PopStep
<1>3. CASE Relocked(t)
  <2>1. Innermost(t, "MutexReverseGuard")
    BY <1>3 DEF Relocked, IInv, WaitsAreGuarded
  <2> QED BY <1>3, <2>1 DEF Relocked, PopStep, GivesBack, Innermost
<1> QED BY <1>2, <1>3

\* The stacks after a guard has been popped.
LEMMA PoppedStacks ==
    ASSUME Typed, NEW t \in Thread, guards[t] # <<>>, Pop(t)
    PROVE  /\ guards' \in [Thread -> Seq(Guard)] /\ covers' \in [Thread -> Seq(SUBSET Byte)]
           /\ guards[t] \in Seq(Guard) /\ guards'[t] = ButLast(guards[t])
           /\ guards[t][Len(guards[t])] \in Guard
           /\ Len(guards[t]) \in Nat \ {0}
           /\ Len(guards'[t]) = Len(guards[t]) - 1 /\ Len(covers'[t]) = Len(guards[t]) - 1
           /\ \A i \in 1 .. Len(guards[t]) - 1 :
                 guards'[t][i] = guards[t][i] /\ covers'[t][i] = covers[t][i]
           /\ \A u \in Thread \ {t} : guards'[u] = guards[u] /\ covers'[u] = covers[u]
<1>1. /\ guards[t] \in Seq(Guard) /\ covers[t] \in Seq(SUBSET Byte)
      /\ Len(covers[t]) = Len(guards[t])
  BY DEF Typed, TypeOK
<1>2. covers[t] # <<>>
  BY <1>1
<1>3. /\ guards'[t] = ButLast(guards[t]) /\ covers'[t] = ButLast(covers[t])
      /\ \A u \in Thread \ {t} : guards'[u] = guards[u] /\ covers'[u] = covers[u]
      /\ guards' = [guards EXCEPT ![t] = ButLast(guards[t])]
      /\ covers' = [covers EXCEPT ![t] = ButLast(covers[t])]
  BY DEF Pop, Typed
<1>4. /\ ButLast(guards[t]) \in Seq(Guard) /\ Len(guards[t]) \in Nat \ {0}
      /\ Len(ButLast(guards[t])) = Len(guards[t]) - 1
      /\ \A i \in 1 .. Len(guards[t]) - 1 : ButLast(guards[t])[i] = guards[t][i]
      /\ guards[t][Len(guards[t])] \in Guard
  BY <1>1, Popped
<1>5. /\ ButLast(covers[t]) \in Seq(SUBSET Byte)
      /\ Len(ButLast(covers[t])) = Len(covers[t]) - 1
      /\ \A i \in 1 .. Len(covers[t]) - 1 : ButLast(covers[t])[i] = covers[t][i]
  BY ZenonT(30), <1>1, <1>2, Popped
<1>6. guards' \in [Thread -> Seq(Guard)] /\ covers' \in [Thread -> Seq(SUBSET Byte)]
  BY <1>3, <1>4, <1>5 DEF Typed
<1> QED BY <1>1, <1>3, <1>4, <1>5, <1>6

\* A guard that is popped keeps the invariant (Destroy, Relocked).
LEMMA PopKeeps ==
    ASSUME IInv, NEW t \in Thread, PopStep(t)
    PROVE  IInv'
<1> USE LocksAssumption
<1> DEFINE n == Len(guards[t])
           g == guards[t][n]
<1>1. Typed /\ guards[t] # <<>> /\ Pop(t) /\ GivesBack(t, g)
  BY DEF IInv, PopStep
<1>1a. /\ guards' \in [Thread -> Seq(Guard)] /\ covers' \in [Thread -> Seq(SUBSET Byte)]
      /\ guards[t] \in Seq(Guard)
      /\ guards'[t] = ButLast(guards[t])
  BY <1>1, PoppedStacks
<1>2. /\ n \in Nat \ {0} /\ g \in Guard
      /\ Len(guards'[t]) = n - 1 /\ Len(covers'[t]) = n - 1
      /\ \A i \in 1 .. n - 1 : guards'[t][i] = guards[t][i] /\ covers'[t][i] = covers[t][i]
      /\ \A u \in Thread \ {t} : guards'[u] = guards[u] /\ covers'[u] = covers[u]
  BY <1>1, PoppedStacks
<1>2a. n \in 1 .. n /\ \A i \in 1 .. n - 1 : i \in 1 .. n /\ i # n
  BY <1>2
<1>3. /\ Ordered(guards'[t])
      /\ is(g, "MutexGuard") => HoldsMutex(guards[t]) /\ ~HoldsMutex(guards'[t])
      /\ is(g, "MutexReverseGuard") => ~HoldsMutex(guards[t]) /\ HoldsMutex(guards'[t])
      /\ g.type \in OnRWLock \union OnFile => (HoldsMutex(guards'[t]) <=> HoldsMutex(guards[t]))
  BY <1>1, <1>1a, PoppedHolds DEF IInv, StacksAreOrdered
<1>4. pc[t] \notin Away /\ pc'[t] = "runs" /\ \A u \in Thread \ {t} : pc'[u] = pc[u]
  BY <1>1 DEF PopStep, Typed, TypeOK, Away
<1>5. /\ \A i \in 1 .. n - 1 : g.type \in OnRWLock => guards[t][i].type \notin OnRWLock
      /\ \A i \in 1 .. n - 1 : g.type \in OnFile => guards[t][i].type \notin OnFile
  BY <1>2a DEF IInv, StacksAreOrdered, Ordered, MayBeAt
<1>7. g.type \in OnFile =>
        /\ locks' \in [Thread -> [Byte -> LockType]]
        /\ \A b \in Byte :
              locks'[t][b] = IF b \in Region(t, g.m_lock) THEN "UNLOCK" ELSE locks[t][b]
        /\ \A u \in Thread \ {t} : locks'[u] = locks[u]
  <2>1. SUFFICES ASSUME g.type \in OnFile PROVE <1>7!2
    OBVIOUS
  <2>2. SetBytes(t, Region(t, g.m_lock), "UNLOCK")
    BY <1>1, <2>1 DEF GivesBack, is, OnFile, OnRWLock
  <2>3. Region(t, g.m_lock) \in SUBSET Byte /\ "UNLOCK" \in LockType
    BY DEF Region, LockType
  <2> DEFINE bytes == Region(t, g.m_lock)
             type == "UNLOCK"
  <2>4. bytes \in SUBSET Byte /\ type \in LockType /\ SetBytes(t, bytes, type)
    BY <2>2, <2>3
  <2> HIDE DEF bytes, type
  <2>5. /\ locks' \in [Thread -> [Byte -> LockType]]
        /\ \A b \in Byte : locks'[t][b] = IF b \in bytes THEN type ELSE locks[t][b]
        /\ \A u \in Thread \ {t} : locks'[u] = locks[u]
    BY <1>1, <2>4, BytesTyped
  <2> QED BY <2>5 DEF bytes, type
<1>8. g.type \notin OnFile => locks' = locks
  BY <1>1 DEF GivesBack
<1>9. /\ \A u \in Thread : rw'[u] = IF u = t /\ g.type \in OnRWLock THEN "UNLOCK" ELSE rw[u]
      /\ rw' \in [Thread -> LockType]
  <2>1. rw \in [Thread -> LockType]
    BY <1>1 DEF Typed, TypeOK, LockType
  <2> QED BY <1>1, <2>1 DEF GivesBack, is, OnFile, OnRWLock, LockType
<1>10. /\ is(g, "MutexGuard") => owner = t /\ owner' = NoThread
       /\ is(g, "MutexReverseGuard") => owner = NoThread /\ owner' = t
       /\ g.type \in OnRWLock \union OnFile => owner' = owner
       /\ is(g, "MutexGuard") \/ is(g, "MutexReverseGuard") \/ g.type \in OnRWLock \union OnFile
  BY <1>1 DEF GivesBack, is, OnFile, OnRWLock
<1>11. UNCHANGED <<offset, want, work, owed, program>>
  BY DEF PopStep, shop
<1> HIDE DEF n, g
<1>12. Typed'
  <2>1. locks' \in [Thread -> [Byte -> LockType]]
    BY <1>1, <1>7, <1>8 DEF Typed, TypeOK, LockType
  <2>3. owner' \in Thread \union {NoThread}
    BY <1>1, <1>10 DEF Typed, TypeOK
  <2>4. pc' \in [Thread -> Doing]
    BY <1>1 DEF PopStep, Typed, TypeOK, Doing
  <2>6. ASSUME NEW u \in Thread
        PROVE  /\ Len(guards'[u]) \in 0 .. MaxGuards /\ Len(covers'[u]) = Len(guards'[u])
               /\ \A i \in DOMAIN guards'[u] :
                     guards'[u][i] \in Guard /\ covers'[u][i] \subseteq Byte
    <3>1. Len(guards'[u]) \in 0 .. MaxGuards /\ Len(covers'[u]) = Len(guards'[u])
      <4>1. Len(guards[u]) \in 0 .. MaxGuards /\ Len(covers[u]) = Len(guards[u])
        BY <1>1 DEF Typed, TypeOK
      <4>2. CASE u = t
        BY SMTT(30), <1>1, <1>2, <4>1, <4>2 DEF n
      <4>3. CASE u # t
        BY <1>2, <4>1, <4>3
      <4> QED BY <4>2, <4>3
    <3>2. guards'[u] \in Seq(Guard) /\ covers'[u] \in Seq(SUBSET Byte)
      BY <1>1a
    <3> QED BY <3>1, <3>2
  <2> QED BY <1>1, <1>1a, <1>9, <1>11, <2>1, <2>3, <2>4, <2>6
      DEF Typed, TypeOK, LockType, Doing
<1>13. Runs'
  BY <1>11 DEF IInv, Runs
<1>14. StacksAreOrdered'
  BY <1>2, <1>3 DEF IInv, StacksAreOrdered
<1>15. ConstructionsMay'
  BY Zenon, <1>2, <1>4, <1>11 DEF IInv, ConstructionsMay
<1>16. WaitsAreGuarded'
  <2>1. SUFFICES ASSUME NEW u \in Thread
                 PROVE  /\ pc'[u] \in Away \union {"checks"} => Innermost(u, "MutexGuard")'
                        /\ pc'[u] = "relocks" => Innermost(u, "MutexReverseGuard")'
    BY DEF WaitsAreGuarded
  <2>2. CASE u = t
    BY <1>4, <2>2 DEF Away
  <2>3. CASE u # t
    <3>1. pc'[u] = pc[u] /\ guards'[u] = guards[u]
      BY <1>2, <1>4, <2>3
    <3>2. /\ pc[u] \in Away \union {"checks"} => Innermost(u, "MutexGuard")
          /\ pc[u] = "relocks" => Innermost(u, "MutexReverseGuard")
      BY DEF IInv, WaitsAreGuarded
    <3> QED BY <3>1, <3>2 DEF Innermost
  <2> QED BY <2>2, <2>3
<1>17. MutexFollows'
  <2>1. SUFFICES ASSUME NEW u \in Thread
                 PROVE  owner' = u <=> HoldsMutex(guards'[u]) /\ pc'[u] \notin Away
    BY DEF MutexFollows
  <2>2. owner = u <=> HoldsMutex(guards[u]) /\ pc[u] \notin Away
    BY DEF IInv, MutexFollows
  <2>3. CASE u = t
    BY <1>3, <1>4, <1>10, <2>2, <2>3 DEF Away
  <2>4. CASE u # t
    BY <1>2, <1>4, <1>10, <2>2, <2>4
  <2> QED BY <2>3, <2>4
<1>18. RWLockFollows'
  <2>1. SUFFICES ASSUME NEW u \in Thread
                 PROVE  /\ \A i \in 1 .. Len(guards'[u]) :
                              guards'[u][i].type \in OnRWLock => rw'[u] = RWType(guards'[u][i])
                        /\ rw'[u] # "UNLOCK" =>
                              \E i \in 1 .. Len(guards'[u]) : guards'[u][i].type \in OnRWLock
    BY DEF RWLockFollows
  <2>2. /\ \A i \in 1 .. Len(guards[u]) :
              guards[u][i].type \in OnRWLock => rw[u] = RWType(guards[u][i])
        /\ rw[u] # "UNLOCK" => \E i \in 1 .. Len(guards[u]) : guards[u][i].type \in OnRWLock
    BY DEF IInv, RWLockFollows
  <2>3. CASE u # t
    BY Zenon, <1>2, <1>9, <2>2, <2>3
  <2>4. CASE u = t /\ g.type \in OnRWLock
    BY <1>2, <1>5, <1>9, <2>4
  <2>5. CASE u = t /\ g.type \notin OnRWLock
    <3>1. \A i \in 1 .. n : guards[t][i].type \in OnRWLock => i \in 1 .. n - 1
      BY <1>2, <2>5 DEF g
    <3>2. /\ \A i \in 1 .. n : guards[t][i].type \in OnRWLock => rw[t] = RWType(guards[t][i])
          /\ rw[t] # "UNLOCK" => \E i \in 1 .. n : guards[t][i].type \in OnRWLock
      BY <2>2, <2>5 DEF n
    <3> QED BY Zenon, <1>2, <1>9, <1>2a, <2>5, <3>1, <3>2
  <2> QED BY <2>3, <2>4, <2>5
<1>19. GrantsExclude'
  <2>1. SUFFICES ASSUME NEW u \in Thread, NEW v \in Thread, u # v
                 PROVE  /\ rw'[u] = "UNLOCK" \/ Compatible(rw'[u], rw'[v])
                        /\ \A b \in Byte :
                             locks'[u][b] = "UNLOCK" \/ Compatible(locks'[u][b], locks'[v][b])
    BY DEF GrantsExclude
  <2>2. /\ rw[u] = "UNLOCK" \/ Compatible(rw[u], rw[v])
        /\ \A b \in Byte : locks[u][b] = "UNLOCK" \/ Compatible(locks[u][b], locks[v][b])
    BY <2>1 DEF IInv, GrantsExclude
  <2>3. rw'[u] = "UNLOCK" \/ Compatible(rw'[u], rw'[v])
    BY <1>9, <2>2 DEF Compatible
  <2>4. ASSUME NEW b \in Byte
        PROVE  locks'[u][b] = "UNLOCK" \/ Compatible(locks'[u][b], locks'[v][b])
    <3>1. /\ locks'[u][b] = "UNLOCK" \/ locks'[u][b] = locks[u][b]
          /\ locks'[v][b] = "UNLOCK" \/ locks'[v][b] = locks[v][b]
      BY <1>7, <1>8
    <3> QED BY <2>2, <3>1 DEF Compatible
  <2> QED BY <2>3, <2>4
<1>20. FileFollows'
  <2>1. SUFFICES ASSUME NEW u \in Thread, NEW i \in 1 .. Len(guards'[u]),
                        guards'[u][i].type \in OnFile, NEW b \in covers'[u][i]
                 PROVE  locks'[u][b] = guards'[u][i].m_lock.type
    BY DEF FileFollows
  <2>3. CASE u # t
    <3>1. locks'[u] = locks[u] /\ guards'[u] = guards[u] /\ covers'[u] = covers[u]
      BY <1>2, <1>7, <1>8, <2>3
    <3> QED BY <2>1, <3>1 DEF IInv, FileFollows
  <2>4. CASE u = t
    <3>1. i \in 1 .. n - 1 /\ guards'[t][i] = guards[t][i] /\ covers'[t][i] = covers[t][i]
      BY <1>2, <2>1, <2>4
    <3>2. g.type \notin OnFile
      BY <1>5, <2>1, <2>4, <3>1
    <3> QED BY SMTT(30), <1>8, <1>2a, <2>1, <2>4, <3>1, <3>2 DEF IInv, FileFollows, n
  <2> QED BY <2>3, <2>4
<1>21. BytesAreKnown'
  <2>1. SUFFICES ASSUME "offset" \notin Careless, NEW u \in Thread
                 PROVE  /\ \A i \in 1 .. Len(guards'[u]) : guards'[u][i].type \in OnFile =>
                              covers'[u][i] = Region(u, guards'[u][i].m_lock)
                        /\ \A b \in Byte : locks'[u][b] # "UNLOCK" =>
                              \E i \in 1 .. Len(guards'[u]) :
                                  guards'[u][i].type \in OnFile /\ b \in covers'[u][i]
    BY <1>11 DEF BytesAreKnown, Region
  <2>2. /\ \A i \in 1 .. Len(guards[u]) : guards[u][i].type \in OnFile =>
              covers[u][i] = Region(u, guards[u][i].m_lock)
        /\ \A b \in Byte : locks[u][b] # "UNLOCK" =>
              \E i \in 1 .. Len(guards[u]) : guards[u][i].type \in OnFile /\ b \in covers[u][i]
    BY <2>1 DEF IInv, BytesAreKnown
  <2>3. CASE u # t
    <3>1. locks'[u] = locks[u]
      BY <1>7, <1>8, <2>3
    <3> QED BY SMTT(30), <1>2, <2>2, <2>3, <3>1
  <2>4. CASE u = t /\ g.type \notin OnFile
    <3>1. \A i \in 1 .. n : guards[t][i].type \in OnFile => i \in 1 .. n - 1
      BY <1>2, <2>4 DEF g
    <3>2. /\ \A i \in 1 .. n : guards[t][i].type \in OnFile =>
                covers[t][i] = Region(t, guards[t][i].m_lock)
          /\ \A b \in Byte : locks[t][b] # "UNLOCK" =>
                \E i \in 1 .. n : guards[t][i].type \in OnFile /\ b \in covers[t][i]
      BY <2>2, <2>4 DEF n
    <3> QED BY ZenonT(30), <1>2, <1>8, <1>2a, <2>4, <3>1, <3>2
  <2>5. CASE u = t /\ g.type \in OnFile
    <3>1. \A i \in 1 .. n : guards[t][i].type \in OnFile => i = n
      BY <1>2, <1>5, <2>5
    <3>2. covers[t][n] = Region(t, g.m_lock)
      BY <1>2a, <2>2, <2>5 DEF n, g
    <3>3. \A b \in Byte : locks[t][b] # "UNLOCK" => b \in Region(t, g.m_lock)
      BY <2>2, <2>5, <3>1, <3>2 DEF n
    <3>4. \A b \in Byte : locks'[t][b] = "UNLOCK"
      BY <1>7, <2>5, <3>3
    <3>5. \A i \in 1 .. Len(guards'[t]) : guards'[t][i].type \notin OnFile
      BY <1>2, <1>5, <2>5
    <3> QED BY <2>5, <3>4, <3>5
  <2> QED BY <2>3, <2>4, <2>5
<1> QED BY <1>12, <1>13, <1>14, <1>15, <1>16, <1>17, <1>18, <1>19, <1>20, <1>21 DEF IInv

-----------------------------------------------------------------------------
(* Steps that leave the stacks alone *)

\* The rest of the steps, of threads that construct, wait and work.
StayStep(t) ==
    \/ \E g \in Kind[t] : Construct(t, g)
    \/ ConstructFails(t) \/ DestroyReverse(t)
    \/ \E to \in Byte : Seek(t, to)
    \/ ConditionStep(t)

\* A constructor that fails takes nothing back that another guard has: only
\* that of FileLockGuard can fail, if no mutex is locked twice.
LEMMA FailsAlone ==
    ASSUME IInv, NEW t \in Thread, ConstructFails(t)
    PROVE  UNCHANGED <<held, program>>
<1>1. /\ want[t] \in Guard /\ want[t].type \notin {"MutexReverseGuard", "OFDLock"}
      /\ MayBeAt(guards[t], Len(guards[t]) + 1, want[t])
      /\ guards[t] \in Seq(Guard)
  BY DEF ConstructFails, IInv, ConstructionsMay, Typed
<1>2. ASSUME "mutex" \in Locked(t) PROVE HoldsMutex(guards[t])
  <2>1. PICK k \in DOMAIN guards[t] :
           /\ InEffect(t, k) /\ ~is(guards[t][k], "MutexReverseGuard")
           /\ SubjectOf(guards[t][k]) = "mutex"
    BY <1>2 DEF Locked
  <2> QED BY <1>1, <2>1 DEF InEffect, HoldsMutex, SubjectOf, is
<1>3. is(want[t], "MutexGuard") => ~HoldsMutex(guards[t])
  BY <1>1 DEF HoldsMutex, MayBeAt, is
<1>4. is(want[t], "FileLockGuard")
  BY <1>1, <1>2, <1>3 DEF ConstructFails, SubjectOf, is, Guard, Plain, OnFile
<1> QED BY <1>4 DEF ConstructFails

\* What such a step may do to the mutex and to what the threads are doing.
StayPut ==
    /\ UNCHANGED <<rw, locks, stack, program>>
    /\ offset' \in [Thread -> Byte]
    /\ work' \in 0 .. MaxWork
    /\ owed' \in [Thread -> 0 .. MaxWork]
    /\ want' \in [Thread -> Guard \union {Nothing}]
    /\ owner' \in Thread \union {NoThread}
    /\ pc' \in [Thread -> Doing]
    /\ "offset" \in Careless \/ \A t \in Thread : \A i \in 1 .. Len(guards[t]) :
          guards[t][i].type \in OnFile =>
              Region(t, guards[t][i].m_lock)' = Region(t, guards[t][i].m_lock)

\* Every such step stays put (GuardStep, ConditionStep).
LEMMA StaysPut ==
    ASSUME IInv, NEW t \in Thread, StayStep(t)
    PROVE  StayPut
<1> USE LocksAssumption
<1> USE DEF Doing
<1>1. /\ offset \in [Thread -> Byte] /\ work \in 0 .. MaxWork
      /\ owed \in [Thread -> 0 .. MaxWork] /\ want \in [Thread -> Guard \union {Nothing}]
      /\ owner \in Thread \union {NoThread} /\ pc \in [Thread -> Doing]
  BY DEF IInv, Typed, TypeOK
<1>2. ASSUME UNCHANGED offset, UNCHANGED guards, NEW u \in Thread, NEW i
      PROVE  Region(u, guards[u][i].m_lock)' = Region(u, guards[u][i].m_lock)
  BY <1>2 DEF Region
<1>3. CASE \E g \in Kind[t] : Construct(t, g)
  <2>1. PICK g \in Kind[t] : Construct(t, g)
    BY <1>3
  <2>2. g \in Guard
    OBVIOUS
  <2> QED BY <1>1, <1>2, <2>1, <2>2 DEF Construct, StayPut, held, shop, stack
<1>4. CASE ConstructFails(t)
  BY <1>1, <1>2, <1>4, FailsAlone DEF ConstructFails, StayPut, held, shop, stack
<1>5. CASE DestroyReverse(t)
  BY <1>1, <1>2, <1>5 DEF DestroyReverse, StayPut, held, shop, stack
<1>6. CASE \E to \in Byte : Seek(t, to)
  <2>1. PICK to \in Byte : Seek(t, to)
    BY <1>6
  <2>2. offset' \in [Thread -> Byte]
    BY <1>1, <2>1 DEF Seek
  <2>3. ASSUME "offset" \notin Careless, NEW u \in Thread, NEW i \in 1 .. Len(guards[u]),
               guards[u][i].type \in OnFile
        PROVE  Region(u, guards[u][i].m_lock)' = Region(u, guards[u][i].m_lock)
    <3>1. guards' = guards /\ offset' = [offset EXCEPT ![t] = to]
      BY <2>1 DEF Seek, stack
    <3>2. CASE u = t
      <4>1. i \in DOMAIN guards[t]
        BY <2>3, <3>2 DEF IInv, Typed
      <4>2. guards[t][i].m_lock.whence # "CUR"
        BY <2>1, <2>3, <3>2, <4>1 DEF Seek
      <4> QED BY <3>1, <3>2, <4>2 DEF Region
    <3>3. CASE u # t
      BY <1>1, <3>1, <3>3 DEF Region
    <3> QED BY <3>2, <3>3
  <2> QED BY <1>1, <2>1, <2>2, <2>3 DEF Seek, StayPut, held, shop, stack
<1>7. CASE Add(t)
  <2>1. owed[t] \in 0 .. MaxWork /\ work \in 0 .. MaxWork /\ MaxWork \in Nat
    BY <1>1
  <2>2. work < MaxWork /\ owed[t] < MaxWork
    BY <1>7 DEF Add
  <2>3. owed[t] + 1 \in 0 .. MaxWork /\ work + 1 \in 0 .. MaxWork
    BY <2>1, <2>2
  <2> QED BY <1>1, <1>2, <1>7, <2>3 DEF Add, StayPut, held, shop, stack
<1>8. CASE Fetch(t)
  <2>1. work \in 0 .. MaxWork /\ MaxWork \in Nat
    BY <1>1
  <2>2. work > 0
    BY <1>8 DEF Fetch
  <2>3. work - 1 \in 0 .. MaxWork
    BY <2>1, <2>2
  <2> QED BY <1>1, <1>2, <1>8, <2>3 DEF Fetch, StayPut, held, shop, stack
<1>9. CASE \E how \in {"waits", "waits timed"} : Wait(t, how)
  BY ZenonT(30), <1>1, <1>2, <1>9 DEF Wait, StayPut, held, shop, stack
<1>10. CASE Signal(t)
  <2>1. pc' \in [Thread -> Doing]
    BY <1>1, <1>10 DEF Signal
  <2>2. owed[t] \in 0 .. MaxWork
    BY <1>1
  <2>3. owed[t] - 1 \in 0 .. MaxWork
    BY <1>10, <2>2 DEF Signal
  <2>4. owed' \in [Thread -> 0 .. MaxWork]
    BY <1>1, <1>10, <2>3 DEF Signal
  <2> QED BY <1>1, <1>2, <1>10, <2>1, <2>4 DEF Signal, StayPut, held, shop, stack
<1>11. CASE Broadcast(t)
  <2>1. pc' \in [Thread -> Doing]
    BY <1>1, <1>11 DEF Broadcast
  <2>2. 0 \in 0 .. MaxWork
    OBVIOUS
  <2>3. owed' \in [Thread -> 0 .. MaxWork]
    BY <1>1, <1>11, <2>2 DEF Broadcast
  <2> QED BY <1>1, <1>2, <1>11, <2>1, <2>3 DEF Broadcast, StayPut, held, shop, stack
<1>12. CASE Wakes(t)
  BY <1>1, <1>2, <1>12 DEF Wakes, StayPut, held, shop, stack
<1>13. CASE Reacquire(t)
  BY <1>1, <1>2, <1>13 DEF Reacquire, StayPut, held, shop, stack
<1>14. CASE GivesUp(t)
  BY <1>1, <1>2, <1>14 DEF GivesUp, StayPut, held, shop, stack
<1> QED BY <1>3, <1>4, <1>5, <1>6, <1>7, <1>8, <1>9, <1>10, <1>11, <1>12, <1>13, <1>14
     DEF StayStep, ConditionStep

\* What a thread does next fits its stack, whoever signals, wakes, gives the
\* mutex away and takes it back (Condition, and the ends of constructors).
LEMMA StackFitsStep ==
    ASSUME IInv, NEW t \in Thread, StayStep(t), "recursion" \notin Careless
    PROVE  ConstructionsMay' /\ WaitsAreGuarded' /\ MutexFollows'
<1> USE LocksAssumption
<1>1. StayPut
  BY StaysPut
<1>2. guards' = guards /\ pc \in [Thread -> Doing]
      /\ want \in [Thread -> Guard \union {Nothing}]
  BY <1>1 DEF StayPut, stack, IInv, Typed, TypeOK, Doing
<1>3. owner' \in Thread \union {NoThread} /\ owner \in Thread \union {NoThread}
  BY <1>1 DEF StayPut, IInv, Typed, TypeOK
<1>4. /\ ConstructionsMay /\ WaitsAreGuarded /\ MutexFollows
  BY DEF IInv
<1>5. \A u \in Thread : Innermost(u, "MutexGuard")' = Innermost(u, "MutexGuard")
                        /\ Innermost(u, "MutexReverseGuard")' = Innermost(u, "MutexReverseGuard")
  BY <1>2 DEF Innermost
<1>6. \A u \in Thread : Innermost(u, "MutexGuard") => HoldsMutex(guards[u])
  <2>1. SUFFICES ASSUME NEW u \in Thread, Innermost(u, "MutexGuard") PROVE HoldsMutex(guards[u])
    OBVIOUS
  <2>2. guards[u] \in Seq(Guard) /\ guards[u] # <<>> /\ is(guards[u][Len(guards[u])], "MutexGuard")
    BY <2>1 DEF Innermost, IInv, Typed
  <2>3. Len(guards[u]) \in Nat \ {0}
    BY <2>2
  <2> QED BY <2>2, <2>3 DEF HoldsMutex, is
<1>7. CASE \E g \in Kind[t] : Construct(t, g)
  <2>1. PICK g \in Kind[t] : Construct(t, g)
    BY <1>7
  <2>2. g \in Guard /\ MayBeAt(guards[t], Len(guards[t]) + 1, g)
    BY <2>1, ContractMay DEF Construct, IInv
  <2> QED BY <1>2, <1>4, <1>5, <2>1, <2>2
       DEF Construct, held, Running, ConstructionsMay, WaitsAreGuarded, MutexFollows, Away
<1>8. CASE ConstructFails(t)
  <2>1. owner' = owner
    BY <1>8, FailsAlone DEF held
  <2> QED BY <1>2, <1>4, <1>5, <1>8, <2>1
       DEF ConstructFails, ConstructionsMay, WaitsAreGuarded, MutexFollows, Away
<1>9. CASE DestroyReverse(t)
  BY <1>2, <1>4, <1>5, <1>9
     DEF DestroyReverse, held, Running, ConstructionsMay, WaitsAreGuarded, MutexFollows, Away
<1>10. CASE (\E to \in Byte : Seek(t, to)) \/ Add(t)
  BY <1>2, <1>4, <1>5, <1>10
     DEF Seek, Add, held, ConstructionsMay, WaitsAreGuarded, MutexFollows, Away
<1>11. CASE Fetch(t)
  BY <1>2, <1>4, <1>5, <1>11
     DEF Fetch, Inside, Running, held, ConstructionsMay, WaitsAreGuarded, MutexFollows, Away
<1>12. CASE \E how \in {"waits", "waits timed"} : Wait(t, how)
  <2>1. PICK how \in {"waits", "waits timed"} : Wait(t, how)
    BY <1>12
  <2>2. Innermost(t, "MutexGuard") /\ owner = t
    BY <1>4, <1>6, <2>1 DEF Wait, Inside, WaitsAreGuarded, MutexFollows, Away
  <2> QED BY <1>2, <1>4, <1>5, <2>1, <2>2
       DEF Wait, ConstructionsMay, WaitsAreGuarded, MutexFollows, Away
<1>13. CASE Signal(t)
  BY ZenonT(30), <1>2, <1>4, <1>5, <1>13
     DEF Signal, Waiting, held, ConstructionsMay, WaitsAreGuarded, MutexFollows, Away
<1>14. CASE Broadcast(t)
  BY <1>2, <1>4, <1>5, <1>14
     DEF Broadcast, Waiting, held, ConstructionsMay, WaitsAreGuarded, MutexFollows, Away
<1>15. CASE Wakes(t)
  BY <1>2, <1>4, <1>5, <1>15
     DEF Wakes, Waiting, held, ConstructionsMay, WaitsAreGuarded, MutexFollows, Away
<1>16. CASE Reacquire(t)
  <2>1. Innermost(t, "MutexGuard") /\ HoldsMutex(guards[t])
    BY <1>4, <1>6, <1>16 DEF Reacquire, WaitsAreGuarded, Away
  <2> QED BY <1>2, <1>4, <1>5, <1>16, <2>1
       DEF Reacquire, ConstructionsMay, WaitsAreGuarded, MutexFollows, Away
<1>17. CASE GivesUp(t)
  BY <1>2, <1>4, <1>5, <1>17
     DEF GivesUp, held, ConstructionsMay, WaitsAreGuarded, MutexFollows, Away
<1> QED BY <1>7, <1>8, <1>9, <1>10, <1>11, <1>12, <1>13, <1>14, <1>15, <1>16, <1>17
     DEF StayStep, ConditionStep

\* Steps that leave the stacks alone keep the invariant.
LEMMA StayKeeps ==
    ASSUME IInv, NEW t \in Thread, StayStep(t), "recursion" \notin Careless
    PROVE  IInv'
<1>1. StayPut
  BY StaysPut
<1>2. UNCHANGED <<rw, locks, guards, covers, program>>
  BY <1>1 DEF StayPut, stack
<1>3. Typed'
  BY <1>1, <1>2 DEF StayPut, IInv, Typed, TypeOK, Doing
<1>4. Runs' /\ StacksAreOrdered' /\ RWLockFollows' /\ GrantsExclude' /\ FileFollows'
  BY <1>2 DEF IInv, Runs, StacksAreOrdered, RWLockFollows, GrantsExclude, FileFollows
<1>5. BytesAreKnown'
  <2>1. SUFFICES ASSUME "offset" \notin Careless PROVE BytesAreKnown'
    BY DEF BytesAreKnown
  <2>2. \A u \in Thread : \A i \in 1 .. Len(guards[u]) : guards[u][i].type \in OnFile =>
            Region(u, guards[u][i].m_lock)' = Region(u, guards[u][i].m_lock)
    BY <1>1, <2>1 DEF StayPut
  <2>3. ASSUME NEW u \in Thread
        PROVE  /\ \A i \in 1 .. Len(guards'[u]) : guards'[u][i].type \in OnFile =>
                     covers'[u][i] = Region(u, guards[u][i].m_lock)'
               /\ \A b \in Byte : locks'[u][b] # "UNLOCK" =>
                     \E i \in 1 .. Len(guards'[u]) :
                         guards'[u][i].type \in OnFile /\ b \in covers'[u][i]
    BY <1>2, <2>1, <2>2 DEF IInv, BytesAreKnown
  <2> QED BY <2>3 DEF BytesAreKnown
<1> QED BY <1>3, <1>4, <1>5, StackFitsStep DEF IInv

-----------------------------------------------------------------------------
(* Theorems *)

\* The invariant holds in all behaviours of clients that lock no mutex twice
\* (the guards of Mutex, RWLock and FileLock, and Condition).
THEOREM Invariance == "recursion" \notin Careless => (Spec => []IInv)
<1> SUFFICES ASSUME "recursion" \notin Careless PROVE Spec => []IInv
  OBVIOUS
<1> USE LocksAssumption
<1>1. Init => IInv
  <2>1. SUFFICES ASSUME Init PROVE IInv
    OBVIOUS
  <2>2. \A t \in Thread : /\ guards[t] = <<>> /\ covers[t] = <<>> /\ rw[t] = "UNLOCK"
                          /\ pc[t] = "runs" /\ \A b \in Byte : locks[t][b] = "UNLOCK"
    BY <2>1 DEF Init
  <2>3. /\ guards \in [Thread -> Seq(Guard)] /\ covers \in [Thread -> Seq(SUBSET Byte)]
        /\ \A t \in Thread : Len(guards[t]) = 0 /\ Len(covers[t]) = 0
    BY <2>1 DEF Init
  <2>4. 0 \in Byte
    BY DEF Byte
  <2>5. TypeOK
    BY <2>1, <2>2, <2>3, <2>4 DEF Init, TypeOK
  <2> QED
    BY <2>1, <2>2, <2>3, <2>5
       DEF Init, IInv, Typed, Runs, StacksAreOrdered, Ordered, ConstructionsMay, WaitsAreGuarded,
           Away, MutexFollows, HoldsMutex, RWLockFollows, GrantsExclude, FileFollows, BytesAreKnown
<1>2. IInv /\ [Next]_vars => IInv'
  <2>1. SUFFICES ASSUME IInv, [Next]_vars PROVE IInv'
    OBVIOUS
  <2>2. CASE UNCHANGED vars
    <3>1. Typed'
      BY <2>1, <2>2 DEF vars, IInv, Typed, TypeOK
    <3>2. /\ Runs' /\ StacksAreOrdered' /\ ConstructionsMay' /\ WaitsAreGuarded' /\ MutexFollows'
          /\ RWLockFollows' /\ GrantsExclude' /\ FileFollows'
      BY <2>1, <2>2
         DEF vars, IInv, Runs, StacksAreOrdered, ConstructionsMay, WaitsAreGuarded, Innermost,
             MutexFollows, RWLockFollows, GrantsExclude, FileFollows
    <3>3. BytesAreKnown'
      BY <2>1, <2>2 DEF vars, IInv, BytesAreKnown, Region
    <3> QED BY <3>1, <3>2, <3>3 DEF IInv
  <2>3. ASSUME NEW t \in Thread, GuardStep(t) \/ ConditionStep(t) PROVE IInv'
    <3>1. \/ Constructed(t) \/ Reverse(t) \/ \E g \in Kind[t] : SetOFDLock(t, g)
          \/ Destroy(t) \/ Relocked(t)
          \/ StayStep(t)
      BY <2>3 DEF GuardStep, StayStep
    <3>2. CASE Constructed(t) \/ Reverse(t) \/ \E g \in Kind[t] : SetOFDLock(t, g)
      BY <2>1, <3>2, PushesAreSteps, PushKeeps
    <3>3. CASE Destroy(t) \/ Relocked(t)
      BY <2>1, <3>3, PopsAreSteps, PopKeeps
    <3>4. CASE StayStep(t)
      BY <2>1, <3>4, StayKeeps
    <3> QED BY <3>1, <3>2, <3>3, <3>4
  <2> QED BY <2>1, <2>2, <2>3 DEF Next
<1> QED BY <1>1, <1>2, PTL DEF Spec

\* A guard in force is one of the mutex that the thread owns, or one of the
\* read-write lock or of the file, which the thread has (InForce).
LEMMA ForceIsHeld ==
    ASSUME IInv, NEW t \in Thread, NEW i \in InForce(t)
    PROVE  /\ i \in 1 .. Len(guards[t])
           /\ SubjectOf(guards[t][i]) = "mutex" => owner = t
           /\ SubjectOf(guards[t][i]) = "rwlock" =>
                 guards[t][i].type \in OnRWLock /\ rw[t] = Needs(guards[t][i])
           /\ SubjectOf(guards[t][i]) = "file" =>
                 /\ guards[t][i].type \in OnFile
                 /\ \A b \in covers[t][i] : locks[t][b] = Needs(guards[t][i])
           /\ Needs(guards[t][i]) # "UNLOCK"
<1>1. guards[t] \in Seq(Guard) /\ i \in 1 .. Len(guards[t]) /\ guards[t][i] \in Guard
  <2>1. guards[t] \in Seq(Guard)
    BY DEF IInv, Typed
  <2>2. i \in DOMAIN guards[t]
    BY DEF InForce
  <2> QED BY <2>1, <2>2
<1>2. ~is(guards[t][i], "MutexReverseGuard") /\ InEffect(t, i)
  BY DEF InForce
<1>3. ASSUME SubjectOf(guards[t][i]) = "mutex" PROVE owner = t
  <2>1. is(guards[t][i], "MutexGuard")
    BY <1>1, <1>2, <1>3 DEF SubjectOf, is
  <2>2. HoldsMutex(guards[t])
    BY <1>1, <1>2, <2>1 DEF InEffect, HoldsMutex, is
  <2>3. pc[t] \notin Away
    BY <2>1 DEF InForce, Away
  <2> QED BY <2>2, <2>3 DEF IInv, MutexFollows
<1>4. ASSUME SubjectOf(guards[t][i]) = "rwlock"
      PROVE  guards[t][i].type \in OnRWLock /\ rw[t] = Needs(guards[t][i])
  <2>1. guards[t][i].type \in OnRWLock /\ guards[t][i].type \notin OnFile
    BY <1>1, <1>4 DEF SubjectOf, is, Guard, Plain, OnFile, OnRWLock
  <2> QED BY <1>1, <2>1 DEF IInv, RWLockFollows, Needs
<1>5. ASSUME SubjectOf(guards[t][i]) = "file"
      PROVE  /\ guards[t][i].type \in OnFile
             /\ \A b \in covers[t][i] : locks[t][b] = Needs(guards[t][i])
  <2>1. guards[t][i].type \in OnFile
    BY <1>5 DEF SubjectOf
  <2> QED BY <1>1, <2>1 DEF IInv, FileFollows, Needs
<1>6. Needs(guards[t][i]) # "UNLOCK"
  BY <1>1 DEF Needs, RWType, Guard, Plain, OnFile, FileLock
<1> QED BY <1>1, <1>3, <1>4, <1>5, <1>6

\* Guards keep threads apart (MutexGuard, MutexReverseGuard, ReadLockGuard,
\* WriteLockGuard, FileLockGuard and Condition), if no thread locks a mutex
\* twice, also when clients move the offset of a file that they have locked.
THEOREM GuardsKeepThreadsApart == "recursion" \notin Careless => (Spec => []GuardsExclude)
<1> SUFFICES ASSUME "recursion" \notin Careless PROVE Spec => []GuardsExclude
  OBVIOUS
<1>1. IInv => GuardsExclude
  <2>1. SUFFICES ASSUME IInv,
                        NEW t \in Thread, NEW u \in Thread, t # u,
                        NEW i \in InForce(t), NEW j \in InForce(u),
                        SubjectOf(guards[t][i]) = SubjectOf(guards[u][j])
                 PROVE  \/ /\ SubjectOf(guards[t][i]) # "mutex"
                           /\ Compatible(Needs(guards[t][i]), Needs(guards[u][j]))
                        \/ SubjectOf(guards[t][i]) = "file"
                           /\ covers[t][i] \intersect covers[u][j] = {}
    BY DEF GuardsExclude, IInv, Typed
  <2>2. CASE SubjectOf(guards[t][i]) = "mutex"
    BY <2>1, <2>2, ForceIsHeld
  <2>3. CASE SubjectOf(guards[t][i]) = "rwlock"
    <3>1. rw[t] = Needs(guards[t][i]) /\ rw[u] = Needs(guards[u][j]) /\ rw[t] # "UNLOCK"
      BY ZenonT(30), <2>1, <2>3, ForceIsHeld
    <3>2. Compatible(rw[t], rw[u])
      BY <2>1, <3>1 DEF IInv, GrantsExclude
    <3> QED BY <2>3, <3>1, <3>2
  <2>4. CASE SubjectOf(guards[t][i]) = "file"
    <3>1. SUFFICES ASSUME NEW b \in covers[t][i] \intersect covers[u][j]
                   PROVE  Compatible(Needs(guards[t][i]), Needs(guards[u][j]))
      BY <2>4
    <3>2. /\ locks[t][b] = Needs(guards[t][i]) /\ locks[u][b] = Needs(guards[u][j])
          /\ locks[t][b] # "UNLOCK"
      BY ZenonT(30), <2>1, <2>4, <3>1, ForceIsHeld
    <3>3. b \in Byte
      <4>1. i \in 1 .. Len(guards[t]) /\ covers[t] \in Seq(SUBSET Byte)
        BY ForceIsHeld, <2>1 DEF IInv, Typed
      <4>2. Len(covers[t]) = Len(guards[t])
        BY <2>1 DEF IInv, Typed, TypeOK
      <4> QED BY <3>1, <4>1, <4>2
    <3>4. Compatible(locks[t][b], locks[u][b])
      BY <2>1, <3>2, <3>3 DEF IInv, GrantsExclude
    <3> QED BY <3>2, <3>4
  <2> QED BY <2>2, <2>3, <2>4 DEF SubjectOf
<1>2. Spec => []IInv
  BY Invariance
<1> QED BY <1>1, <1>2, PTL

\* What a thread has locked is what its guards locked (the constructors and
\* destructors of all guards), if clients keep the whole contract.
THEOREM GuardsAccountForLocks == Careless = {} => (Spec => []LocksAreGuarded)
<1> SUFFICES ASSUME Careless = {} PROVE Spec => []LocksAreGuarded
  OBVIOUS
<1>1. IInv => LocksAreGuarded
  <2>1. SUFFICES ASSUME IInv, NEW t \in Thread
                 PROVE  LET mine(subject) == {i \in InForce(t) : SubjectOf(guards[t][i]) = subject}
                        IN  /\ owner = t <=> mine("mutex") # {}
                            /\ rw[t] # "UNLOCK" <=> mine("rwlock") # {}
                            /\ {b \in Byte : locks[t][b] # "UNLOCK"}
                                  = UNION {covers[t][i] : i \in mine("file")}
    BY DEF LocksAreGuarded
  <2> DEFINE mine(subject) == {i \in InForce(t) : SubjectOf(guards[t][i]) = subject}
  <2>2. guards[t] \in Seq(Guard) /\ covers[t] \in Seq(SUBSET Byte) /\ Len(covers[t]) = Len(guards[t])
    BY <2>1 DEF IInv, Typed, TypeOK
  <2>3. ASSUME owner = t PROVE mine("mutex") # {}
    <3>1. HoldsMutex(guards[t]) /\ pc[t] \notin Away
      BY <2>1, <2>3 DEF IInv, MutexFollows
    <3>2. PICK i \in 1 .. Len(guards[t]) :
             /\ is(guards[t][i], "MutexGuard")
             /\ \A j \in i .. Len(guards[t]) : ~is(guards[t][j], "MutexReverseGuard")
      BY <3>1 DEF HoldsMutex
    <3>3. i \in InForce(t) /\ SubjectOf(guards[t][i]) = "mutex"
      <4>1. i \in DOMAIN guards[t] /\ guards[t][i].type = "MutexGuard"
        BY <2>2, <3>2 DEF is
      <4>2. SubjectOf(guards[t][i]) = "mutex" /\ ~is(guards[t][i], "MutexReverseGuard")
        BY <4>1 DEF SubjectOf, is, OnFile
      <4>3. InEffect(t, i) /\ pc[t] \notin {"waits", "waits timed", "wakes"}
        BY <3>1, <3>2 DEF InEffect, Away
      <4> QED BY <4>1, <4>2, <4>3 DEF InForce
    <3> QED BY <3>3
  <2>4. ASSUME NEW i \in 1 .. Len(guards[t]), guards[t][i].type \in OnRWLock \union OnFile
        PROVE  /\ i \in InForce(t)
               /\ guards[t][i].type \in OnRWLock => SubjectOf(guards[t][i]) = "rwlock"
               /\ guards[t][i].type \in OnFile => SubjectOf(guards[t][i]) = "file"
    <3>1. i \in DOMAIN guards[t]
      BY <2>2
    <3>2. ~is(guards[t][i], "MutexReverseGuard") /\ ~is(guards[t][i], "MutexGuard") /\ InEffect(t, i)
      BY <2>4 DEF InEffect, is, OnRWLock, OnFile
    <3>3. i \in InForce(t)
      BY <3>1, <3>2 DEF InForce
    <3> QED BY <3>3, <2>4 DEF SubjectOf, is, OnRWLock, OnFile
  <2>5. ASSUME rw[t] # "UNLOCK" PROVE mine("rwlock") # {}
    <3>1. PICK i \in 1 .. Len(guards[t]) : guards[t][i].type \in OnRWLock
      BY <2>1, <2>5 DEF IInv, RWLockFollows
    <3> QED BY <2>4, <3>1
  <2>6. ASSUME NEW b \in Byte, locks[t][b] # "UNLOCK"
        PROVE  \E i \in mine("file") : b \in covers[t][i]
    <3>1. PICK i \in 1 .. Len(guards[t]) : guards[t][i].type \in OnFile /\ b \in covers[t][i]
      BY <2>1, <2>6 DEF IInv, BytesAreKnown
    <3> QED BY <2>4, <3>1
  <2>7. ASSUME NEW i \in mine("file"), NEW b \in covers[t][i]
        PROVE  b \in Byte /\ locks[t][b] # "UNLOCK"
    <3>1. i \in 1 .. Len(covers[t])
      BY <2>1, <2>2, <2>7, ForceIsHeld
    <3>2. b \in Byte
      BY <2>2, <2>7, <3>1
    <3> QED BY <2>1, <2>7, <3>2, ForceIsHeld
  <2>8. mine("mutex") # {} => owner = t
    BY <2>1, ForceIsHeld
  <2>9. mine("rwlock") # {} => rw[t] # "UNLOCK"
    <3>1. SUFFICES ASSUME NEW i \in mine("rwlock") PROVE rw[t] # "UNLOCK"
      OBVIOUS
    <3>2. rw[t] = Needs(guards[t][i]) /\ Needs(guards[t][i]) # "UNLOCK"
      BY <2>1, ForceIsHeld
    <3> QED BY <3>2
  <2> HIDE DEF mine
  <2>10. {b \in Byte : locks[t][b] # "UNLOCK"} = UNION {covers[t][i] : i \in mine("file")}
    BY <2>6, <2>7
  <2> QED BY <2>3, <2>5, <2>8, <2>9, <2>10 DEF mine
<1>2. Spec => []IInv
  <2>1. "recursion" \notin Careless
    OBVIOUS
  <2> QED BY <2>1, Invariance
<1> QED BY <1>1, <1>2, PTL

-----------------------------------------------------------------------------
(* Wakeups: what threads owe, and who has been woken up *)

ShopTyped ==
    /\ pc \in [Thread -> Doing]
    /\ work \in Nat
    /\ owed \in [Thread -> 0 .. MaxWork]

\* Both sets are finite, as there are finitely many threads.
LEMMA NoticeIsFinite ==
    /\ IsFiniteSet(Owed) /\ Cardinality(Owed) \in Nat
    /\ IsFiniteSet(Woken) /\ Cardinality(Woken) \in Nat
<1>1. IsFiniteSet(Thread) /\ IsFiniteSet(1 .. MaxWork)
  BY LocksAssumption, FS_Interval
<1>2. IsFiniteSet(Thread \X (1 .. MaxWork))
  BY <1>1, FS_Product
<1>3. Owed \subseteq Thread \X (1 .. MaxWork) /\ Woken \subseteq Thread
  BY DEF Owed, Woken
<1>4. IsFiniteSet(Owed) /\ IsFiniteSet(Woken)
  BY <1>1, <1>2, <1>3, FS_Subset
<1> QED BY <1>4, FS_CardinalityType

\* A thread owes one more signal (Add).
LEMMA OneMoreOwed ==
    ASSUME ShopTyped, NEW t \in Thread, owed[t] < MaxWork, owed' = [owed EXCEPT ![t] = @ + 1]
    PROVE  Cardinality(Owed') = Cardinality(Owed) + 1
<1> DEFINE new == <<t, owed[t] + 1>>
<1>1. owed[t] \in Nat /\ owed[t] + 1 \in 1 .. MaxWork
  BY LocksAssumption DEF ShopTyped
<1>2. new \in Thread \X (1 .. MaxWork) /\ new \notin Owed
  BY <1>1 DEF Owed
<1>3. ASSUME NEW s \in Thread \X (1 .. MaxWork)
      PROVE  s[2] <= owed'[s[1]] <=> s[2] <= owed[s[1]] \/ s = new
  <2>1. s[1] \in Thread /\ s[2] \in 1 .. MaxWork /\ s = <<s[1], s[2]>>
    OBVIOUS
  <2>2. CASE s[1] = t
    <3>1. owed'[s[1]] = owed[t] + 1
      BY <2>2 DEF ShopTyped
    <3>2. s[2] <= owed[t] + 1 <=> s[2] <= owed[t] \/ s[2] = owed[t] + 1
      BY <1>1, <2>1
    <3>3. s = new <=> s[2] = owed[t] + 1
      BY <2>1, <2>2
    <3> QED BY <2>2, <3>1, <3>2, <3>3
  <2>3. CASE s[1] # t
    <3>1. owed'[s[1]] = owed[s[1]]
      BY <2>1, <2>3 DEF ShopTyped
    <3>2. s # new
      BY <2>3
    <3> QED BY <3>1, <3>2
  <2> QED BY <2>2, <2>3
<1> HIDE DEF new
<1>4. Owed' = Owed \union {new}
  BY <1>2, <1>3 DEF Owed
<1> QED BY <1>2, <1>4, NoticeIsFinite, FS_AddElement

\* A thread has sent one signal.
LEMMA OneLessOwed ==
    ASSUME ShopTyped, NEW t \in Thread, owed[t] > 0, owed' = [owed EXCEPT ![t] = @ - 1]
    PROVE  Cardinality(Owed') = Cardinality(Owed) - 1
<1> DEFINE old == <<t, owed[t]>>
<1>1. owed[t] \in 1 .. MaxWork
  BY LocksAssumption DEF ShopTyped
<1>2. old \in Thread \X (1 .. MaxWork) /\ old \in Owed
  BY <1>1 DEF Owed
<1>3. ASSUME NEW s \in Thread \X (1 .. MaxWork)
      PROVE  s[2] <= owed'[s[1]] <=> s[2] <= owed[s[1]] /\ s # old
  <2>1. s[1] \in Thread /\ s[2] \in 1 .. MaxWork /\ s = <<s[1], s[2]>>
    OBVIOUS
  <2>2. CASE s[1] = t
    <3>1. owed'[s[1]] = owed[t] - 1
      BY <2>2 DEF ShopTyped
    <3>2. s[2] <= owed[t] - 1 <=> s[2] <= owed[t] /\ s[2] # owed[t]
      BY <1>1, <2>1
    <3>3. s = old <=> s[2] = owed[t]
      BY <2>1, <2>2
    <3> QED BY <2>2, <3>1, <3>2, <3>3
  <2>3. CASE s[1] # t
    <3>1. owed'[s[1]] = owed[s[1]]
      BY <2>1, <2>3 DEF ShopTyped
    <3>2. s # old
      BY <2>3
    <3> QED BY <3>1, <3>2
  <2> QED BY <2>2, <2>3
<1> HIDE DEF old
<1>4. Owed' = Owed \ {old}
  BY <1>2, <1>3 DEF Owed
<1> QED BY <1>2, <1>4, NoticeIsFinite, FS_RemoveElement

\* A thread goes elsewhere.
LEMMA WokenStep ==
    ASSUME ShopTyped, NEW t \in Thread, NEW where \in Doing, pc' = [pc EXCEPT ![t] = where]
    PROVE  /\ where \in {"wakes", "checks"} /\ pc[t] \notin {"wakes", "checks"} =>
                Cardinality(Woken') = Cardinality(Woken) + 1
           /\ where \notin {"wakes", "checks"} /\ pc[t] \in {"wakes", "checks"} =>
                Cardinality(Woken') = Cardinality(Woken) - 1
           /\ (where \in {"wakes", "checks"} <=> pc[t] \in {"wakes", "checks"}) => Woken' = Woken
<1>1. pc'[t] = where /\ \A u \in Thread \ {t} : pc'[u] = pc[u]
  BY DEF ShopTyped
<1>2. \A u : u \in Woken' <=> u \in Thread /\ pc'[u] \in {"wakes", "checks"}
  BY DEF Woken
<1>3. \A u : u \in Woken <=> u \in Thread /\ pc[u] \in {"wakes", "checks"}
  BY DEF Woken
<1>4. CASE where \in {"wakes", "checks"} /\ pc[t] \notin {"wakes", "checks"}
  <2>1. Woken' = Woken \union {t} /\ t \notin Woken
    BY <1>1, <1>2, <1>3, <1>4
  <2> QED BY <1>4, <2>1, NoticeIsFinite, FS_AddElement
<1>5. CASE where \notin {"wakes", "checks"} /\ pc[t] \in {"wakes", "checks"}
  <2>1. Woken' = Woken \ {t} /\ t \in Woken
    BY <1>1, <1>2, <1>3, <1>5
  <2> QED BY <1>5, <2>1, NoticeIsFinite, FS_RemoveElement
<1>6. CASE where \in {"wakes", "checks"} <=> pc[t] \in {"wakes", "checks"}
  <2>1. Woken' = Woken
    BY <1>1, <1>2, <1>3, <1>6
  <2> QED BY <1>6, <2>1
<1> QED BY <1>4, <1>5, <1>6

\* Guards come and go without any of this.
LEMMA GuardsAreApart ==
    ASSUME ShopTyped, NEW t \in Thread, GuardStep(t)
    PROVE  ShopTyped' /\ UNCHANGED <<work, owed>> /\ Woken' = Woken /\ Waiting' = Waiting
<1> DEFINE Ours == {"runs", "locks", "relocks"}
<1>1. UNCHANGED <<work, owed>>
      /\ (UNCHANGED pc \/ \E where \in Ours : pc[t] \in Ours /\ pc' = [pc EXCEPT ![t] = where])
  BY DEF GuardStep, Construct, SetOFDLock, Constructed, ConstructFails, Reverse, Destroy, DestroyReverse,
         Relocked, Seek, Running, shop
<1>2. CASE UNCHANGED pc
  BY <1>1, <1>2 DEF ShopTyped, Woken, Waiting
<1>3. ASSUME NEW where \in Ours, pc[t] \in Ours, pc' = [pc EXCEPT ![t] = where]
      PROVE  ShopTyped' /\ Woken' = Woken /\ Waiting' = Waiting
  <2>1. pc' \in [Thread -> Doing] /\ pc'[t] = where /\ \A u \in Thread \ {t} : pc'[u] = pc[u]
    BY <1>3 DEF ShopTyped, Doing
  <2>2. ShopTyped'
    BY <1>1, <2>1 DEF ShopTyped
  <2>3. Woken' = Woken /\ Waiting' = Waiting
    BY <1>3, <2>1 DEF Woken, Waiting
  <2> QED BY <2>2, <2>3
<1> QED BY <1>1, <1>2, <1>3

\* No wakeup is lost, whatever a client does (Condition::wait(), waitTimed(),
\* signal(), broadcast()).
THEOREM NoWakeupIsLost == Spec => []WorkIsNoticed
<1> DEFINE Inv == ShopTyped /\ WorkIsNoticed
<1>1. Init => Inv
  <2> SUFFICES ASSUME Init PROVE Inv
    OBVIOUS
  <2>1. ShopTyped
    BY LocksAssumption DEF Init, ShopTyped, Doing
  <2>2. Waiting = {}
    BY DEF Init, Waiting
  <2> QED BY <2>1, <2>2 DEF WorkIsNoticed
<1>2. Inv /\ [Next]_vars => Inv'
  <2> SUFFICES ASSUME ShopTyped, WorkIsNoticed, [Next]_vars
               PROVE  ShopTyped' /\ WorkIsNoticed'
    OBVIOUS
  <2>1. /\ Cardinality(Owed) \in Nat /\ Cardinality(Woken) \in Nat /\ work \in Nat
        /\ Waiting # {} => work <= Cardinality(Owed) + Cardinality(Woken)
    BY NoticeIsFinite DEF WorkIsNoticed, ShopTyped
  <2>2. /\ Cardinality(Owed') \in Nat /\ Cardinality(Woken') \in Nat
        /\ 0 <= Cardinality(Owed') + Cardinality(Woken')
    <3>1. Owed' \subseteq Thread \X (1 .. MaxWork) /\ Woken' \subseteq Thread
      BY DEF Owed, Woken
    <3>2. IsFiniteSet(Thread) /\ IsFiniteSet(1 .. MaxWork)
      BY LocksAssumption, FS_Interval
    <3>3. IsFiniteSet(Thread \X (1 .. MaxWork))
      BY <3>2, FS_Product
    <3>4. IsFiniteSet(Owed') /\ IsFiniteSet(Woken')
      BY <3>1, <3>2, <3>3, FS_Subset
    <3>5. Cardinality(Owed') \in Nat /\ Cardinality(Woken') \in Nat
      BY <3>4, FS_CardinalityType
    <3> QED BY <3>5
  <2>3. CASE UNCHANGED vars
    <3>1. UNCHANGED <<pc, work, owed>>
      BY <2>3 DEF vars
    <3> QED BY <3>1 DEF ShopTyped, WorkIsNoticed, Waiting, Owed, Woken
  <2>4. ASSUME NEW t \in Thread, GuardStep(t)
        PROVE  ShopTyped' /\ WorkIsNoticed'
    <3>1. ShopTyped' /\ UNCHANGED <<work, owed>> /\ Woken' = Woken /\ Waiting' = Waiting
      BY <2>4, GuardsAreApart
    <3>2. Owed' = Owed
      BY <3>1 DEF Owed
    <3> QED BY <2>1, <3>1, <3>2 DEF WorkIsNoticed
  <2>5. ASSUME NEW t \in Thread, Add(t)
        PROVE  ShopTyped' /\ WorkIsNoticed'
    <3>1. work' = work + 1 /\ owed[t] < MaxWork /\ owed' = [owed EXCEPT ![t] = @ + 1] /\ pc' = pc
      BY <2>5 DEF Add
    <3>2. Cardinality(Owed') = Cardinality(Owed) + 1
      BY <3>1, OneMoreOwed
    <3>3. Woken' = Woken /\ Waiting' = Waiting
      BY <3>1 DEF Woken, Waiting
    <3>4. owed[t] + 1 \in 0 .. MaxWork
      BY <3>1, LocksAssumption DEF ShopTyped
    <3>5. ShopTyped'
      BY <3>1, <3>4 DEF ShopTyped
    <3>6. Waiting' # {} => work' <= Cardinality(Owed') + Cardinality(Woken')
      BY <2>1, <3>1, <3>2, <3>3
    <3> QED BY <3>5, <3>6 DEF WorkIsNoticed
  \* Steps to another place that leave what is owed alone.
  <2>6. ASSUME NEW t \in Thread, NEW where \in Doing, pc' = [pc EXCEPT ![t] = where], UNCHANGED owed
        PROVE  /\ Owed' = Owed
               /\ work' \in Nat => ShopTyped'
               /\ where \notin {"waits", "waits timed"} /\ Waiting' # {} => Waiting # {}
    <3>1. pc' \in [Thread -> Doing] /\ pc'[t] = where /\ \A u \in Thread \ {t} : pc'[u] = pc[u]
      BY <2>6 DEF ShopTyped
    <3>2. where \notin {"waits", "waits timed"} => Waiting' \subseteq Waiting
      BY <3>1 DEF Waiting
    <3>3. work' \in Nat => ShopTyped'
      BY <2>6, <3>1 DEF ShopTyped
    <3> QED BY <2>6, <3>2, <3>3 DEF Owed
  <2>7. ASSUME NEW t \in Thread, Fetch(t)
        PROVE  ShopTyped' /\ WorkIsNoticed'
    <3>1. work > 0 /\ work' = work - 1 /\ pc' = [pc EXCEPT ![t] = "runs"] /\ UNCHANGED owed /\ "runs" \in Doing
      BY <2>7 DEF Fetch, Doing
    <3>0. work' \in Nat
      BY <2>1, <3>1
    <3>2. Owed' = Owed /\ ShopTyped' /\ (Waiting' # {} => Waiting # {})
      BY <2>6, <3>0, <3>1
    <3>3. Cardinality(Woken') = Cardinality(Woken) - 1 \/ Woken' = Woken
      BY <3>1, WokenStep
    <3>4. Waiting' # {} => work' <= Cardinality(Owed') + Cardinality(Woken')
      BY <2>1, <2>2, <3>1, <3>2, <3>3
    <3> QED BY <3>2, <3>4 DEF WorkIsNoticed
  <2>8. ASSUME NEW t \in Thread, NEW how \in {"waits", "waits timed"}, Wait(t, how)
        PROVE  ShopTyped' /\ WorkIsNoticed'
    <3>1. work' = 0 /\ pc' = [pc EXCEPT ![t] = how] /\ UNCHANGED owed /\ how \in Doing
      BY <2>8 DEF Wait, shop, Doing
    <3>2. ShopTyped'
      BY <2>6, <3>1
    <3>3. work' <= Cardinality(Owed') + Cardinality(Woken')
      BY <2>2, <3>1
    <3> QED BY <3>2, <3>3 DEF WorkIsNoticed
  <2>9. ASSUME NEW t \in Thread, Signal(t)
        PROVE  ShopTyped' /\ WorkIsNoticed'
    <3>1. owed[t] > 0 /\ owed' = [owed EXCEPT ![t] = @ - 1] /\ work' = work
      BY <2>9 DEF Signal
    <3>2. Cardinality(Owed') = Cardinality(Owed) - 1 /\ owed' \in [Thread -> 0 .. MaxWork]
      <4>1. owed[t] - 1 \in 0 .. MaxWork
        BY <3>1, LocksAssumption DEF ShopTyped
      <4> QED BY <3>1, <4>1, OneLessOwed DEF ShopTyped
    <3>3. CASE Waiting = {} /\ UNCHANGED pc
      <4>1. ShopTyped' /\ Waiting' = {}
        BY <2>1, <3>1, <3>2, <3>3 DEF ShopTyped, Waiting
      <4> QED BY <4>1 DEF WorkIsNoticed
    <3>4. ASSUME NEW u \in Waiting, pc' = [pc EXCEPT ![u] = "wakes"]
          PROVE  ShopTyped' /\ WorkIsNoticed'
      <4>1. u \in Thread /\ pc[u] \notin {"wakes", "checks"} /\ "wakes" \in Doing
        BY DEF Waiting, Doing
      <4>2. Cardinality(Woken') = Cardinality(Woken) + 1
        BY <3>4, <4>1, WokenStep
      <4>3. ShopTyped'
        BY <3>1, <3>2, <3>4, <4>1 DEF ShopTyped
      <4>4. work' <= Cardinality(Owed') + Cardinality(Woken')
        BY <2>1, <3>1, <3>2, <4>2
      <4> QED BY <4>3, <4>4 DEF WorkIsNoticed
    <3> QED BY <2>9, <3>3, <3>4 DEF Signal
  <2>10. ASSUME NEW t \in Thread, Broadcast(t)
         PROVE  ShopTyped' /\ WorkIsNoticed'
    <3>1. /\ pc' = [u \in Thread |-> IF u \in Waiting THEN "wakes" ELSE pc[u]]
          /\ owed' = [owed EXCEPT ![t] = 0] /\ work' = work
      BY <2>10 DEF Broadcast
    <3>2. pc' \in [Thread -> Doing] /\ owed' \in [Thread -> 0 .. MaxWork]
      <4>1. 0 \in 0 .. MaxWork
        BY LocksAssumption
      <4>2. owed' \in [Thread -> 0 .. MaxWork]
        BY <3>1, <4>1 DEF ShopTyped
      <4>3. "wakes" \in Doing
        BY DEF Doing
      <4> QED BY <3>1, <4>2, <4>3 DEF ShopTyped
    <3>3. Waiting' = {}
      BY <3>1 DEF Waiting
    <3> QED BY <2>1, <3>1, <3>2, <3>3 DEF ShopTyped, WorkIsNoticed
  <2>11. ASSUME NEW t \in Thread, Wakes(t)
         PROVE  ShopTyped' /\ WorkIsNoticed'
    <3>1. /\ pc' = [pc EXCEPT ![t] = "wakes"] /\ UNCHANGED <<work, owed>> /\ "wakes" \in Doing
          /\ pc[t] \notin {"wakes", "checks"}
      BY <2>11 DEF Wakes, shop, Doing, Waiting
    <3>2. Owed' = Owed /\ ShopTyped' /\ (Waiting' # {} => Waiting # {})
      BY <2>1, <2>6, <3>1
    <3>3. Cardinality(Woken') = Cardinality(Woken) + 1
      BY <3>1, WokenStep
    <3>4. Waiting' # {} => work' <= Cardinality(Owed') + Cardinality(Woken')
      BY <2>1, <3>1, <3>2, <3>3
    <3> QED BY <3>2, <3>4 DEF WorkIsNoticed
  <2>12. ASSUME NEW t \in Thread, Reacquire(t)
         PROVE  ShopTyped' /\ WorkIsNoticed'
    <3>1. /\ pc' = [pc EXCEPT ![t] = "checks"] /\ UNCHANGED <<work, owed>> /\ "checks" \in Doing
          /\ pc[t] \in {"wakes", "checks"}
      BY <2>12 DEF Reacquire, shop, Doing
    <3>2. Owed' = Owed /\ ShopTyped' /\ (Waiting' # {} => Waiting # {})
      BY <2>1, <2>6, <3>1
    <3>3. Woken' = Woken
      BY <3>1, WokenStep
    <3> QED BY <2>1, <3>1, <3>2, <3>3 DEF WorkIsNoticed
  <2>13. ASSUME NEW t \in Thread, GivesUp(t)
         PROVE  ShopTyped' /\ WorkIsNoticed'
    <3>1. work' = 0 /\ pc' = [pc EXCEPT ![t] = "runs"] /\ UNCHANGED owed /\ "runs" \in Doing
      BY <2>13 DEF GivesUp, shop, Doing
    <3>2. ShopTyped'
      BY <2>6, <3>1
    <3>3. work' <= Cardinality(Owed') + Cardinality(Woken')
      BY <2>2, <3>1
    <3> QED BY <3>2, <3>3 DEF WorkIsNoticed
  <2> QED BY <2>3, <2>4, <2>5, <2>7, <2>8, <2>9, <2>10, <2>11, <2>12, <2>13 DEF Next, ConditionStep
<1> QED BY <1>1, <1>2, PTL DEF Spec

============================================================================
