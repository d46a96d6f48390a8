------------------------------- MODULE Locks -------------------------------
(***************************************************************************)
(* The locks of the library and the guards that hold them: Mutex with      *)
(* MutexGuard, MutexReverseGuard and Condition, RWLock with ReadLockGuard  *)
(* and WriteLockGuard, and the open file description locks of FileLock     *)
(* with FileLockGuard and FileDescriptor::setOFDLock().                    *)
(*                                                                         *)
(* Every thread keeps its guards on a stack.  The threads share one mutex  *)
(* with a condition, one read-write lock, and one file, which each of them *)
(* opened for itself.  What the mutex protects is a supply of items of     *)
(* work that the threads add to, take from, and wait for.                  *)
(***************************************************************************)
EXTENDS Integers, Sequences, FiniteSets

CONSTANTS
    Thread,
    NoThread,
    LastByte,   \* the file has the bytes 0 .. LastByte
    Kind,       \* the guards that each thread constructs
    MaxGuards,  \* bound: the guards of a thread
    MaxWork,    \* bound: the items of work, and the signals owed by a thread
    Careless    \* breaches of the client contract: "recursion", "offset"

Byte == 0 .. LastByte
FileLock == [type : {"READ_LOCK", "WRITE_LOCK"}, whence : {"SET", "CUR"}]

\* The guards.  "OFDLock" is a lock that the client places with setOFDLock()
\* and releases itself.
OnFile == {"FileLockGuard", "OFDLock"}
Plain == {"MutexGuard", "MutexReverseGuard", "ReadLockGuard", "WriteLockGuard"}
Guard == [type : Plain] \union [type : OnFile, m_lock : FileLock]

\* No guard.
Nothing == [type |-> "none"]

ASSUME LocksAssumption ==
    /\ IsFiniteSet(Thread) /\ NoThread \notin Thread
    /\ LastByte \in Nat /\ MaxGuards \in Nat /\ MaxWork \in Nat
    /\ Kind \in [Thread -> SUBSET Guard]
    /\ Careless \subseteq {"recursion", "offset"}

VARIABLES
    owner,    \* the thread that has locked the mutex
    rw,       \* what each thread has of the read-write lock
    locks,    \* the locks on each byte that each thread's open file has
    offset,   \* the offset of each open file
    guards,   \* the guards of each thread, the innermost last
    covers,   \* history: the bytes that each of these guards locked
    pc,       \* what each thread is doing
    want,     \* the guard a thread is constructing
    work,     \* the items of work
    owed,     \* the signals that threads still have to send for new items
    program   \* "runs", or "aborted" by an exception in a destructor

held == <<owner, rw, locks>>
stack == <<guards, covers>>
shop == <<work, owed>>
vars == <<owner, rw, locks, offset, guards, covers, pc, want, work, owed, program>>

-----------------------------------------------------------------------------
(* Locks *)

Init ==
    /\ owner = NoThread
    /\ rw = [t \in Thread |-> "UNLOCK"]
    /\ locks = [t \in Thread |-> [b \in Byte |-> "UNLOCK"]]
    /\ offset = [t \in Thread |-> 0]
    /\ guards = [t \in Thread |-> <<>>]
    /\ covers = [t \in Thread |-> <<>>]
    /\ pc = [t \in Thread |-> "runs"]
    /\ want = [t \in Thread |-> Nothing]
    /\ work = 0
    /\ owed = [t \in Thread |-> 0]
    /\ program = "runs"

is(g, type) == g.type = type

\* The bytes of a lock of length zero: to the end of the file, from its start
\* or from the current offset of the open file.
Region(t, lock) == {b \in Byte : lock.whence = "CUR" => b >= offset[t]}

\* Locks of one file, or of the read-write lock, that may be held together.
Compatible(mine, other) == other = "UNLOCK" \/ {mine, other} = {"READ_LOCK"}

FileFree(t, lock) ==
    \A u \in Thread \ {t}, b \in Region(t, lock) : Compatible(lock.type, locks[u][b])

RWType(g) == IF is(g, "ReadLockGuard") THEN "READ_LOCK" ELSE "WRITE_LOCK"

\* The lock that a guard takes in its constructor can be had.
Free(t, g) ==
    IF g.type \in OnFile THEN FileFree(t, g.m_lock)
    ELSE IF g.type \in {"MutexGuard", "MutexReverseGuard"} THEN owner = NoThread
    ELSE \A u \in Thread : Compatible(RWType(g), rw[u])

SetBytes(t, bytes, type) ==
    locks' = [locks EXCEPT ![t] = [b \in Byte |-> IF b \in bytes THEN type ELSE @[b]]]

\* Mutant: WriteLockGuard locks for reading.
Take_Reads(t, g) ==
    IF g.type \in OnFile
    THEN SetBytes(t, Region(t, g.m_lock), g.m_lock.type) /\ UNCHANGED <<owner, rw>>
    ELSE IF is(g, "MutexGuard")
    THEN owner' = t /\ UNCHANGED <<rw, locks>>
    ELSE rw' = [rw EXCEPT ![t] = "READ_LOCK"] /\ UNCHANGED <<owner, locks>>

\* What lock(), readlock(), writelock() and setOFDLockWait() do when they succeed.
Take(t, g) ==
    IF g.type \in OnFile
    THEN SetBytes(t, Region(t, g.m_lock), g.m_lock.type) /\ UNCHANGED <<owner, rw>>
    ELSE IF is(g, "MutexGuard")
    THEN owner' = t /\ UNCHANGED <<rw, locks>>
    ELSE rw' = [rw EXCEPT ![t] = RWType(g)] /\ UNCHANGED <<owner, locks>>

\* The cleaner of a guard.  Unlocking a mutex of somebody else is an error of
\* the error checking kind of mutex, and an exception in a destructor.
Release(t, g) ==
    /\ IF g.type \in OnFile
       THEN SetBytes(t, Region(t, g.m_lock), "UNLOCK") /\ UNCHANGED <<owner, rw>>
       ELSE IF is(g, "MutexGuard")
       THEN owner' = (IF owner = t THEN NoThread ELSE owner) /\ UNCHANGED <<rw, locks>>
       ELSE rw' = [rw EXCEPT ![t] = "UNLOCK"] /\ UNCHANGED <<owner, locks>>
    /\ program' = IF is(g, "MutexGuard") /\ owner # t THEN "aborted" ELSE program

-----------------------------------------------------------------------------
(* Client contract *)

SubjectOf(g) ==
    IF g.type \in OnFile THEN "file"
    ELSE IF g.type \in {"MutexGuard", "MutexReverseGuard"} THEN "mutex" ELSE "rwlock"

\* A guard of the mutex is in effect unless a MutexReverseGuard came later.
InEffect(t, i) ==
    is(guards[t][i], "MutexReverseGuard")
        \/ (is(guards[t][i], "MutexGuard")
            => \A j \in i .. Len(guards[t]) : ~is(guards[t][j], "MutexReverseGuard"))

\* What a thread has locked, by its guards.
Locked(t) == {SubjectOf(guards[t][i]) :
    i \in {k \in DOMAIN guards[t] :
              InEffect(t, k) /\ ~is(guards[t][k], "MutexReverseGuard")}}

Innermost(t, type) ==
    guards[t] # <<>> /\ is(guards[t][Len(guards[t])], type)

\* All threads lock the mutex before the read-write lock, and this before the
\* file, and nothing twice; the mutex is unlocked for a while only by those
\* who have locked nothing after it.
Before(subject) ==
    IF subject = "mutex" THEN {}
    ELSE IF subject = "rwlock" THEN {"mutex"} ELSE {"mutex", "rwlock"}

MayConstruct(t, g) ==
    IF is(g, "MutexReverseGuard") THEN Innermost(t, "MutexGuard")
    ELSE Locked(t) \subseteq
             Before(SubjectOf(g)) \union {s \in {"mutex"} : "recursion" \in Careless}

-----------------------------------------------------------------------------
(* Guards *)

Running(t) == program = "runs" /\ pc[t] = "runs"

\* A constructor runs up to the lock: ResourceGuard is complete by then.
Construct(t, g) ==
    /\ Running(t) /\ Len(guards[t]) < MaxGuards
    /\ g.type \notin {"MutexReverseGuard", "OFDLock"} /\ MayConstruct(t, g)
    /\ pc' = [pc EXCEPT ![t] = "locks"]
    /\ want' = [want EXCEPT ![t] = g]
    /\ UNCHANGED <<held, offset, stack, shop, program>>

Push(t, g, bytes) ==
    /\ guards' = [guards EXCEPT ![t] = Append(@, g)]
    /\ covers' = [covers EXCEPT ![t] = Append(@, bytes)]

Bytes(t, g) == IF g.type \in OnFile THEN Region(t, g.m_lock) ELSE {}

Constructed(t) ==
    /\ program = "runs" /\ pc[t] = "locks" /\ Free(t, want[t])
    /\ Take(t, want[t])
    /\ Push(t, want[t], Bytes(t, want[t]))
    /\ pc' = [pc EXCEPT ![t] = "runs"]
    /\ want' = [want EXCEPT ![t] = Nothing]
    /\ UNCHANGED <<offset, shop, program>>

\* The lock cannot be had: a signal interrupts setOFDLockWait(), or the mutex
\* is the thread's own, and of the error checking kind.  FileLockGuard is no
\* ResourceGuard, but that of a mutex runs its cleaner all the same.
ConstructFails(t) ==
    /\ program = "runs" /\ pc[t] = "locks"
    /\ SubjectOf(want[t]) \in {"file"} \union ({"mutex"} \intersect Locked(t))
    /\ IF is(want[t], "FileLockGuard")
       THEN UNCHANGED <<held, program>>
       ELSE Release(t, want[t])
    /\ pc' = [pc EXCEPT ![t] = "runs"]
    /\ want' = [want EXCEPT ![t] = Nothing]
    /\ UNCHANGED <<offset, stack, shop>>

Reverse(t) ==
    /\ Running(t) /\ Len(guards[t]) < MaxGuards
    /\ [type |-> "MutexReverseGuard"] \in Kind[t]
    /\ MayConstruct(t, [type |-> "MutexReverseGuard"])
    /\ owner = t /\ owner' = NoThread
    /\ Push(t, [type |-> "MutexReverseGuard"], {})
    /\ UNCHANGED <<rw, locks, offset, pc, want, shop, program>>

\* setOFDLock() returns FALSE, and changes nothing, when the lock is taken.
SetOFDLock(t, g) ==
    /\ Running(t) /\ Len(guards[t]) < MaxGuards
    /\ is(g, "OFDLock") /\ MayConstruct(t, g) /\ FileFree(t, g.m_lock)
    /\ Take(t, g)
    /\ Push(t, g, Bytes(t, g))
    /\ UNCHANGED <<offset, pc, want, shop, program>>

ButLast(seq) == SubSeq(seq, 1, Len(seq) - 1)

Pop(t) ==
    /\ guards' = [guards EXCEPT ![t] = ButLast(@)]
    /\ covers' = [covers EXCEPT ![t] = ButLast(@)]

\* The destructor of the innermost guard, other than a MutexReverseGuard.
Destroy(t) ==
    /\ Running(t) /\ guards[t] # <<>> /\ ~Innermost(t, "MutexReverseGuard")
    /\ Release(t, guards[t][Len(guards[t])])
    /\ Pop(t)
    /\ UNCHANGED <<offset, pc, want, shop>>

\* The destructor of a MutexReverseGuard waits for the mutex.
DestroyReverse(t) ==
    /\ Running(t) /\ Innermost(t, "MutexReverseGuard")
    /\ pc' = [pc EXCEPT ![t] = "relocks"]
    /\ UNCHANGED <<held, offset, stack, want, shop, program>>

\* Mutant: the cleaner of MutexReverseGuard unlocks, too.
Relocked_Not(t) ==
    /\ program = "runs" /\ pc[t] = "relocks" /\ owner = NoThread
    /\ Pop(t)
    /\ pc' = [pc EXCEPT ![t] = "runs"]
    /\ UNCHANGED <<held, offset, want, shop, program>>

Relocked(t) ==
    /\ program = "runs" /\ pc[t] = "relocks" /\ owner = NoThread
    /\ owner' = t
    /\ Pop(t)
    /\ pc' = [pc EXCEPT ![t] = "runs"]
    /\ UNCHANGED <<rw, locks, offset, want, shop, program>>

\* Reading or seeking moves the offset of the thread's open file.  A careful
\* client does not do it while a lock counts from the offset.
Seek(t, to) ==
    /\ Running(t) /\ to # offset[t]
    /\ \A i \in DOMAIN guards[t] :
          guards[t][i].type \in OnFile /\ guards[t][i].m_lock.whence = "CUR"
              => "offset" \in Careless
    /\ offset' = [offset EXCEPT ![t] = to]
    /\ UNCHANGED <<held, stack, pc, want, shop, program>>

-----------------------------------------------------------------------------
(* Condition *)

Inside(t) == Running(t) /\ Innermost(t, "MutexGuard") /\ owner = t

\* New work; the signal for it may be sent before or after unlocking.
Add(t) ==
    /\ Inside(t) /\ work < MaxWork /\ owed[t] < MaxWork
    /\ work' = work + 1
    /\ owed' = [owed EXCEPT ![t] = @ + 1]
    /\ UNCHANGED <<held, offset, stack, pc, want, program>>

\* A thread takes an item, also when it has just come back from a wait.
Fetch(t) ==
    /\ Inside(t) \/ pc[t] = "checks"
    /\ work > 0
    /\ work' = work - 1
    /\ pc' = [pc EXCEPT ![t] = "runs"]
    /\ UNCHANGED <<held, offset, stack, want, owed, program>>

Waiting == {t \in Thread : pc[t] \in {"waits", "waits timed"}}

\* wait() and waitTimed() unlock the mutex and enqueue the thread in one step.
Wait(t, how) ==
    /\ Inside(t) \/ pc[t] = "checks"
    /\ work = 0
    /\ owner' = NoThread
    /\ pc' = [pc EXCEPT ![t] = how]
    /\ UNCHANGED <<rw, locks, offset, stack, want, shop, program>>

\* A signal goes to one of the waiting threads, if there are any.
Signal(t) ==
    /\ Running(t) /\ owed[t] > 0
    /\ IF Waiting = {} THEN UNCHANGED pc
       ELSE \E u \in Waiting : pc' = [pc EXCEPT ![u] = "wakes"]
    /\ owed' = [owed EXCEPT ![t] = @ - 1]
    /\ UNCHANGED <<held, offset, stack, want, work, program>>

\* Mutant: broadcast() calls pthread_cond_signal().
Broadcast_One(t) ==
    /\ Running(t) /\ owed[t] > 0
    /\ IF Waiting = {} THEN UNCHANGED pc
       ELSE \E u \in Waiting : pc' = [pc EXCEPT ![u] = "wakes"]
    /\ owed' = [owed EXCEPT ![t] = 0]
    /\ UNCHANGED <<held, offset, stack, want, work, program>>

Broadcast(t) ==
    /\ Running(t) /\ owed[t] > 0
    /\ pc' = [u \in Thread |-> IF u \in Waiting THEN "wakes" ELSE pc[u]]
    /\ owed' = [owed EXCEPT ![t] = 0]
    /\ UNCHANGED <<held, offset, stack, want, work, program>>

\* A spurious wakeup, or the time is over.
Wakes(t) ==
    /\ program = "runs" /\ t \in Waiting
    /\ pc' = [pc EXCEPT ![t] = "wakes"]
    /\ UNCHANGED <<held, offset, stack, want, shop, program>>

\* Both kinds of wait return with the mutex locked.
Reacquire(t) ==
    /\ program = "runs" /\ pc[t] = "wakes" /\ owner = NoThread
    /\ owner' = t
    /\ pc' = [pc EXCEPT ![t] = "checks"]
    /\ UNCHANGED <<rw, locks, offset, stack, want, shop, program>>

\* The client finds no work and does not wait again.
GivesUp(t) ==
    /\ program = "runs" /\ pc[t] = "checks" /\ work = 0
    /\ pc' = [pc EXCEPT ![t] = "runs"]
    /\ UNCHANGED <<held, offset, stack, want, shop, program>>

-----------------------------------------------------------------------------
GuardStep(t) ==
    \/ \E g \in Kind[t] : Construct(t, g) \/ SetOFDLock(t, g)
    \/ Constructed(t) \/ ConstructFails(t)
    \/ Reverse(t) \/ Destroy(t) \/ DestroyReverse(t) \/ Relocked(t)
    \/ \E to \in Byte : Seek(t, to)

ConditionStep(t) ==
    \/ Add(t) \/ Fetch(t)
    \/ \E how \in {"waits", "waits timed"} : Wait(t, how)
    \/ Signal(t) \/ Broadcast(t) \/ Wakes(t) \/ Reacquire(t) \/ GivesUp(t)

Next == \E t \in Thread : GuardStep(t) \/ ConditionStep(t)

Spec == Init /\ [][Next]_vars

-----------------------------------------------------------------------------
(* Properties *)

\* Every variable keeps its type.
TypeOK ==
    /\ owner \in Thread \union {NoThread}
    /\ rw \in [Thread -> {"UNLOCK", "READ_LOCK", "WRITE_LOCK"}]
    /\ locks \in [Thread -> [Byte -> {"UNLOCK", "READ_LOCK", "WRITE_LOCK"}]]
    /\ offset \in [Thread -> Byte]
    /\ \A t \in Thread :
          /\ Len(guards[t]) \in 0 .. MaxGuards /\ Len(covers[t]) = Len(guards[t])
          /\ \A i \in DOMAIN guards[t] :
                guards[t][i] \in Guard /\ covers[t][i] \subseteq Byte
    /\ pc \in [Thread -> {"runs", "locks", "relocks", "waits", "waits timed",
                          "wakes", "checks"}]
    /\ want \in [Thread -> Guard \union {Nothing}]
    /\ work \in 0 .. MaxWork
    /\ owed \in [Thread -> 0 .. MaxWork]
    /\ program \in {"runs", "aborted"}

\* The locks that guards stand for: those that are in effect, other than a
\* mutex that its thread has given away in a wait.
InForce(t) == {i \in DOMAIN guards[t] :
    /\ ~is(guards[t][i], "MutexReverseGuard") /\ InEffect(t, i)
    /\ is(guards[t][i], "MutexGuard")
           => pc[t] \notin {"waits", "waits timed", "wakes"}}

Needs(g) == IF g.type \in OnFile THEN g.m_lock.type ELSE RWType(g)

\* Guards keep threads apart.  While a guard of one thread is in force there
\* is none of another thread that excludes it: of the mutex, of the read-write
\* lock unless both read, and of a byte of the file unless both read, whatever
\* nested reverse guards, waits, time-outs and failing constructors came
\* before (MutexGuard, MutexReverseGuard, ReadLockGuard, WriteLockGuard,
\* FileLockGuard, Condition::wait()).  All variables keep their types.
GuardsExclude ==
    /\ TypeOK
    /\ \A t, u \in Thread : t # u =>
          \A i \in InForce(t), j \in InForce(u) :
              SubjectOf(guards[t][i]) = SubjectOf(guards[u][j]) =>
                  \/ /\ SubjectOf(guards[t][i]) # "mutex"
                     /\ Compatible(Needs(guards[t][i]), Needs(guards[u][j]))
                  \/ SubjectOf(guards[t][i]) = "file"
                     /\ covers[t][i] \intersect covers[u][j] = {}

\* What a thread has locked is what its guards locked, at any time: nothing
\* stays locked behind a guard that is gone, and nothing is unlocked behind
\* the back of one that lives, for the bytes that a guard of a file locked in
\* its constructor, too (the pairs of constructor and destructor of all guards).
LocksAreGuarded ==
    \A t \in Thread :
        LET mine(subject) == {i \in InForce(t) : SubjectOf(guards[t][i]) = subject} IN
        /\ owner = t <=> mine("mutex") # {}
        /\ rw[t] # "UNLOCK" <=> mine("rwlock") # {}
        /\ {b \in Byte : locks[t][b] # "UNLOCK"} = UNION {covers[t][i] : i \in mine("file")}

\* The signals that threads owe.
Owed == {s \in Thread \X (1 .. MaxWork) : s[2] <= owed[s[1]]}

\* Those that are back from their wait and have not looked yet.
Woken == {t \in Thread : pc[t] \in {"wakes", "checks"}}

\* No wakeup is lost.  While a thread waits on the condition, every item of
\* work there is has somebody who will notice it: a thread that still owes the
\* signal for it, or one that is back from its wait and has not looked yet.
\* One signal() for each new item is enough, or one broadcast() for all of
\* them, before or after the mutex is unlocked (wait(), waitTimed(), signal(),
\* broadcast()).
WorkIsNoticed ==
    Waiting # {} =>
        work <= Cardinality(Owed) + Cardinality(Woken)
=============================================================================
