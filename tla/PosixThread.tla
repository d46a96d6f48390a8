---------------------------- MODULE PosixThread ----------------------------
(***************************************************************************)
(* cosmos::PosixThread: move-only handles for threads, on top of           *)
(* pthread_t values, which the C library gives to a new thread once the    *)
(* one that had them was joined, or was detached and ended.                *)
(*                                                                         *)
(* An object is used by one thread at a time.  The operations that change  *)
(* nothing are not written down: join() of an empty object or by the       *)
(* thread itself, tryJoin() and joinTimed() of a thread that goes on, and  *)
(* the errors of pthread_join() and pthread_detach().                      *)
(***************************************************************************)
EXTENDS Integers, FiniteSets

CONSTANTS
    Obj,           \* the PosixThread variables of the program
    Thread,        \* the threads asked for: bounds the number of constructions
    Id,            \* the pthread_t values that the C library recycles
    Junk,          \* what the storage of an optional holds that never had a value
    NoThread,      \* "no thread"
    CreationFails, \* pthread_create() may fail with EAGAIN
    MovesEmpty     \* clients move from empty objects, too

ASSUME PosixThreadAssumption ==
    /\ IsFiniteSet(Obj)
    /\ Junk \notin Id
    /\ NoThread \notin Thread
    /\ {CreationFails, MovesEmpty} \subseteq BOOLEAN

VARIABLES
    life,          \* C library: life[t] is the state of thread t
    detached,      \* C library: the threads that release themselves
    idOf,          \* C library: the pthread_t of t
    m_pthread,     \* PosixThread::m_pthread: whether it has a value, and its storage
    m_name,        \* PosixThread::m_name: the thread it was made for
    num_threads,   \* the static num_threads
    thread,        \* the thread that the client of o takes it to stand for
    aborted        \* fatal_error() has been called

library == <<life, detached, idOf>>
object == <<m_pthread, m_name>>
threadVars == <<library, object, num_threads, thread, aborted>>

joinable(o) == m_pthread[o].has_value

-----------------------------------------------------------------------------
(* C library *)

\* The threads whose pthread_t may be used: not yet joined, nor released.
Unreleased == {t \in Thread : life[t] \in {"running", "ended"}}

FreeIds == {i \in Id : \A t \in Unreleased : idOf[t] # i}

\* Thread t returns from its entry function or calls pthread::exit().
ThreadEnds(t) ==
    /\ life[t] = "running"
    /\ life' = [life EXCEPT ![t] = IF t \in detached THEN "released" ELSE "ended"]
    /\ UNCHANGED <<detached, idOf, object, num_threads, thread, aborted>>

-----------------------------------------------------------------------------
(* PosixThread *)

Empty == [has_value |-> FALSE, value |-> Junk]

\* std::optional::reset() leaves the storage as it is.
Disengage(m) == [has_value |-> FALSE, value |-> m.value]

\* Mutant: the name is cleared only.
reset_KeepsThread(o) ==
    /\ num_threads' = num_threads - 1
    /\ m_name' = [m_name EXCEPT ![o] = NoThread]
    /\ UNCHANGED m_pthread

\* reset() of a joinable object.
reset(o) ==
    /\ num_threads' = num_threads - 1
    /\ m_pthread' = [m_pthread EXCEPT ![o] = Disengage(@)]
    /\ m_name' = [m_name EXCEPT ![o] = NoThread]

ThreadInit ==
    /\ life = [t \in Thread |-> "unborn"]
    /\ detached = {}
    /\ idOf = [t \in Thread |-> Junk]
    /\ m_pthread = [o \in Obj |-> Empty]
    /\ m_name = [o \in Obj |-> NoThread]
    /\ num_threads = 0
    /\ thread = [o \in Obj |-> NoThread]
    /\ aborted = FALSE

\* The client keeps to the contract: it lets go of an object that stands for
\* no thread, as far as it knows, or that tells it is not joinable().
MayDrop(o) == thread[o] = NoThread \/ ~joinable(o)

\* fatal_error() because an object that is dropped is joinable().
Abort == aborted' = TRUE /\ UNCHANGED <<library, object, num_threads, thread>>

\* "PosixThread o{entry, name}", in the place of an object that is dropped.
Construct(o, t, i) ==
    /\ MayDrop(o) /\ ~joinable(o)
    /\ life[t] = "unborn" /\ i \in FreeIds
    /\ life' = [life EXCEPT ![t] = "running"]
    /\ idOf' = [idOf EXCEPT ![t] = i]
    /\ m_pthread' = [m_pthread EXCEPT ![o] = [has_value |-> TRUE, value |-> i]]
    /\ m_name' = [m_name EXCEPT ![o] = t]
    /\ num_threads' = num_threads + 1
    /\ thread' = [thread EXCEPT ![o] = t]
    /\ UNCHANGED <<detached, aborted>>

\* The same, when pthread_create() fails: the constructor catches the
\* ApiError, disengages m_pthread and returns like one that succeeded.
ConstructFails(o, t) ==
    /\ CreationFails
    /\ MayDrop(o) /\ ~joinable(o)
    /\ life[t] = "unborn"
    /\ life' = [life EXCEPT ![t] = "failed"]
    /\ m_pthread' = [m_pthread EXCEPT ![o] = Empty]
    /\ m_name' = [m_name EXCEPT ![o] = t]
    /\ num_threads' = num_threads + 1
    /\ thread' = [thread EXCEPT ![o] = t]
    /\ UNCHANGED <<detached, idOf, aborted>>

\* ~PosixThread() and PosixThread().
Destroy(o) ==
    /\ MayDrop(o)
    /\ IF joinable(o)
       THEN Abort
       ELSE /\ m_pthread' = [m_pthread EXCEPT ![o] = Empty]
            /\ m_name' = [m_name EXCEPT ![o] = NoThread]
            /\ thread' = [thread EXCEPT ![o] = NoThread]
            /\ UNCHANGED <<library, num_threads, aborted>>

\* "to = std::move(from)", also the move constructor (then to is empty).
\* The operator reads *other.m_pthread and engages to in any case: if other
\* is empty, it reads what is in the storage.
MoveAssign(to, from) ==
    /\ to # from
    /\ MayDrop(to)
    /\ MovesEmpty \/ joinable(from)
    /\ IF joinable(to)
       THEN Abort
       ELSE /\ m_pthread' = [m_pthread EXCEPT
                    ![to] = [has_value |-> TRUE, value |-> m_pthread[from].value],
                    ![from] = Disengage(@)]
            /\ m_name' = [m_name EXCEPT ![to] = m_name[from], ![from] = NoThread]
            /\ thread' = [thread EXCEPT ![to] = thread[from], ![from] = NoThread]
            /\ UNCHANGED <<library, num_threads, aborted>>

\* join(), and tryJoin() and joinTimed() when they return a value:
\* pthread_join() releases the thread with that pthread_t once it ended.
Join(o) ==
    /\ joinable(o)
    /\ \E t \in Unreleased \ detached :
        /\ idOf[t] = m_pthread[o].value
        /\ life[t] = "ended"
        /\ life' = [life EXCEPT ![t] = "released"]
    /\ reset(o)
    /\ thread' = [thread EXCEPT ![o] = NoThread]
    /\ UNCHANGED <<detached, idOf, aborted>>

\* detach(): pthread_detach() releases the thread at once if it ended.
Detach(o) ==
    /\ joinable(o)
    /\ \E t \in Unreleased \ detached :
        /\ idOf[t] = m_pthread[o].value
        /\ detached' = detached \union {t}
        /\ life' = [life EXCEPT ![t] = IF @ = "ended" THEN "released" ELSE @]
    /\ reset(o)
    /\ thread' = [thread EXCEPT ![o] = NoThread]
    /\ UNCHANGED <<idOf, aborted>>

Operation(o) ==
    \/ \E t \in Thread, i \in Id : Construct(o, t, i)
    \/ \E t \in Thread : ConstructFails(o, t)
    \/ Destroy(o)
    \/ \E from \in Obj : MoveAssign(o, from)
    \/ Join(o)
    \/ Detach(o)

ThreadNext ==
    /\ ~aborted
    /\ \/ \E o \in Obj : Operation(o)
       \/ \E t \in Thread : ThreadEnds(t)

ThreadSpec == ThreadInit /\ [][ThreadNext]_threadVars

-----------------------------------------------------------------------------
(* Properties *)

Storage == [has_value : BOOLEAN, value : Id \union {Junk}]

ThreadTypeOK ==
    /\ life \in [Thread -> {"unborn", "failed", "running", "ended", "released"}]
    /\ detached \subseteq Thread
    /\ idOf \in [Thread -> Id \union {Junk}]
    /\ m_pthread \in [Obj -> Storage]
    /\ m_name \in [Obj -> Thread \union {NoThread}]
    /\ num_threads \in Int
    /\ thread \in [Obj -> Thread \union {NoThread}]
    /\ aborted \in BOOLEAN

\* An object that is joinable() holds the pthread_t of the thread its client
\* takes it to stand for, and that thread was neither joined nor detached:
\* join() and detach() never get a recycled or a stale pthread_t, and the
\* destructor does not call fatal_error() on a client that joined.
JoinableHasThread ==
    \A o \in Obj :
        joinable(o) =>
            /\ thread[o] \in Unreleased \ detached
            /\ idOf[thread[o]] = m_pthread[o].value

\* Every thread that has to be joined is held by exactly one object: none is
\* lost by a move, a detach() or a destructor, and none can be joined twice.
JoinableHeldOnce ==
    \A t \in Unreleased \ detached :
        \E o \in Obj :
            \A p \in Obj : (joinable(p) /\ m_pthread[p].value = idOf[t]) <=> p = o

\* num_threads is a size_t that reset() decrements: it never falls below the
\* number of joinable objects, so it does not wrap when they are joined.
NumThreadsNeverWraps == num_threads >= Cardinality({o \in Obj : joinable(o)})

=============================================================================
