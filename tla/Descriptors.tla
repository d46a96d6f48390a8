---------------------------- MODULE Descriptors ----------------------------
(***************************************************************************)
(* The types that own open files: FDFile with File, MemFile, SecretFile    *)
(* and the sockets, Directory, DirStream, Pipe and TempFile, and the plain *)
(* FileDescriptor, which owns nothing.  The kernel hands out the lowest    *)
(* free number, so that a number that was closed too often, too early or   *)
(* by the wrong object soon is the number of another file.                 *)
(***************************************************************************)
EXTENDS Integers, FiniteSets

CONSTANTS
    Num,    \* the numbers of the process's table of open files
    Obj,    \* places for objects
    Path,   \* names that make_tempfile() can come up with
    None,   \* FileNum::INVALID, and no path
    Client  \* the program outside of the objects

Class == {"File", "Directory", "DirStream", "Pipe", "TempFile"}

ASSUME DescriptorsAssumption ==
    /\ Num \subseteq Nat /\ IsFiniteSet(Num)
    /\ None \notin Num /\ None \notin Path
    /\ Client \notin Obj

VARIABLES
    open,   \* kernel: the numbers that are open
    files,  \* the temporary files that exist
    obj,    \* the objects
    raw,    \* the numbers the client itself has to close
    lost,   \* history: open numbers that a failed DirStream::open() left behind
    left,   \* history: temporary files whose removal failed
    actor   \* history: the object whose function ran last

kernel == <<open, files>>
history == <<lost, left>>
vars == <<open, files, obj, raw, lost, left, actor>>

-----------------------------------------------------------------------------
(* Objects.  m_auto_close is TRUE for the types that have no such member.  *)

\* An object that holds nothing.  m_fd is the read end of a Pipe, too.
Closed(class) == [class |-> class, m_fd |-> None, m_write_end |-> None,
                  m_auto_close |-> TRUE, m_tmp_path |-> None]

\* The place is not in use.
Absent == Closed("none")

ObjType == [class : Class \union {"none"}, m_fd : Num \union {None},
            m_write_end : Num \union {None}, m_auto_close : BOOLEAN,
            m_tmp_path : Path \union {None}]

is(o, class) == obj[o].class = class

Holds(o) == {obj[o].m_fd, obj[o].m_write_end} \ {None}

\* What close() and the destructor hand to ::close().
Owned(o) == IF obj[o].m_auto_close THEN Holds(o) ELSE {}

\* A careful client uses functions that forget what the object had only
\* when it has nothing to lose.
Spent(o) == Owned(o) = {} /\ obj[o].m_tmp_path = None

\* The number that the kernel gives a new file when those in kept are open;
\* none if the table is full.
Fresh(kept) == {n \in Num \ kept : \A m \in Num \ kept : n <= m}

-----------------------------------------------------------------------------
(* Functions that all types have *)

Init ==
    /\ open = {}
    /\ files = {}
    /\ obj = [o \in Obj |-> Absent]
    /\ raw = {}
    /\ lost = {}
    /\ left = {}
    /\ actor = Client

\* Default construction.
Construct(o, class) ==
    /\ is(o, "none") /\ class \in Class \ {"Pipe"}
    /\ obj' = [obj EXCEPT ![o] = Closed(class)]
    /\ actor' = o
    /\ UNCHANGED <<kernel, raw, history>>

\* unlinkPath(): the path is forgotten also when the file can't be removed.
Unlink(o, removed) ==
    /\ removed \subseteq {obj[o].m_tmp_path} \intersect files
    /\ files' = files \ removed
    /\ left' = left \union (({obj[o].m_tmp_path} \intersect files) \ removed)

\* Mutant: FileDescriptor::close() keeps the number when ::close() fails.
Close_KeepsNumber(o, failed) ==
    /\ obj[o].class \notin {"none", "Pipe"}
    /\ failed => Owned(o) # {}
    /\ open' = open \ Owned(o)
    /\ obj' = [obj EXCEPT ![o] = IF failed THEN obj[o] ELSE Closed(obj[o].class)]
    /\ \E removed \in SUBSET files : Unlink(o, removed)
    /\ actor' = o
    /\ UNCHANGED <<raw, lost>>

\* Mutant: close() does not look at m_auto_close.
Close_Always(o, failed) ==
    /\ obj[o].class \notin {"none", "Pipe"}
    /\ failed => Owned(o) # {}
    /\ open' = open \ Holds(o)
    /\ obj' = [obj EXCEPT ![o] = Closed(obj[o].class)]
    /\ \E removed \in SUBSET files : Unlink(o, removed)
    /\ actor' = o
    /\ UNCHANGED <<raw, lost>>

\* close(): what the object owns is closed, and it holds nothing afterwards,
\* even when ::close() or unlink() fails and an exception is thrown.
Close(o, failed) ==
    /\ obj[o].class \notin {"none", "Pipe"}
    /\ failed => Owned(o) # {}
    /\ open' = open \ Owned(o)
    /\ obj' = [obj EXCEPT ![o] = Closed(obj[o].class)]
    /\ \E removed \in SUBSET files : Unlink(o, removed)
    /\ actor' = o
    /\ UNCHANGED <<raw, lost>>

\* The move constructor, and for TempFile only the assignment.
MovesInto(p, o) ==
    /\ o # p /\ obj[p].class \in Class \ {"DirStream"}
    /\ \/ obj[o].class = obj[p].class
       \/ is(o, "none") /\ ~is(p, "TempFile")

\* o = std::move(p).  What o held before is forgotten.
Move(o, p) ==
    /\ MovesInto(p, o) /\ Spent(o)
    /\ obj' = [obj EXCEPT ![o] = obj[p], ![p] = Closed(obj[p].class)]
    /\ actor' = p
    /\ UNCHANGED <<kernel, raw, history>>

\* The destructor: the errors of close() are swallowed.  Pipe has none to
\* swallow them: see PipeAborts().
Destroy(o) ==
    /\ ~is(o, "none")
    /\ open' = open \ Owned(o)
    /\ obj' = [obj EXCEPT ![o] = Absent]
    /\ \E removed \in SUBSET files : Unlink(o, removed)
    /\ actor' = o
    /\ UNCHANGED <<raw, lost>>

-----------------------------------------------------------------------------
(* Opening by path or by a system call that creates the file *)

\* The kernel opens a file for o in the table that has only the numbers in
\* kept, and o holds the new number; or the call fails and o holds nothing.
Opens(o, class, kept) ==
    \/ \E n \in Fresh(kept) :
          /\ open' = kept \union {n}
          /\ obj' = [obj EXCEPT ![o] = [Closed(class) EXCEPT !.m_fd = n]]
    \/ /\ open' = kept
       /\ obj' = [obj EXCEPT ![o] = Closed(class)]

\* File::open(path), MemFile::create(), SecretFile::create(),
\* TimerFD::create(): close() first, which may fail as well.
FileOpen(o) ==
    /\ is(o, "File")
    /\ Opens(o, "File", open \ Owned(o))
    /\ actor' = o
    /\ UNCHANGED <<files, raw, history>>

\* Directory::open(path) closes nothing, and a wrapper that does not own its
\* number would own it when this fails: the careful client closed it before.
DirectoryOpen(o) ==
    /\ is(o, "Directory") /\ Holds(o) = {}
    /\ Opens(o, "Directory", open)
    /\ actor' = o
    /\ UNCHANGED <<files, raw, history>>

\* DirStream::open(path): the new descriptor is closed if fdopendir() fails.
StreamOpenPath(o) ==
    /\ is(o, "DirStream")
    /\ Opens(o, "DirStream", open \ Owned(o))
    /\ actor' = o
    /\ UNCHANGED <<files, raw, history>>

\* fdopendir() fails and nobody closes the descriptor that was made for it.
StreamLoses(o, kept) ==
    \E n \in Fresh(kept) :
        /\ open' = kept \union {n}
        /\ lost' = lost \union {n}
        /\ obj' = [obj EXCEPT ![o] = Closed("DirStream")]

\* DirStream::open(DirFD) works on a duplicate of the number.
StreamOpenFD(o, n) ==
    /\ is(o, "DirStream") /\ n \in open \ Owned(o)
    /\ \/ Opens(o, "DirStream", open \ Owned(o)) /\ UNCHANGED lost
       \/ StreamLoses(o, open \ Owned(o))
    /\ actor' = o
    /\ UNCHANGED <<files, raw, left>>

\* DirStream::open(DirFD, subpath) does not close first.
StreamOpenAt(o) ==
    /\ is(o, "DirStream") /\ Spent(o)
    /\ \/ Opens(o, "DirStream", open) /\ UNCHANGED lost
       \/ StreamLoses(o, open)
    /\ actor' = o
    /\ UNCHANGED <<files, raw, left>>

\* The random names are not those of files that somebody still knows.
Unused == Path \ (files \union {obj[o].m_tmp_path : o \in Obj})

\* TempFile::open(): the old file is closed and removed first, and if either
\* fails no new one is made.
TempOpen(o) ==
    /\ is(o, "TempFile")
    /\ LET kept == open \ Owned(o)
           old == {obj[o].m_tmp_path} \ {None}
       IN \/ \E path \in Unused, n \in Fresh(kept) :
                /\ old \subseteq files
                /\ files' = (files \ old) \union {path}
                /\ open' = kept \union {n}
                /\ obj' = [obj EXCEPT ![o] = [Closed("TempFile") EXCEPT !.m_fd = n, !.m_tmp_path = path]]
                /\ UNCHANGED left
          \/ /\ \E removed \in SUBSET files : Unlink(o, removed)
             /\ open' = kept
             /\ obj' = [obj EXCEPT ![o] = Closed("TempFile")]
    /\ actor' = o
    /\ UNCHANGED <<raw, lost>>

\* Somebody else removes a temporary file.
OthersRemove(path) ==
    /\ path \in files
    /\ files' = files \ {path}
    /\ left' = left \ {path}
    /\ actor' = Client
    /\ UNCHANGED <<open, obj, raw, lost>>

-----------------------------------------------------------------------------
(* Pipes *)

\* Pipe::Pipe()
PipeCreate(o) ==
    /\ is(o, "none")
    /\ \E n \in Fresh(open) : \E m \in Fresh(open \union {n}) :
          /\ open' = open \union {n, m}
          /\ obj' = [obj EXCEPT ![o] = [Closed("Pipe") EXCEPT !.m_fd = n, !.m_write_end = m]]
    /\ actor' = o
    /\ UNCHANGED <<files, raw, history>>

End == {"m_fd", "m_write_end"}

\* closeReadEnd() and closeWriteEnd()
PipeCloseEnd(o, end) ==
    /\ is(o, "Pipe") /\ obj[o][end] # None
    /\ open' = open \ {obj[o][end]}
    /\ obj' = [obj EXCEPT ![o][end] = None]
    /\ actor' = o
    /\ UNCHANGED <<files, raw, history>>

\* takeReadEndOwnership() and takeWriteEndOwnership()
PipeTakeEnd(o, end) ==
    /\ is(o, "Pipe") /\ obj[o][end] # None
    /\ raw' = raw \union {obj[o][end]}
    /\ obj' = [obj EXCEPT ![o][end] = None]
    /\ actor' = o
    /\ UNCHANGED <<kernel, history>>

\* ::close() fails in ~Pipe(): the exception leaves a destructor and ends the
\* program.  Another run finds its temporary files.
PipeAborts(o) ==
    /\ is(o, "Pipe") /\ Owned(o) # {}
    /\ open' = {}
    /\ obj' = [p \in Obj |-> Absent]
    /\ raw' = {}
    /\ lost' = {}
    /\ left' = files
    /\ actor' = Client
    /\ UNCHANGED files

-----------------------------------------------------------------------------
(* Wrapping, giving up and passing on ownership *)

\* FDFile::open(fd, auto_close) and Directory::open(fd, auto_close).  A
\* careful client passes on what it owns, or lends what is open.
Wrap(o, n, auto_close) ==
    /\ obj[o].class \in {"File", "Directory"} /\ Spent(o)
    /\ n \in (IF auto_close THEN raw ELSE open)
    /\ obj' = [obj EXCEPT ![o] = [Closed(obj[o].class) EXCEPT !.m_fd = n, !.m_auto_close = auto_close]]
    /\ raw' = IF auto_close THEN raw \ {n} ELSE raw
    /\ actor' = Client
    /\ UNCHANGED <<kernel, history>>

\* FDFile::takeOwnership(), which leaves m_auto_close as it is.
TakeOwnership(o) ==
    /\ is(o, "File")
    /\ raw' = raw \union Owned(o)
    /\ obj' = [obj EXCEPT ![o].m_fd = None]
    /\ actor' = o
    /\ UNCHANGED <<kernel, history>>

\* FDFile::releaseOwnership()
ReleaseOwnership(o) ==
    /\ is(o, "File")
    /\ raw' = raw \union Owned(o)
    /\ obj' = [obj EXCEPT ![o].m_auto_close = FALSE]
    /\ actor' = o
    /\ UNCHANGED <<kernel, history>>

\* connect() of a client socket: the connection is a new object that owns the
\* descriptor, so the client must not have released it.
Connect(o, p) ==
    /\ is(o, "File") /\ Owned(o) # {} /\ is(p, "none")
    /\ obj' = [obj EXCEPT ![p] = [Closed("File") EXCEPT !.m_fd = obj[o].m_fd], ![o].m_fd = None]
    /\ actor' = o
    /\ UNCHANGED <<kernel, raw, history>>

\* accept() of a listening socket.
Accept(o, p) ==
    /\ is(o, "File") /\ Holds(o) \intersect open # {} /\ is(p, "none")
    /\ Opens(p, "File", open) /\ open' # open
    /\ actor' = p
    /\ UNCHANGED <<files, raw, history>>

-----------------------------------------------------------------------------
(* FileDescriptor, in the hands of the client *)

\* duplicate(lowest)
Duplicate(n) ==
    /\ n \in open /\ Fresh(open) # {}
    /\ open' = open \union Fresh(open)
    /\ raw' = raw \union Fresh(open)
    /\ actor' = Client
    /\ UNCHANGED <<files, obj, history>>

\* duplicate(new_fd): what was open as m is closed silently.
DuplicateOnto(n, m) ==
    /\ n \in open /\ n # m /\ m \in raw \union (Num \ open)
    /\ open' = open \union {m}
    /\ raw' = raw \union {m}
    /\ actor' = Client
    /\ UNCHANGED <<files, obj, history>>

\* close() of a descriptor that no object owns.
RawClose(n) ==
    /\ n \in raw
    /\ open' = open \ {n}
    /\ raw' = raw \ {n}
    /\ actor' = Client
    /\ UNCHANGED <<files, obj, history>>

-----------------------------------------------------------------------------
ObjectStep(o) ==
    \/ \E class \in Class : Construct(o, class)
    \/ \E failed \in BOOLEAN : Close(o, failed)
    \/ Destroy(o)
    \/ FileOpen(o) \/ DirectoryOpen(o)
    \/ StreamOpenPath(o) \/ StreamOpenAt(o) \/ \E n \in Num : StreamOpenFD(o, n)
    \/ TempOpen(o)
    \/ PipeCreate(o) \/ PipeAborts(o)
    \/ \E end \in End : PipeCloseEnd(o, end) \/ PipeTakeEnd(o, end)
    \/ TakeOwnership(o) \/ ReleaseOwnership(o)
    \/ \E p \in Obj : Move(o, p) \/ Connect(o, p) \/ Accept(o, p)

ClientStep ==
    \/ \E o \in Obj, n \in Num, auto_close \in BOOLEAN : Wrap(o, n, auto_close)
    \/ \E n \in Num : Duplicate(n) \/ RawClose(n)
    \/ \E n, m \in Num : DuplicateOnto(n, m)
    \/ \E path \in Path : OthersRemove(path)

Next == (\E o \in Obj : ObjectStep(o)) \/ ClientStep

Spec == Init /\ [][Next]_vars

-----------------------------------------------------------------------------
(* Properties *)

\* The variables have their types: sets of numbers, of names and of objects
\* as the types of the library keep them.
TypeOK ==
    /\ open \subseteq Num
    /\ files \subseteq Path
    /\ obj \in [Obj -> ObjType]
    /\ raw \subseteq Num
    /\ lost \subseteq Num
    /\ left \subseteq Path
    /\ actor \in Obj \union {Client}

\* Every open number will be closed exactly once, by one object or by the
\* client, and no object is about to close a number that is not open any
\* more, whatever sequence of opening, moving, taking, releasing and failing
\* led here.  Only DirStream::open() leaves descriptors behind.  A temporary
\* file is removed by the one object that has its path, unless removing it
\* failed; and that object has it open.  All variables keep their types.
OwnedOnce ==
    /\ TypeOK
    /\ lost \subseteq open
    /\ \A n \in Num :
          Cardinality({o \in Obj : n \in Owned(o)} \union (IF n \in raw THEN {Client} ELSE {}))
              = IF n \in open \ lost THEN 1 ELSE 0
    /\ \A o \in Obj : is(o, "Pipe") => obj[o].m_fd # obj[o].m_write_end \/ Holds(o) = {}
    /\ \A path \in files \ left : Cardinality({o \in Obj : obj[o].m_tmp_path = path}) = 1
    /\ \A o, p \in Obj : obj[o].m_tmp_path = obj[p].m_tmp_path /\ o # p => obj[o].m_tmp_path = None
    /\ \A o \in Obj : obj[o].m_tmp_path # None <=> is(o, "TempFile") /\ obj[o].m_fd # None

\* Who owns a number.
ownerOf(n) ==
    IF n \notin open THEN "free"
    ELSE IF n \in lost THEN "lost"
    ELSE IF n \in raw THEN Client
    ELSE CHOOSE o \in Obj : n \in Owned(o)

O == INSTANCE Owners WITH Owner <- Obj \union {Client}, Free <- "free", Lost <- "lost",
                          owner <- [n \in Num |-> ownerOf(n)]

\* The types implement Owners: a call closes only what the object or the
\* client it was made on owns, and hands over only that.
ImplementsOwners == O!Spec
=============================================================================
