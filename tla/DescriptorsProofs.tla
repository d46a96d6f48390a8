------------------------- MODULE DescriptorsProofs -------------------------
(***************************************************************************)
(* Theorems about Descriptors, for any number of objects, of file numbers  *)
(* and of temporary names: every open number has exactly one owner, and    *)
(* the types implement the module Owners.                                  *)
(***************************************************************************)
EXTENDS Descriptors, TLAPS, FiniteSetTheorems

(***************************************************************************)
(* The inductive invariant says what OwnedOnce says without counting.      *)
(***************************************************************************)

\* What an object with the members r hands to ::close().
OwnedBy(r) == IF r.m_auto_close THEN {r.m_fd, r.m_write_end} \ {None} ELSE {}

\* What the members of one object have to do with each other.
Sound(r) ==
    /\ r.class = "none" => r = Absent
    /\ r.m_write_end # None => r.class = "Pipe"
    /\ ~r.m_auto_close => r.class \in {"File", "Directory"}
    /\ r.class = "Pipe" => r.m_fd # r.m_write_end \/ r.m_fd = None
    /\ r.m_tmp_path # None <=> r.class = "TempFile" /\ r.m_fd # None

\* Whoever owns a number owns an open one, and nobody else does.
Apart ==
    /\ lost \subseteq open
    /\ raw \subseteq open \ lost
    /\ \A o \in Obj : OwnedBy(obj[o]) \subseteq open \ lost
    /\ \A o \in Obj : OwnedBy(obj[o]) \intersect raw = {}
    /\ \A o, p \in Obj : o # p => OwnedBy(obj[o]) \intersect OwnedBy(obj[p]) = {}

\* Every open number has an owner.
Covered == \A n \in open \ lost : n \in raw \/ \E o \in Obj : n \in OwnedBy(obj[o])

\* No two objects know the same temporary file.
PathsApart ==
    \A o, p \in Obj : obj[o].m_tmp_path = obj[p].m_tmp_path /\ o # p => obj[o].m_tmp_path = None

\* Every temporary file that was not left behind is known to an object.
FilesKnown == \A path \in files \ left : \E o \in Obj : obj[o].m_tmp_path = path

IInv ==
    /\ TypeOK
    /\ \A o \in Obj : Sound(obj[o])
    /\ Apart
    /\ Covered
    /\ PathsApart
    /\ FilesKnown

-----------------------------------------------------------------------------
(* Steps that change one object *)

\* The object o becomes r, o or the client owns what was o's, the client's or
\* free, and nobody else is disturbed.
Handover(o, r) ==
    /\ r \in ObjType /\ Sound(r)
    /\ obj' = [obj EXCEPT ![o] = r]
    /\ open' \subseteq Num /\ files' \subseteq Path /\ raw' \subseteq Num /\ left' \subseteq Path
    /\ \/ actor' = o /\ raw \subseteq raw'
       \/ actor' = Client /\ OwnedBy(obj[o]) = {}
    /\ lost \subseteq lost' /\ lost' \subseteq open'
    /\ OwnedBy(r) \intersect raw' = {}
    /\ OwnedBy(r) \union raw' \subseteq OwnedBy(obj[o]) \union raw \union (Num \ open)
    /\ OwnedBy(r) \union raw' \subseteq open' \ lost'
    /\ (open \ lost) \ (OwnedBy(obj[o]) \union raw) \subseteq open' \ lost'
    /\ open' \ lost' \subseteq ((open \ lost) \ (OwnedBy(obj[o]) \union raw)) \union OwnedBy(r) \union raw'
    /\ \A p \in Obj \ {o} : obj[p].m_tmp_path = r.m_tmp_path => r.m_tmp_path = None
    /\ files' \ left' \subseteq ((files \ left) \ {obj[o].m_tmp_path}) \union {r.m_tmp_path}

\* The two names of what an object owns: close() and the proofs agree.
LEMMA OwnedIsOwnedBy == \A o \in Obj : Owned(o) = OwnedBy(obj[o])
BY DEF Owned, OwnedBy, Holds

\* What a step leaves of the objects that it is not made on.
LEMMA OneChanges ==
    ASSUME TypeOK, NEW o \in Obj, NEW r, obj' = [obj EXCEPT ![o] = r]
    PROVE  obj'[o] = r /\ \A p \in Obj : p # o => obj'[p] = obj[p]
BY DEF TypeOK

\* A handover keeps every number owned once, and every temporary file known.
LEMMA HandoverKeeps ==
    ASSUME IInv, NEW o \in Obj, NEW r, Handover(o, r)
    PROVE  IInv'
<1>1. obj'[o] = r /\ \A p \in Obj : p # o => obj'[p] = obj[p]
  BY OneChanges DEF Handover, IInv
<1>2. TypeOK'
  BY DEF Handover, IInv, TypeOK
<1>3. \A p \in Obj : Sound(obj'[p])
  BY <1>1 DEF Handover, IInv
<1>4. Apart'
  <2>1. /\ lost' \subseteq open'
        /\ raw' \subseteq open' \ lost'
        /\ OwnedBy(r) \subseteq open' \ lost'
        /\ OwnedBy(r) \intersect raw' = {}
    BY DEF Handover
  <2>2. \A p \in Obj : p # o => OwnedBy(obj[p]) \subseteq open' \ lost'
    BY DEF Handover, IInv, Apart
  <2>3. \A p \in Obj : p # o => OwnedBy(obj[p]) \intersect (OwnedBy(r) \union raw') = {}
    BY DEF Handover, IInv, Apart
  <2>4. \A p, q \in Obj : p # q => OwnedBy(obj[p]) \intersect OwnedBy(obj[q]) = {}
    BY DEF IInv, Apart
  <2> QED BY <1>1, <2>1, <2>2, <2>3, <2>4 DEF Apart
<1>5. Covered'
  <2> SUFFICES ASSUME NEW n \in open' \ lost'
               PROVE  n \in raw' \/ \E p \in Obj : n \in OwnedBy(obj'[p])
    BY DEF Covered
  <2>1. CASE n \in OwnedBy(r) \union raw'
    BY <1>1, <2>1
  <2>2. CASE n \in (open \ lost) \ (OwnedBy(obj[o]) \union raw)
    BY <1>1, <2>2 DEF IInv, Covered
  <2> QED BY <2>1, <2>2 DEF Handover
<1>6. PathsApart'
  BY <1>1 DEF Handover, IInv, PathsApart
<1>7. FilesKnown'
  BY <1>1 DEF Handover, IInv, FilesKnown
<1> QED BY <1>2, <1>3, <1>4, <1>5, <1>6, <1>7 DEF IInv

-----------------------------------------------------------------------------
(* The operators that the actions are built from *)

\* An object that holds nothing is sound and owns nothing.
LEMMA ClosedHolds ==
    ASSUME NEW class \in Class \union {"none"}
    PROVE  /\ Closed(class) \in ObjType /\ Sound(Closed(class))
           /\ OwnedBy(Closed(class)) = {}
           /\ Closed(class).class = class /\ Closed(class).m_tmp_path = None
BY DEF Closed, ObjType, Sound, OwnedBy, Absent, Class

\* An object that was just opened owns its number and nothing else.
LEMMA OpenedHolds ==
    ASSUME NEW class \in {"File", "Directory", "DirStream"}, NEW n \in Num,
           NEW r, r = [Closed(class) EXCEPT !.m_fd = n]
    PROVE  /\ r \in ObjType /\ Sound(r) /\ OwnedBy(r) = {n} /\ r.m_tmp_path = None
BY DescriptorsAssumption DEF Closed, ObjType, Sound, OwnedBy, Absent, Class

\* Fresh() finds numbers that are not open.
LEMMA FreshIsFree ==
    ASSUME NEW kept, NEW n \in Fresh(kept)
    PROVE  n \in Num \ kept
BY DEF Fresh

\* unlinkPath() removes the object's file or leaves it behind.
LEMMA UnlinkEffect ==
    ASSUME TypeOK, NEW o \in Obj, NEW removed, Unlink(o, removed)
    PROVE  /\ files' \subseteq Path /\ left' \subseteq Path
           /\ files' \ left' \subseteq (files \ left) \ {obj[o].m_tmp_path}
BY DEF Unlink, TypeOK

\* What the invariant says of one object.
LEMMA ObjectFacts ==
    ASSUME IInv, NEW o \in Obj
    PROVE  /\ obj[o] \in ObjType /\ Sound(obj[o])
           /\ Owned(o) = OwnedBy(obj[o])
           /\ OwnedBy(obj[o]) \subseteq open \ lost
           /\ OwnedBy(obj[o]) \intersect raw = {}
BY OwnedIsOwnedBy DEF IInv, TypeOK, Apart

-----------------------------------------------------------------------------
(* Every function of one object is a handover *)

\* Construction gives the object nothing.
LEMMA ConstructHandover ==
    ASSUME IInv, NEW o \in Obj, NEW class \in Class, Construct(o, class)
    PROVE  Handover(o, Closed(class))
<1>1. OwnedBy(obj[o]) = {} /\ obj[o].m_tmp_path = None
  <2>1. obj[o] = Closed("none")
    BY DEF Construct, is, IInv, Sound, Absent
  <2> QED BY <2>1, ClosedHolds
<1> QED BY <1>1, ClosedHolds DEF Construct, Handover, IInv, TypeOK, Apart, kernel, history

\* close() and the destructor give up everything.
LEMMA CloseHandover ==
    ASSUME IInv, NEW o \in Obj, NEW class \in Class \union {"none"},
           open' = open \ Owned(o),
           obj' = [obj EXCEPT ![o] = Closed(class)],
           \E removed \in SUBSET files : Unlink(o, removed),
           actor' = o,
           UNCHANGED <<raw, lost>>
    PROVE  Handover(o, Closed(class))
<1>1. /\ files' \subseteq Path /\ left' \subseteq Path
      /\ files' \ left' \subseteq (files \ left) \ {obj[o].m_tmp_path}
  BY UnlinkEffect DEF IInv
<1> QED BY <1>1, ClosedHolds, ObjectFacts DEF Handover, IInv, TypeOK, Apart

\* open() replaces what the object had by a new number or by nothing.
LEMMA OpensHandover ==
    ASSUME IInv, NEW o \in Obj, NEW class \in {"File", "Directory", "DirStream"},
           obj[o].m_tmp_path = None,
           NEW kept, kept = open \ OwnedBy(obj[o]),
           Opens(o, class, kept),
           actor' = o,
           UNCHANGED <<files, raw, history>>
    PROVE  \E r : Handover(o, r)
<1>1. class \in Class
  BY DEF Class
<1>2. ASSUME NEW n \in Fresh(kept), open' = kept \union {n},
             obj' = [obj EXCEPT ![o] = [Closed(class) EXCEPT !.m_fd = n]]
      PROVE  Handover(o, [Closed(class) EXCEPT !.m_fd = n])
  <2>1. n \in Num \ kept
    BY <1>2, FreshIsFree
  <2> DEFINE r == [Closed(class) EXCEPT !.m_fd = n]
  <2>2. r \in ObjType /\ Sound(r) /\ OwnedBy(r) = {n} /\ r.m_tmp_path = None
    BY <2>1, OpenedHolds
  <2> HIDE DEF r
  <2>3. obj' = [obj EXCEPT ![o] = r]
    BY <1>2 DEF r
  <2> DEFINE own == OwnedBy(obj[o])
  <2>4. /\ own \subseteq open \ lost /\ own \intersect raw = {}
        /\ lost \subseteq open /\ raw \subseteq open \ lost /\ open \subseteq Num
    BY ObjectFacts DEF IInv, Apart, TypeOK
  <2>5. open' = (open \ own) \union {n} /\ n \in Num \ (open \ own)
    BY <1>2, <2>1
  <2>6. /\ raw' = raw /\ lost' = lost /\ files' = files /\ left' = left
        /\ files \subseteq Path /\ left \subseteq Path
    BY DEF history, IInv, TypeOK
  <2> HIDE DEF own
  <2>7. /\ open' \subseteq Num /\ raw' \subseteq Num /\ lost' \subseteq open'
        /\ {n} \intersect raw' = {}
    BY <2>4, <2>5, <2>6
  <2>8. /\ {n} \union raw' \subseteq own \union raw \union (Num \ open)
        /\ {n} \union raw' \subseteq open' \ lost'
    BY <2>4, <2>5, <2>6
  <2>9. /\ (open \ lost) \ (own \union raw) \subseteq open' \ lost'
        /\ open' \ lost' \subseteq ((open \ lost) \ (own \union raw)) \union {n} \union raw'
    BY <2>4, <2>5, <2>6
  <2>10. /\ \A p \in Obj \ {o} : obj[p].m_tmp_path = r.m_tmp_path => r.m_tmp_path = None
         /\ files' \ left' \subseteq ((files \ left) \ {obj[o].m_tmp_path}) \union {r.m_tmp_path}
    BY <2>2, <2>6
  <2>11. Handover(o, r)
    BY <2>2, <2>3, <2>6, <2>7, <2>8, <2>9, <2>10 DEF own, Handover
  <2> QED BY <2>11 DEF r
<1>3. ASSUME open' = kept, obj' = [obj EXCEPT ![o] = Closed(class)]
      PROVE  Handover(o, Closed(class))
  BY <1>1, <1>3, ClosedHolds, ObjectFacts DEF Handover, IInv, TypeOK, Apart, history
<1> QED BY <1>2, <1>3 DEF Opens

\* DirStream::open() may leave a number behind that nobody owns.
LEMMA StreamLosesHandover ==
    ASSUME IInv, NEW o \in Obj, is(o, "DirStream"),
           NEW kept, kept = open \ OwnedBy(obj[o]),
           StreamLoses(o, kept),
           actor' = o,
           UNCHANGED <<files, raw, left>>
    PROVE  Handover(o, Closed("DirStream"))
<1>1. obj[o].m_tmp_path = None /\ "DirStream" \in Class
  BY ObjectFacts DEF Sound, is, Class
<1>2. PICK n \in Fresh(kept) : /\ open' = kept \union {n}
                               /\ lost' = lost \union {n}
                               /\ obj' = [obj EXCEPT ![o] = Closed("DirStream")]
  BY DEF StreamLoses
<1>3. n \in Num \ kept
  BY FreshIsFree
<1> QED BY <1>1, <1>2, <1>3, ClosedHolds, ObjectFacts DEF Handover, IInv, TypeOK, Apart

\* TempFile::open() removes one temporary file and makes another.
LEMMA TempOpenHandover ==
    ASSUME IInv, NEW o \in Obj, TempOpen(o)
    PROVE  \E r : Handover(o, r)
<1> DEFINE kept == open \ Owned(o)
           old == {obj[o].m_tmp_path} \ {None}
<1>1. ASSUME NEW path \in Unused, NEW n \in Fresh(kept),
             old \subseteq files,
             files' = (files \ old) \union {path},
             open' = kept \union {n},
             obj' = [obj EXCEPT ![o] = [Closed("TempFile") EXCEPT !.m_fd = n, !.m_tmp_path = path]],
             UNCHANGED left
      PROVE  Handover(o, [Closed("TempFile") EXCEPT !.m_fd = n, !.m_tmp_path = path])
  <2> DEFINE r == [Closed("TempFile") EXCEPT !.m_fd = n, !.m_tmp_path = path]
  <2>1. /\ n \in Num \ kept
        /\ path \in Path /\ path # None
        /\ \A p \in Obj : obj[p].m_tmp_path # path
    BY <1>1, FreshIsFree, DescriptorsAssumption DEF Unused
  <2>2. r \in ObjType /\ Sound(r) /\ OwnedBy(r) = {n} /\ r.m_tmp_path = path
    BY <2>1, DescriptorsAssumption DEF Closed, ObjType, Sound, OwnedBy, Absent, Class
  <2>3. obj' = [obj EXCEPT ![o] = r]
    BY <1>1
  <2> HIDE DEF r
  <2>4. files' \ left' \subseteq ((files \ left) \ {obj[o].m_tmp_path}) \union {r.m_tmp_path}
    BY <1>1, <2>2, DescriptorsAssumption DEF IInv, TypeOK
  <2>5. actor' = o /\ raw' = raw /\ lost' = lost
    BY DEF TempOpen
  <2>6. /\ files' \subseteq Path /\ left' \subseteq Path
        /\ \A p \in Obj \ {o} : obj[p].m_tmp_path = r.m_tmp_path => r.m_tmp_path = None
    BY <1>1, <2>1, <2>2 DEF IInv, TypeOK
  <2>7. open' = (open \ OwnedBy(obj[o])) \union {n} /\ n \notin open \ OwnedBy(obj[o])
    BY <1>1, <2>1, ObjectFacts
  <2>8. Handover(o, r)
    BY <2>1, <2>2, <2>3, <2>4, <2>5, <2>6, <2>7, ObjectFacts DEF Handover, IInv, TypeOK, Apart
  <2> QED BY <2>8 DEF r
<1>2. ASSUME \E removed \in SUBSET files : Unlink(o, removed), open' = kept,
             obj' = [obj EXCEPT ![o] = Closed("TempFile")]
      PROVE  Handover(o, Closed("TempFile"))
  BY <1>2, CloseHandover DEF TempOpen, Class
<1> QED BY <1>1, <1>2 DEF TempOpen

\* Pipe::Pipe() owns two new numbers.
LEMMA PipeCreateHandover ==
    ASSUME IInv, NEW o \in Obj, PipeCreate(o)
    PROVE  \E r : Handover(o, r)
<1>1. PICK n \in Fresh(open) : \E m \in Fresh(open \union {n}) :
          /\ open' = open \union {n, m}
          /\ obj' = [obj EXCEPT ![o] = [Closed("Pipe") EXCEPT !.m_fd = n, !.m_write_end = m]]
  BY DEF PipeCreate
<1>2. PICK m \in Fresh(open \union {n}) :
          /\ open' = open \union {n, m}
          /\ obj' = [obj EXCEPT ![o] = [Closed("Pipe") EXCEPT !.m_fd = n, !.m_write_end = m]]
  BY <1>1
<1> DEFINE r == [Closed("Pipe") EXCEPT !.m_fd = n, !.m_write_end = m]
<1>3. n \in Num \ open /\ m \in Num \ (open \union {n})
  BY FreshIsFree
<1>4. r \in ObjType /\ Sound(r) /\ OwnedBy(r) = {n, m} /\ r.m_tmp_path = None
  BY <1>3, DescriptorsAssumption DEF Closed, ObjType, Sound, OwnedBy, Absent, Class
<1>5. obj' = [obj EXCEPT ![o] = r]
  BY <1>2
<1> HIDE DEF r
<1>6. OwnedBy(obj[o]) = {} /\ obj[o].m_tmp_path = None
  <2>1. obj[o] = Closed("none")
    BY DEF PipeCreate, is, IInv, Sound, Absent
  <2> QED BY <2>1, ClosedHolds
<1>7. actor' = o /\ UNCHANGED <<files, raw, lost, left>>
  BY DEF PipeCreate, history
<1>8. /\ OwnedBy(r) \subseteq Num \ open
      /\ open' = open \union OwnedBy(r)
  BY <1>2, <1>3, <1>4
<1>9. r.m_tmp_path = None
  BY <1>4
<1>10. Handover(o, r)
  <2>1. r \in ObjType /\ Sound(r)
    BY <1>4
  <2> QED BY <2>1, <1>5, <1>6, <1>7, <1>8, <1>9 DEF Handover, IInv, TypeOK, Apart
<1> QED BY <1>10

\* closeReadEnd() and closeWriteEnd() close one number.
LEMMA PipeCloseEndHandover ==
    ASSUME IInv, NEW o \in Obj, NEW end \in End, PipeCloseEnd(o, end)
    PROVE  \E r : Handover(o, r)
<1> DEFINE r == [obj[o] EXCEPT ![end] = None]
<1>1. /\ obj[o] \in ObjType /\ Sound(obj[o]) /\ obj[o].class = "Pipe"
      /\ OwnedBy(obj[o]) \subseteq open \ lost
      /\ OwnedBy(obj[o]) \intersect raw = {}
  BY ObjectFacts DEF PipeCloseEnd, is
<1>2. /\ r \in ObjType /\ Sound(r) /\ r.m_tmp_path = obj[o].m_tmp_path
      /\ OwnedBy(r) = OwnedBy(obj[o]) \ {obj[o][end]}
      /\ obj[o][end] \in OwnedBy(obj[o])
      /\ obj[o].m_tmp_path = None
  BY <1>1 DEF PipeCloseEnd, ObjType, Sound, OwnedBy, End, Class
<1>3. obj' = [obj EXCEPT ![o] = r]
  BY DEF PipeCloseEnd, IInv, TypeOK
<1> HIDE DEF r
<1>4. open' = open \ {obj[o][end]} /\ actor' = o /\ UNCHANGED <<files, raw, lost, left>>
  BY DEF PipeCloseEnd, history
<1>5. Handover(o, r)
  BY <1>1, <1>2, <1>3, <1>4 DEF Handover, IInv, TypeOK, Apart
<1> QED BY <1>5

\* takeReadEndOwnership() and takeWriteEndOwnership() hand one to the client.
LEMMA PipeTakeEndHandover ==
    ASSUME IInv, NEW o \in Obj, NEW end \in End, PipeTakeEnd(o, end)
    PROVE  \E r : Handover(o, r)
<1> DEFINE r == [obj[o] EXCEPT ![end] = None]
<1>1. /\ obj[o] \in ObjType /\ Sound(obj[o]) /\ obj[o].class = "Pipe"
      /\ OwnedBy(obj[o]) \subseteq open \ lost
      /\ OwnedBy(obj[o]) \intersect raw = {}
  BY ObjectFacts DEF PipeTakeEnd, is
<1>2. /\ r \in ObjType /\ Sound(r) /\ r.m_tmp_path = obj[o].m_tmp_path
      /\ OwnedBy(r) = OwnedBy(obj[o]) \ {obj[o][end]}
      /\ obj[o][end] \in OwnedBy(obj[o])
      /\ obj[o].m_tmp_path = None
  BY <1>1 DEF PipeTakeEnd, ObjType, Sound, OwnedBy, End, Class
<1>3. obj' = [obj EXCEPT ![o] = r]
  BY DEF PipeTakeEnd, IInv, TypeOK
<1> HIDE DEF r
<1>4. raw' = raw \union {obj[o][end]} /\ actor' = o /\ UNCHANGED <<open, files, lost, left>>
  BY DEF PipeTakeEnd, kernel, history
<1>5. Handover(o, r)
  BY <1>1, <1>2, <1>3, <1>4 DEF Handover, IInv, TypeOK, Apart
<1> QED BY <1>5

\* open(fd, auto_close) gives a number of the client to the object or lends it.
LEMMA WrapHandover ==
    ASSUME IInv, NEW o \in Obj, NEW n \in Num, NEW auto_close \in BOOLEAN,
           Wrap(o, n, auto_close)
    PROVE  \E r : Handover(o, r)
<1> DEFINE r == [Closed(obj[o].class) EXCEPT !.m_fd = n, !.m_auto_close = auto_close]
<1>1. obj[o].class \in {"File", "Directory"} /\ OwnedBy(obj[o]) = {} /\ obj[o].m_tmp_path = None
  BY ObjectFacts DEF Wrap, Spent
<1>2. /\ r \in ObjType /\ Sound(r) /\ r.m_tmp_path = None
      /\ auto_close => OwnedBy(r) = {n}
      /\ ~auto_close => OwnedBy(r) = {}
  BY <1>1, DescriptorsAssumption DEF Closed, ObjType, Sound, OwnedBy, Absent, Class
<1>3. obj' = [obj EXCEPT ![o] = r]
  BY DEF Wrap
<1> HIDE DEF r
<1>4. /\ actor' = Client /\ UNCHANGED <<open, files, lost, left>>
      /\ auto_close => n \in raw /\ raw' = raw \ {n}
      /\ ~auto_close => raw' = raw
  BY DEF Wrap, kernel, history
<1>5. Handover(o, r)
  BY <1>1, <1>2, <1>3, <1>4 DEF Handover, IInv, TypeOK, Apart
<1> QED BY <1>5

\* takeOwnership() gives the object's number to the client.
LEMMA TakeOwnershipHandover ==
    ASSUME IInv, NEW o \in Obj, TakeOwnership(o)
    PROVE  \E r : Handover(o, r)
<1> DEFINE r == [obj[o] EXCEPT !.m_fd = None]
<1>1. /\ obj[o] \in ObjType /\ Sound(obj[o]) /\ obj[o].class = "File"
      /\ OwnedBy(obj[o]) \subseteq open \ lost
  BY ObjectFacts DEF TakeOwnership, is
<1>2. /\ r \in ObjType /\ Sound(r) /\ OwnedBy(r) = {}
      /\ r.m_tmp_path = None /\ obj[o].m_tmp_path = None
  BY <1>1 DEF ObjType, Sound, OwnedBy, Class
<1>3. obj' = [obj EXCEPT ![o] = r]
  BY DEF TakeOwnership, IInv, TypeOK
<1> HIDE DEF r
<1>4. raw' = raw \union OwnedBy(obj[o]) /\ actor' = o /\ UNCHANGED <<open, files, lost, left>>
  BY ObjectFacts DEF TakeOwnership, kernel, history
<1>5. Handover(o, r)
  BY <1>1, <1>2, <1>3, <1>4 DEF Handover, IInv, TypeOK, Apart
<1> QED BY <1>5

\* releaseOwnership() does as well, but the object keeps the number.
LEMMA ReleaseOwnershipHandover ==
    ASSUME IInv, NEW o \in Obj, ReleaseOwnership(o)
    PROVE  \E r : Handover(o, r)
<1> DEFINE r == [obj[o] EXCEPT !.m_auto_close = FALSE]
<1>1. /\ obj[o] \in ObjType /\ Sound(obj[o]) /\ obj[o].class = "File"
      /\ OwnedBy(obj[o]) \subseteq open \ lost
  BY ObjectFacts DEF ReleaseOwnership, is
<1>2. /\ r \in ObjType /\ Sound(r) /\ OwnedBy(r) = {}
      /\ r.m_tmp_path = None /\ obj[o].m_tmp_path = None
  BY <1>1 DEF ObjType, Sound, OwnedBy, Class
<1>3. obj' = [obj EXCEPT ![o] = r]
  BY DEF ReleaseOwnership, IInv, TypeOK
<1> HIDE DEF r
<1>4. raw' = raw \union OwnedBy(obj[o]) /\ actor' = o /\ UNCHANGED <<open, files, lost, left>>
  BY ObjectFacts DEF ReleaseOwnership, kernel, history
<1>5. Handover(o, r)
  BY <1>1, <1>2, <1>3, <1>4 DEF Handover, IInv, TypeOK, Apart
<1> QED BY <1>5

-----------------------------------------------------------------------------
(* Steps that change two objects, or none *)

\* The object o becomes r and takes over all that p owns; p, that becomes s,
\* has nothing left.
Passes(o, p, r, s) ==
    /\ o # p
    /\ r \in ObjType /\ Sound(r) /\ s \in ObjType /\ Sound(s)
    /\ obj' = [obj EXCEPT ![o] = r, ![p] = s]
    /\ OwnedBy(obj[o]) = {} /\ OwnedBy(r) = OwnedBy(obj[p]) /\ OwnedBy(s) = {}
    /\ obj[o].m_tmp_path = None /\ r.m_tmp_path = obj[p].m_tmp_path /\ s.m_tmp_path = None
    /\ actor' = p
    /\ UNCHANGED <<open, files, raw, lost, left>>

\* Passing on what an object owns keeps every number owned once.
LEMMA PassesKeeps ==
    ASSUME IInv, NEW o \in Obj, NEW p \in Obj, NEW r, NEW s, Passes(o, p, r, s)
    PROVE  IInv'
<1>1. obj'[o] = r /\ obj'[p] = s /\ \A q \in Obj : q \notin {o, p} => obj'[q] = obj[q]
  BY DEF Passes, IInv, TypeOK
<1>2. TypeOK'
  BY DEF Passes, IInv, TypeOK
<1>3. \A q \in Obj : Sound(obj'[q])
  BY <1>1 DEF Passes, IInv
<1>4. Apart'
  <2>1. /\ OwnedBy(obj'[o]) = OwnedBy(obj[p]) /\ OwnedBy(obj'[p]) = {}
        /\ \A q \in Obj : q \notin {o, p} => OwnedBy(obj'[q]) = OwnedBy(obj[q])
    BY <1>1 DEF Passes
  <2>2. open' = open /\ raw' = raw /\ lost' = lost
    BY DEF Passes
  <2>3. \A q \in Obj : /\ OwnedBy(obj'[q]) \subseteq open \ lost
                       /\ OwnedBy(obj'[q]) \intersect raw = {}
    BY <2>1 DEF IInv, Apart
  <2>4. \A a, b \in Obj : a # b => OwnedBy(obj'[a]) \intersect OwnedBy(obj'[b]) = {}
    <3> SUFFICES ASSUME NEW a \in Obj, NEW b \in Obj, a # b
                 PROVE  OwnedBy(obj'[a]) \intersect OwnedBy(obj'[b]) = {}
      OBVIOUS
    <3> DEFINE owned(q) == OwnedBy(obj[q])
    <3>1. \A u, v \in Obj : u # v => owned(u) \intersect owned(v) = {}
      BY DEF IInv, Apart
    <3>2. CASE a = p \/ b = p
      BY <2>1, <3>2
    <3>3. CASE a # p /\ b # p
      <4>1. PICK u \in Obj, v \in Obj : /\ u # v
                                      /\ OwnedBy(obj'[a]) = owned(u) /\ OwnedBy(obj'[b]) = owned(v)
        <5>1. CASE a = o
          BY <2>1, <3>3, <5>1
        <5>2. CASE b = o
          BY <2>1, <3>3, <5>2
        <5>3. CASE a # o /\ b # o
          BY <2>1, <3>3, <5>3
        <5> QED BY <5>1, <5>2, <5>3
      <4> HIDE DEF owned
      <4> QED BY <3>1, <4>1
    <3> QED BY <3>2, <3>3
  <2> QED BY <2>2, <2>3, <2>4 DEF IInv, Apart
<1>5. Covered'
  <2> SUFFICES ASSUME NEW n \in open' \ lost'
               PROVE  n \in raw' \/ \E q \in Obj : n \in OwnedBy(obj'[q])
    BY DEF Covered
  <2>1. n \in raw \/ \E q \in Obj : n \in OwnedBy(obj[q])
    BY DEF Passes, IInv, Covered
  <2>2. ASSUME NEW q \in Obj, n \in OwnedBy(obj[q])
        PROVE  \E t \in Obj : n \in OwnedBy(obj'[t])
    <3>1. CASE q = p
      BY <1>1, <2>2, <3>1 DEF Passes
    <3>2. CASE q = o
      BY <2>2, <3>2 DEF Passes
    <3>3. CASE q \notin {o, p}
      BY <1>1, <2>2, <3>3
    <3> QED BY <3>1, <3>2, <3>3
  <2> QED BY <2>1, <2>2 DEF Passes
<1>6. PathsApart'
  <2>1. /\ obj'[o].m_tmp_path = obj[p].m_tmp_path /\ obj'[p].m_tmp_path = None
        /\ \A q \in Obj : q \notin {o, p} => obj'[q].m_tmp_path = obj[q].m_tmp_path
    BY <1>1 DEF Passes
  <2> SUFFICES ASSUME NEW q \in Obj, NEW t \in Obj, q # t,
                      obj'[q].m_tmp_path = obj'[t].m_tmp_path
               PROVE  obj'[q].m_tmp_path = None
    BY DEF PathsApart
  <2>2. CASE q = p \/ t = p
    BY <2>1, <2>2
  <2>3. CASE q = o /\ t # p
    BY <2>1, <2>3 DEF IInv, PathsApart
  <2>4. CASE t = o /\ q # p
    BY <2>1, <2>4 DEF IInv, PathsApart
  <2>5. CASE q \notin {o, p} /\ t \notin {o, p}
    BY <2>1, <2>5 DEF IInv, PathsApart
  <2> QED BY <2>2, <2>3, <2>4, <2>5
<1>7. FilesKnown'
  BY <1>1, DescriptorsAssumption DEF Passes, IInv, TypeOK, FilesKnown
<1> QED BY <1>2, <1>3, <1>4, <1>5, <1>6, <1>7 DEF IInv

\* Moving passes on all that the source owns.
LEMMA MovePasses ==
    ASSUME IInv, NEW o \in Obj, NEW p \in Obj, Move(o, p)
    PROVE  Passes(o, p, obj[p], Closed(obj[p].class))
<1>1. o # p /\ obj[p].class \in Class /\ OwnedBy(obj[o]) = {} /\ obj[o].m_tmp_path = None
  BY ObjectFacts DEF Move, MovesInto, Spent
<1> QED BY <1>1, ClosedHolds, ObjectFacts DEF Move, Passes, kernel, history

\* connect() passes on the descriptor of the socket to the connection.
LEMMA ConnectPasses ==
    ASSUME IInv, NEW o \in Obj, NEW p \in Obj, Connect(o, p)
    PROVE  Passes(p, o, [Closed("File") EXCEPT !.m_fd = obj[o].m_fd], [obj[o] EXCEPT !.m_fd = None])
<1> DEFINE r == [Closed("File") EXCEPT !.m_fd = obj[o].m_fd]
           s == [obj[o] EXCEPT !.m_fd = None]
<1>1. /\ obj[o] \in ObjType /\ Sound(obj[o]) /\ obj[o].class = "File" /\ OwnedBy(obj[o]) # {}
      /\ obj[p].class = "none" /\ o # p
  BY ObjectFacts DEF Connect, is
<1>2. OwnedBy(obj[p]) = {} /\ obj[p].m_tmp_path = None
  <2>1. obj[p] = Closed("none")
    BY <1>1 DEF IInv, Sound, Absent
  <2> QED BY <2>1, ClosedHolds
<1>3. obj[o].m_fd \in Num /\ OwnedBy(obj[o]) = {obj[o].m_fd}
  BY <1>1 DEF ObjType, Sound, OwnedBy
<1>4. r \in ObjType /\ Sound(r) /\ OwnedBy(r) = {obj[o].m_fd} /\ r.m_tmp_path = None
  BY <1>3, OpenedHolds
<1>5. /\ s \in ObjType /\ Sound(s) /\ OwnedBy(s) = {}
      /\ s.m_tmp_path = None /\ obj[o].m_tmp_path = None
  BY <1>1 DEF ObjType, Sound, OwnedBy
<1>6. obj' = [obj EXCEPT ![p] = r, ![o] = s]
  BY <1>1 DEF Connect, IInv, TypeOK
<1> HIDE DEF r, s
<1>7. actor' = o /\ UNCHANGED <<open, files, raw, lost, left>>
  BY DEF Connect, kernel, history
<1>8. Passes(p, o, r, s)
  BY <1>1, <1>2, <1>3, <1>4, <1>5, <1>6, <1>7 DEF Passes
<1> QED BY <1>8 DEF r, s

\* The client opens and closes numbers of its own.
ClientOnly ==
    /\ files' \subseteq Path /\ left' \subseteq Path
    /\ actor' = Client
    /\ UNCHANGED <<obj, lost>>
    /\ raw' \subseteq raw \union (Num \ open)
    /\ open' = (open \ raw) \union raw'
    /\ files' \ left' \subseteq files \ left

\* That keeps every number owned once.
LEMMA ClientKeeps ==
    ASSUME IInv, ClientOnly
    PROVE  IInv'
<1>1. TypeOK'
  BY DEF ClientOnly, IInv, TypeOK
<1>2. Apart'
  BY DEF ClientOnly, IInv, TypeOK, Apart
<1>3. Covered'
  BY DEF ClientOnly, IInv, Covered, Apart
<1>4. PathsApart' /\ FilesKnown' /\ \A o \in Obj : Sound(obj'[o])
  BY DEF ClientOnly, IInv, PathsApart, FilesKnown
<1> QED BY <1>1, <1>2, <1>3, <1>4 DEF IInv

\* duplicate() and close() of descriptors that the client owns, and the loss
\* of a temporary file.
LEMMA ClientStepOnly ==
    ASSUME IInv, ClientStep
    PROVE  ClientOnly \/ \E o \in Obj, n \in Num, auto_close \in BOOLEAN : Wrap(o, n, auto_close)
<1>1. ASSUME NEW n \in Num, Duplicate(n)
      PROVE  ClientOnly
  <2>1. Fresh(open) \subseteq Num \ open
    BY FreshIsFree
  <2> QED BY <1>1, <2>1 DEF Duplicate, ClientOnly, IInv, TypeOK, Apart, history
<1>2. ASSUME NEW n \in Num, RawClose(n)
      PROVE  ClientOnly
  BY <1>2 DEF RawClose, ClientOnly, IInv, TypeOK, Apart, history
<1>3. ASSUME NEW n \in Num, NEW m \in Num, DuplicateOnto(n, m)
      PROVE  ClientOnly
  BY <1>3 DEF DuplicateOnto, ClientOnly, IInv, TypeOK, Apart, history
<1>4. ASSUME NEW path \in Path, OthersRemove(path)
      PROVE  ClientOnly
  BY <1>4 DEF OthersRemove, ClientOnly, IInv, TypeOK, Apart
<1> QED BY <1>1, <1>2, <1>3, <1>4 DEF ClientStep

-----------------------------------------------------------------------------
(* The invariant *)

\* ::close() fails in ~Pipe() and the kernel closes everything.
LEMMA AbortKeeps ==
    ASSUME IInv, NEW o \in Obj, PipeAborts(o)
    PROVE  IInv'
<1>1. Closed("none") \in ObjType /\ Sound(Closed("none")) /\ OwnedBy(Closed("none")) = {}
      /\ Closed("none").m_tmp_path = None
  BY ClosedHolds
<1>2. \A p \in Obj : obj'[p] = Closed("none")
  BY DEF PipeAborts, Absent
<1>3. TypeOK'
  BY <1>1 DEF PipeAborts, IInv, TypeOK, Absent
<1>4. Apart' /\ Covered' /\ PathsApart' /\ FilesKnown'
  BY <1>1, <1>2 DEF PipeAborts, Apart, Covered, PathsApart, FilesKnown
<1> QED BY <1>1, <1>2, <1>3, <1>4 DEF IInv

\* Every function of an object is one of the kinds of steps above.
LEMMA ObjectStepKinds ==
    ASSUME IInv, NEW o \in Obj, ObjectStep(o)
    PROVE  \/ \E p \in Obj : \E r : Handover(p, r)
           \/ \E p, q \in Obj : \E r, s : Passes(p, q, r, s)
           \/ PipeAborts(o)
<1>1. ASSUME NEW class \in Class, Construct(o, class)
      PROVE  \E r : Handover(o, r)
  BY <1>1, ConstructHandover
<1>2. ASSUME NEW failed \in BOOLEAN, Close(o, failed)
      PROVE  \E r : Handover(o, r)
  <2>1. obj[o].class \in Class \union {"none"}
    BY ObjectFacts DEF ObjType
  <2>2. Handover(o, Closed(obj[o].class))
    BY <1>2, <2>1, CloseHandover DEF Close
  <2> QED BY <2>2
<1>3. ASSUME Destroy(o)
      PROVE  \E r : Handover(o, r)
  <2>1. Handover(o, Closed("none"))
    BY <1>3, CloseHandover DEF Destroy, Absent
  <2> QED BY <2>1
<1>4. ASSUME is(o, "File") \/ is(o, "Directory") \/ is(o, "DirStream")
      PROVE  obj[o].m_tmp_path = None
  BY <1>4, ObjectFacts DEF Sound, is
<1>5. ASSUME FileOpen(o) \/ DirectoryOpen(o) \/ StreamOpenPath(o)
      PROVE  \E r : Handover(o, r)
  <2>1. CASE FileOpen(o)
    BY <1>4, <2>1, OpensHandover, ObjectFacts DEF FileOpen
  <2>2. CASE DirectoryOpen(o)
    <3>1. OwnedBy(obj[o]) = {} /\ open = open \ OwnedBy(obj[o])
      BY <2>2 DEF DirectoryOpen, Holds, OwnedBy
    <3> QED BY <1>4, <2>2, <3>1, OpensHandover DEF DirectoryOpen
  <2>3. CASE StreamOpenPath(o)
    BY <1>4, <2>3, OpensHandover, ObjectFacts DEF StreamOpenPath
  <2> QED BY <1>5, <2>1, <2>2, <2>3
<1>6. ASSUME NEW n \in Num, StreamOpenFD(o, n)
      PROVE  \E r : Handover(o, r)
  <2>1. CASE Opens(o, "DirStream", open \ Owned(o)) /\ UNCHANGED lost
    BY <1>4, <1>6, <2>1, OpensHandover, ObjectFacts DEF StreamOpenFD, history
  <2>2. CASE StreamLoses(o, open \ Owned(o))
    BY <1>6, <2>2, StreamLosesHandover, ObjectFacts DEF StreamOpenFD
  <2> QED BY <1>6, <2>1, <2>2 DEF StreamOpenFD
<1>7. ASSUME StreamOpenAt(o)
      PROVE  \E r : Handover(o, r)
  <2>1. open = open \ OwnedBy(obj[o])
    BY <1>7, ObjectFacts DEF StreamOpenAt, Spent
  <2>2. CASE Opens(o, "DirStream", open) /\ UNCHANGED lost
    BY <1>4, <1>7, <2>1, <2>2, OpensHandover DEF StreamOpenAt, history
  <2>3. CASE StreamLoses(o, open)
    BY <1>7, <2>1, <2>3, StreamLosesHandover DEF StreamOpenAt
  <2> QED BY <1>7, <2>2, <2>3 DEF StreamOpenAt
<1>8. ASSUME NEW end \in End, PipeCloseEnd(o, end) \/ PipeTakeEnd(o, end)
      PROVE  \E r : Handover(o, r)
  BY <1>8, PipeCloseEndHandover, PipeTakeEndHandover
<1>9. ASSUME NEW p \in Obj, Accept(o, p)
      PROVE  \E r : Handover(p, r)
  <2>1. OwnedBy(obj[p]) = {} /\ obj[p].m_tmp_path = None
    <3>1. obj[p] = Closed("none")
      BY <1>9 DEF Accept, is, IInv, Sound, Absent
    <3> QED BY <3>1, ClosedHolds
  <2>2. open = open \ OwnedBy(obj[p])
    BY <2>1
  <2> QED BY <1>9, <2>1, <2>2, OpensHandover DEF Accept
<1>10. ASSUME NEW p \in Obj, Move(o, p) \/ Connect(o, p)
       PROVE  \E a, b \in Obj : \E r, s : Passes(a, b, r, s)
  <2>1. Move(o, p) => Passes(o, p, obj[p], Closed(obj[p].class))
    BY MovePasses
  <2>2. Connect(o, p) => Passes(p, o, [Closed("File") EXCEPT !.m_fd = obj[o].m_fd],
                                      [obj[o] EXCEPT !.m_fd = None])
    BY ConnectPasses
  <2> QED BY <1>10, <2>1, <2>2
<1>11. TempOpen(o) \/ PipeCreate(o) \/ TakeOwnership(o) \/ ReleaseOwnership(o)
          => \E r : Handover(o, r)
  BY TempOpenHandover, PipeCreateHandover, TakeOwnershipHandover, ReleaseOwnershipHandover
<1> QED BY <1>1, <1>2, <1>3, <1>5, <1>6, <1>7, <1>8, <1>9, <1>10, <1>11 DEF ObjectStep

\* Every step of the specification is, or changes nothing.
LEMMA StepKinds ==
    ASSUME IInv, [Next]_vars
    PROVE  \/ \E o \in Obj : \E r : Handover(o, r)
           \/ \E o, p \in Obj : \E r, s : Passes(o, p, r, s)
           \/ \E o \in Obj : PipeAborts(o)
           \/ ClientOnly
           \/ UNCHANGED vars
BY ObjectStepKinds, ClientStepOnly, WrapHandover DEF Next

\* At the start nothing is open and nobody owns anything.
LEMMA InitIInv == Init => IInv
<1> SUFFICES ASSUME Init
             PROVE  IInv
  OBVIOUS
<1>1. Closed("none") \in ObjType /\ Sound(Closed("none")) /\ OwnedBy(Closed("none")) = {}
      /\ Closed("none").m_tmp_path = None
  BY ClosedHolds
<1>2. \A p \in Obj : obj[p] = Closed("none")
  BY DEF Init, Absent
<1>3. TypeOK
  BY <1>1 DEF Init, TypeOK, Absent
<1>4. Apart /\ Covered /\ PathsApart /\ FilesKnown
  BY <1>1, <1>2 DEF Init, Apart, Covered, PathsApart, FilesKnown
<1> QED BY <1>1, <1>2, <1>3, <1>4 DEF IInv

\* Every step preserves the invariant.
LEMMA NextIInv == IInv /\ [Next]_vars => IInv'
<1> SUFFICES ASSUME IInv, [Next]_vars
             PROVE  IInv'
  OBVIOUS
<1>1. ASSUME UNCHANGED vars
      PROVE  IInv'
  BY <1>1 DEF vars, IInv, TypeOK, Apart, Covered, PathsApart, FilesKnown
<1> QED BY <1>1, StepKinds, HandoverKeeps, PassesKeeps, AbortKeeps, ClientKeeps

\* Whatever the objects and the client do, every open number has one owner.
THEOREM Invariance == Spec => []IInv
BY InitIInv, NextIInv, PTL DEF Spec

-----------------------------------------------------------------------------
(* One owner for every number *)

\* The invariant, counted: an open number that was not left behind has one
\* owner and any other number none.
LEMMA IInvOwnedOnce == IInv => OwnedOnce
<1> SUFFICES ASSUME IInv
             PROVE  OwnedOnce
  OBVIOUS
<1> DEFINE S(n) == {o \in Obj : n \in Owned(o)} \union (IF n \in raw THEN {Client} ELSE {})
<1>1. ASSUME NEW n \in Num
      PROVE  Cardinality(S(n)) = IF n \in open \ lost THEN 1 ELSE 0
  <2>1. CASE n \in raw
    <3>1. S(n) = {Client}
      BY <2>1, ObjectFacts
    <3> QED BY <2>1, <3>1, FS_Singleton DEF IInv, Apart
  <2>2. CASE n \in (open \ lost) \ raw
    <3>1. PICK o \in Obj : n \in OwnedBy(obj[o])
      BY <2>2 DEF IInv, Covered
    <3>2. \A p \in Obj : n \in OwnedBy(obj[p]) => p = o
      BY <3>1 DEF IInv, Apart
    <3>3. S(n) = {o}
      BY <2>2, <3>1, <3>2, OwnedIsOwnedBy
    <3> QED BY <2>2, <3>3, FS_Singleton
  <2>3. CASE n \notin (open \ lost) \union raw
    <3>1. S(n) = {}
      BY <2>3, ObjectFacts
    <3> QED BY <2>3, <3>1, FS_EmptySet
  <2> QED BY <2>1, <2>2, <2>3
<1>2. ASSUME NEW path \in files \ left
      PROVE  Cardinality({o \in Obj : obj[o].m_tmp_path = path}) = 1
  <2>1. PICK o \in Obj : obj[o].m_tmp_path = path
    BY <1>2 DEF IInv, FilesKnown
  <2>2. path # None
    BY DescriptorsAssumption DEF IInv, TypeOK
  <2>3. {p \in Obj : obj[p].m_tmp_path = path} = {o}
    BY <2>1, <2>2 DEF IInv, PathsApart
  <2> QED BY <2>3, FS_Singleton
<1>3. \A o \in Obj : is(o, "Pipe") => obj[o].m_fd # obj[o].m_write_end \/ Holds(o) = {}
  BY DEF IInv, Sound, is, Holds
<1>4. /\ TypeOK /\ lost \subseteq open
      /\ \A o, p \in Obj : obj[o].m_tmp_path = obj[p].m_tmp_path /\ o # p => obj[o].m_tmp_path = None
      /\ \A o \in Obj : obj[o].m_tmp_path # None <=> is(o, "TempFile") /\ obj[o].m_fd # None
  BY DEF IInv, Apart, PathsApart, Sound, is
<1> QED BY <1>1, <1>2, <1>3, <1>4 DEF OwnedOnce

\* Opening, moving, taking, releasing and failing in any order: every open
\* number will be closed exactly once, except for those that DirStream::open()
\* leaves behind, and every temporary file is known to one object.
THEOREM EveryNumberIsOwnedOnce == Spec => []OwnedOnce
BY Invariance, IInvOwnedOnce, PTL

-----------------------------------------------------------------------------
(* Descriptors implements Owners *)

\* What a, an object or the client, owns.
Has(a) == IF a = Client THEN raw ELSE OwnedBy(obj[a])

\* ownerOf() finds the owner.
Found ==
    \A n \in Num :
        /\ n \notin open => ownerOf(n) = "free"
        /\ n \in lost => ownerOf(n) = "lost"
        /\ \A a \in Obj \union {Client} : n \in Has(a) => ownerOf(n) = a
        /\ n \in open \ lost => \E a \in Obj \union {Client} : n \in Has(a)

\* It does so when the objects and the client own what the invariant says.
LEMMA OwnerFound == IInv => Found
<1> SUFFICES ASSUME IInv, NEW n \in Num
             PROVE  /\ n \notin open => ownerOf(n) = "free"
                    /\ n \in lost => ownerOf(n) = "lost"
                    /\ \A a \in Obj \union {Client} : n \in Has(a) => ownerOf(n) = a
                    /\ n \in open \ lost => \E a \in Obj \union {Client} : n \in Has(a)
  BY DEF Found
<1>1. n \notin open => ownerOf(n) = "free"
  BY DEF ownerOf
<1>2. n \in lost => ownerOf(n) = "lost"
  BY DEF ownerOf, IInv, Apart
<1>3. n \in raw => ownerOf(n) = Client
  BY DEF ownerOf, IInv, Apart
<1>4. ASSUME NEW o \in Obj, n \in OwnedBy(obj[o])
      PROVE  ownerOf(n) = o
  <2>1. n \in open \ lost /\ n \notin raw /\ n \in Owned(o)
    BY <1>4, ObjectFacts
  <2>2. \A p \in Obj : n \in Owned(p) => p = o
    BY <1>4, OwnedIsOwnedBy DEF IInv, Apart
  <2>3. (CHOOSE p \in Obj : n \in Owned(p)) = o
    BY <2>1, <2>2
  <2> QED BY <2>1, <2>3 DEF ownerOf
<1>5. n \in open \ lost => \E a \in Obj \union {Client} : n \in Has(a)
  BY DescriptorsAssumption DEF IInv, Covered, Has
<1> QED BY <1>1, <1>2, <1>3, <1>4, <1>5 DEF Has

\* A step on which only a closes and opens, and after which b has at least
\* what it had, is a step of a in Owners.
LEMMA ActMaps ==
    ASSUME IInv, IInv', NEW a \in Obj \union {Client}, NEW b \in Obj \union {Client},
           actor' = a,
           lost \subseteq lost',
           a # b => Has(b) \subseteq Has(b)',
           \A c \in (Obj \union {Client}) \ {a, b} : Has(c)' = Has(c)
    PROVE  O!Next
<1>0. Found /\ Found'
  BY OwnerFound, PTL
<1>1. ASSUME NEW n \in Num
      PROVE  /\ ownerOf(n)' \in Obj \union {Client} \union {"free", "lost"}
             /\ ownerOf(n)' # ownerOf(n) =>
                    /\ ownerOf(n) \in {"free", a}
                    /\ ownerOf(n)' \in {"free", a, b, "lost"}
  <2>1. /\ n \notin open' => ownerOf(n)' = "free"
        /\ n \in lost' => ownerOf(n)' = "lost"
        /\ \A c \in Obj \union {Client} : n \in Has(c)' => ownerOf(n)' = c
        /\ n \in open' \ lost' => \E c \in Obj \union {Client} : n \in Has(c)'
    BY <1>0 DEF Found
  <2>2. CASE n \in lost \/ n \notin open
    BY <1>0, <2>1, <2>2 DEF Found
  <2>3. CASE n \in open \ lost
    <3>1. PICK c \in Obj \union {Client} : n \in Has(c) /\ ownerOf(n) = c
      BY <1>0, <2>3 DEF Found
    <3>2. CASE c = a
      BY <1>0, <2>1, <3>1, <3>2 DEF Found
    <3>3. CASE c # a
      BY <2>1, <3>1, <3>3
    <3> QED BY <3>2, <3>3
  <2> QED BY <2>2, <2>3
<1>2. O!Act(a, b)
  BY <1>1 DEF O!Act
<1> QED BY <1>2 DEF O!Next

\* The initial states are initial states of Owners.
LEMMA InitMaps == Init => O!Init
<1> SUFFICES ASSUME Init
             PROVE  O!Init
  OBVIOUS
<1>1. \A n \in Num : ownerOf(n) = "free"
  BY DEF Init, ownerOf
<1> QED BY <1>1 DEF Init, O!Init

\* Every step is a step of Owners, or changes nothing that Owners sees.
LEMMA NextMaps == IInv /\ IInv' /\ [Next]_vars => [O!Next]_(O!vars)
<1> SUFFICES ASSUME IInv, IInv', [Next]_vars
             PROVE  [O!Next]_(O!vars)
  OBVIOUS
<1>1. ASSUME NEW o \in Obj, NEW r, Handover(o, r)
      PROVE  O!Next
  <2>1. /\ \A p \in Obj : p # o => Has(p)' = Has(p)
        /\ Has(Client)' = raw' /\ Has(Client) = raw
        /\ Has(o) = OwnedBy(obj[o])
    <3>1. \A p \in Obj : p # o => obj'[p] = obj[p]
      BY <1>1, OneChanges DEF Handover, IInv
    <3> QED BY <3>1, DescriptorsAssumption DEF Has
  <2>2. lost \subseteq lost'
    BY <1>1 DEF Handover
  <2>3. CASE actor' = o /\ raw \subseteq raw'
    BY <2>1, <2>2, <2>3, ActMaps
  <2>4. CASE actor' = Client /\ OwnedBy(obj[o]) = {}
    BY <2>1, <2>2, <2>4, ActMaps
  <2> QED BY <1>1, <2>3, <2>4 DEF Handover
<1>2. ASSUME NEW o \in Obj, NEW p \in Obj, NEW r, NEW s, Passes(o, p, r, s)
      PROVE  O!Next
  <2>1. \A q \in Obj : q \notin {o, p} => obj'[q] = obj[q]
    BY <1>2 DEF Passes, IInv, TypeOK
  <2>2. \A c \in (Obj \union {Client}) \ {o, p} : Has(c)' = Has(c)
    <3>1. raw' = raw
      BY <1>2 DEF Passes
    <3> QED BY <2>1, <3>1 DEF Has
  <2>3. actor' = p /\ lost \subseteq lost' /\ Has(o) \subseteq Has(o)'
    BY <1>2, DescriptorsAssumption DEF Passes, Has
  <2> QED BY <2>2, <2>3, ActMaps
<1>3. ASSUME NEW o \in Obj, PipeAborts(o)
      PROVE  O!Next
  <2>1. \A n \in Num : ownerOf(n)' = "free"
    BY <1>3 DEF PipeAborts, ownerOf
  <2>2. O!Exit
    BY <1>3, <2>1 DEF PipeAborts, O!Exit
  <2> QED BY <2>2 DEF O!Next
<1>4. ASSUME ClientOnly
      PROVE  O!Next
  <2>1. \A c \in Obj : Has(c)' = Has(c)
    BY <1>4, DescriptorsAssumption DEF ClientOnly, Has
  <2>2. actor' = Client /\ lost \subseteq lost'
    BY <1>4 DEF ClientOnly
  <2> QED BY <2>1, <2>2, ActMaps
<1>5. ASSUME UNCHANGED vars
      PROVE  UNCHANGED O!vars
  BY <1>5 DEF vars, O!vars, ownerOf, Owned, Holds
<1> QED BY <1>1, <1>2, <1>3, <1>4, <1>5, StepKinds

\* A call closes only what the object or the client it was made on owns, and
\* hands over only that: the types implement Owners.
THEOREM TypesImplementOwners == Spec => ImplementsOwners
<1>1. IInv /\ IInv' /\ [Next]_vars => [O!Next]_(O!vars)
  BY NextMaps
<1> QED BY <1>1, InitMaps, Invariance, PTL DEF Spec, ImplementsOwners, O!Spec
=============================================================================
