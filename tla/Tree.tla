-------------------------------- MODULE Tree --------------------------------
(***************************************************************************)
(* The functions of cosmos::fs that make several system calls on a tree    *)
(* of directories, remove_tree() and make_all_dirs(), and TempDir, which   *)
(* uses the first.  One thread calls them while other processes change the *)
(* tree through the functions that are one system call.                    *)
(***************************************************************************)
EXTENDS Integers, Sequences, FiniteSets

CONSTANTS
    Name,      \* names of directory entries
    Directory, \* inodes of directories
    File,      \* inodes of anything else
    Link,      \* those of them that are symbolic links
    Root,      \* the inode of the root of the tree, 0
    None,      \* no inode, no name, no path
    MaxDepth,  \* the length of the longest path that is passed to a function
    MaxOthers  \* bound: how often others change the tree during one call

Inode == {Root} \union Directory \union File
Dir == {Root} \union Directory
Path == UNION {[1..n -> Name] : n \in 1..MaxDepth}

ASSUME TreeAssumption ==
    /\ Directory \union File \subseteq Nat \ {Root} /\ Directory \intersect File = {}
    /\ Link \subseteq File
    /\ IsFiniteSet(Directory) /\ Root = 0
    /\ None \notin Nat /\ None \notin Name /\ None \notin Path
    /\ MaxDepth \in Nat \ {0} /\ MaxOthers \in Nat

VARIABLES
    entry,     \* the entries of every directory
    at,        \* where the call is
    op,        \* which function was called
    arg,       \* with which path
    streams,   \* the open DirStreams, the innermost last
    current,   \* the entry that the innermost loop is at
    pos,       \* make_all_dirs(): the length of the prefix to make next
    made,      \* make_all_dirs(): it made a directory
    result,    \* what the last call returned
    tmp_path,  \* m_tmp_path of a TempDir
    before,    \* history: the entries when the call began, if its path led through no link and
               \* as long as nobody else changed them
    members,   \* history: what was in the tree of the call, or in what a link led it to, at any time of it
    others     \* how often others changed the tree during the call

call == <<op, arg>>
locals == <<streams, current, pos, made>>
treeVars == <<entry, at, call, locals, result, tmp_path, before, members, others>>

-----------------------------------------------------------------------------
(* The file system *)

NoEntries == [n \in Name |-> None]

isDir(i) == i \in Dir

\* The inodes on the way along a path, if e has the entries.
walk(e, path) ==
    LET w[k \in 0..Len(path)] ==
            IF k = 0 THEN Root
            ELSE LET d == w[k - 1] IN IF isDir(d) THEN e[d][path[k]] ELSE None
    IN w

lookup(path) == walk(entry, path)[Len(path)]

\* The directory that the last component of a path is in.
parent(path) == LET d == walk(entry, path)[Len(path) - 1] IN IF isDir(d) THEN d ELSE None

last(path) == path[Len(path)]

\* A component before the last is a symbolic link.
linked(path) == \E k \in 1..Len(path) - 1 : walk(entry, path)[k] \in Link

empty(i) == isDir(i) /\ entry[i] = NoEntries

\* Everything in S and below, if e has the entries.
reached(e, S) ==
    LET b[k \in 0..Cardinality(Dir)] ==
            IF k = 0 THEN S \ {None}
            ELSE LET c == b[k - 1]
                 IN c \union ({e[i][n] : i \in c \intersect Dir, n \in Name} \ {None})
    IN b[Cardinality(Dir)]

below(S) == reached(entry, S)

Open == {streams[k].dir : k \in 1..Len(streams)}

\* The inode of a new directory or file: one that nothing refers to.
unused(S) ==
    LET free == S \ below({Root} \union Open) IN {i \in free : \A j \in free : i <= j}

\* Where a symbolic link may lead: what its text says is not modelled.
linkTargets == below({Root} \union Open) \intersect Dir

\* What opening an entry without O_NOFOLLOW gets to.
opened(i) == IF i \in Link THEN linkTargets ELSE {i} \intersect Dir

\* The directories in which a system call may look for the last component.
places(path) == IF linked(path) THEN linkTargets \union {None} ELSE {parent(path)}

\* What is at a place.
child(d, n) == IF d = None THEN None ELSE entry[d][n]

\* What belongs to the tree that the call in progress works on, with what it
\* has open, wherever it got there.
scope == below({lookup(arg)} \union Open)

with(i, n, j) == [entry EXCEPT ![i][n] = j]

\* The history of the tree that a call works on, after the other variables.
Remember == members' = IF at' = "idle" THEN {} ELSE members \union scope'

-----------------------------------------------------------------------------
(* Other processes.  Between two calls they build any tree. *)

Changed(e) ==
    /\ entry' = e
    /\ others' = IF at = "idle" THEN 0 ELSE others + 1
    /\ before' = None
    /\ result' = "none"
    /\ UNCHANGED <<at, call, locals, tmp_path>>
    /\ Remember

\* make_dir(), open() with CREATE, and make_symlink().
OtherMakes(path, what) ==
    \E i \in unused(what) :
        /\ parent(path) # None /\ lookup(path) = None
        /\ Changed(with(parent(path), last(path), i))

\* unlink_file()
OtherUnlinks(path) ==
    /\ lookup(path) # None /\ ~isDir(lookup(path))
    /\ Changed(with(parent(path), last(path), None))

\* remove_dir()
OtherRemovesDir(path) ==
    /\ empty(lookup(path))
    /\ Changed(with(parent(path), last(path), None))

\* link()
OtherLinks(old, new) ==
    LET i == lookup(old)
        d == parent(new)
    IN /\ i # None /\ ~isDir(i) /\ d # None /\ entry[d][last(new)] = None
       /\ Changed(with(d, last(new), i))

\* rename(): what is at the new path is replaced if it is of the same type
\* and, as a directory, empty; no directory is moved into itself.
OtherRenames(old, new) ==
    LET i == lookup(old)
        j == lookup(new)
        d == parent(new)
    IN /\ i # None /\ d # None /\ j # i
       /\ isDir(i) => d \notin below({i})
       /\ j # None => (isDir(i) <=> isDir(j)) /\ (isDir(j) => empty(j))
       /\ Changed([with(parent(old), last(old), None) EXCEPT ![d][last(new)] = i])

OtherStep ==
    /\ at # "idle" => others < MaxOthers
    /\ \/ \E path \in Path :
             \/ \E what \in {Directory, File \ Link, Link} : OtherMakes(path, what)
             \/ OtherUnlinks(path) \/ OtherRemovesDir(path)
       \/ \E old, new \in Path : OtherLinks(old, new) \/ OtherRenames(old, new)

-----------------------------------------------------------------------------
(* Beginning and end of calls *)

InitTree ==
    /\ entry = [i \in Dir |-> NoEntries]
    /\ at = "idle" /\ op = "none" /\ arg = <<>>
    /\ streams = <<>> /\ current = None /\ pos = 0 /\ made = FALSE
    /\ result = "none"
    /\ tmp_path = None
    /\ before = None
    /\ members = {}
    /\ others = 0

Begins(function, path, label, prefix) ==
    /\ at = "idle"
    /\ op' = function /\ arg' = path /\ at' = label /\ pos' = prefix
    /\ result' = "none"
    /\ before' = IF linked(path) THEN None ELSE entry
    /\ others' = 0
    /\ UNCHANGED <<entry, streams, current, made, tmp_path>>
    /\ Remember

\* The call goes on.
Goes(label) ==
    /\ at' = label
    /\ UNCHANGED <<call, pos, made, result, tmp_path, before, others>>
    /\ Remember

\* The call returns, or throws; the destructors close the streams.
Ends(r) ==
    /\ at' = "idle" /\ result' = r
    /\ op' = "none" /\ arg' = <<>> /\ before' = None
    /\ streams' = <<>> /\ current' = None /\ pos' = 0 /\ made' = FALSE
    /\ others' = 0
    /\ members' = {}

Throws == Ends("error") /\ UNCHANGED <<entry, tmp_path>>

-----------------------------------------------------------------------------
(* remove_tree() *)

\* Mutant: "." is not left out.
Stream_WithDot(i, name) ==
    [dir |-> i, name |-> name, todo |-> {n \in Name : entry[i][n] # None} \union {"."}, seen |-> {}]

\* A loop over a stream begins with the entries that are there now.
Stream(i, name) ==
    [dir |-> i, name |-> name, todo |-> {n \in Name : entry[i][n] # None}, seen |-> {}]

top == streams[Len(streams)]

\* remove_tree(path)
RemoveTree(path) == Begins("remove_tree", path, "open", 0)

\* The constructor of the stream opens a directory or throws; it does not
\* follow a link at the end of the path.
OpenRoot ==
    /\ at = "open"
    /\ \E d \in places(arg) :
          LET i == child(d, last(arg)) IN
          \/ /\ isDir(i)
             /\ streams' = <<Stream(i, None)>>
             /\ UNCHANGED <<entry, current>>
             /\ Goes("next")
          \/ ~isDir(i) /\ Throws

\* What readdir() may deliver: what was there when the loop began, even if it
\* is gone, and what came later.
deliverable == top.todo \union ({n \in Name : entry[top.dir][n] # None} \ top.seen)

Delivered(n) ==
    /\ at = "next" /\ n \in deliverable
    /\ streams' = [streams EXCEPT ![Len(streams)].todo = @ \ {n}, ![Len(streams)].seen = @ \union {n}]
    /\ current' = n
    /\ UNCHANGED entry

\* Mutant: an entry of unknown type is taken for a file.
NextEntry_UnknownIsFile(n) ==
    /\ Delivered(n)
    /\ \E type \in {"unlink", IF isDir(entry[top.dir][n]) THEN "enter" ELSE "unlink"} : Goes(type)

\* nextEntry(), and the switch over the type, which the file system need not
\* know.  An entry that is gone can have been of any type.
NextEntry(n) ==
    /\ Delivered(n)
    /\ \/ Goes("status")
       \/ ~isDir(entry[top.dir][n]) /\ Goes("unlink")
       \/ (isDir(entry[top.dir][n]) \/ entry[top.dir][n] = None) /\ Goes("enter")

\* FileStatus of an entry whose type is UNKNOWN; it does not follow links.
Status ==
    /\ at = "status"
    /\ LET i == entry[top.dir][current] IN
       \/ i = None /\ Throws
       \/ /\ i # None
          /\ UNCHANGED <<entry, streams, current>>
          /\ Goes(IF isDir(i) THEN "enter" ELSE "unlink")

\* The stream for a subdirectory, and the recursive call.  If somebody has put
\* a symbolic link in its place, open() follows it.
Enter ==
    /\ at = "enter"
    /\ LET i == entry[top.dir][current] IN
       \/ ~isDir(i) /\ Throws
       \/ \E d \in opened(i) :
             /\ streams' = Append(streams, Stream(d, current))
             /\ UNCHANGED <<entry, current>>
             /\ Goes("next")

\* An entry is removed, and the loop over the stream s goes on.
Removed(i, n, s) ==
    /\ entry' = with(i, n, None)
    /\ streams' = s
    /\ UNCHANGED current
    /\ Goes("next")

\* Mutant: the name is looked up in the working directory.
Unlink_WorkingDirectory ==
    /\ at = "unlink"
    /\ LET i == entry[Root][current] IN
       \/ (i = None \/ isDir(i)) /\ Throws
       \/ i # None /\ ~isDir(i) /\ Removed(Root, current, streams)

\* unlinkFileAt()
Unlink ==
    /\ at = "unlink"
    /\ LET i == entry[top.dir][current] IN
       \/ (i = None \/ isDir(i)) /\ Throws
       \/ i # None /\ ~isDir(i) /\ Removed(top.dir, current, streams)

\* The stream is at its end.  What others added may have been missed.
EndOfStream ==
    /\ at = "next" /\ \A n \in top.todo : entry[top.dir][n] = None
    /\ UNCHANGED <<entry, streams, current>>
    /\ Goes(IF Len(streams) = 1 THEN "remove" ELSE "removeAt")

\* removeDirAt() of the subdirectory, whose stream is closed afterwards.
RemoveDirAt ==
    /\ at = "removeAt"
    /\ LET outer == SubSeq(streams, 1, Len(streams) - 1)
           d == outer[Len(outer)].dir
       IN \/ ~empty(entry[d][top.name]) /\ Throws
          \/ empty(entry[d][top.name]) /\ Removed(d, top.name, outer)

\* remove_dir() of the path itself; TempDir::close() then forgets the path.
RemoveDir ==
    /\ at = "remove"
    /\ \E d \in places(arg) :
          \/ /\ empty(child(d, last(arg)))
             /\ entry' = with(d, last(arg), None)
             /\ tmp_path' = IF op = "remove_tree" THEN tmp_path ELSE None
             /\ Ends("ok")
          \/ ~empty(child(d, last(arg))) /\ Throws

-----------------------------------------------------------------------------
(* TempDir *)

\* create() of an object without a directory: make_tempdir() finds a name.
CreateTempDir(n) ==
    /\ at = "idle" /\ tmp_path = None
    /\ entry[Root][n] = None
    /\ \E i \in unused(Directory) : entry' = with(Root, n, i)
    /\ tmp_path' = <<n>>
    /\ Ends("ok")

\* Move assignment: the path is replaced by that of another object, which
\* forgets it, and the directory it named remains.
AssignTempDir(path) ==
    /\ at = "idle" /\ tmp_path # None
    /\ tmp_path' = path
    /\ UNCHANGED entry
    /\ Ends("ok")

\* close(), also from create() and the destructor: remove_tree() of the path.
CloseTempDir ==
    /\ tmp_path # None
    /\ Begins("close", tmp_path, "open", 0)

-----------------------------------------------------------------------------
(* make_all_dirs() *)

\* normalize_path() has given the path.
MakeAllDirs(path) == Begins("make_all_dirs", path, "mkdir", 1)

\* The loop goes on.
NextPrefix(p) ==
    /\ pos' = p
    /\ UNCHANGED <<at, call, streams, current, result, tmp_path, before, others>>
    /\ Remember

\* Mutant: the position is not moved on past a prefix that exists.
MakeDir_Stays ==
    /\ at = "mkdir" /\ pos <= Len(arg)
    /\ LET prefix == SubSeq(arg, 1, pos) IN
       \E d \in places(prefix) :
          \/ d # None /\ child(d, last(prefix)) # None /\ UNCHANGED <<entry, made>> /\ NextPrefix(pos)
          \/ /\ d # None /\ child(d, last(prefix)) = None
             /\ \E i \in unused(Directory) : entry' = with(d, last(prefix), i)
             /\ made' = TRUE /\ NextPrefix(pos + 1)
          \/ (d = None \/ unused(Directory) = {}) /\ Throws

\* mkdir() of the next prefix: whatever exists already is all right.
MakeDir ==
    /\ at = "mkdir" /\ pos <= Len(arg)
    /\ LET prefix == SubSeq(arg, 1, pos) IN
       \E d \in places(prefix) :
          \/ d # None /\ child(d, last(prefix)) # None /\ UNCHANGED <<entry, made>> /\ NextPrefix(pos + 1)
          \/ /\ d # None /\ child(d, last(prefix)) = None
             /\ \E i \in unused(Directory) : entry' = with(d, last(prefix), i)
             /\ made' = TRUE /\ NextPrefix(pos + 1)
          \/ (d = None \/ unused(Directory) = {}) /\ Throws

\* The loop is through.
MakeAllDirsReturns ==
    /\ at = "mkdir" /\ pos > Len(arg)
    /\ Ends(IF made THEN "NO_ERROR" ELSE "EXISTS")
    /\ UNCHANGED <<entry, tmp_path>>

-----------------------------------------------------------------------------
Calls ==
    \/ \E path \in Path : RemoveTree(path) \/ MakeAllDirs(path)
    \/ CloseTempDir
    \/ \E n \in Name : CreateTempDir(n)
    \/ \E path \in {<<n>> : n \in Name} \union {None} : AssignTempDir(path)

\* A step of the call in progress.
CallStep ==
    \/ OpenRoot \/ (\E n \in Name : NextEntry(n)) \/ Status \/ Enter \/ Unlink
    \/ EndOfStream \/ RemoveDirAt \/ RemoveDir
    \/ MakeDir \/ MakeAllDirsReturns

NextTree == Calls \/ CallStep \/ OtherStep

\* The calling thread is not kept from running.
SpecTree == InitTree /\ [][NextTree]_treeVars /\ WF_treeVars(CallStep)

-----------------------------------------------------------------------------
(* Properties *)

StreamType == [dir : Dir, name : Name \union {None}, todo : SUBSET Name, seen : SUBSET Name]

\* The variables have their types, directories form a tree, and a stream is
\* open for every level that remove_tree() is in, and only then.
TypeOK ==
    /\ entry \in [Dir -> [Name -> Inode \union {None}]]
    /\ \A i \in below({Root}) : isDir(i) /\ i # Root =>
          Cardinality({d \in below({Root}) \intersect Dir : \E n \in Name : entry[d][n] = i}) = 1
    /\ at \in {"idle", "open", "next", "status", "enter", "unlink", "removeAt", "remove", "mkdir"}
    /\ op \in {"none", "remove_tree", "close", "make_all_dirs"}
    /\ arg \in Path \union {<<>>} /\ tmp_path \in Path \union {None}
    /\ \A k \in 1..Len(streams) : streams[k] \in StreamType /\ (streams[k].name = None <=> k = 1)
    /\ streams # <<>> <=> at \in {"next", "status", "enter", "unlink", "removeAt", "remove"}
    /\ current \in Name \union {None} /\ pos \in 0..(MaxDepth + 1) /\ made \in BOOLEAN
    /\ result \in {"none", "ok", "error", "NO_ERROR", "EXISTS"}
    /\ members \subseteq Inode
    /\ others \in 0..MaxOthers

removing == op \in {"remove_tree", "close"}

\* Whatever others do at the same time, remove_tree() removes no entry of
\* something that was not at some time of the call in its tree or in a directory
\* that a symbolic link led it to, and make_all_dirs() removes nothing.  It
\* follows a link in its tree only if somebody interferes, who puts it in the
\* place of a directory between readdir() and open() (filesystem.hxx:360 calls
\* that undefined), or if its path leads through links; which directory rmdir()
\* removes at the end of such a path is left open.  TempDir gives up its path
\* only when nothing is there any more, so that a failed close() can be repeated,
\* or by a move assignment.
RemovesOnlyTheTree ==
    /\ [][\A i \in Dir : \A n \in Name :
            entry[i][n] # None /\ entry'[i][n] # entry[i][n] /\ CallStep =>
                /\ removing /\ entry'[i][n] = None
                /\ entry[i][n] \in members \/ (at = "remove" /\ linked(arg))]_treeVars
    /\ [][Enter /\ entry[top.dir][current] \in Link /\ at' # "idle" => before = None]_treeVars
    /\ [][\A path \in Path : tmp_path = path /\ tmp_path' # path =>
            lookup(path)' = None \/ AssignTempDir(tmp_path')]_treeVars

\* The entries that can be reached afterwards are those of e.
leaves(e) == \A i \in below({Root})' \intersect Dir : entry'[i] = e[i]

\* A call that nobody interferes with, and whose path leads through no symbolic
\* link, does what it says: remove_tree() of a
\* directory succeeds and removes it with all that is in it and nothing else,
\* whether or not the file system knows types, and make_all_dirs() makes what
\* is missing and tells whether anything was.
UndisturbedCallsAreExact ==
    [][at # "idle" /\ at' = "idle" /\ before # None =>
        \/ /\ removing /\ result' = "ok"
           /\ leaves([before EXCEPT ![parent(arg)][last(arg)] = None])
        \/ removing /\ result' = "error" /\ ~isDir(lookup(arg)) /\ entry' = before
        \/ op = "make_all_dirs" /\ result' = "EXISTS" /\ lookup(arg) # None /\ entry' = before
        \/ /\ op = "make_all_dirs" /\ result' = "NO_ERROR"
           /\ empty(lookup(arg)) /\ \A i \in Dir : \A n \in Name : before[i][n] \in {None, entry[i][n]}
        \/ op = "make_all_dirs" /\ result' = "error"
    ]_treeVars

\* Every call comes to an end, although others add and rename entries.
CallsEnd == (at # "idle") ~> (at = "idle")

=============================================================================
