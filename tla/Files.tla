------------------------------- MODULE Files --------------------------------
(***************************************************************************)
(* The functions of cosmos::fs that a program calls on single files, and   *)
(* FileStatus.  One thread makes a call, or a short sequence of calls,     *)
(* that takes several system calls: read_symlink(), get_working_dir(),     *)
(* which(), a comparison of two FileStatus, a copy with copy_file_range(). *)
(* Meanwhile others, threads and processes, change the files through the   *)
(* functions that are one system call.                                     *)
(*                                                                         *)
(* The file system is a table of paths; a path stands for its last         *)
(* component and its directory, so that the variants with a DirFD are the  *)
(* same calls.  A text in a symbolic link is a path, and its length counts *)
(* as many characters as the buffers of the functions are scaled down to.  *)
(***************************************************************************)
EXTENDS Integers, Sequences, FiniteSets

CONSTANTS
    FilePath,      \* the paths that are used
    TextLength,    \* the length of every path
    FirstRoom,     \* the size of the first buffer for a path, 128
    DeviceOf,      \* the device that the directory of a path is on
    FileNode,      \* the inodes, pairs of a device and a number
    SearchPath,    \* the paths that which() tries for a name
    FileModes,     \* the modes that files get
    NoNode,        \* no inode
    FirstFiles,    \* the files at the beginning: a type for some of the paths
    MaxInterference \* bound: how often others change files during the call

FileT == {"REGULAR", "DIRECTORY", "FIFO", "LINK"}

FileModeBit == {"OWNER_READ", "OWNER_EXEC", "OTHER_READ", "OTHER_EXEC"}

\* A link needs another path to lead to.
ASSUME FilesAssumption ==
    /\ IsFiniteSet(FilePath) /\ \A p \in FilePath : \E q \in FilePath : p # q
    /\ TextLength \in [FilePath -> Nat] /\ FirstRoom \in Nat \ {0}
    /\ FileNode \subseteq (Nat \X Nat) /\ NoNode \notin FileNode
    /\ DeviceOf \in [FilePath -> {n[1] : n \in FileNode}]
    /\ SearchPath \in Seq(FilePath) /\ FileModes \subseteq SUBSET FileModeBit
    /\ FirstFiles \subseteq UNION {[some -> FileT] : some \in SUBSET FilePath}
    /\ MaxInterference \in Nat

VARIABLES
    entries,   \* the inode that every path names
    nodes,     \* the inodes in use
    umask,     \* the file creation mask of the process
    cwd,       \* its working directory
    calling,   \* the call: what is called, with which paths, and where it is
    room,      \* the size of the buffer for a path
    files,     \* the open files of the thread, with their offsets
    statuses,  \* its FileStatus objects
    pars,      \* CopyFileRangeParameters, and how much has been copied
    reply,    \* what the call returned
    seen,      \* history: what was true during the call
    interfered \* how often others changed something

fileSystem == <<entries, nodes, umask, cwd>>
filesVars == <<fileSystem, calling, room, files, statuses, pars, reply, seen, interfered>>

-----------------------------------------------------------------------------
(* Types and modes *)

UserID == {"me", "other"}

\* The users that a client names; the empty name asks for no change.
UserName == {"", "me", "other", "unknown"}

canAnyExec(mode) == mode \intersect {"OWNER_EXEC", "OTHER_EXEC"} # {}

NewNode(type, mode, text, data) ==
    [type |-> type, owner |-> "me", mode |-> mode, text |-> text, data |-> data]

InUse == DOMAIN nodes

Exists(n) == n # NoNode

isLink(n) == Exists(n) /\ nodes[n].type = "LINK"

mayRead(n) == (IF nodes[n].owner = "me" THEN "OWNER_READ" ELSE "OTHER_READ") \in nodes[n].mode

\* Where a path leads when symbolic links are followed.
leads(p) ==
    LET follow[k \in 0 .. Cardinality(FilePath)] ==
            IF k = 0 THEN entries[p]
            ELSE IF isLink(follow[k - 1]) THEN entries[nodes[follow[k - 1]].text]
            ELSE follow[k - 1]
        last == follow[Cardinality(FilePath)]
    IN IF isLink(last) THEN NoNode ELSE last

Target(p, follow) == IF follow THEN leads(p) ELSE entries[p]

\* The path of a directory, which has only one.
PathOf(n) == {p \in FilePath : entries[p] = n}

\* An inode goes when its last name and its last open file are gone.
Collected(table, used) == [n \in {m \in DOMAIN table : (\E p \in FilePath : used[p] = m)
                                    \/ m = cwd \/ \E f \in DOMAIN files : files[f].node = m} |-> table[n]]

-----------------------------------------------------------------------------
(* What others do *)

\* One call of another thread or process.
Interferes ==
    /\ calling.at # "idle" /\ reply = "none"
    /\ interfered < MaxInterference
    /\ interfered' = interfered + 1
    /\ UNCHANGED <<calling, room, files, statuses, pars, reply>>

Rewrites(n, node) ==
    /\ nodes' = [nodes EXCEPT ![n] = node]
    /\ UNCHANGED <<entries, umask, cwd>>

Renames(new) ==
    /\ entries' = new
    /\ nodes' = Collected(nodes, new)
    /\ UNCHANGED <<umask, cwd>>

\* A new inode, of the device of the directory, at a path that does not exist.
Creates(p, node) ==
    /\ ~Exists(entries[p])
    /\ \E n \in FileNode \ InUse :
         /\ n[1] = DeviceOf[p]
         /\ entries' = [entries EXCEPT ![p] = n]
         /\ nodes' = [m \in InUse \union {n} |-> IF m = n THEN node ELSE nodes[m]]
    /\ UNCHANGED <<umask, cwd>>

\* open() with CREATE and EXCLUSIVE, make_dir()
OpensNew(p, type, mode) == Creates(p, NewNode(type, mode \ umask, p, <<>>))

\* make_tempfile(), mkostemps(): the owner gets the access that is left by the
\* umask, and nobody else.
make_tempfile(p) == OpensNew(p, "REGULAR", {"OWNER_READ"})

make_fifo(p, mode) == OpensNew(p, "FIFO", mode)

\* The mode of a link is never looked at.
make_symlink(text, p) == Creates(p, NewNode("LINK", {}, text, <<>>))

\* Bits outside of the nine permission bits are refused with a UsageError.
set_umask(mask) ==
    /\ mask \subseteq FileModeBit
    /\ umask' = mask
    /\ UNCHANGED <<entries, nodes, cwd>>

unlink_file(p) ==
    /\ Exists(entries[p]) /\ nodes[entries[p]].type # "DIRECTORY"
    /\ Renames([entries EXCEPT ![p] = NoNode])

change_dir(p) ==
    /\ Exists(leads(p)) /\ nodes[leads(p)].type = "DIRECTORY"
    /\ cwd' = leads(p)
    /\ UNCHANGED <<entries, nodes, umask>>

\* change_mode() follows, and so does the variant for an open file.
change_mode(p, mode) ==
    /\ Exists(leads(p))
    /\ Rewrites(leads(p), [nodes[leads(p)] EXCEPT !.mode = mode])

\* resolve_user(): an unknown user throws a RuntimeError.
resolve_user(user) ==
    CASE user = "" -> {"INVALID"}
      [] user = "unknown" -> {}
      [] OTHER -> {user}

\* change_owner(), change_group() and change_owner_nofollow(): INVALID keeps
\* the owner.
change_owner(p, user, follow) ==
    /\ Exists(Target(p, follow))
    /\ \E uid \in resolve_user(user) \ {"INVALID"} :
         Rewrites(Target(p, follow), [nodes[Target(p, follow)] EXCEPT !.owner = uid])

\* link() and linkat(), which follows the old path if the client says so.
linkat(p, q, follow) ==
    /\ Exists(Target(p, follow)) /\ ~Exists(entries[q]) /\ DeviceOf[p] = DeviceOf[q]
    /\ nodes[Target(p, follow)].type # "DIRECTORY" /\ Target(p, follow)[1] = DeviceOf[q]
    /\ Renames([entries EXCEPT ![q] = Target(p, follow)])

RenameFlags == {{}, {"NOREPLACE"}, {"EXCHANGE"}}

\* rename() and rename_at(), on one device.  Two names of one file stay as
\* they are, and only a directory replaces a directory.
rename_at(p, q, flags) ==
    /\ Exists(entries[p]) /\ DeviceOf[p] = DeviceOf[q] /\ entries[p] # entries[q]
    /\ flags = {"NOREPLACE"} => ~Exists(entries[q])
    /\ flags = {"EXCHANGE"} => Exists(entries[q])
    /\ flags = {} /\ Exists(entries[q]) =>
         (nodes[entries[p]].type = "DIRECTORY") = (nodes[entries[q]].type = "DIRECTORY")
    /\ Renames([entries EXCEPT ![q] = entries[p],
                               ![p] = IF flags = {"EXCHANGE"} THEN entries[q] ELSE NoNode])

Resized(data, n) == [k \in 1..n |-> IF k <= Len(data) THEN data[k] ELSE 0]

\* truncate(), for a path or for an open file.
truncate(p, n) ==
    /\ Exists(leads(p)) /\ nodes[leads(p)].type = "REGULAR"
    /\ Rewrites(leads(p), [nodes[leads(p)] EXCEPT !.data = Resized(@, n)])

OthersStep ==
    /\ Interferes
    /\ \E p \in FilePath :
         \/ \E mode \in FileModes :
              \/ \E type \in {"REGULAR", "DIRECTORY"} : OpensNew(p, type, mode)
              \/ make_fifo(p, mode) \/ change_mode(p, mode)
         \/ make_tempfile(p) \/ unlink_file(p) \/ change_dir(p)
         \/ \E user \in UserName, follow \in BOOLEAN : change_owner(p, user, follow)
         \/ \E q \in FilePath :
              \/ make_symlink(q, p)
              \/ \E follow \in BOOLEAN : linkat(p, q, follow)
              \/ \E flags \in RenameFlags : rename_at(p, q, flags)
         \/ \E n \in 0..3 : truncate(p, n)
         \/ \E mode \in FileModes : set_umask(mode)

-----------------------------------------------------------------------------
(* The calls of the thread *)

Idle == [op |-> "none", at |-> "idle", paths |-> <<>>, all |-> <<>>]

FilesAre(paths, table, dir) ==
    /\ entries = paths /\ nodes = table /\ cwd = dir
    /\ umask = {}
    /\ calling = Idle /\ room = 0 /\ files = <<>> /\ statuses = <<>>
    /\ pars = [len |-> 0, off_in |-> <<>>, off_out |-> <<>>, copied |-> 0]
    /\ reply = "none" /\ seen = {} /\ interfered = 0

\* Distinct files of some types; a link leads to another path.
InitFiles ==
    \E types \in FirstFiles, paths \in [FilePath -> FileNode \union {NoNode}] :
        LET first == [n \in {paths[p] : p \in DOMAIN types} |-> CHOOSE p \in FilePath : paths[p] = n]
        IN /\ \A p \in FilePath : Exists(paths[p]) <=> p \in DOMAIN types
           /\ \A p, q \in DOMAIN types : paths[p][1] = DeviceOf[p] /\ (paths[p] = paths[q] => p = q)
           /\ \E dir \in DOMAIN types :
                /\ types[dir] = "DIRECTORY"
                /\ FilesAre(paths,
                            [n \in DOMAIN first |-> NewNode(types[first[n]], FileModeBit,
                                CHOOSE p \in FilePath : p # first[n], <<1, 2>>)],
                            paths[dir])

Calls(op, at, paths) ==
    /\ calling = Idle
    /\ calling' = [op |-> op, at |-> at, paths |-> paths, all |-> paths]
    /\ room' = FirstRoom
    /\ UNCHANGED <<fileSystem, files, statuses, pars, reply, interfered>>

GoesOn(at) == calling' = [calling EXCEPT !.at = at]

\* The call returns or throws, and what it has opened is closed.
Replies(result) ==
    /\ reply' = result
    /\ GoesOn("end")
    /\ files' = <<>>
    /\ UNCHANGED <<room, statuses, pars>>

\* readlink() fills the buffer, and says nothing about the rest.  Mutant: a
\* buffer that is filled up is taken for the whole text.
ReadsLink_Full ==
    LET p == calling.paths[1]
        text == nodes[entries[p]].text
        len == IF TextLength[text] < room THEN TextLength[text] ELSE room
    IN /\ calling.at = "read_symlink"
       /\ IF ~isLink(entries[p]) THEN Replies("throws")
          ELSE Replies(<<text, len>>)

\* Somebody may replace the link between two calls.
ReadsLink ==
    LET p == calling.paths[1]
        text == nodes[entries[p]].text
        len == IF TextLength[text] < room THEN TextLength[text] ELSE room
    IN /\ calling.at = "read_symlink"
       /\ IF ~isLink(entries[p]) THEN Replies("throws")
          ELSE IF len < room THEN Replies(<<text, len>>)
          ELSE room' = len + 1 /\ UNCHANGED <<calling, files, statuses, pars, reply>>

\* getcwd() needs room for the terminator, too; it fails in a directory that
\* has been removed.
GetsWorkingDir ==
    /\ calling.at = "get_working_dir"
    /\ IF PathOf(cwd) = {} THEN Replies("throws")
       ELSE \E p \in PathOf(cwd) :
              IF TextLength[p] + 1 <= room THEN Replies(<<p, TextLength[p]>>)
              ELSE room' = room * 2 /\ UNCHANGED <<calling, files, statuses, pars, reply>>

Opened(n) == [node |-> n, off |-> 0]

\* which() tries the paths in their order.  The open() of a FIFO does not
\* return as long as nobody writes.
OpensCandidate ==
    LET p == calling.paths[1]
    IN /\ calling.at = "candidates"
       /\ IF calling.paths = <<>> THEN Replies("nothing")
          ELSE IF ~Exists(leads(p)) \/ ~mayRead(leads(p))
          THEN /\ calling' = [calling EXCEPT !.paths = Tail(@)]
               /\ UNCHANGED <<room, files, statuses, pars, reply>>
          ELSE /\ nodes[leads(p)].type # "FIFO"
               /\ files' = <<Opened(leads(p))>>
               /\ GoesOn("candidate")
               /\ UNCHANGED <<room, statuses, pars, reply>>

\* checkExecutable(): what counts is the file that has been opened.
ChecksCandidate ==
    LET node == nodes[files[1].node]
    IN /\ calling.at = "candidate"
       /\ IF node.type = "REGULAR" /\ canAnyExec(node.mode)
          THEN Replies(calling.paths[1])
          ELSE /\ calling' = [calling EXCEPT !.at = "candidates", !.paths = Tail(@)]
               /\ files' = <<>>
               /\ UNCHANGED <<room, statuses, pars, reply>>

\* The struct stat of a file.
StatusOf(n) == [device |-> n[1], inode |-> n[2], node |-> nodes[n]]

\* Mutant: two files with the same number are the same.
isSameFile_NoDevice(s, t) == s.inode = t.inode

isSameFile(s, t) == s.inode = t.inode /\ s.device = t.device

\* size() throws for FIFOs and devices.
size(s) == Len(s.node.data)

OpensFile ==
    LET p == calling.paths[1]
    IN /\ calling.at = "open"
       /\ IF ~Exists(leads(p)) \/ ~mayRead(leads(p)) THEN Replies("throws")
          ELSE /\ nodes[leads(p)].type # "FIFO"
               /\ files' = <<Opened(leads(p))>>
               /\ GoesOn("status")
               /\ UNCHANGED <<room, statuses, pars, reply>>

\* updateFrom(fd)
UpdatesFromFile ==
    /\ calling.at = "status"
    /\ statuses' = <<StatusOf(files[1].node)>>
    /\ GoesOn("compare")
    /\ UNCHANGED <<room, files, pars, reply>>

\* updateFrom(path, follow) and isSameFile()
ComparesWithPath ==
    LET n == leads(calling.paths[2])
    IN /\ calling.at = "compare"
       /\ Replies(IF ~Exists(n) THEN "throws"
                  ELSE IF isSameFile(statuses[1], StatusOf(n)) THEN "same" ELSE "different")

\* Two files are opened, and all of the first is to be copied to the second.
StartsCopy ==
    LET in == leads(calling.paths[1])
        out == leads(calling.paths[2])
    IN /\ calling.at = "start copy"
       /\ IF ~Exists(in) \/ ~Exists(out) \/ in = out THEN Replies("throws")
          ELSE IF nodes[in].type # "REGULAR" \/ nodes[out].type # "REGULAR" THEN Replies("throws")
          ELSE /\ files' = <<Opened(in), Opened(out)>>
               /\ statuses' = <<StatusOf(in)>>
               /\ \E off_in, off_out \in {<<>>, <<0>>} :
                    pars' = [pars EXCEPT !.len = size(StatusOf(in)), !.off_in = off_in, !.off_out = off_out]
               /\ GoesOn("copy")
               /\ UNCHANGED <<room, reply>>

\* What a file contains when a part of it is overwritten.
Overwritten(data, off, part) ==
    [k \in 1 .. (IF off + Len(part) > Len(data) THEN off + Len(part) ELSE Len(data)) |->
        IF k > off /\ k <= off + Len(part) THEN part[k - off] ELSE IF k <= Len(data) THEN data[k] ELSE 0]

\* The offset in a parameter, an optional, or else that of the open file.
Offset(file, off) == IF off = <<>> THEN file.off ELSE off[1]

\* The kernel copies some of what there is, and moves the offsets.
Copied(n) ==
    LET from == Offset(files[1], pars.off_in)
        part == [k \in 1..n |-> nodes[files[1].node].data[from + k]]
        Moved(file, off) == IF off = <<>> THEN [file EXCEPT !.off = @ + n] ELSE file
    IN /\ nodes' = [nodes EXCEPT ![files[2].node].data =
                        Overwritten(@, Offset(files[2], pars.off_out), part)]
       /\ files' = <<Moved(files[1], pars.off_in), Moved(files[2], pars.off_out)>>

MovedBy(n, off) == [k \in DOMAIN off |-> off[k] + n]

\* Mutant: the parameters do not say how much is left.
copy_file_range_SameLen(n) ==
    pars' = [pars EXCEPT !.off_in = MovedBy(n, @), !.off_out = MovedBy(n, @), !.copied = @ + n]

\* copy_file_range(pars): the same parameters serve to continue.
copy_file_range(n) ==
    pars' = [pars EXCEPT !.off_in = MovedBy(n, @), !.off_out = MovedBy(n, @), !.copied = @ + n,
                         !.len = @ - n]

CopiesRange ==
    LET from == Offset(files[1], pars.off_in)
        there == Len(nodes[files[1].node].data) - from
        most == IF there < pars.len THEN there ELSE pars.len
    IN /\ calling.at = "copy"
       /\ IF most <= 0 THEN Replies("copied") /\ UNCHANGED nodes
          ELSE /\ \E n \in 1..most : Copied(n) /\ copy_file_range(n)
               /\ UNCHANGED <<calling, room, statuses, reply>>

CallerStep ==
    \/ \E p \in FilePath :
         \/ Calls("read_symlink", "read_symlink", <<p>>)
         \/ Calls("which", "candidates", <<p>>)
         \/ \E q \in FilePath : Calls("compare", "open", <<p, q>>)
         \/ \E q \in FilePath \ {p} : Calls("copy", "start copy", <<p, q>>)
    \/ Calls("which", "candidates", SearchPath)
    \/ Calls("get_working_dir", "get_working_dir", <<>>)
    \/ /\ UNCHANGED <<fileSystem, interfered>>
       /\ \/ ReadsLink \/ GetsWorkingDir \/ OpensCandidate \/ ChecksCandidate
          \/ OpensFile \/ UpdatesFromFile \/ ComparesWithPath \/ StartsCopy
    \/ /\ UNCHANGED <<entries, umask, cwd, interfered>>
       /\ CopiesRange

-----------------------------------------------------------------------------
(* What is true while the call runs *)

usable(n) == nodes[n].type = "REGULAR" /\ canAnyExec(nodes[n].mode)

Truths ==
    CASE calling.op = "read_symlink" ->
           {nodes[entries[p]].text : p \in {q \in {calling.paths[1]} : isLink(entries[q])}}
      [] calling.op = "get_working_dir" -> PathOf(cwd)
      [] calling.op = "which" ->
           {<<"leads", p, leads(p)>> : p \in FilePath}
             \union {<<IF usable(n) THEN "usable" ELSE "refused", n>> : n \in InUse}
             \union {<<"refused", n>> : n \in {m \in InUse : ~mayRead(m)} \union {NoNode}}
      [] calling.op = "compare" ->
           {IF leads(calling.paths[2]) = files[k].node THEN "same" ELSE "different" : k \in DOMAIN files}
      [] calling.op = "copy" -> {Len(nodes[files[k].node].data) : k \in {1} \intersect DOMAIN files}
      [] OTHER -> {}

NextFiles ==
    /\ OthersStep \/ CallerStep
    /\ seen' = seen \union Truths'

SpecFiles == InitFiles /\ [][NextFiles]_filesVars

-----------------------------------------------------------------------------
(* Properties *)

\* A path that which() passed over led to something, during the call, that
\* was no readable executable during the call.
PassedOver(p) == \E n \in FileNode \union {NoNode} :
    <<"leads", p, n>> \in seen /\ <<"refused", n>> \in seen

\* What a call returns was so while the call ran, whatever others changed
\* between its system calls: read_symlink() returns all of a text that the
\* link had, get_working_dir() a path that the directory had; which() the
\* first path that led to an executable file; two FileStatus, one of an open
\* file, are of the same file if the path led to that file.
AnswersWereTrue == calling.at = "end" =>
    LET tried == {calling.all[k] : k \in 1 .. Len(calling.all) - Len(calling.paths)}
    IN CASE calling.op \in {"read_symlink", "get_working_dir"} ->
              reply = "throws" \/ reply \in {<<p, TextLength[p]>> : p \in seen \intersect FilePath}
         [] calling.op = "which" ->
              /\ \A p \in tried : PassedOver(p)
              /\ reply # "nothing" => \E n \in FileNode :
                   <<"leads", reply, n>> \in seen /\ <<"usable", n>> \in seen
         [] calling.op = "compare" -> reply = "throws" \/ reply \in seen
         [] OTHER -> TRUE

\* Repeated calls of copy_file_range() with the same parameters copy every byte
\* to its place, none twice, whether the offsets are those of the open files
\* or the parameters, and stop early only at an end of the file, which others
\* may move.
CopiesAreExact == calling.op = "copy" /\ statuses # <<>> =>
    LET source == statuses[1].node.data
    IN /\ pars.copied + pars.len = Len(source)
       /\ reply = "copied" => pars.len = 0 \/ \E k \in seen : k <= pars.copied
       /\ calling.at = "copy" =>
            LET copy == nodes[files[2].node].data
            IN \A k \in 1..pars.copied : k <= Len(copy) => copy[k] \in {source[k], 0}
=============================================================================
