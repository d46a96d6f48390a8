----------------------------- MODULE Attributes -----------------------------
(***************************************************************************)
(* What a program sets on files and sockets through cosmos::FileDescriptor *)
(* and the socket option classes, and what it gets.  The kernel keeps some *)
(* of it for every descriptor number, most of it for the open file that    *)
(* several numbers may share, and some for the file; an option of a socket *)
(* is found by a level and a number.  The objects of the library only know *)
(* a descriptor number, so that all of them are stand-ins for numbers.     *)
(*                                                                         *)
(* The program is told nothing about this but what the calls promise: the  *)
(* history of its calls says which numbers are duplicates, which refer to  *)
(* the same file, and what it should get.                                  *)
(***************************************************************************)
EXTENDS Integers, FiniteSets

CONSTANTS
    Number,      \* the descriptor numbers
    OpenFile,    \* open file descriptions
    FileNodes,   \* files, of the kind in KindOf
    KindOf,      \* the kind of every file
    OptionsUsed,    \* the socket options that the program uses
    OptionValue, \* the values it sets them to
    MaxSets      \* bound: the number of calls

ASSUME AttributesAssumption ==
    /\ Number \subseteq Nat /\ IsFiniteSet(Number)
    /\ Cardinality(OpenFile) >= Cardinality(Number)
    /\ MaxSets \in Nat

VARIABLES
    table,     \* the descriptor table: an open file and the close-on-exec flag
    opened,    \* the open files: a file, how it was opened, and attributes
    kept,      \* the attributes of the files
    copies,    \* history: the pairs of numbers that are duplicates
    aliases,   \* history: the pairs of numbers that refer to the same file
    promised,  \* history: what the program should get for every number
    sets       \* the number of calls

attributesVars == <<table, opened, kept, copies, aliases, promised, sets>>

-----------------------------------------------------------------------------
(* Types of attributes *)

\* The flags that setStatusFlags() can change; of those that open() knows, the
\* others stay as they are.
Changeable == {"APPEND", "NONBLOCK"}
OpenFlag == Changeable \union {"SYNC"}

SealFlag == {"SEAL", "WRITE"}

LeaseType == {"READ", "WRITE", "UNLOCK"}

\* An Owner is a process, a group or a thread; it is not valid if none was set.
Owner == {<<"PROCESS", 1>>, <<"GROUP", 1>>}

ReadWriteHint == {"LIFE_NOT_SET", "LIFE_SHORT"}

LockOperation == {"LOCK_SHARED", "LOCK_EXCLUSIVE", "UNLOCK"}

NewOpenFile(f, mode, flags) ==
    [file |-> f, mode |-> mode, status |-> flags, owner |-> "none", signal |-> "default",
     lease |-> "UNLOCK", flock |-> "UNLOCK", options |-> [o \in {} |-> 0]]

NewFile == [seals |-> {}, hint |-> "LIFE_NOT_SET", pipe |-> "default"]

isOpen(n) == n \in DOMAIN table

FileOf(n) == opened[table[n].to].file

isSocket(n) == KindOf[FileOf(n)] \notin {"regular", "memfd", "pipe"}

-----------------------------------------------------------------------------
(* Options of sockets: a level, which the class brings, and a number *)

\* SocketOptions
SocketOptions == {"SOCKET"} \X {1, 2, 9, 13, 15, 18, 25, 36, 60}

\* UnixOptions, which have the level of all sockets.
UnixOptions == {"SOCKET"} \X {16, 34, 42}

\* IP4Options
IP4Options == {"IP"} \X {3, 5, 6, 7, 8, 11, 12, 13, 15, 18, 19, 20, 22, 24}
IP4Values == {"IP"} \X {1, 2, 10, 51}

\* IP6Options; four of them set what is sent instead of what is received.
IP6Options == {"IPV6"} \X {1, 10, 16, 22, 23, 24, 25, 26, 49, 52, 54, 57, 59}

\* TCPOptions
TCPOptions == {"TCP"} \X {1, 2, 3, 4, 5, 6, 7, 8, 9, 10, 12, 13}
TCPTimes == {"TCP"} \X {18, 23, 30}

\* UDPOptions
UDPOptions == {"UDP"} \X {1, 103, 104}

\* The options that the kernel has for a kind of sockets.
OptionsOf(kind) ==
    SocketOptions \union
    CASE kind = "unix" -> UnixOptions
      [] kind = "tcp4" -> IP4Options \union IP4Values \union TCPOptions \union TCPTimes
      [] kind = "udp6" -> IP6Options \union UDPOptions
      [] OTHER -> {}

BoundDevice == <<"SOCKET", 25>>
PortRange == <<"IP", 51>>

\* setLocalPortRange() packs two bounds into a word, here of two digits.
Packed(lower, upper) == 4 * upper + lower

\* getLocalPortRange(): the upper bound comes first.
Unpacked(word) == <<word \div 4, word % 4>>

-----------------------------------------------------------------------------
(* The calls: what the kernel does, and what the program is promised *)

InitAttributes ==
    /\ table = [n \in {} |-> 0] /\ opened = [d \in {} |-> 0] /\ kept = [f \in FileNodes |-> NewFile]
    /\ copies = {} /\ aliases = {} /\ promised = [n \in {} |-> 0]
    /\ sets = 0

MakesCall ==
    /\ sets < MaxSets
    /\ sets' = sets + 1

\* Open files go with their last number.
Tables(new, files) ==
    /\ table' = new
    /\ opened' = [d \in {new[n].to : n \in DOMAIN new} |-> files[d]]

Within(relation, numbers) == {pair \in relation : pair \in numbers \X numbers}

\* The program knows of these numbers, and of what they share.
Remembers(numbers, same, files, values) ==
    /\ copies' = Within(same, numbers)
    /\ aliases' = Within(files, numbers)
    /\ promised' = [n \in numbers |-> values[n]]

Forgets(numbers) == Remembers(DOMAIN promised \ numbers, copies, aliases, promised)

Related(relation, n) == {m \in DOMAIN promised : <<n, m>> \in relation}

Paired(relation, n, m) ==
    {p \in relation : m \notin {p[1], p[2]}} \union {<<m, m>>}
      \union UNION {{<<k, m>>, <<m, k>>} : k \in (Related(relation, n) \ {m})}

\* open(), socket(), pipe(): a new open file under the lowest free number.  An
\* open() that would break a lease waits for its holder.
Opens(n, f, mode, flags) ==
    /\ ~isOpen(n) /\ \A m \in Number : m < n => isOpen(m)
    /\ \A d \in DOMAIN opened : opened[d].file = f =>
         /\ KindOf[f] \in {"regular", "memfd"}
         /\ opened[d].lease = "UNLOCK" \/ (opened[d].lease = "READ" /\ mode = "READ_ONLY")
    /\ LET d == CHOOSE e \in OpenFile : e \notin DOMAIN opened
       IN Tables([m \in DOMAIN table \union {n} |-> IF m = n THEN [to |-> d, cloexec |-> TRUE] ELSE table[m]],
                [e \in DOMAIN opened \union {d} |-> IF e = d THEN NewOpenFile(f, mode, flags) ELSE opened[e]])
    /\ LET known == {m \in DOMAIN promised : promised[m].file = f}
           first == IF known = {} /\ KindOf[f] # "regular" THEN NewFile ELSE kept[f]
           new == [file |-> f, mode |-> mode, cloexec |-> TRUE, status |-> flags, owner |-> "none",
                   signal |-> "default", lease |-> "UNLOCK", flock |-> "UNLOCK",
                   seals |-> first.seals, hint |-> first.hint, pipe |-> first.pipe,
                   options |-> [o \in {} |-> 0]]
       IN /\ kept' = [kept EXCEPT ![f] = first]
          /\ Remembers(DOMAIN promised \union {n}, copies \union {<<n, n>>},
                       aliases \union {<<n, n>>} \union {<<n, m>> : m \in known} \union {<<m, n>> : m \in known},
                       [m \in DOMAIN promised \union {n} |-> IF m = n THEN new ELSE promised[m]])

\* Mutant: the duplicate inherits the flag.
Duplicates_Inherits(n, m, cloexec) ==
    /\ isOpen(n) /\ n # m
    /\ Tables([k \in DOMAIN table \union {m} |-> IF k = m THEN table[n] ELSE table[k]], opened)
    /\ Remembers(DOMAIN promised \union {m}, Paired(copies, n, m), Paired(aliases, n, m),
                 [k \in DOMAIN promised \union {m} |->
                    IF k = m THEN [promised[n] EXCEPT !.cloexec = cloexec] ELSE promised[k]])
    /\ UNCHANGED kept

\* duplicate(new_fd, cloexec): what has been open under the number is closed.
Duplicates(n, m, cloexec) ==
    /\ isOpen(n) /\ n # m
    /\ Tables([k \in DOMAIN table \union {m} |->
                 IF k = m THEN [to |-> table[n].to, cloexec |-> cloexec] ELSE table[k]], opened)
    /\ Remembers(DOMAIN promised \union {m}, Paired(copies, n, m), Paired(aliases, n, m),
                 [k \in DOMAIN promised \union {m} |->
                    IF k = m THEN [promised[n] EXCEPT !.cloexec = cloexec] ELSE promised[k]])
    /\ UNCHANGED kept

\* duplicate(lowest, cloexec): the lowest free number from there on.
DuplicatesAbove(n, lowest, cloexec) ==
    \E m \in Number \ DOMAIN table :
        /\ m >= lowest /\ \A k \in Number : lowest <= k /\ k < m => isOpen(k)
        /\ Duplicates(n, m, cloexec)

Closes(numbers) ==
    /\ Tables([m \in DOMAIN table \ numbers |-> table[m]], opened)
    /\ Forgets(numbers)
    /\ UNCHANGED kept

\* close()
close(n) == isOpen(n) /\ Closes({n})

CloseRangeFlag == {"CLOSE", "CLOEXEC"}

\* close_range(): closes the numbers, or only marks them.
close_range(first, last, flag) ==
    LET range == {n \in DOMAIN table : first <= n /\ n <= last}
    IN IF flag = "CLOSE" THEN Closes(range)
       ELSE /\ table' = [n \in DOMAIN table |-> IF n \in range THEN [table[n] EXCEPT !.cloexec = TRUE] ELSE table[n]]
            /\ promised' = [n \in DOMAIN promised |->
                              IF n \in range THEN [promised[n] EXCEPT !.cloexec = TRUE] ELSE promised[n]]
            /\ UNCHANGED <<opened, kept, copies, aliases>>

\* execve() closes the numbers with the flag.
executes == Closes({n \in DOMAIN table : table[n].cloexec})

\* The fields of new replace those of a record.
Updated(record, new) == [k \in DOMAIN record |-> IF k \in DOMAIN new THEN new[k] ELSE record[k]]

\* The program expects that the numbers of a relation share the new values.
Expects(relation, n, new) ==
    /\ promised' = [m \in DOMAIN promised |-> IF <<n, m>> \in relation THEN Updated(promised[m], new) ELSE promised[m]]
    /\ UNCHANGED <<copies, aliases>>

InOpenFile(n, new) ==
    /\ opened' = [opened EXCEPT ![table[n].to] = Updated(@, new)]
    /\ Expects(copies, n, new)
    /\ UNCHANGED <<table, kept>>

InFile(n, new) ==
    /\ kept' = [kept EXCEPT ![FileOf(n)] = Updated(@, new)]
    /\ Expects(aliases, n, new)
    /\ UNCHANGED <<table, opened>>

-----------------------------------------------------------------------------
(* Setters.  A call that the kernel refuses throws and changes nothing. *)

\* setFlags(), setCloseOnExec()
setFlags(n, cloexec) ==
    /\ table' = [table EXCEPT ![n].cloexec = cloexec]
    /\ promised' = [promised EXCEPT ![n].cloexec = cloexec]
    /\ UNCHANGED <<opened, kept, copies, aliases>>

\* setStatusFlags(): the OpenMode, and most of the flags, cannot be changed.
setStatusFlags(n, flags) ==
    LET Changed(old) == (old \ Changeable) \union (flags \intersect Changeable)
    IN /\ opened' = [opened EXCEPT ![table[n].to].status = Changed(@)]
       /\ Expects(copies, n, [status |-> Changed(promised[n].status)])
       /\ UNCHANGED <<table, kept>>

setOwner(n, owner) == InOpenFile(n, [owner |-> owner])

\* setSignal(): std::nullopt is the number zero for the kernel.
setSignal(n, sig) == InOpenFile(n, [signal |-> sig])

OthersOf(n) == {d \in DOMAIN opened : opened[d].file = FileOf(n)} \ {table[n].to}

\* A lease of a regular file: for reading if nobody has it open for writing,
\* for writing if nobody else has it open.  One that is not there cannot be
\* removed.
MayLease(n, lease) ==
    /\ KindOf[FileOf(n)] = "regular"
    /\ CASE lease = "UNLOCK" -> opened[table[n].to].lease # "UNLOCK"
         [] lease = "READ" -> \A d \in OthersOf(n) \union {table[n].to} : opened[d].mode = "READ_ONLY"
         [] lease = "WRITE" -> OthersOf(n) = {}

setLease(n, lease) == MayLease(n, lease) /\ InOpenFile(n, [lease |-> lease])

Conflicts(op, other) == "LOCK_EXCLUSIVE" \in {op, other} /\ "UNLOCK" \notin {op, other}

\* flock(): waits, or throws with LOCK_NONBLOCK, while another open file has
\* a lock that conflicts; a lock of this one is converted.
flock(n, op) ==
    /\ KindOf[FileOf(n)] = "regular"
    /\ \A d \in OthersOf(n) : ~Conflicts(op, opened[d].flock)
    /\ InOpenFile(n, [flock |-> op])

addSeals(n, seals) ==
    /\ KindOf[FileOf(n)] = "memfd" /\ opened[table[n].to].mode = "READ_WRITE"
    /\ "SEAL" \notin kept[FileOf(n)].seals
    /\ kept' = [kept EXCEPT ![FileOf(n)].seals = @ \union seals]
    /\ Expects(aliases, n, [seals |-> promised[n].seals \union seals])
    /\ UNCHANGED <<table, opened>>

\* setPipeSize(): the size is changed, although the result, the new size, is
\* taken for an error.
setPipeSize(n, new_size) ==
    /\ KindOf[FileOf(n)] = "pipe"
    /\ InFile(n, [pipe |-> new_size])

\* setInodeReadWriteHint(); setFDReadWriteHint() is refused by the kernel.
setInodeReadWriteHint(n, hint) ==
    /\ KindOf[FileOf(n)] = "regular"
    /\ InFile(n, [hint |-> hint])

\* Mutant: all options are set at the level of sockets.
KeyOf_NoLevel(option) == <<"SOCKET", option[2]>>

\* An option class passes its own level, M_LEVEL, with every number.
KeyOf(option) == option

With(options, key, value) == [o \in DOMAIN options \union {key} |-> IF o = key THEN value ELSE options[o]]

\* setBoolOption(), setIntOption(), setStringOption()
setOption(n, option, value) ==
    /\ isSocket(n) /\ option \in OptionsOf(KindOf[FileOf(n)])
    /\ opened' = [opened EXCEPT ![table[n].to].options = With(@, KeyOf(option), value)]
    /\ Expects(copies, n, [options |-> With(promised[n].options, option, value)])
    /\ UNCHANGED <<table, kept>>

\* setLocalPortRange()
setLocalPortRange(n, lower, upper) == setOption(n, PortRange, Packed(lower, upper))

-----------------------------------------------------------------------------
(* Getters *)

getFlags(n) == table[n].cloexec

getStatusFlags(n) == <<opened[table[n].to].mode, opened[table[n].to].status>>

getOwner(n) == opened[table[n].to].owner

getSignal(n) == opened[table[n].to].signal

getLease(n) == opened[table[n].to].lease

\* getSeals() throws if there are any.
getSeals(n) == IF kept[FileOf(n)].seals = {} THEN {} ELSE {"throws"}

\* getPipeSize() throws for every size.
getPipeSize(n) == "throws"

getInodeReadWriteHint(n) == kept[FileOf(n)].hint

\* A getter of a socket throws.
Throws == -1

Value(options, option) == IF option \in DOMAIN options THEN options[option] ELSE 0

\* boundDevice(): the length of the name without its terminator, which is none
\* without a device; resize() throws.
getStringOption(value) == IF value = 0 THEN Throws ELSE value

\* getBoolOption(), getIntOption() and the like
getOption(n, option) ==
    LET value == Value(opened[table[n].to].options, KeyOf(option))
    IN CASE option = BoundDevice -> getStringOption(value)
         [] option = PortRange -> Unpacked(value)
         [] OTHER -> value

-----------------------------------------------------------------------------
(* The program *)

Sets(n) ==
    \/ \E cloexec \in BOOLEAN : setFlags(n, cloexec)
    \/ ~isSocket(n) /\ \/ \E flags \in {{}, OpenFlag} : setStatusFlags(n, flags)
                       \/ \E owner \in Owner : setOwner(n, owner)
                       \/ \E sig \in {"default", "RT"} : setSignal(n, sig)
                       \/ \E lease \in LeaseType : setLease(n, lease)
                       \/ \E op \in LockOperation : flock(n, op)
                       \/ \E seal \in SealFlag : addSeals(n, {seal})
                       \/ setPipeSize(n, "large")
                       \/ \E hint \in ReadWriteHint : setInodeReadWriteHint(n, hint)
    \/ \E option \in OptionsUsed \ {PortRange}, value \in OptionValue : setOption(n, option, value)
    \/ PortRange \in OptionsUsed /\ setLocalPortRange(n, 1, 2)

NextAttributes ==
    /\ MakesCall
    /\ \/ \E n \in Number, f \in FileNodes, mode \in {"READ_ONLY", "READ_WRITE"}, flags \in {{}, {"SYNC"}} :
            Opens(n, f, mode, flags)
       \/ \E n \in DOMAIN table :
            \/ close(n) \/ Sets(n)
            \/ \E m \in Number, cloexec \in BOOLEAN : Duplicates(n, m, cloexec) \/ DuplicatesAbove(n, m, cloexec)
       \/ \E first, last \in Number, flag \in CloseRangeFlag : first <= last /\ close_range(first, last, flag)
       \/ executes

SpecAttributes == InitAttributes /\ [][NextAttributes]_attributesVars

-----------------------------------------------------------------------------
(* Properties *)

\* Whatever was duplicated, closed, closed as a range or by execve() before,
\* and under which number ever: a program has the descriptors that it thinks
\* it has, and gets for each what was last set for this number (flags), for
\* one of its duplicates (status flags, owner, signal, lease, lock, options),
\* or for any number of the same file (seals, hint), and no setter changes
\* what another sets.  getSeals(), getPipeSize() and boundDevice() throw for
\* certain values, but never return another one.
AttributesAreAsSet ==
    /\ DOMAIN table = DOMAIN promised
    /\ \A n \in DOMAIN table :
         LET e == promised[n]
         IN /\ getFlags(n) = e.cloexec /\ getStatusFlags(n) = <<e.mode, e.status>>
            /\ getOwner(n) = e.owner /\ getSignal(n) = e.signal
            /\ getLease(n) = e.lease /\ opened[table[n].to].flock = e.flock
            /\ getSeals(n) \in {e.seals, {"throws"}} /\ getPipeSize(n) \in {e.pipe, "throws"}
            /\ getInodeReadWriteHint(n) = e.hint
            /\ isSocket(n) => \A o \in (OptionsUsed \intersect OptionsOf(KindOf[FileOf(n)])) \ {PortRange} :
                 getOption(n, o) = Value(e.options, o) \/ (o = BoundDevice /\ Value(e.options, o) = 0)
            /\ KindOf[FileOf(n)] = "tcp4" => getOption(n, PortRange) = Unpacked(Value(e.options, PortRange))
=============================================================================
