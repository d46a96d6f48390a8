------------------------------ MODULE StreamIO ------------------------------
(***************************************************************************)
(* cosmos::StreamIO and cosmos::IOVector: the operations that transfer all *)
(* of a buffer, or all regions of an I/O vector, through system calls that *)
(* transfer a part, are interrupted, would block or meet the end of file.  *)
(*                                                                         *)
(* A writer calls writeAll() and a reader calls readAll() on the two ends  *)
(* of a pipe.  A buffer is a vector of one region.  The memory of the      *)
(* writer holds byte a at address a, so that a byte tells where it is from.*)
(***************************************************************************)
EXTENDS Integers, Sequences, Functions

CONSTANTS
    WriteVectors,  \* the vectors that the writer has
    ReadVectors,   \* the vectors that the reader has
    Capacity,      \* the bytes that fit into the pipe
    Settings,      \* the settings of the file descriptors and of the library
    Interrupts     \* signal handlers without SA_RESTART are installed

StreamSetting ==
    [nonblocking: BOOLEAN,  \* the file descriptors have OpenFlag::NONBLOCK
     restart: BOOLEAN]      \* auto_restart_syscalls

\* An entry of a vector.
Region == [base: Nat, len: Nat]

ASSUME StreamIOAssumption ==
    /\ Capacity \in Nat \ {0}
    /\ WriteVectors \subseteq Seq(Region) /\ ReadVectors \subseteq Seq(Region)
    /\ Settings \subseteq StreamSetting
    /\ Interrupts \in BOOLEAN

Side == {"writer", "reader"}
Kind == {"buffer", "vector"}

VARIABLES
    setting,  \* the settings that are in effect
    kind,     \* which overload the side calls
    wanted,   \* history: the vector at the time of the call
    vec,      \* the vector, or the pointer and length that the loop keeps
    mem,      \* the memory of the reader
    pipe,     \* the bytes in the pipe
    open,     \* the sides whose file descriptor is open
    progress  \* where the side is: in the loop, at an exception or returned

streamVars == <<setting, kind, wanted, vec, mem, pipe, open, progress>>

-----------------------------------------------------------------------------
(* IOVector *)

finished(region) == region.len = 0

Smaller(m, n) == IF m < n THEN m ELSE n

\* IOMemoryRegion::update(): an entry takes as much of the processed bytes as
\* it has left.
advance(region, processed) ==
    LET taken == Smaller(processed, region.len)
    IN  [base |-> region.base + taken, len |-> region.len - taken]

\* The bytes of the entries up to the i-th, for every i.
Sums(v) == LET sum[i \in 0..Len(v)] == IF i = 0 THEN 0 ELSE sum[i - 1] + v[i].len IN sum

leftBytes(v) == Sums(v)[Len(v)]

\* Mutant: all bytes are taken to be of the first entry that has any.
update_FirstOnly(v, n) ==
    [i \in DOMAIN v |-> IF \E j \in 1..(i - 1) : ~finished(v[j]) THEN v[i] ELSE advance(v[i], n)]

\* The loop of IOVector::update(): the bytes that are left after the i-th
\* entry, none after an entry that is not finished.
Unaccounted(v, n) ==
    LET left[i \in 0..Len(v)] ==
            IF i = 0 THEN n ELSE left[i - 1] - Smaller(left[i - 1], v[i].len)
    IN  left

\* IOVector::update(): the entries take their share of the processed bytes
\* in turn.
update(v, n) == LET left == Unaccounted(v, n) IN [i \in DOMAIN v |-> advance(v[i], left[i - 1])]

\* The result of update(): whether the loop met no unfinished entry.
vec_finished(v) == \A i \in DOMAIN v : finished(v[i])

\* The addresses that a vector stands for, in the order of the transfer.
Addresses(v) ==
    LET sum == Sums(v)
        Entry(k) == CHOOSE i \in DOMAIN v : sum[i - 1] < k /\ k <= sum[i]
    IN  [k \in 1..leftBytes(v) |-> v[Entry(k)].base + k - 1 - sum[Entry(k) - 1]]

\* The regions of no vector that is read into overlap.
RegionsApart == \A v \in ReadVectors : IsInjective(Addresses(v))

\* The addresses of the reader's memory; it is zero before something is read.
ReaderMemory == UNION {Range(Addresses(v)) : v \in ReadVectors}

-----------------------------------------------------------------------------
(* StreamIO *)

InitStream ==
    /\ setting \in Settings
    /\ kind \in [Side -> Kind]
    /\ wanted \in [Side -> WriteVectors \union ReadVectors]
    /\ wanted["writer"] \in WriteVectors /\ wanted["reader"] \in ReadVectors
    /\ \A s \in Side : kind[s] = "buffer" => Len(wanted[s]) = 1
    /\ vec = wanted
    /\ mem = [a \in ReaderMemory |-> 0]
    /\ pipe = <<>>
    /\ open = Side
    /\ progress = [s \in Side |-> IF kind[s] = "buffer" /\ vec_finished(wanted[s])
                                  THEN "returned" ELSE "looping"]

\* The transfer of n bytes is accounted for; the loop ends with the last one.
Account(s, n) ==
    LET v == update(vec[s], n)
    IN  /\ vec' = [vec EXCEPT ![s] = v]
        /\ progress' = [progress EXCEPT ![s] = IF vec_finished(v) THEN "returned" ELSE "looping"]

\* write(2) or writev(2) puts n bytes into the pipe.
write(n) ==
    /\ progress["writer"] = "looping"
    /\ n > 0 => "reader" \in open
    /\ n <= leftBytes(vec["writer"]) /\ Len(pipe) + n <= Capacity
    /\ n = 0 => vec_finished(vec["writer"])
    /\ pipe' = pipe \o SubSeq(Addresses(vec["writer"]), 1, n)
    /\ Account("writer", n)
    /\ UNCHANGED <<setting, kind, wanted, mem, open>>

\* read(2) or readv(2) takes n bytes out of the pipe, and fills the regions in
\* their order.
read(n) ==
    LET target == Addresses(vec["reader"])
    IN  /\ progress["reader"] = "looping"
        /\ n <= Len(target) /\ n <= Len(pipe)
        /\ n = 0 => target = <<>>
        /\ mem' = [a \in DOMAIN mem |->
                      IF \E k \in 1..n : target[k] = a
                      THEN pipe[CHOOSE k \in 1..n :
                                    target[k] = a /\ \A l \in (k + 1)..n : target[l] # a]
                      ELSE mem[a]]
        /\ pipe' = SubSeq(pipe, n + 1, Len(pipe))
        /\ Account("reader", n)
        /\ UNCHANGED <<setting, kind, wanted, open>>

\* read(2) or readv(2) returns zero at the end of file: readAll() of a buffer
\* throws RuntimeError, the one of a vector calls read() again.
ReadEndOfFile ==
    /\ progress["reader"] = "looping" /\ ~vec_finished(vec["reader"])
    /\ pipe = <<>> /\ "writer" \notin open
    /\ IF kind["reader"] = "buffer"
       THEN progress' = [progress EXCEPT !["reader"] = "failed"] /\ UNCHANGED vec
       ELSE Account("reader", 0)
    /\ UNCHANGED <<setting, kind, wanted, mem, pipe, open>>

\* Mutant: the error is taken for a transfer of no bytes.
WriteBrokenPipe_Retries ==
    /\ progress["writer"] = "looping" /\ "reader" \notin open
    /\ ~vec_finished(vec["writer"])
    /\ UNCHANGED streamVars

\* write(2) fails with EPIPE: ApiError.
WriteBrokenPipe ==
    /\ progress["writer"] = "looping" /\ "reader" \notin open
    /\ ~vec_finished(vec["writer"])
    /\ progress' = [progress EXCEPT !["writer"] = "failed"]
    /\ UNCHANGED <<setting, kind, wanted, vec, mem, pipe, open>>

\* No byte can be transferred now.
Blocked(s) ==
    /\ progress[s] = "looping" /\ ~vec_finished(vec[s])
    /\ IF s = "writer"
       THEN Len(pipe) = Capacity /\ "reader" \in open
       ELSE pipe = <<>> /\ "writer" \in open

\* handleIOError(): the call fails with EAGAIN and throws WouldBlock ...
WouldBlock(s) ==
    /\ setting.nonblocking /\ Blocked(s)
    /\ progress' = [progress EXCEPT ![s] = "thrown"]
    /\ UNCHANGED <<setting, kind, wanted, vec, mem, pipe, open>>

\* ... or with EINTR, and is restarted unless the library is told not to.
Interrupted(s) ==
    /\ Interrupts /\ Blocked(s)
    /\ progress' = [progress EXCEPT ![s] = IF setting.restart THEN @ ELSE "thrown"]
    /\ UNCHANGED <<setting, kind, wanted, vec, mem, pipe, open>>

\* The client continues with the vector, which tells what is left to do.
Resume(s) ==
    /\ progress[s] = "thrown" /\ kind[s] = "vector"
    /\ progress' = [progress EXCEPT ![s] = "looping"]
    /\ UNCHANGED <<setting, kind, wanted, vec, mem, pipe, open>>

\* The client gives up: it must if it called readAll() or writeAll() with a
\* buffer, as it does not learn how many bytes were transferred.
GiveUp(s) ==
    /\ progress[s] = "thrown"
    /\ progress' = [progress EXCEPT ![s] = "failed"]
    /\ UNCHANGED <<setting, kind, wanted, vec, mem, pipe, open>>

Close(s) ==
    /\ progress[s] \in {"returned", "failed"} /\ s \in open
    /\ open' = open \ {s}
    /\ UNCHANGED <<setting, kind, wanted, vec, mem, pipe, progress>>

\* The process of side s ends in the middle of the transfer.
Crash(s) ==
    /\ progress[s] \in {"looping", "thrown"} /\ s \in open
    /\ progress' = [progress EXCEPT ![s] = "failed"]
    /\ open' = open \ {s}
    /\ UNCHANGED <<setting, kind, wanted, vec, mem, pipe>>

WriterStep == (\E n \in 0..Capacity : write(n)) \/ WriteBrokenPipe
ReaderStep == (\E n \in 0..Capacity : read(n)) \/ ReadEndOfFile
ClientStep(s) == Resume(s) \/ GiveUp(s) \/ Close(s)

NextStream ==
    \/ WriterStep
    \/ ReaderStep
    \/ \E s \in Side : WouldBlock(s) \/ Interrupted(s) \/ ClientStep(s) \/ Crash(s)

SpecStream == InitStream /\ [][NextStream]_streamVars

\* System calls that can transfer something or fail do so at some time, and
\* clients close what they do not use any more.
Fairness ==
    /\ WF_streamVars(WriterStep)
    /\ WF_streamVars(ReaderStep)
    /\ \A s \in Side : WF_streamVars(ClientStep(s))

FairSpec == SpecStream /\ Fairness

-----------------------------------------------------------------------------
(* Properties *)

StreamTypeOK ==
    /\ setting \in Settings
    /\ kind \in [Side -> Kind]
    /\ vec \in [Side -> Seq(Region)]
    /\ mem \in [ReaderMemory -> Nat]
    /\ pipe \in Seq(Nat) /\ Len(pipe) <= Capacity
    /\ open \subseteq Side
    /\ progress \in [Side -> {"looping", "thrown", "returned", "failed"}]

\* What a side has transferred: the addresses it no longer has to do.
Transferred(s) ==
    LET all == Addresses(wanted[s])
    IN  SubSeq(all, 1, Len(all) - leftBytes(vec[s]))

Received == LET done == Transferred("reader") IN [k \in DOMAIN done |-> mem[done[k]]]

\* The regions of the reader, as far as update() says that they are filled,
\* followed by the pipe, are the regions of the writer as far as they are
\* written: no byte is lost, repeated or put elsewhere by partial transfers,
\* interruptions or a continuation after an exception.
BytesInOrder == Received \o pipe = Transferred("writer")

\* update() leaves exactly the addresses that come next, also with entries
\* of no length and when a transfer ends inside an entry.
VectorsResume ==
    \A s \in Side :
        Addresses(vec[s]) =
            SubSeq(Addresses(wanted[s]), Len(Transferred(s)) + 1, Len(Addresses(wanted[s])))

\* Memory outside of the regions, and of the part that the vector calls
\* unfinished, is not written to.
NothingElseWritten ==
    \A a \in DOMAIN mem : mem[a] # 0 => a \in Range(Transferred("reader"))

\* "If the function returns normally then all bytes will have been obtained",
\* whatever happened to the writer.
ReturnedIsComplete ==
    \A s \in Side : progress[s] = "returned" => Transferred(s) = Addresses(wanted[s])

\* At any time, and after any exception, what was transferred is exactly what
\* the vectors say, and it is everything when a call returns (read(), write(),
\* readAll(), writeAll(), IOVector::update()).
TransfersAreExact ==
    StreamTypeOK /\ BytesInOrder /\ VectorsResume /\ NothingElseWritten /\ ReturnedIsComplete

\* Every writeAll(), and every readAll() of a buffer, comes back in the end,
\* by return or by exception.
CallsEnd ==
    /\ progress["writer"] = "looping" ~> progress["writer"] # "looping"
    /\ progress["reader"] = "looping" /\ kind["reader"] = "buffer" ~> progress["reader"] # "looping"

=============================================================================
