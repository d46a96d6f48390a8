# A specification of libcosmos in TLA+

libcosmos is a C++ library for Linux system programming. Most of its functions
wrap one system call. This project specifies the parts where the library has
state of its own that can get out of step with the kernel, with another thread
or with another process, and the parts where what a program gets depends on a
sequence of calls: handles of processes and threads, the creation of child
processes, open files, locks, event sources, signals, tracing, messages,
mappings, attributes and privileges. Each module is translated from the source;
source paths below are relative to the repository.

Contents: 1 Inventory, 2 Plan, 3 Modules, 4 Runs, 5 Bounds, 6 Fairness,
7 Proofs, 8 Disagreements between code and documentation, 9 Not modelled.

## 1. Inventory

| Component | State | Operations | What is hard |
|---|---|---|---|
| `SubProc` (`src/proc/SubProc.cxx`) | pid and pidfd of a child | construct (by `ChildCloner` only), move, destroy, `wait`, `waitTimed`, `kill` | three ways to end, stops, recycled pids, other waiters, EINTR; `fatal_error()` for a running object that is dropped |
| `ChildCloner` (`src/proc/ChildCloner.cxx`, `clone.cxx`) | a configuration; during `run()` an error pipe, a child and a pidfd | setters, `run()` with `clone3()` or `fork()` | the child's way to `execve()`, error reports in two packets, inherited pipe ends, a cleanup that can fail itself |
| `PosixThread` (`src/thread/PosixThread.cxx`) | an optional `pthread_t`, a name, a static counter | construct, move, destroy, `join`, `tryJoin`, `joinTimed`, `detach` | recycled `pthread_t` values, failing creation, moves from empty objects |
| `StreamIO`, `IOVector` (`src/io/StreamIO.cxx`, `iovector.cxx`) | base and length of every region that is left | `read`, `write`, `readAll`, `writeAll`, `update` | partial transfers inside a region, EINTR and EAGAIN in the middle, end of file |
| Files (`fs/FileDescriptor`, `FDFile`, `File`, `Directory`, `DirStream`, `io/Pipe`, `TempFile`, `MemFile`, sockets) | a descriptor number and whether to close it | open, wrap, move, take, release, duplicate, close | exactly one owner of every number over long sequences; `close()` that fails; path and descriptor of a temporary file |
| Attributes (`fs/FileDescriptor`, `net/*Options`) | in the kernel, per number, open file or file | duplicates, ranges, flags, owners, leases, locks, seals, socket options | which of the objects see a change; numbers of options that repeat at every level |
| Trees (`fs/filesystem.cxx`, `TempDir`) | a stack of directory streams; the tree itself | `remove_tree`, `make_all_dirs` | others change the tree meanwhile |
| Single files (`fs/filesystem.cxx`, `FileStatus`) | buffers and offsets of one call | `read_symlink`, `get_working_dir`, `which`, `copy_file_range` | others change the files between two system calls |
| Locks (`Mutex`, `Condition`, `RWLock`, `FileLock` and the guards) | what a guard still has to unlock | construct and destroy guards, reverse, wait, signal | guards that fail half-way, a file offset that moves, lost wakeups |
| `Poller`, `INotify`, `EventFile`, `TimerFD` | interest list, result storage, a buffer of events, counters | add, modify, delete, wait, signal, read | edge-triggered and one-shot sources, failed reads, limits |
| Signals (`proc/signal.cxx`, `SigInfo`, `SignalFD`, `wait`) | masks and queues in the kernel | block, wait, send, read, decode | which thread gets a signal; merged signals; which fields of a union are valid |
| `SigAction` (`src/proc/SigAction.cxx`) | per signal: the kernel's disposition and two lock-free tables of callbacks | `set_action`, `get_action`, the two entry points | delivery between the system call and the stores; two loads of one entry |
| Tracing (`proc/Tracee.cxx`, `ptrace.cxx`) | stops of the tracees | attach, seize, restart, decode, read and write data | telling stops apart, passing signals on once, errno against results of -1 |
| Mappings (`proc/Mapping`, `mman`) | address and size | map, move, remap, unmap, lock, protect | one owner of every page, pages against sizes |
| Messages (`net/message_header`, `net/unix/aux`) | buffers, received descriptors | prepare, send, receive, serialize, deserialize | a reused header, partial sends, unclaimed descriptors |
| Privileges (`proc/process.cxx`, `prctl`, `caps`, `LimitSettings`, `Scheduler`) | in the kernel, per process | set and get IDs, capabilities, restrictions, limits, scheduling | what remains after sequences of calls, `fork()` and `execve()` |
| Library initialisation (`src/cosmos.cxx`) | a counter, the registered initables | `init`, `finish` | concurrent and unbalanced calls |
| Identifiers, addresses, resolver, interfaces, user database, time, paths, strings, terminal, loggers, pthread helpers, resource usage, errors | none, or the data of one call | one call each | conversions |

How they interact. `ChildCloner::run()` creates a child with an open pidfd and
hands it over to a new `SubProc`, whose `wait()` and `kill()` the cleanup of
`run()` uses, too. The error pipe is a `Pipe` read and written through
`StreamAdaptor`; on Valgrind an `EventFile` lets the child wait for its parent.
`SubProc::waitTimed()` is a `Poller` with one pidfd. `remove_tree()` owns a
`DirStream` for every level it is in, and `TempDir` calls it. The event sources
meet in a `Poller`; a `SignalFD` takes what a handler or a wait function could
take; SIGCHLD makes the program call `proc::wait()`, which collects the children
of `SubProc` objects as well. `Tracee` understands its tracees through
`proc::wait()`, `ptrace::decode_event()` and `SyscallInfo`. `UnixRightsMessage`
makes numbers of the table of open files, which the client must wrap or close.
Two settings of the process are read everywhere: `auto_restart_syscalls` decides
whether EINTR is hidden, and `running_on_valgrind` selects the fallbacks without
`clone3()` and `pidfd_send_signal()`. Everything else in a program can interfere
through what the process shares: the file table (inherited by every child), the
children (any component may call `proc::wait()`), the signal dispositions, the
file system.

What makes the components correct, in short:

- a handle (`SubProc`, `PosixThread`, an open file, a mapping, a temporary file)
  refers to its own resource only, a resource that must be released has exactly
  one handle, and a client that releases it as documented never meets
  `fatal_error()`;
- `run()` either returns a child, and with error forwarding one that met no
  error in `runChild()`, or throws what went wrong and leaves nothing behind;
- a transfer, a message or an event arrives whole, once and in order; a call
  that returns is complete, and one that throws can be continued;
- a guard holds what it locked for as long as it lives, and nothing longer;
- a signal is handled by the callback that was in force or by a newer one, what
  the program is told about it was sent, and a tracer loses and repeats none;
- a function of several system calls returns what was true at some time of the
  call, and removes only what it was asked to remove;
- what was set is what is got, for as long and as far as it is documented;
  what was given up does not come back.

The hazards are listed, line by line, in `PROJECT.json`, each with the
properties about it or with the reason why there is none.

## 2. Plan

What exists, in the order in which it was built; section 7 says which module
proves what about it:

1. `ChildHandles` (abstract), `SubProc`: handles of children.
2. `Launch` (abstract), `ChildCloner`: creation of children.
3. `PosixThread`: handles of threads.
4. `StreamIO`: transfers.
5. `SigAction`: asynchronous signal handlers.
6. `Owners` (abstract), `Descriptors`: the types that own open files.
7. `Tree`: functions on trees of directories, against other processes.
8. `Locks`: mutexes, conditions, read-write locks, file locks and guards.
9. `Messages`: open files that travel in messages.
10. `Signals`: synchronous signal handling and collecting children.
11. `Events`: an event loop.
12. `Tracing`, `Requests`: tracers. `MCNotifications` joins the instances of
    `Signals` and `Tracing`.
13. `Memory`, `Files`, `Attributes`, `Privileges`: parts without threads of their
    own, where sequences of calls and interference by others are hard.
14. `SubProcProofs`, `ChildClonerProofs`, `DescriptorsProofs`, `LocksProofs`,
    `TracingProofs`, `TreeEventsProofs`, `ProcessProofs`, `PartsProofs`.

What is left, in this order:

1. `SigAction` with two signal numbers and handlers that call `set_action()`.
2. `Events` with several threads that wait for one `EventFile`.
3. The setters of `ChildCloner` between two runs of one object.
4. Pure algorithms against reference definitions: `normalize_path()`, `split()`,
   time values.

The number of runs is kept small. Components that share no state are checked in
one run as parts of which a behaviour runs one (`MCLibrary`), and variants of one
question are values that `Init` chooses.

## 3. Modules

Every module states its variables with the member or kernel object they stand
for, has one action per operation or per atomic step of an operation, and lists
its properties at the end. Getters are operators that a property compares with
what was set. A definition whose name ends in an underscore and a word, for
instance `reset_Leaks`, is a wrong variant of the definition that follows it;
`PROJECT.json` says which property notices it. No behaviour uses one. History
variables record what a client was told; no guard of the library reads them.

### ChildHandles and SubProc

`SubProc` has the kernel's process table (`life`, `news`, `pidOf`, `fdtab`), the
two members of every object and a program counter for the calls that block.
`Spawn` is `o = cloner.run()` together with the move assignment, `MoveAssign`
both kinds of moves, `Destroy` the destructor. `WaitBegin` enters `waitid()`;
`WaitReturns`, `WaitFindsNoChild` and `WaitInterrupted` are its three outcomes
with what `SubProc::wait()` does about each. `waitTimed()` is `PollBegin`,
`PollReady` or `PollTimeout`, and from `PollReady` on the same as `wait()`.
`Kill` is one step, as `pidfd_send_signal()` is; its fallback for Valgrind reads
the pid in `KillReadsPid` and uses it in `KillByPid`. The children exit, stop,
continue and dump core by themselves, and another component may collect any of
them. Clients keep to the contract in the header: they drop an object that they
joined (`joined`), and use an object from one thread at a time.

A pid becomes free when its process was collected and `Spawn` may take any free
one. `Events` and `NoneToWaitFor` model `waitid(P_PIDFD)`: what is reported for
which flags, and when it fails with ECHILD. `ChildHandles` is the promise without
pids and descriptors: a child is bound to one handle from its creation until it
was collected.

### Launch and ChildCloner

`ChildCloner` models `run()` as called by several threads. `pc` follows the
caller through `run()`, `stage` the child through `runChild()` and `postFork()`.
The error pipe is a sequence of packets, as the pipe has `O_DIRECT`, and the set
of processes with its write end open (`writers`). `ForkChild` copies that set for
every pipe of the parent, `CloseFiles` removes a process from all of them when it
ends or executes a program: the close-on-exec flag. `ReadErrno` to `ReadNoText`
are `handlePreExecError()`, whose two calls of `read()` may fail (`ReadFails`);
`KillChild` to `CollectInterrupted` are the two catch
handlers. The child's failures go through `ChildFails`, which is the catch
clauses of `runChild()`, and `ReportErrno` and `ReportText`, which write two
packets; a child that fails before `runChild()`, while it waits for its parent on
Valgrind, exits without a report (`StartFails`). A child can be killed at any point; SIGKILL from `run()` is recorded in
`doomed` and takes effect later. The setters of the configuration are replaced by
a choice of a complete configuration (`config`); what stands behind a failing
setup (scheduler, working directory, redirections) is one step that may fail.

`Launch` is the view of the callers: `run()` fails and there is no child, or it
succeeds and there is one, past its setup if errors are forwarded. An error that
meets the child while it is `"unready"`, before `BeginSetup`, need not be heard of.

### PosixThread

`m_pthread` is the `std::optional`: whether it has a value, and what is in its
storage, because the move operator reads the storage without looking. `idOf` and
`life` are the C library: a `pthread_t` may be given away once its thread was
joined, or was detached and ended. `Construct` and `ConstructFails` are the
constructors with both results of `pthread_create()`; `Join` stands for the
three joining functions when they succeed; the calls that change nothing are no
actions. `num_threads` is an integer here, and the property says that the
unsigned counter of the code does not wrap.

### StreamIO

A writer calls `writeAll()`, a reader `readAll()`, with a buffer or a vector, on
the two ends of a pipe of `Capacity` bytes. Every system call transfers any
number of bytes that is possible, or would block, or is interrupted, or meets the
closed other end. A buffer is a vector of one region, as the loop over a buffer
does the same arithmetic on pointer and length; where the two differ (end of
file, who may continue) `kind` tells them apart. Byte `a` of the writer is at
address `a`, so that a byte in the wrong place is seen. `update` is
`IOVector::update()`: each region takes its share of what `Unaccounted` says is
left for it, which is nothing behind the first region that is not finished.
`setting`, chosen in `Init`, says whether the descriptors block and whether the
library restarts interrupted system calls.

### SigAction

One signal. A setter calls `set_action()` or `get_action()`: `SetBegin` and
`GetBegin` are the call of `sigaction()`, `Load` reads the tables for the old
action, `StoreSimple` and `StoreInfo` are the stores, one each. A receiver is a
thread that gets the signal: `Deliver` enters `simple_handler()` or
`info_handler()`, `Check` is the comparison with null and `Call` the second load
and the call. The disposition is the part of `struct sigaction` that decides who
gets the signal; mask and flags are left out. `inForce` and `expected` record
what a client expects, `used` which dispositions it ever asked for.

### Owners and Descriptors

The kernel has a set of open numbers and gives away the lowest free one, so that
a number that was closed wrongly soon belongs to somebody else. An object of
`Obj` is a place in which objects of any of the classes are constructed, moved
and destroyed; its record has the members of all of them (`m_fd`,
`m_auto_close`, the second end of a `Pipe`, the path of a `TempFile`). `Move`
takes members over as the operators of the class do; `Close` distinguishes a
`close()` that succeeds and one that throws, and what is reset before it and
after it. `Wrap`, `TakeOwnership`, `ReleaseOwnership`, `PipeTakeEnd`, `Connect`,
`Accept`, `Duplicate` and `RawClose` are the other ways in which numbers change
hands. `TempOpen` makes a file with a name; others may remove it. A client wraps
only numbers that are its own.

`Owners` is the promise without objects: a number has one owner, and only the
owner closes it or hands it over. The abstraction (`ownerOf`) reads the owner off
the objects; numbers that a failing `DirStream::open()` leaves behind are lost,
which `Owners` admits.

### Tree

The tree is a table of directories with entries. `remove_tree()` and
`make_all_dirs()` are followed system call by system call: `streams` is the stack
of open `DirStream`s, `NextEntry` is `readdir()`, `Status` the look at an entry
whose type the file system does not tell, `Enter` the recursion, `Unlink`,
`RemoveDirAt` and `RemoveDir` the removals. Between any two of them
`OtherStep` creates, removes, links or renames an entry, by the functions of the
library that are one system call. `TempDir` creates a directory, and `close()`
removes it through `remove_tree()`; `AssignTempDir` is its move assignment.

Files and symbolic links are entries without entries of their own. What the text
of a link says is not modelled: where a link leads is any directory that can be
reached (`linkTargets`). `DirStream::open()` follows a link at the end of its path
when it descends (`Enter`, by `opened`) and not at the start of a call (`Begins`).
In a path, links before the last component are followed by the kernel (`places`).

`readdir()` may or may not deliver what was
changed after the stream was opened (`deliverable`). A path is resolved by
`walk`; `reached` is what lies in a directory and below it.

### Locks

Threads keep their guards on a stack. `Construct`, `Push` and `ConstructFails`
are the constructors, which may block or throw; `Destroy`, `DestroyReverse` and
`Relocked` the destructors. The locks of the file belong to an open file, and a
`FileLockGuard` releases what its `m_lock` means at that time, which for
`SeekDir::CUR` depends on `offset`. `Wait`, `Wakes`, `Reacquire` and `GivesUp` are
`Condition::wait()` and `waitTimed()`, with spurious wakeups. The threads use the
condition as its documentation asks, for a supply of `work`: `Add` under the
lock, `Signal` or `Broadcast` then or later, `Fetch` after a check. Every thread
opened the file for itself. `Careless` admits two breaches of the contract:
locking a mutex twice, and moving the file offset under a guard.

### Messages

A sender puts payload and the numbers of its files into a `SendMessageHeader`
and calls `sendMessage()`, each time for what is left (`SendMessage`). The
receiver has one `ReceiveMessageHeader` and one `UnixRightsMessage`, which it
uses again in any state: `SetControlBufferSize`, `ReceiveMessage` with the room
that `prepareReceive()` leaves in the header, `Deserialize`, `TakeFDs`,
`ClearFDs`, `AddFD`. Credentials may precede the files and take room from them
(`passcred`). `mine` is what the client has taken. `handed` is the history of the
lists that the sender has put into its header; what `sendMessage()` makes of them
does not enter it. The kernel installs as many
numbers as fit, the lowest free ones in order (`Fresh`), and closes the rest.

### Signals

Signals are records of number, code and origin. They are pending for a thread or
for the process, and an ordinary signal is there once only (`Queued`). Threads
change their masks, call the wait functions, get signals by a handler
(`Deliver`), read the shared `SignalFD`, or fault. What `SigInfo` and
`SignalFD::Info` make of a signal is `source` and the accessors, which name the
fields they read; `Origin` says which fields the kernel fills, and
`OriginsAssumption` which codes it reports. An I/O event of a file comes with the
signal that `setSignal()` has chosen, whichever that is, or as a plain POLL
without data. Children end and
send SIGCHLD; who receives it collects with `NO_HANG` until nothing is left, as
`Collect` and `CollectNothing`.

### Events

One thread runs a loop: it creates the sources (`Create`, `OpenTimer`), adds them
to a `Poller` (`addFD`), waits, and reads what is reported. The kernel keeps
`interest` and the list `ready`; `Scan` is what `epoll_pwait2()` does with that
list for level-triggered, edge-triggered and one-shot sources. `m_events` keeps
entries from earlier calls, so that a wrong length is seen. `Refill` and
`FailedRead` are `INotify::readEvent()` with its buffer; `signal()` adds to the
counter of the `EventFile` and blocks at the limit, or throws if it is
non-blocking. `modFD`, `delFD`, `RenewTimer` and `close` change what is
monitored. A program reads an edge-triggered source until it is empty and adds a
one-shot source again; `MayUse` leaves out the combination with which it cannot.

### Tracing and Requests

`Tracing` has processes as the kernel keeps them: mode, pending signals, options,
and the stop they are in. The tracer collects stops with `wait(p)`, decodes
what it was told (`isPtraceEventStop`, `decode_event`, `SyscallInfoType`,
`Kind`), and does what the documentation of `Tracee` asks: `HandleInitialStop`,
`HandleSignal`, `HandleGroupStop`, `HandleOther`, `HandleEnd`, each with any
restart mode that is allowed there. `owed` counts how often each signal must
still reach its process. Processes die by signals, with a core dump or not, and
`WaitStatusOf` is the constructor of `WaitStatus` for every state. Without
TRACESYSGOOD, `getSyscallInfo()` has no answer at a stop for a system call; `Kind`
then takes it for a `"call"`, by the `si_code` of `getSigInfo()`.

`Requests` is about a stopped tracee: the functions that read and write its
memory, registers, signal mask, signal information, seccomp filters and system
call, all through `trace()`, which must tell a result of -1 from an error by
errno and hands out the results of some requests only. `answer` is what the last
call gave and what was due. The kernel refuses `getSigMask()` and `setSigMask()`
in any stop, and writes a seccomp filter over the structure on the stack that
`getSeccompFilter()` gives it, which can end the tracer (`Crashed`).

`MCNotifications` is one instance of `Signals` and of `Tracing`, which share no
state: a behaviour runs one of them.

### Memory, Files, Attributes, Privileges

These modules and `SigAction`, `PosixThread` and `Requests` share no state.
`MCLibrary` extends all of them; a behaviour runs one part, which `Init` chooses.

- `Memory`: mappings on an address space of a few pages. Sizes are in halves of a
  page, so that a size that is not a multiple of the page size occurs. `remap`
  has all flags; `lock_all` and its flags change pages of every mapping.
- `Files`: a thread makes a call of several system calls (`read_symlink`,
  `get_working_dir`, `which`, comparison of two `FileStatus`,
  `copy_file_range`), `OthersStep` changes files between them. `seen` collects
  what was true at any time of the call, which the answer is compared with.
- `Attributes`: a table of numbers, open files and files, each with the
  attributes the kernel keeps there, and options keyed by level and number as
  `setsockopt()` has them. `copies`, `aliases` and `promised` follow from the
  calls alone what every number should say.
- `Privileges`: processes with user IDs, capabilities, secure bits, flags, limits
  and scheduling settings, and the rules by which `set_creds()`, `fork()` and
  `exec()` change them. `ResourceOf` says which limit the functions of
  `LimitSettings` name. `given_up` records what was set or given up.

## 4. Runs

| Run | Question | Properties |
|---|---|---|
| `Descriptors_contract` | three objects of any class, a table of three numbers, failing calls | `OwnedOnce`, `ImplementsOwners` |
| `Tree_calls` | trees of two directories and a symbolic link, which is whatever a file is and leads anywhere; alone and with one change by others | `TypeOK`, `RemovesOnlyTheTree`, `UndisturbedCallsAreExact`, `CallsEnd` |
| `Locks_guards` | three threads, two nested guards each, waits with and without limit | `GuardsExclude`, `LocksAreGuarded`, `WorkIsNoticed` |
| `Messages_rights` | two lists of files over a stream socket, small and missing control buffers | `ReceivedOwnedOnce`, `RightsArriveOnce` |
| `Events_loop` | a loop on three sources in all modes, with errors and limits | `EventsInOrder`, `NothingUnnoticed`, `EventsAreHandled` |
| `Notifications_told` | two threads, two children and one more signal of any origin; or a process and its child, seized or attached to, two signals, one interrupt, core dumps | `InfoMatchesOrigin`, `NoZombieForgotten` (`Signals`); `SignalsArriveOnce`, `StopsAreUnderstood` (`Tracing`) |
| `SubProc_contract` | clients that join, on Valgrind or not; signals, EINTR, another waiter | `NoOrphan`, `OwnChild`, `ImplementsHandles`, `SignalsOwnChildOnly`, `WaitEnds` |
| `ChildCloner_launch` | two threads in `run()`, both variants, crashes, EINTR, failing reads, another waiter | `ReportedErrorsAreThrown`, `FailureLeavesNothing`, `PidFDBeforeExec`, `ImplementsLaunch`, `RunEnds` |
| `StreamIO_transfer` | EAGAIN, EINTR with and without restart, crashes, continued vectors | `TransfersAreExact`, `CallsEnd` |
| `Library_parts` | the seven parts that share no state | `TablesSettle`, `OneKindHandsOver` (`SigAction`); `JoinableHasThread` (`PosixThread`); `AnswersAreTrue` (`Requests`); `MemoryIsOwned`, `PagesAreAsAsked` (`Memory`); `AnswersWereTrue`, `CopiesAreExact` (`Files`); `AttributesAreAsSet`; `RestrictionsLast` |
| `Requests_peek` | ends with a violation, see section 8 | `PeekedIsPending` |
| `ChildCloner_report` | ends with a violation, see section 8 | `PreExecErrorsAreThrown` |

Type invariants are part of a property of the same module (`OwnedOnce`,
`GuardsExclude`, `ReceivedOwnedOnce`, `NoZombieForgotten`, `TransfersAreExact`,
`PidFDBeforeExec`), or proved.

Some properties need their assumptions spelled out.

- `NoOrphan` and `ImplementsHandles` are checked for clients that ask for
  termination (`JoiningFlags`) and without core dumps. `SignalsOwnChildOnly` has
  no promise for Valgrind.
- `ReportedErrorsAreThrown` and `ImplementsLaunch` are about the errors that
  `runChild()` meets, and take the exception types that the code throws; what the
  documentation says of all errors is `PreExecErrorsAreThrown`.
- `FailureLeavesNothing` exempts a `run()` whose cleanup was interrupted by a
  signal handler; `RunEnds` accepts the end of the whole process, which such an
  interruption can bring about, and a callback that blocks for ever.
- `OneKindHandsOver` is about programs that only ever replace one handler by
  another of the same kind.
- `OwnedOnce` lets `DirStream::open()` leave descriptors behind (`lost`), and a
  temporary file stay whose removal failed (`left`).
- `MemoryIsOwned` counts what a move onto a valid object leaves behind (`left`).
- `RemovesOnlyTheTree` counts as the tree of a call all that was in it at some
  time of the call, with what others move in, and what is in a directory that a
  symbolic link led it to. That `remove_tree()` follows a link in its tree only if
  others put it there during the call is a part of the property.
- `UndisturbedCallsAreExact` says nothing of calls whose path leads through a link.
- `AttributesAreAsSet` lets `getSeals()`, `getPipeSize()` and `boundDevice()`
  throw, as section 8 explains. `AnswersAreTrue` says nothing of what
  `getSeccompFilter()` returns, nor of a tracer that it crashed, and of the signal
  mask only that its refusals throw.
- `InfoMatchesOrigin` has three exceptions: signals that user space sends under the
  number of a kernel's one, I/O events on other signals than POLL, and a plain POLL.
- `StopsAreUnderstood` asks for entry and exit of a system call to be told apart
  where TRACESYSGOOD is set, and elsewhere for such a stop to be told from others.
- `EventsAreHandled` holds for programs within `MayUse`.

Deadlock is not checked where the system may come to rest: all calls of `run()`
done, all threads joined, the transfer over, signals used up, a part of the
library at its bound, or the process aborted by `fatal_error()`. In
`Locks_guards`, `Descriptors_contract`, `Events_loop`, `Messages_rights`,
`Notifications_told`, `Tree_calls` and `SubProc_contract` it is checked: nobody
waits for ever for a lock, for instance. In `Notifications_told` the threads may all
wait for a signal that nobody sends any more (`SignalsRest`).

## 5. Bounds

Every bound is a constant of a configuration; no action has a hidden one.

- `SubProc`: two objects, two children, two pids and two descriptors. A number is
  used again while an object still refers to the earlier process as soon as
  another waiter has collected it; two objects are what a move needs.
- `ChildCloner`: two callers, one child each. The interference between calls is
  pairwise: one child holds one pipe end of another call. The callers are alike, so
  `InOrder` leaves one of two orders of their settings; unusual settings (no
  program, a callback that throws, no executable) meet the others, not themselves.
- `PosixThread`: three objects, three threads and `pthread_t` values, so that
  a value is given away while an object that once held it still exists.
- `StreamIO`: a pipe of three bytes, four and five bytes to send, and up to six
  to receive, so that both ends block, and vectors with empty entries at both
  ends and in the middle, out of the order of their addresses.
- `SigAction`: two handlers of each kind to tell old from new, one setter (see
  section 9) and one receiver, as receivers do not affect each other.
- `Descriptors`: three objects, three numbers, two names. Two ends of a pipe and
  one more file fill the table, so that EMFILE occurs; a move between two objects
  leaves a third one to get the number that was closed.
- `Tree`: two directories and a symbolic link with two names, so that there are
  nested directories, siblings and hard links; `MaxOthers` = 1 change by others in a
  call. The code treats a file as a link that leads nowhere, a choice that every use
  of the link has. A file and a link at the same time were checked once (718887
  states, no error), which takes too long for a run that is repeated. A call whose path leads through
  a file counts here as one that leads through a link; for files alone the theorem
  has no such exemption.
- `Locks`: three threads, two guards each, two bytes, two items of work: a
  writer, a reader and a waiting thread; a lost wakeup needs two waiters.
- `Messages`: `MaxSent` = 2 lists of up to two files, payload of up to two bytes,
  buffers of two and six words: none, one or both files of a list fit, with and
  without credentials. `MaxAdded` = 1 number that the client adds.
- `Signals`: two threads, two children, `MaxSent` = 1 more signal. Two children
  are what one SIGCHLD can stand for.
- `Events`: a buffer of two events, a queue of one with an overflow, a counter up
  to two, `MaxChanges` = 2 file changes, `MaxSignals` = 1, `MaxFaults` = 1 error
  or change of the monitoring at any point.
- `Tracing`: two processes, `MaxSends` = 2, `MaxInterrupts` = 1. Two signals are
  what a group-stop and a delivery, or a signal and SIGCONT, need to mix.
- `Requests`: two pending signals, programs of one and of three instructions, with
  and without room for them; the longer one is longer than the structure that
  the kernel writes it over.
- `Memory`: two objects, three pages, sizes up to one and a half pages, one
  failing `munmap()`.
- `Files`: three paths on two devices, whose texts are shorter than, as long as
  and longer than the first buffer; `MaxInterference` = 2 changes by others, one
  before and one after the system call that matters.
- `Attributes`: three numbers, three open files, a file of every kind;
  `MaxSets` = 4 calls: open, duplicate, set, close.
- `Privileges`: a process and its child, two user IDs, two settings, three limits
  of which two share a resource, `MaxChanges` = 4 calls.

Symmetry is used for safety properties only, over sets whose members no
definition tells apart.

## 6. Fairness

- `SubProc`: a `waitid()` or poll that has something to report returns. Nothing
  is assumed of children and clients.
- `ChildCloner`: the threads inside `run()` and the children up to `execve()`
  are scheduled, and SIGKILL kills at some time. A thread need not call `run()`,
  a callback may block and a program may run for ever.
- `StreamIO`: a system call that can transfer something or fail does so; one that
  is blocked may be interrupted any number of times. Clients resume or give up
  after an exception and close what they no longer use; crashes are never assumed.
- `Tree`: the thread that is in a call is scheduled (`CallStep`); others change
  the tree up to their bound. Without the bound others could keep the loop over a
  directory busy for ever, which the code does not prevent.
- `Events`: the loop and the thread in `signal()` are scheduled; files need not
  change, the timer need not tick, and may tick all the time.
- All other modules state safety only.

## 7. Proofs

Eight modules prove for all values of the constants what the runs check on
instances: all 28 invariants of the passing runs and 7 of the 12 action and temporal
properties.

| Module | about |
|---|---|
| `SubProcProofs` | `SubProc`, and that it implements `ChildHandles` |
| `ChildClonerProofs` | `ChildCloner`, and that it implements `Launch` |
| `DescriptorsProofs` | `Descriptors`, and that it implements `Owners` |
| `LocksProofs` | `Locks` |
| `TracingProofs` | `Tracing` |
| `TreeEventsProofs` | `Tree`, `Events` |
| `ProcessProofs` | `Signals`, `Privileges`, `Attributes` |
| `PartsProofs` | `Memory`, `Requests`, `PosixThread`, `SigAction`, `Messages`, `Files`, `StreamIO` |

They rest on the named assumptions of the modules, one per module and two in
`Privileges` and `Signals`. Most say that special values (`None`, `NoPid`, the
parent) are not among the ordinary ones, that switches are Boolean and that bounds
are natural numbers. The others are these. Descriptor numbers and inodes are
natural numbers, as "the lowest free one" is about their order. Sets of objects,
threads, processes and directories are finite where a proof counts them or follows
steps that the kernel repeats. `OriginsAssumption` and `LimitsAssumption` tie
signals to the codes that the kernel reports for their origins, and limits to the
resources there are. `FilesAssumption` says that `PATH` is a sequence of paths, and
that there is a second path for others to rename to. TLC evaluates all of them in
every run of a module.

### Clients

Six hypotheses restrict clients or the system. Section 8 shows what goes wrong
without them, section 9 says it of `OneSetter`.

- `JoiningWaits` (`NothingOrphaned`, `Refinement`): every wait asks for the
  termination of the child.
- `~CoreDumps` (`JoinReleases`, `Refinement`).
- `~MovesEmpty` (`PosixThread`): nobody moves an object that has no thread.
- `OneSetter` (`SigAction`): one thread sets the actions of a signal.
- `"recursion" \notin Careless` (`GuardsKeepThreadsApart`), `Careless = {}`
  (`GuardsAccountForLocks`): clients do not lock a mutex that they have locked, nor
  move the file offset while a guard's range depends on it.
- `RegionsApart` (`TransfersKeepBytes`): the regions of a vector that is read into do
  not overlap.

All other theorems have no hypotheses. The runs use the same values, so that TLC
and the proofs speak of the same programs.

### Inductive invariants

Hardly any property is inductive alone. The invariants, one per component:

- `SubProc`: `IInv == TypeOK /\ OwnChild /\ PidfdHeldOnce /\ Bound`. When an object
  is released, that no other one loses its pidfd follows from `PidfdHeldOnce`, and
  that a released descriptor is a real one from the types; `Bound` says that a
  child which an object was created for has been born, and that only running
  objects have a call in progress. `ClientFlags` carries the flags of a wait to its
  return, and `NothingDumped` is what `JoinReleases` needs.
- `ChildCloner`: `IInv` is `TypeOK` and, for each caller, `CInv`: from where the
  caller and its child are (`pc`, `stage`) it follows which children, pidfds, pipe
  ends and reports there are (`HasChild`, `HasPidFD`, `HoldsPipe`, `HasReport`), why
  a run failed (`HasCause`), and what the caller believes (`Believes`). A step of one
  caller leaves the others as `Same` says: their pipes get and lose inherited
  writers, which is what `ReportedErrorsAreThrown` must survive.
- `Descriptors`: a member that names no number is `None` (`Sound`), owned numbers
  are open, not lost and of one owner (`Apart`), every open number is owned or lost
  (`Covered`); likewise for temporary files (`PathsApart`, `FilesKnown`). Every
  operation is a `Handover`, a pass between two objects (`Passes`) or a step of the
  client. The refinement computes the owner of a number from the objects; that it
  is the one that `Apart` speaks of is the lemma `Found`.
- `Locks`: what is locked follows from the guards on the stacks (`MutexFollows`,
  `RWLockFollows`, `FileFollows`), and guards are nested in the order in which clients
  lock (`StacksAreOrdered`); a thread that waits on the condition does so under its
  own innermost guard (`WaitsAreGuarded`), and one that waits in a constructor may
  put its guard there (`ConstructionsMay`). Steps push a guard, pop one, or leave the stack.
  `NoWakeupIsLost` is an argument of its own, about cardinalities: while a thread
  waits, the work there is does not exceed the signals that are `Owed` plus the
  threads that are `Woken`. It holds for careless clients, too.
- `Tracing`: a tracee that stopped has reported the stop that it is in
  (`StopIsReported`), its options are those of its tracer, its end is the one
  announced, and the signals owed to it are those on the way
  (`OwedIsOnTheWay`): pending, or in a stop that the tracer has not answered. The
  signal of a stop for a system call follows from the options, so that the tracer
  never takes it for a TRAP that was sent. What
  the last wait returned still holds unless the process was killed
  (`SeenIsCurrent`). Decoding is arithmetic on status words, which is proved by
  their numbers (`Numbers`).
- `Tree`: `TreeInv`. The entries are a tree, with every directory that has entries
  below the root (`IsTree`); the call is where it can be (`Typed`, `CallFits`); and,
  unless somebody interfered, it did nothing but its work so far (`Undisturbed`).
  For `remove_tree()` that is: outside of the directories of the call the entries
  are as before (`RemovesBelow`), the streams are a path down, and what they have
  still to deliver is what is still there (`StreamsDescend`, `TopIsKnown`); for
  `make_all_dirs()`: what it made is the part of the path behind it
  (`MakesWhatIsMissing`). A call whose path leads through a link counts as
  interfered with, and only then can `remove_tree()` meet a link where it descends;
  what is below a directory that a link leads to joins `members`. What can be reached is defined by as many levels as there
  are directories; the lemmas show that it is the least set closed under entries.
- `Events`: `OrderInv`: what was received, the rest of the buffer and the queue are,
  one after the other, what the kernel produced. `WatchInv` adds where a source is
  that has something to read (`InSight`): by level or for one shot it is on the
  kernel's list, an edge may be with the loop, and a source that had its one shot is.
  No list has a source twice, so that a blocking `EventFile` is read once for each
  report (`EventFileServes`).
- `Signals`: everything pending, blocked or not, is what an origin sends, and so is
  what was received last (`QueuesTyped`, `LastIsGenuine`); while there is a zombie somebody is collecting or a
  `Signal::CHILD` is on its way (`IsComing`). That a second one may be merged with
  the first does not matter, because only the first is needed.
- `Privileges`: `Holds` relates the state of each process to what it has given up:
  user IDs and capabilities that cannot come back, soft limits below hard limits,
  restrictions that stay. `fork()` and `exec()` hand both on.
- `Attributes`: the relations that follow from the calls are equality of open
  files and of files in the kernel's tables (`RelationsFit`), and each number has,
  field by field, what was promised (`Remembered`).
- `Memory`: mappings have the pages from their address on, apart from each other
  (`MappingsFit`, `OwnedPages`), and these are as they were asked for.
- `Requests`: the tracee's state is one that the kernel can be in; the work is in
  the lemma that `trace()` throws if and only if the kernel refused.
- `PosixThread`: besides `JoinableHasThread` and `JoinableHeldOnce`, threads that
  are not released have different `pthread_t` values (`IdsDiffer`), and only threads
  that were born are detached (`DetachedWereBorn`). Hence the thread that
  `pthread_join()` finds is the object's own.
- `SigAction`: `SetterInv` says of every point of a call what kernel and tables
  stand for (`CallInv`), as `TablesSettle` speaks of the moments between calls only.
  For `HandlersHandOver`, `Covered` says that a receiver on its way to a callback
  finds, now and after the stores that are due, an entry that it expects.
- `Messages`: the open numbers are those of the client, of the header and of the
  `UnixRightsMessage`, which are apart from each other (`OwnedByOne`), and the ones
  that the kernel gives out next are free and different (`Fresh`, whose members are
  told apart by how many free numbers are below). For `RightsArriveOnce`, `RightsInv`
  adds that the messages in the socket that carry files are, in their order, those
  that were sent and not received (`InOrder`), that what arrived is the beginning of
  what was sent (`CutOff`), and that what the header and the `UnixRightsMessage`
  offer is the last list that arrived (`Offered`). What was sent is what was handed
  over, but for a list whose first piece is still to come (`Sent`). That a list is whole when there
  was room for it is a fact about each step.
- `Files`: the tables are well-formed and open files stay in use; what a call has
  found is among what it has `seen` (`FindingsAreTrue`); offsets are what was copied,
  and copied and left together the length asked for (`CopyAdvances`, on `CopiedSoFar`). Others only
  shorten files and zero bytes (`DataKept`), so a byte that was copied is right or
  was overwritten.
- `StreamIO`: `VectorsFit` says that the vector of each side is the end of the one
  it was called with, byte by byte, and `BytesFit` that the pipe and the memory of
  the reader together hold the bytes before it. The lemma `UpdateResumes` carries
  both: after `update()` of n bytes, byte k of the vector is byte n + k of the one
  before, whatever entries are empty or cut. `UpdateProperties` also shows that the
  exception of `update()` for an inconsistency (`iovector.cxx:35`) is never thrown.

Recursive functions (resolving a path, following links, what is reached, what is
chosen of a list, the sums over a vector) are
reasoned about by least numbers: a statement that fails somewhere fails first at
some step (`LeastNatural`, `StepByStep`, `ChainExists`), because the induction theorems of the
library cannot be used with the installed provers.

Proved without being listed in a run: the type invariants of `SubProc`,
`PosixThread` and `SigAction`, `PidfdHeldOnce`, `JoinedIsReleased`,
`JoinableHeldOnce`, `NumThreadsNeverWraps` and `OldWasInForce`.

### Model-checked only

- `WaitEnds`, `RunEnds`, both `CallsEnd` and `EventsAreHandled`: liveness under
  fairness is out of the prover's reach. No other property of the passing runs is
  left to TLC alone.

## 8. Disagreements between code and documentation

Two runs check a statement of the documentation and find it violated; `PROJECT.json`
quotes the statements and their places.

- `Requests_peek`: `Tracee::peekSigInfo()` resizes its vector to a count that
  `trace()` does not hand out.
- `ChildCloner_report`: `ChildCloner.hxx:224` promises an `ApiError` for every error
  of the child before `execve()`. On Valgrind a child whose `ev.wait()` fails
  (`ChildCloner.cxx:178-181`) exits without a report, and `run()` returns
  successfully. The other half of the statement fails, too: an error of the child's
  setup, for instance of a redirection, or of the callback is reported as `NO_ERROR`
  and arrives as `RuntimeError`, which `ReportErrno` shows.

The models show more, for which no run is kept. Each of the following appears when
a constant of a configuration is changed, or a formula is added to it:

- `SubProc_contract` with `CoreDumps = TRUE` and the invariant `JoinedIsReleased`:
  after a core dump `wait()` leaves the object running (`SubProc.cxx:35`).
- `SubProc_contract` with `WaitFlagSets <- AllFlags` violates `NoOrphan`: a
  `wait()` for stops alone fails with ECHILD on a zombie, which
  `SubProc.cxx:40` takes for "already collected", and closes its pidfd.
- `SignalsOwnChildOnly` without its first line fails: the fallback of `kill()` on
  Valgrind (`signal.cxx:76-117`) signals by a pid that may be stale, or by -1 if
  the child was collected.
- `ChildCloner_launch` with `RunEnds` less its last disjunct fails: a child of
  another thread that never executes a program keeps the error pipe open
  (`ChildCloner.cxx:222`), and `run()` blocks.
- `FailureLeavesNothing` without the exception for INTERRUPTED fails: a signal
  during the `wait()` of the cleanup replaces the error; with `clone3()` the
  running `SubProc` is destroyed and `fatal_error()` ends the process (`aborted`),
  with `fork()` the child stays.
- When the parent's `read()` of the report fails, `run()` throws the error of
  `read()` instead of the child's (`ReadFails`). "bad error code read from error pipe"
  (`ChildCloner.cxx:319`) is never thrown: the first packet has the size of `Errno`.
- `Library_parts` with `MovesEmpty = TRUE` violates `JoinableHasThread`: a move
  from an empty `PosixThread` makes a joinable one.
- A `PosixThread` whose construction fails is an empty object (`PosixThread.cxx:91`
  against `PosixThread.hxx:80`), and keeps its name (against `PosixThread.hxx:170`);
  `ConstructFails` shows both.
- `TransfersAreExact` fails for a `ReadIOVector` whose regions overlap: bytes that
  were received are overwritten by later ones, and nothing refuses such a vector.
- `readAll()` of a vector spins at the end of file (`StreamIO.hxx:335`): `CallsEnd`
  is about buffers only.
- `OneKindHandsOver` without its first line fails: when simple and info handlers
  alternate, a signal may reach a handler that was replaced long ago, or none,
  and between the check and the call the entry may become null
  (`SigAction.cxx:38`).
- `Locks_guards` with `Careless = {"recursion"}` or `{"offset"}` violates
  `LocksAreGuarded`: a guard made from a `ResourceGuard` runs its cleaner when its
  constructor throws (`utils.hxx:81`), and a `FileLockGuard` with `SeekDir::CUR`
  unlocks other bytes after the offset has moved.
- `Memory` with `MovesOnto` shows that a move onto a valid `Mapping` forgets the
  old one, a self-move included; its destructor may throw (`terminated`).
  `remap()` with DONTUNMAP and no address passes MAP_FAILED (`mman.cxx:44`).
- `Descriptors`: `DirStream::open()` leaves descriptors behind when
  `fdopendir()` fails, `Directory::open()` that fails makes a wrapper an owner,
  the destructor of `Pipe` may throw.
- `Messages`: `prepareReceive()` never resets `msg_control` and `msg_controllen`
  when there is no buffer any more (`message_header.cxx:66` against
  `message_header.hxx:412`).
- `Signals`: SIGCHLD, SIGPOLL and the signals of faults that are sent with
  `kill()` are "from the kernel" for `source()`, and their data functions read
  members that are not set, of which the comment on `SigInfo` warns;
  `SourceIsOrigin` and `DataWasSent` exempt these. `FileDescriptor.hxx:461-490`
  promises extra information with every signal that `setSignal()` chooses, but
  `pollData()` gives it for POLL alone (`SigInfo.cxx:125`). `source()` has no name for
  an I/O event on an ordinary or real-time signal, and calls one on another special
  signal `QSIGIO`, "only up to Linux 2.2". A plain SIGIO, without data, reads as
  an event of the file 0.
- `Tracing`: `isPtraceEventStop()` and `decode_event()` accept
  `SIGTRAP | 0x80`, which is above `MAXIMUM`, and give `Event{0}`. Without
  TRACESYSGOOD a system call stop has the signal TRAP, `getSyscallInfo()` answers NONE
  and `source()` says KERNEL for it as for other traps, so that only
  the raw `si_code` tells it from a TRAP that the tracer must pass on; `detach()` of a
  tracee that is not stopped fails with ESRCH, although `Tracee.hxx:117` restarts
  it "if currently in a tracing stop", and cannot pass a signal on.
- `Requests`: `getSeccompFilter()` with an empty vector always throws
  (`Tracee.cxx:36` against `Tracee.hxx:372`). It gives the kernel the address of a
  `struct sock_fprog` on its stack (line 25), over which the kernel writes the
  instructions, past its end if there are more than two; the vector never gets any.
  `getSigMask()` and `setSigMask()` pass the size of the C library's `sigset_t`, 128
  bytes (`Tracee.hxx:312`, 317); the kernel's has 8, and it refuses every such call.
- `Tree`: `remove_tree()` opens a subdirectory without `O_NOFOLLOW`
  (`DirStream.cxx:82-93`). If others put a symbolic link in its place after
  `readdir()`, it empties the directory that the link leads to, then `removeDirAt()`
  throws ENOTDIR; `filesystem.hxx:360` calls concurrent access undefined. The move
  assignment of `TempDir` (`TempDir.hxx:34`) gives up the path of a directory that
  remains, a self-assignment included (`AssignTempDir`).
- `Files`: `which()` may return a path that the caller cannot execute, passes over
  files that it can execute but not read, and blocks on a FIFO; `read_symlink()`
  grows its buffer by one byte for each try (`filesystem.cxx:513`).
- `Attributes`: `getSeals()` (`FileDescriptor.cxx:135`), `getPipeSize()` and
  `setPipeSize()` (145) take every result but zero for an error;
  `boundDevice()` without a device throws `std::length_error`; sizes and seconds
  are narrowed to `int`, so that `setPeekOffset(true, 4294967295)` turns it off;
  `IP6Options` (`IPOptions.hxx:339-366`) names options for sending where it sets
  receiving; `test/socket.cxx:71` unpacks `getLocalPortRange()` as lower and
  upper, which are returned the other way round, as documented.
- `Privileges`: `getMemLockLimit()` and `setMemLockLimit()` are about
  `LimitType::LOCKS` (`LimitSettings.hxx:120`, 134); an `OtherSchedulerSettings`
  without `setNiceValue()` passes 20, documented as invalid
  (`Scheduler.hxx:109`), which the kernel takes as 19; the default priority of
  `RealTimeSchedulerSettings` is refused; `caps.hxx:139` calls locked secure bits
  final, but `execve()` clears KEEP_CAPS.

Met while reading, outside of what the models decide:

- Errors that are not errors, or not reported: `setAdvice()` looks at `errno`,
  which `posix_fadvise()` does not set; `Condition` and `Mutex` construct
  exceptions and do not throw them (`Condition.cxx:16`, `Mutex.cxx:24`); `RWLock`
  takes errors from `errno`; `get_cpuid_enabled()` ignores errors;
  `check_access()` throws `ApiError` instead of the documented `FileError`;
  `make_all_dirs()` returns EXISTS when a file is in the way (`filesystem.hxx:348`).
- Loops: `InfoBase.hxx:27` repeats for ever after an error other than ERANGE;
  `get_supplementary_groups()` fails above 32768 groups; `get_aux_vector()` is not
  shrunk; `getPeerSec()` never grows its buffer and throws `ApiError` instead of
  `RangeError`.
- Time: a restarted `epoll_pwait2()` starts with the whole timeout
  (`Poller.cxx:83`, which `Poller.hxx:182` documents); `proc::wait()`,
  `wait_info()` and `SignalFD::readEvent()` do not restart after EINTR.
- Process: `cached_pids` is stale after `fork()`;
  `is_caller_process_group_leader()` compares with zero and is never true; `exec()`
  with an empty vector calls `back()` on it (`process.cxx:262`).
- Initialisation: a second thread returns from `init()` before the first has
  initialised anything (`cosmos.cxx:93`), and `finish()` without `init()` wraps the
  counter (105).
- Others: `ChildCloner::clearArgs()` erases one argument (`ChildCloner.hxx:130`);
  `MapFlags::setTLBPageSize()` computes the logarithm from one and clears other
  bits (`mman.cxx:86-111`); `normalize_path()` with the working directory `/`
  gives `//b`; `make_tempdir()` ignores `{}` and accepts an empty name; the mode
  of `make_tempfile()` is subject to the umask; an exception in
  `closeUnclaimed()` keeps the whole list (`net/unix/aux.cxx:62`).

## 9. Not modelled

- Components without state that a step could leave inconsistent: identifiers,
  types of sockets, addresses, the resolver and interfaces, time values, the user
  database, strings, formatting, errors, terminal and loggers, resource usage and
  auxiliary vector, normalised paths, helpers for the current thread.
- Library initialisation: a program is taken to call `init()` before it starts
  threads, as `cosmos.hxx:17` asks for it before anything else. The settings that it leaves are constants
  or choices of `Init` in `StreamIO` and `SubProc`.
- `SubProc`: the contents of `ChildState`; wait flags beyond the four; threads
  that share one object.
- `ChildCloner`: the setters, the order of the redirections among themselves, an
  error pipe that itself is one of the descriptors 0 to 2, and exceptions thrown
  while the child reports an error.
- `PosixThread`: the entry functions and their arguments, and rings of threads
  that join each other, which the clients build.
- `StreamIO`: the operations at a file position, `seek()`, and transfers to
  regular files, which the system calls complete in one go.
- `SigAction`: two threads that set an action for the same signal at the same
  time, for which no promise is documented; mask and flags; setting from inside a
  handler.
- `Tree`: the variants that only list or only test, file systems that cannot be
  written, and the texts of symbolic links. The type of an entry is told as it is
  when the entry is delivered, not when the stream buffered it; what changes between
  delivery and use is modelled.
- `Locks`: locks of a whole process, which exclude other processes only;
  construction of the objects.
- `Messages`: datagrams with addresses, explicit credentials, the error messages
  of the network.
- `Signals`: alternate stacks, names of signals, `send()` by a `PidFD` on Valgrind.
- `Events`: watches of an `INotify` and the contents of its events, several
  threads with one `Poller`, `TimerFD::getTime()`.
- `Tracing`: single steps, and the stops of exec, vfork and clone, which go the
  way of those that are modelled; waiting for STOPPED and CONTINUED.
- `Memory`: `sync()`, names, contents, and the size of TLB pages.
- `Files`: the variants with a `DirFD`, which differ in the directory only,
  templates of temporary files, device numbers, times.
- `Attributes`: synchronisation and access advice, options with a structure,
  credentials of a peer, and what an option does to the traffic.
- `Privileges`: group IDs, which work alike, process groups and sessions, the
  environment, and the settings of `prctl` that only one process sees.
