SPECIFICATION FairSpec
CONSTANTS
    Obj = {o1, o2}
    Child = {c1, c2}
    Pid = {p1, p2}
    Fd = {f1, f2}
    NoPid = NoPid
    NoFd = NoFd
    NoChild = NoChild
    Signals = {"KILL", "ABORT", "STOP", "CONT"}
    CoreDumps = FALSE
    OtherWaiter = TRUE
    Interrupts = TRUE
    Valgrind = {FALSE, TRUE}
    WaitFlagSets <- JoiningFlags
INVARIANTS
    NoOrphan
    OwnChild
PROPERTIES
    ImplementsHandles
    SignalsOwnChildOnly
    WaitEnds
