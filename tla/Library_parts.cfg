SPECIFICATION SpecLibrary
CONSTANTS
    Setter = {s1}
    Receiver = {r1}
    SimpleHandler = {h1, h2}
    InfoHandler = {i1, i2}
    Null = Null
    IGNORE = IGNORE
    UNKNOWN = UNKNOWN
    Resets = TRUE
    Obj = {o1, o2, o3}
    Thread = {t1, t2, t3}
    Id = {d1, d2, d3}
    Junk = Junk
    NoThread = NoThread
    CreationFails = TRUE
    MovesEmpty = FALSE
    Word <- Words
    Programs <- SomePrograms
    MaxPending = 2
    MaxRoom = 3
    Mapping = {x1, x2}
    LastPage = 3
    MaxSize = 3
    MovesOnto = TRUE
    UnmapFails = 1
    a = a
    b = b
    c = c
    FilePath = {a, b, c}
    TextLength <- Lengths
    FirstRoom = 2
    DeviceOf <- Devices
    FileNode <- Nodes
    SearchPath <- Search
    FileModes <- Modes
    NoNode = NoNode
    FirstFiles <- Worlds
    MaxInterference = 2
    reg = reg
    mem = mem
    pip = pip
    tcp = tcp
    udp = udp
    Number = {0, 1, 2}
    OpenFile = {f1, f2, f3}
    FileNodes = {reg, mem, pip, tcp, udp}
    KindOf <- Kinds
    OptionsUsed <- Options
    OptionValue = {1}
    MaxSets = 4
    Proc = {1, 2}
    FirstProc = 1
    UserId = {0, 1}
    SettingsUsed = {"KEEP_CAPS", "NO_SETUID_FIXUP"}
    Inheritable = {"SETUID"}
    LimitsUsed = {"Locks", "MemLock", "Nice"}
    LimitValue = {0, 20}
    INFINITY = 99
    NiceValue = {0, 5}
    Priority = {1}
    MaxChanges = 4
CHECK_DEADLOCK FALSE
INVARIANTS
    TablesSettle
    OneKindHandsOver
    JoinableHasThread
    MemoryIsOwned
    PagesAreAsAsked
    AnswersAreTrue
    AnswersWereTrue
    CopiesAreExact
    AttributesAreAsSet
    RestrictionsLast
