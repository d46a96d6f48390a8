SPECIFICATION SpecNotifications
CONSTANTS
    Thread = {t1, t2}
    Child = {c1, c2}
    SigSets <- Sets
    Sendable <- AllSendable
    MaxSent = 1
    Proc = {p1, p2}
    Root = p1
    Methods = {"seize", "attach"}
    OptSets <- SomeOptSets
    CoreDumps = TRUE
    MaxSends = 2
    MaxInterrupts = 1
INVARIANTS
    InfoMatchesOrigin
    NoZombieForgotten
    SignalsArriveOnce
    StopsAreUnderstood
SYMMETRY Symmetry
