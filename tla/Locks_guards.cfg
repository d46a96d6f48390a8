SPECIFICATION Spec
CONSTANTS
    Thread = {t1, t2, t3}
    NoThread = NoThread
    Writer = t1
    Reader = t2
    LastByte = 1
    Kind <- Kinds
    MaxGuards = 2
    MaxWork = 2
    Careless = {}
INVARIANTS
    GuardsExclude
    LocksAreGuarded
    WorkIsNoticed
