SPECIFICATION SpecInOrder
CONSTANTS
    t1 = t1
    t2 = t2
    Caller = {t1, t2}
    Parent = parent
    Configs <- MixedConfigs
    OtherWaiter = TRUE
    Interrupts = TRUE
INVARIANTS
    PreExecErrorsAreThrown
CHECK_DEADLOCK FALSE
