SPECIFICATION FairSpec
CONSTANTS
    WriteVectors <- Sources
    ReadVectors <- Targets
    Capacity = 3
    Settings <- BlockingOrThrowing
    Interrupts = TRUE
CHECK_DEADLOCK FALSE
INVARIANTS
    TransfersAreExact
PROPERTIES
    CallsEnd
