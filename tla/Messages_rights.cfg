SPECIFICATION Spec
CONSTANTS
    File = {a, b}
    Own = Own
    NoFile = NoFile
    Num = {0, 1, 2}
    BufferSizes = {2, 6}
    MaxPayload = 2
    MaxSent = 2
    MaxAdded = 1
SYMMETRY Symmetry
INVARIANTS
    ReceivedOwnedOnce
PROPERTIES
    RightsArriveOnce
