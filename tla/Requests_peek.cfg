SPECIFICATION SpecRequests
CONSTANTS
    Word <- Words
    Programs <- SomePrograms
    MaxPending = 2
    MaxRoom = 3
INVARIANTS
    PeekedIsPending
