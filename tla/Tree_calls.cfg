SPECIFICATION SpecTree
CONSTANTS
    Name = {n1, n2}
    Directory = {1, 2}
    File = {3}
    Link = {3}
    Root = 0
    None = None
    MaxDepth = 2
    MaxOthers = 1
INVARIANTS
    TypeOK
PROPERTIES
    RemovesOnlyTheTree
    UndisturbedCallsAreExact
    CallsEnd
