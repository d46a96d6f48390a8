SPECIFICATION Spec
CONSTANTS
    Num = {0, 1, 2}
    Obj = {o1, o2, o3}
    Path = {p1, p2}
    None = None
    Client = Client
SYMMETRY Symmetry
INVARIANTS
    OwnedOnce
PROPERTIES
    ImplementsOwners
