SPECIFICATION Spec
CONSTANTS
    Requests = {r1, r2, r3}
    Phones = {p1, p2}
    Nil = Nil
SYMMETRY Symmetry
INVARIANTS
    TypeOK
    ActiveIsOwn
    LoginOwnsCurrent
    FailureBlocksCreation
PROPERTIES
    ActiveStays
    OverlapWindow
CHECK_DEADLOCK FALSE
