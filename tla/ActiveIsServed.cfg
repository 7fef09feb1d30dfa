SPECIFICATION FairSpec
CONSTANTS
    Requests = {r1, r2}
    Phones = {p1}
    Nil = Nil
PROPERTIES
    ActiveIsServed
CHECK_DEADLOCK FALSE
