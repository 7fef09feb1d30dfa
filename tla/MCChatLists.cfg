SPECIFICATION Spec
CONSTANTS
    Chats = {c1, c2}
    Lists = {f}
    Folders = {f}
    Requests = {r1, r2}
    Limit = 1
    MaxOrder = 2
    MaxUpdates = 2
    Failures = TRUE
    NoList = NoList
SYMMETRY Symmetry
INVARIANTS TypeOK MissingHasCause OrderHasCause
