SPECIFICATION PageSpec
CONSTANTS
    Chats = {c1}
    Lists = {f, g}
    Folders = {f, g}
    Requests = {r1}
    Private = {}
    Limit = 1
    MaxOrder = 1
    MaxUpdates = 2
    Failures = TRUE
    NoList = NoList
SYMMETRY Symmetry
INVARIANTS PageTypeOK MissingHasCause PageHasCause
