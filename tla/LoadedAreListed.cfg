SPECIFICATION Spec
CONSTANTS
    Chats = {c1, c2}
    Lists = {main}
    Folders = {}
    Requests = {r1}
    Limit = 2
    MaxOrder = 2
    MaxUpdates = 2
    Failures = FALSE
    NoList = NoList
INVARIANT LoadedAreListed
