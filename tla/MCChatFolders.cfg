SPECIFICATION FairSpec
CONSTANTS
    Folders = {f1, f2}
    Handlers = {h1, h2}
    Failures = TRUE
INVARIANTS TypeOK MissingHasCause CacheHasCause
PROPERTY HandlersEnd
