SPECIFICATION FairSpec
CONSTANTS MaxMessages = 2
    Callers = {c1}
    MaxResults = 1
INVARIANTS TypeOK CacheHasCause
PROPERTIES RegularStaysUnread LoneJoinIsRead
CHECK_DEADLOCK FALSE
