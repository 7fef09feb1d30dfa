SPECIFICATION FairSpec
CONSTANTS
    Accounts <- TwoAccounts
    Owner = "owner"
    Handlers <- TwoHandlers
    Failures = TRUE
    Targets <- TwoTargets
    MaxSent = 2
INVARIANTS TypeOK RequestsHaveClients DeathHasCause ForwardIsWhole
PROPERTY StartSettles
CHECK_DEADLOCK FALSE
