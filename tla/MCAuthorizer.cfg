SPECIFICATION FairSpec
CONSTANTS
    Requests = {r1, r2, r3}
    StateCap = 3
    Nil = Nil
INVARIANTS
    TypeOK
    NoSendOnClosed
    AnswersMatchForms
PROPERTIES
    LoginSettles
    SessionSpec
CHECK_DEADLOCK FALSE
