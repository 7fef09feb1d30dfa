SPECIFICATION FairSpec
CONSTANTS
    p1 = p1
    p2 = p2
    p3 = p3
    p4 = p4
    p5 = p5
    Requests = {r1, r2}
    Posts = {p1, p2, p3, p4, p5}
    Pages <- MCPages
    Forwarded = {p1}
    Links <- MCLinks
    Limits = {2, 3}
    Failures = TRUE
INVARIANTS TypeOK DayIsCached AnswerIsSound
PROPERTIES OneAnswerADay SearchEnds
