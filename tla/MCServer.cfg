SPECIFICATION FairSpec
CONSTANTS
    c1 = c1
    c2 = c2
    c3 = c3
    Clients = {c1, c2, c3}
    MaxFd = 2
    MaxRequests = 2
    Quiet = {c3}
    MaxOpens = 1
INVARIANTS
    TypeOK
    AnswersAsker
    EveryClientHeard
PROPERTY RequestsTaken
CHECK_DEADLOCK FALSE
