SPECIFICATION FairSpec
CONSTANTS
    r1 = r1
    r2 = r2
    Reqs <- MCReqs
INVARIANTS
    TypeOK
    NoRetryAfterDeadline
PROPERTY EveryRequestAnswered
