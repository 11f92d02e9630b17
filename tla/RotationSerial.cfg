\* Four requests under fairness; a family has at most one unanswered refresh.
SPECIFICATION FairSpec
CONSTANTS
    Req = {r1, r2, r3, r4}
    Account = {a1}
    None = None
    TTL = 1
    MaxClock = 1
    Overlap = FALSE
INVARIANTS
    OneRotationPerToken
    OneLiveToken
    ReplayKillsFamily
PROPERTIES
    KeepsPromise
    EveryRequestEnds
CHECK_DEADLOCK FALSE
