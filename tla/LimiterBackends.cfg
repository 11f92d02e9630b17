\* A process with Redis and one without, one route with limit 1.
SPECIFICATION Spec
CONSTANTS
    login = login
    refresh = refresh
    Req = {r1, r2, r3, r4}
    Resend = {s1}
    Key = {k1}
    Route = {login}
    Proc = {p1, p2}
    Connected = {p1}
    Limit <- LoginLimit
    Window = 3
    Stall = 1
    MaxClock = 5
    None = None
SYMMETRY Symmetry
INVARIANTS
    TypeOK
    BurstBounded
    DeniedOnlyIfSpent
    RetryAfterHonest
CHECK_DEADLOCK FALSE
