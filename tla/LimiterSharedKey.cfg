\* DeniedOnlyByOwnRoute as the documents have it, against the code.
SPECIFICATION Spec
CONSTANTS
    login = login
    refresh = refresh
    Req = {r1, r2, r3}
    Resend = {}
    Key = {k1}
    Route = {login,refresh}
    Proc = {p1}
    Connected = {}
    Limit <- RouteLimits
    Window = 2
    Stall = 1
    MaxClock = 2
    None = None
INVARIANTS
    DeniedOnlyByOwnRoute
CHECK_DEADLOCK FALSE
