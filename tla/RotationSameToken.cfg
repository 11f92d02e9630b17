\* Two requests present the same token and both find it live.
SPECIFICATION Spec
CONSTANTS
    Req = {r1, r2, r3}
    Account = {a1}
    None = None
    TTL = 1
    MaxClock = 1
    Overlap = TRUE
INVARIANTS
    OneRotationPerToken
CHECK_DEADLOCK FALSE
