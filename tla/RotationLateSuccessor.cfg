\* A family is revoked while one of its rotations is between its writes.
SPECIFICATION Spec
CONSTANTS
    Req = {r1, r2, r3, r4}
    Account = {a1}
    None = None
    TTL = 1
    MaxClock = 1
    Overlap = TRUE
INVARIANTS
    ReplayKillsFamily
CHECK_DEADLOCK FALSE
