\* Three requests of two tenants, one user to start with; tokens live one tick.
SPECIFICATION Spec
CONSTANTS
    Request = {q1, q2, q3}
    Seed = {s}
    Tenant = {t1, t2}
    Email = {e1, e2}
    Role = {"producer", "auditor"}
    AccessTTL = 1
    Stall = 1
    MaxClock = 2
    None = none
INVARIANTS
    EmailsUnique
    WholeRows
    CreatedWhole
    RoleLagBounded
SYMMETRY Symmetry
CHECK_DEADLOCK FALSE
