\* Four requests that may overlap in any way, on two accounts.
SPECIFICATION Spec
CONSTANTS
    Req = {r1, r2, r3, r4}
    Account = {a1, a2}
    None = None
    TTL = 1
    MaxClock = 2
    Overlap = TRUE
SYMMETRY Symmetry
INVARIANTS
    TypeOK
    SuccessorAfterRevocation
    SuccessorInFamily
    FamilyOfOneAccount
    KilledOnlyByReplay
    NotLockedOut
PROPERTIES
    NoTokenComesBack
    SessionStaysOver
CHECK_DEADLOCK FALSE
