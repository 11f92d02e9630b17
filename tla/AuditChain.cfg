\* Four calls of Record for two tenants, under fairness.
SPECIFICATION FairSpec
CONSTANTS
    Call = {c1, c2, c3, c4}
    Tenant = {t1, t2}
    None = None
    c1 = c1
    c2 = c2
    c3 = c3
    info = info
    warning = warning
    Fields = {c1, c2, c3, c4}
    Joined <- MCJoined
    Value = {c1, c2, c3, c4}
    Decoded <- MCDecoded
    Severity = {info, warning}
    SeverityOf <- MCSeverityOf
INVARIANTS
    TypeOK
    ChainsVerify
    EditShows
    RemovalShows
    OneRowPerCall
    DroppedOnlyIfBeatenTwice
PROPERTIES
    KeepsTrail
    EveryRecordReturns
CHECK_DEADLOCK FALSE
