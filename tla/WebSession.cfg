\* Two tabs that share a refresh token; a login and two refreshes.
SPECIFICATION FairSpec
CONSTANTS
    Req = {1, 2, 3}
    Account = {a1}
    None = None
    Tab = {t1, t2}
    Call = {1, 2}
INVARIANTS
    ExpelledOnlyForCause
    StoredTokenWorks
PROPERTIES
    EveryCallSettles
CHECK_DEADLOCK FALSE
