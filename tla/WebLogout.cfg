\* One tab: a refresh is in flight when the user signs out.
SPECIFICATION FairSpec
CONSTANTS
    Req = {1, 2}
    Account = {a1}
    None = None
    Tab = {t1}
    Call = {1}
PROPERTIES
    SignedOutStaysOut
CHECK_DEADLOCK FALSE
