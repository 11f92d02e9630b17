\* Three requests, with a token or without: to an auth route, which has no
\* identity and the larger limit, and to an admin route; the tokens of one
\* user carry two roles.  Under fairness.
SPECIFICATION FairSpec
CONSTANTS
    Req = {1, 2, 3}
    Route = {"refresh", "users"}
    User = {u1}
    Role = {"admin", "producer"}
    Limit <- Limits
    None = None
INVARIANTS
    SpentByTheEntitled
    EventsReachTheirSinks
PROPERTIES
    EveryRequestIsAnswered
CHECK_DEADLOCK FALSE
