--------------------------- MODULE RequestPipeline ---------------------------
(***************************************************************************)
(* What happens to a request around its handler (router.go, middleware.go):*)
(* each route wraps its handler in authentication, role and rate limit, in *)
(* the order of Chain, all of it in logging and recovery; and what happens *)
(* to the event it ends in (breach.go, sinks.go): classified, then handed  *)
(* to the log and to the audit chain, neither of which may fail it.        *)
(*                                                                         *)
(* Requests share the counters of the rate limiter and the sinks.  What    *)
(* the limiter does with time and backends is RateLimiter's, how a row     *)
(* joins its chain is AuditChain's and what a handler does to the tables   *)
(* is TenantStore's; here each is one step.                                *)
(***************************************************************************)
EXTENDS Naturals, Sequences, FiniteSets

CONSTANTS
    Req,        \* requests, numbered in the order they arrive
    Route,      \* the routes requested
    User,       \* who access tokens are issued to
    Role,       \* role claims of access tokens
    Limit,      \* what each route admits in a window
    None        \* no token, no identity, no event, no status

VARIABLES
    request,    \* of each request: its route and the claims of its token
    pc,         \* "new", "chain", "handler", "sinks" or "answered"
    todo,       \* the middleware it has not passed yet
    who,        \* the identity RequireAuth put into its context
    status,     \* what it is answered, once that is decided
    event,      \* the event it ended in
    turn,       \* the sinks that have not had the event yet
    quota,      \* of each key: the count of its window
    spent,      \* of each request: the key it was counted for, while that
                \* window lasts
    delivered,  \* <<sink, request>>: the sink has the event of the request
    failed      \* <<sink, request>>: the sink returned an error or panicked

vars == <<request, pc, todo, who, status, event, turn, quota, spent,
          delivered, failed>>

Claims == [user : User, role : Role]
Signal == {"login_success", "refresh_success", "refresh_replay",
           "rate_limit_exceeded", "lot.create"}
Event  == [signal : Signal, anonymous : BOOLEAN]
Key    == User \cup {"auth"}

\* 401 and 403 of the middleware, 429, and the answers of a handler: 2xx, or
\* an error of its own or the 500 of a panic.
Status == {"unauthorized", "forbidden", "limited", "ok", "error"}

ASSUME PipelineAssumption ==
    /\ Req \subseteq Nat /\ IsFiniteSet(Req)
    /\ Route \subseteq {"healthz", "tenants", "login", "refresh", "lots",
                       "campaigns", "applications", "users", "audit"}
    /\ Limit \in [Route -> Nat]
    /\ None \notin Key \cup Claims \cup Event \cup Signal \cup Status

TypeOK ==
    /\ request \in [Req -> [route : Route, claims : Claims \cup {None}] \cup {None}]
    /\ pc \in [Req -> {"new", "chain", "handler", "sinks", "answered"}]
    /\ todo \in [Req -> Seq({"auth", "role", "limit"})]
    /\ who \in [Req -> Claims \cup {None}]
    /\ status \in [Req -> Status \cup {None}]
    /\ event \in [Req -> Event \cup {None}]
    /\ turn \in [Req -> Seq({"slog", "audit"})]
    /\ quota \in [Key -> 0..Cardinality(Req)]
    /\ spent \in [Req -> Key \cup {None}]
    /\ delivered \subseteq {"slog", "audit"} \X Req
    /\ failed \subseteq {"slog", "audit"} \X Req

Init ==
    /\ request = [r \in Req |-> None]
    /\ pc = [r \in Req |-> "new"]
    /\ todo = [r \in Req |-> <<>>]
    /\ who = [r \in Req |-> None]
    /\ status = [r \in Req |-> None]
    /\ event = [r \in Req |-> None]
    /\ turn = [r \in Req |-> <<>>]
    /\ quota = [k \in Key |-> 0]
    /\ spent = [r \in Req |-> None]
    /\ delivered = {}
    /\ failed = {}

-----------------------------------------------------------------------------
(* Faulty definitions the properties must tell from the ones below *)

\* The rate limit comes before the role.
ChainLimitsFirst(o) ==
    CASE o \in {"healthz", "tenants"}                     -> <<>>
      [] o \in {"login", "refresh"}                       -> <<"limit">>
      [] o = "lots"                                       -> <<"auth", "limit">>
      [] o \in {"campaigns", "applications", "users", "audit"}
             -> <<"auth", "limit", "role">>

\* The failure of a sink ends the fan-out.
FailureEndsFanOut(r) ==
    /\ pc[r] = "sinks"
    /\ failed' = failed \cup {<<Head(turn[r]), r>>}
    /\ turn' = [turn EXCEPT ![r] = <<>>]
    /\ pc' = [pc EXCEPT ![r] = "answered"]
    /\ UNCHANGED <<request, todo, who, status, event, quota, spent, delivered>>

\* The panic of a handler leaves its goroutine without an answer.
PanicUnrecovered(r) ==
    /\ pc[r] = "handler"
    /\ pc' = [pc EXCEPT ![r] = "dead"]
    /\ UNCHANGED <<request, status, todo, who, event, turn, quota, spent,
                   delivered, failed>>

-----------------------------------------------------------------------------
(* The routes *)

Chain(o) ==
    CASE o \in {"healthz", "tenants"}                     -> <<>>
      [] o \in {"login", "refresh"}                       -> <<"limit">>
      [] o = "lots"                                       -> <<"auth", "limit">>
      [] o \in {"campaigns", "applications", "users", "audit"}
             -> <<"auth", "role", "limit">>

\* The roles of the requireRole in the chain; reads have none.
Permit(o) ==
    CASE o = "campaigns"           -> {"admin", "agronomist"}
      [] o = "applications"        -> {"admin", "agronomist", "producer"}
      [] o \in {"users", "audit"}  -> {"admin"}

\* deriveRateLimitKey.  Both auth routes count the address, here one.
KeyOf(r) ==
    IF request[r].route \in {"login", "refresh"} THEN "auth" ELSE who[r].user

-----------------------------------------------------------------------------
(* The middleware *)

Goto(r, from, to) == pc[r] = from /\ pc' = [pc EXCEPT ![r] = to]

\* The end of the chain is the handler.
Pass(r) ==
    /\ todo' = [todo EXCEPT ![r] = Tail(@)]
    /\ pc' = [pc EXCEPT ![r] = IF Len(todo[r]) = 1 THEN "handler" ELSE "chain"]

Answer(r, code) ==
    /\ status' = [status EXCEPT ![r] = code]
    /\ pc' = [pc EXCEPT ![r] = "answered"]

At(r, middleware) == pc[r] = "chain" /\ Head(todo[r]) = middleware

\* The mux; claims are those of a token Verify accepts, None is any other.
\* Public routes do not look at the token.
Arrive(r, o, c) ==
    /\ pc[r] = "new"
    /\ c # None => Chain(o) # <<>> /\ Head(Chain(o)) = "auth"
    /\ \A s \in Req : s < r => pc[s] # "new"
    /\ request' = [request EXCEPT ![r] = [route |-> o, claims |-> c]]
    /\ todo' = [todo EXCEPT ![r] = Chain(o)]
    /\ pc' = [pc EXCEPT ![r] = IF Chain(o) = <<>> THEN "handler" ELSE "chain"]
    /\ UNCHANGED <<who, status, event, turn, quota, spent, delivered, failed>>

RequireAuth(r) ==
    /\ At(r, "auth")
    /\ \/ /\ request[r].claims # None
          /\ who' = [who EXCEPT ![r] = request[r].claims]
          /\ Pass(r)
          /\ UNCHANGED status
       \/ /\ request[r].claims = None
          /\ Answer(r, "unauthorized")
          /\ UNCHANGED <<todo, who>>
    /\ UNCHANGED <<request, event, turn, quota, spent, delivered, failed>>

RequireRole(r) ==
    /\ At(r, "role")
    /\ \/ /\ who[r].role \in Permit(request[r].route)
          /\ Pass(r)
          /\ UNCHANGED status
       \/ /\ who[r].role \notin Permit(request[r].route)
          /\ Answer(r, "forbidden")
          /\ UNCHANGED todo
    /\ UNCHANGED <<request, who, event, turn, quota, spent, delivered, failed>>

\* Detect: the table has every signal that is emitted.
Emit(r, signal, anonymous) ==
    /\ event' = [event EXCEPT ![r] = [signal |-> signal, anonymous |-> anonymous]]
    /\ turn' = [turn EXCEPT ![r] = <<"slog", "audit">>]
    /\ pc' = [pc EXCEPT ![r] = "sinks"]

\* Allow, and on a refusal onBlocked before the 429.
RateLimit(r) ==
    /\ At(r, "limit")
    /\ LET k == KeyOf(r)
           n == quota[k] + 1
       IN /\ quota' = [quota EXCEPT ![k] = n]
          /\ spent' = [spent EXCEPT ![r] = k]
          /\ \/ /\ n <= Limit[request[r].route]
                /\ Pass(r)
                /\ UNCHANGED <<status, event, turn>>
             \/ /\ n > Limit[request[r].route]
                /\ status' = [status EXCEPT ![r] = "limited"]
                /\ Emit(r, "rate_limit_exceeded", who[r] = None)
                /\ UNCHANGED todo
    /\ UNCHANGED <<request, who, delivered, failed>>

\* A window of the limiter ends.
WindowEnds(k) ==
    /\ quota[k] > 0
    /\ quota' = [quota EXCEPT ![k] = 0]
    /\ spent' = [r \in Req |-> IF spent[r] = k THEN None ELSE spent[r]]
    /\ UNCHANGED <<request, pc, todo, who, status, event, turn, delivered,
                   failed>>

-----------------------------------------------------------------------------
(* The handlers, by what they tell the signals *)

\* Events of handlers always have a tenant: that of the session, the record
\* or the claims.  A replay is answered 401.
Outcome(o) ==
    CASE o = "login"                            -> {<<"ok", "login_success">>}
      [] o = "refresh"  -> {<<"ok", "refresh_success">>, <<"error", "refresh_replay">>}
      [] o \in {"healthz", "tenants", "audit"}  -> {<<"ok", None>>}
      [] o \in {"lots", "campaigns", "applications", "users"}
                        -> {<<"ok", None>>, <<"ok", "lot.create">>}

Handle(r) ==
    /\ pc[r] = "handler"
    /\ \E out \in Outcome(request[r].route) \cup {<<"error", None>>} :
           \/ out[2] = None /\ Answer(r, out[1]) /\ UNCHANGED <<event, turn>>
           \/ /\ out[2] # None
              /\ status' = [status EXCEPT ![r] = out[1]]
              /\ Emit(r, out[2], FALSE)
    /\ UNCHANGED <<request, todo, who, quota, spent, delivered, failed>>

\* recover turns the panic of a handler into a 500.
Panic(r) ==
    /\ pc[r] = "handler"
    /\ Answer(r, "error")
    /\ UNCHANGED <<request, todo, who, event, turn, quota, spent, delivered,
                   failed>>

-----------------------------------------------------------------------------
(* The signals *)

\* AuditSink.Emit records what is not anonymous.
Row(e) == ~e.anonymous

Takes(sink, e) == sink = "slog" \/ Row(e)

NextSink(r) ==
    /\ turn' = [turn EXCEPT ![r] = Tail(@)]
    /\ pc' = [pc EXCEPT ![r] = IF Len(turn[r]) = 1 THEN "answered" ELSE "sinks"]
    /\ UNCHANGED <<request, todo, who, status, event, quota, spent>>

\* fanOut.Emit: one sink after the other, slog first.
SinkTakes(r) ==
    /\ pc[r] = "sinks"
    /\ delivered' = IF Takes(Head(turn[r]), event[r])
                    THEN delivered \cup {<<Head(turn[r]), r>>} ELSE delivered
    /\ NextSink(r)
    /\ UNCHANGED failed

\* An error, logged, or a panic, recovered: the next sink still runs.
SinkFails(r) ==
    /\ pc[r] = "sinks"
    /\ failed' = failed \cup {<<Head(turn[r]), r>>}
    /\ NextSink(r)
    /\ UNCHANGED delivered

-----------------------------------------------------------------------------

Advance(r) == RequireAuth(r) \/ RequireRole(r) \/ RateLimit(r) \/ Handle(r)
                \/ SinkTakes(r) \/ SinkFails(r)

Next ==
    \/ \E r \in Req, o \in Route, c \in Claims \cup {None} : Arrive(r, o, c)
    \/ \E r \in Req : Advance(r) \/ Panic(r)
    \/ \E k \in Key : WindowEnds(k)

Spec == Init /\ [][Next]_vars

\* The goroutine of a request runs, and no call it makes hangs.
FairSpec == Spec /\ \A r \in Req : WF_vars(Advance(r))

-----------------------------------------------------------------------------

\* A request is refused for the quota only if its window was spent by
\* requests that were entitled to it: one that is answered 401 or 403 by the
\* middleware costs nobody anything, in whatever order they overlap (D6).
SpentByTheEntitled ==
    \A r \in Req : status[r] = "limited" /\ spent[r] # None =>
        Cardinality({s \in Req \ {r} :
                       /\ spent[s] = spent[r]
                       /\ status[s] \notin {"unauthorized", "forbidden"}})
            >= Limit[request[r].route]

\* By the time a request is answered its event is in the log and, unless
\* nobody is known to have caused it, in the audit chain: only the failure
\* of a sink takes the event from that sink, and from no other.
Anonymous(r) == event[r].signal = "rate_limit_exceeded" /\ who[r] = None

EventsReachTheirSinks ==
    \A r \in Req : pc[r] = "answered" /\ event[r] # None =>
        /\ <<"slog", r>> \in delivered \cup failed
        /\ IF Anonymous(r) THEN <<"audit", r>> \notin delivered
                           ELSE <<"audit", r>> \in delivered \cup failed

\* Every request that reached the server is answered: refused on the way,
\* by its handler or by recovery, whatever its sinks do.
EveryRequestIsAnswered ==
    \A r \in Req : pc[r] \notin {"new", "answered"} ~> pc[r] = "answered"
=============================================================================
