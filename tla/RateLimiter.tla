------------------------------ MODULE RateLimiter ------------------------------
(***************************************************************************)
(* The fixed-window rate limiter: RateLimiter.Allow called by the requests *)
(* of one or more processes, over one counter per key in Redis and, when   *)
(* Redis is absent or fails, one bucket per key in the process.            *)
(*                                                                         *)
(* A route has its limit and a request its key: deriveRateLimitKey gives   *)
(* the requests of an address one key on both auth routes, and those of a  *)
(* user one key on all API routes.                                         *)
(***************************************************************************)
EXTENDS Integers, FiniteSets

CONSTANTS
    Req,        \* requests; each calls Allow once
    Resend,     \* the times a script whose connection broke is sent again
    Key,        \* rate limit keys
    Route,
    Proc,       \* API processes
    Connected,  \* the processes that reached Redis when they started
    Limit,      \* requests a window admits, for each route
    Window,     \* length of a window, in ticks
    Stall,      \* longest wait for Redis (its timeout) or for the mutex
    MaxClock,   \* bound on the clock, for TLC
    None

ASSUME LimiterAssumption ==
    /\ Connected \subseteq Proc
    /\ Limit \in [Route -> Nat \ {0}]
    /\ Window \in Nat \ {0}
    /\ Stall \in 0..Window
    /\ MaxClock \in Nat
    /\ None \notin Proc \cup {"redis"}
    /\ "redis" \notin Proc

VARIABLES
    clock,      \* real time, the same everywhere
    counter,    \* Redis: for each key its count and expiry, or None
    bucket,     \* for each process and key the tokenBucket, or None
    pc,         \* where each request is; at the end, what Allow answered
    req,        \* for each request what it asks, and when and by whom it
                \* was answered
    resent      \* for each resend that happened the key it counted once more,
                \* and when

vars == <<clock, counter, bucket, pc, req, resent>>

Cell == [count : Nat, until : Nat]

Request == [key : Key, route : Route, proc : Proc,
            now : Nat,                                  \* the clock it read
            at : Nat,                                   \* when it was counted
            by : Proc \cup {"redis", None},             \* what counted it
            retryAfter : Nat]

Resent == [key : Key, at : Nat]

ASSUME CellAssumption ==
    /\ None \notin Cell /\ None \notin Request /\ None \notin Resent
    /\ IsFiniteSet(Req) /\ IsFiniteSet(Resend)

TypeOK ==
    /\ clock \in 0..MaxClock
    /\ counter \in [Key -> Cell \cup {None}]
    /\ bucket \in [Proc -> [Key -> Cell \cup {None}]]
    /\ pc \in [Req -> {"idle", "redis", "memory", "allowed", "denied"}]
    /\ req \in [Req -> Request \cup {None}]
    /\ resent \in [Resend -> Resent \cup {None}]

Init ==
    /\ clock = 0
    /\ counter = [k \in Key |-> None]
    /\ bucket = [p \in Proc |-> [k \in Key |-> None]]
    /\ pc = [r \in Req |-> "idle"]
    /\ req = [r \in Req |-> None]
    /\ resent = [x \in Resend |-> None]

-----------------------------------------------------------------------------
(* Faulty steps the properties must tell from the ones below *)

\* A duration that is over is negative.
LeftSigned(c, n) == IF n >= c THEN n - c ELSE 0 - 1

\* The whole window is reported instead of what is left of it.
LeftWholeWindow(c, n) == Window

\* The request that opens a window is not counted.
CountedFromZero(cell, fresh, until) ==
    IF fresh THEN [count |-> 0, until |-> until]
    ELSE [cell EXCEPT !.count = @ + 1]

\* PEXPIRE is missing.
ScriptWithoutExpiry(k) ==
    IF counter[k] = None THEN [count |-> 1, until |-> clock + Window]
    ELSE [counter[k] EXCEPT !.count = @ + 1]

-----------------------------------------------------------------------------
\* From here on the clock is n ticks from c, or past it.
Left(c, n) == IF n > c THEN n - c ELSE 0

-----------------------------------------------------------------------------
(* Allow *)

\* A process that has a client asks Redis; one that has none reads the clock
\* and goes for the mutex.
Ask(r, k, o, p) ==
    /\ pc[r] = "idle"
    /\ pc' = [pc EXCEPT ![r] = IF p \in Connected THEN "redis" ELSE "memory"]
    /\ req' = [req EXCEPT ![r] =
                 [key |-> k, route |-> o, proc |-> p, now |-> clock,
                  at |-> clock, by |-> None, retryAfter |-> 0]]
    /\ UNCHANGED <<clock, counter, bucket, resent>>

\* What a cell becomes when one more request is counted in it.
Counted(cell, fresh, until) ==
    IF fresh THEN [count |-> 1, until |-> until]
    ELSE [cell EXCEPT !.count = @ + 1]

\* The Lua script, atomic in Redis: INCR, and PEXPIRE on the first of a
\* window.  An expired key is gone.
Script(k) ==
    Counted(counter[k],
            counter[k] = None \/ (counter[k] # None /\ counter[k].until <= clock),
            clock + Window)

\* The verdict on the cell r was counted in, by the backend b.
Answer(r, cell, b) ==
    /\ pc' = [pc EXCEPT ![r] =
                IF cell.count <= Limit[req[r].route] THEN "allowed" ELSE "denied"]
    /\ req' = [req EXCEPT ![r] =
                 [@ EXCEPT !.at = clock, !.by = b,
                           !.retryAfter =
                              IF cell.count <= Limit[req[r].route] THEN 0
                              ELSE Left(clock, cell.until)]]

\* allowRedis: the script ran and its answer came in time.
RedisAnswers(r) ==
    /\ pc[r] = "redis"
    /\ counter' = [counter EXCEPT ![req[r].key] = Script(req[r].key)]
    /\ Answer(r, counter'[req[r].key], "redis")
    /\ UNCHANGED <<clock, bucket, resent>>

\* An error, or 50 ms passed; the script may have run all the same.  The
\* request falls back to the memory of its process.
RedisFails(r) ==
    /\ pc[r] = "redis"
    /\ \/ UNCHANGED counter
       \/ counter' = [counter EXCEPT ![req[r].key] = Script(req[r].key)]
    /\ pc' = [pc EXCEPT ![r] = "memory"]
    /\ req' = [req EXCEPT ![r].now = clock, ![r].at = clock]
    /\ UNCHANGED <<clock, bucket, resent>>

\* The script ran, its connection broke before the answer, and the client
\* sends it again, as one without MaxRetries does: the request is counted and
\* still waits.
RedisResends(r, x) ==
    LET k == req[r].key
    IN /\ pc[r] = "redis" /\ resent[x] = None
       /\ counter' = [counter EXCEPT ![k] = Script(k)]
       /\ resent' = [resent EXCEPT ![x] = [key |-> k, at |-> clock]]
       /\ UNCHANGED <<clock, bucket, pc, req>>

\* A bucket is replaced when the clock that was read is past its end.
WindowOver(b, now) == b = None \/ (b # None /\ now > b.until)

\* allowMemory, under the mutex but with the clock read before it.
MemoryAnswers(r) ==
    LET k == req[r].key
        p == req[r].proc
    IN /\ pc[r] = "memory"
       /\ bucket' = [bucket EXCEPT ![p][k] =
             Counted(@, WindowOver(@, req[r].now), req[r].now + Window)]
       /\ Answer(r, bucket'[p][k], p)
       /\ UNCHANGED <<clock, counter, resent>>

\* No request waits for Redis, or holds a clock reading, longer than Stall.
Tick ==
    /\ clock < MaxClock
    /\ \A r \in Req : pc[r] \in {"redis", "memory"}
                       => clock < req[r].now + Stall
    /\ clock' = clock + 1
    /\ UNCHANGED <<counter, bucket, pc, req, resent>>

Next ==
    \/ \E r \in Req :
          \/ \E k \in Key, o \in Route, p \in Proc : Ask(r, k, o, p)
          \/ RedisAnswers(r) \/ RedisFails(r) \/ MemoryAnswers(r)
          \/ \E x \in Resend : RedisResends(r, x)
    \/ Tick

Spec == Init /\ [][Next]_vars

-----------------------------------------------------------------------------
(* Properties *)

\* The requests of a key and route that b admitted.
AdmittedBy(k, o, b) ==
    {r \in Req : /\ pc[r] = "allowed"
                 /\ req[r].key = k
                 /\ req[r].route = o
                 /\ req[r].by = b}

\* In any stretch of time shorter than a window by a stall, a backend admits
\* at most twice the limit of a route: two windows meet in it, never three,
\* though a bucket is judged by a clock reading older than the mutex.
BurstBounded ==
    \A k \in Key, o \in Route, b \in Proc \cup {"redis"} :
        LET admitted == AdmittedBy(k, o, b)
        IN \A s \in 0..MaxClock :
            Cardinality({r \in admitted : req[r].at \in s..s + Window - 1 - Stall})
                <= 2 * Limit[o]

\* How often a request of the key was counted once more from s to e.
Again(k, s, e) ==
    Cardinality({x \in Resend : resent[x] # None /\ resent[x].key = k
                                /\ resent[x].at \in s..e})

\* A request is refused only if requests of its key were counted as often as
\* its limit in the window before it, each once but for the resends: the
\* requests of other keys and of windows gone by never cost anybody an answer.
DeniedOnlyIfSpent ==
    \A r \in Req : pc[r] = "denied" =>
        Cardinality({q \in Req \ {r} :
            /\ req[q] # None
            /\ req[q].key = req[r].key
            /\ req[q].at + Window + Stall >= req[r].at
            /\ req[r].at >= req[q].now})
        + Again(req[r].key, req[r].at - Window - Stall, req[r].at) >= Limit[req[r].route]

\* Until a refused request's Retry-After has passed, its backend admits no
\* request of its key and route: a client that waits loses nothing.
RetryAfterHonest ==
    \A r, q \in Req :
        /\ pc[r] = "denied" /\ pc[q] = "allowed"
        /\ req[q].key = req[r].key
        /\ req[q].route = req[r].route
        /\ req[q].by = req[r].by
        => ~ (req[r].at < req[q].at /\ req[q].at < req[r].at + req[r].retryAfter)

\* "Per-route counters; login 5/min/IP, refresh 30/min/IP": a request is
\* refused only if as many requests of its own route as its limit came
\* before it in the window.
DeniedOnlyByOwnRoute ==
    \A r \in Req : pc[r] = "denied" =>
        Cardinality({q \in Req \ {r} :
            /\ req[q] # None
            /\ req[q].key = req[r].key
            /\ req[q].route = req[r].route}) >= Limit[req[r].route]
=============================================================================
