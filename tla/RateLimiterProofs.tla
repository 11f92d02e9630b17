--------------------------- MODULE RateLimiterProofs ---------------------------
(***************************************************************************)
(* The rate limiter, for any requests, keys, routes and processes, and any *)
(* limits, window and Stall.                                               *)
(*                                                                         *)
(* Redis and the memory of a process are treated alike: each is a backend  *)
(* with a cell for every key, and the answer of either counts a request in *)
(* a cell (Counts).  A cell that is replaced has ended, by the clock that  *)
(* was read, a window before its successor ends; a reading is never older  *)
(* than Stall.  All that is proved comes from these two facts.             *)
(***************************************************************************)
EXTENDS RateLimiter, FiniteSetTheorems, TLAPS

Backend == Proc \cup {"redis"}

CellOf(b, k) == IF b = "redis" THEN counter[k] ELSE bucket[b][k]

\* A request under way has a fresh reading of the clock; one that was answered
\* was counted by a backend.
RequestInv(r) ==
    /\ pc[r] = "idle" <=> req[r] = None
    /\ pc[r] # "idle" => req[r].now <= req[r].at /\ req[r].at <= clock
    /\ pc[r] \in {"redis", "memory"} => req[r].by = None /\ clock <= req[r].now + Stall
    /\ pc[r] = "redis" => req[r].proc \in Connected
    /\ pc[r] \in {"allowed", "denied"} => req[r].by \in Backend

\* The window of a cell has begun.
CellInv(b, k) == CellOf(b, k) # None => CellOf(b, k).until <= clock + Window

\* Until a refused request may come back, its cell stays, and stays full.
RetryInv(r) ==
    pc[r] = "denied" /\ clock < req[r].at + req[r].retryAfter =>
        LET c == CellOf(req[r].by, req[r].key)
        IN /\ c # None
           /\ c.until = req[r].at + req[r].retryAfter
           /\ c.count > Limit[req[r].route]

\* Whoever may have been counted in a cell: answered by the backend since its
\* window began, or given up on by a process after Redis ran the script.
Member(q, b, k) ==
    /\ pc[q] \in {"memory", "allowed", "denied"}
    /\ req[q].key = k
    /\ LET begin == CellOf(b, k).until - Window
       IN \/ req[q].by = b /\ req[q].at >= begin
          \/ /\ b = "redis" /\ req[q].by # "redis"
             /\ req[q].proc \in Connected /\ req[q].now >= begin

Members(b, k) == {q \in Req : Member(q, b, k)}

\* The resends, of those that R knows, that counted a request of k once more
\* from s on, and those that did so from s to e.
Repeats(R, k, s) == {x \in Resend : R[x] # None /\ R[x].key = k /\ R[x].at >= s}

RepeatsIn(R, k, s, e) ==
    {x \in Resend : R[x] # None /\ R[x].key = k /\ R[x].at \in s..e}

\* Each member is counted once, but for the resends since the window began.
CountInv(b, k) ==
    CellOf(b, k) # None =>
        CellOf(b, k).count <=
            Cardinality(Members(b, k))
            + Cardinality(Repeats(resent, k, CellOf(b, k).until - Window))

ResentInv(x) == resent[x] # None => resent[x].at <= clock

\* The requests DeniedOnlyIfSpent speaks of, but for those that wait for Redis
\* and may read the clock again.
Before(q, r) ==
    /\ pc[q] \in {"memory", "allowed", "denied"}
    /\ req[q].key = req[r].key
    /\ req[q].at + Window + Stall >= req[r].at
    /\ req[r].at >= req[q].now

SpentInv(r) ==
    pc[r] = "denied" =>
        Cardinality({q \in Req \ {r} : Before(q, r)})
        + Cardinality(RepeatsIn(resent, req[r].key, req[r].at - Window - Stall, req[r].at))
            >= Limit[req[r].route]

\* Those that b admitted of a key and route, and those of them that were
\* counted in an interval.
Admitted(b, k, o) ==
    {r \in Req : pc[r] = "allowed" /\ req[r].key = k /\ req[r].by = b /\ req[r].route = o}

AdmittedIn(b, k, o, s) ==
    {r \in Admitted(b, k, o) : req[r].at \in s..(s + Window - 1 - Stall)}

\* X were admitted in the window of the cell, Y in the one before it.
Windows(b, k, o, X, Y) ==
    /\ X \subseteq Admitted(b, k, o) /\ Y \subseteq Admitted(b, k, o)
    /\ Cardinality(X) <= CellOf(b, k).count
    /\ Cardinality(X) <= Limit[o]
    /\ Cardinality(Y) <= Limit[o]
    /\ \A r \in Admitted(b, k, o) :
          /\ req[r].at <= CellOf(b, k).until + Stall
          /\ r \notin X => req[r].at <= CellOf(b, k).until - Window + Stall
          /\ r \notin X \cup Y => req[r].at <= CellOf(b, k).until - 2 * Window + Stall

BurstInv(b, k, o) ==
    IF CellOf(b, k) = None THEN Admitted(b, k, o) = {}
    ELSE \E X, Y \in SUBSET Req : Windows(b, k, o, X, Y)

Bounded(b, k, o) ==
    \A s \in 0..MaxClock : Cardinality(AdmittedIn(b, k, o, s)) <= 2 * Limit[o]

Inv ==
    /\ TypeOK
    /\ \A r \in Req : RequestInv(r) /\ RetryInv(r) /\ SpentInv(r)
    /\ \A x \in Resend : ResentInv(x)
    /\ RetryAfterHonest
    /\ \A b \in Backend, k \in Key : CellInv(b, k) /\ CountInv(b, k)
    /\ \A b \in Backend, k \in Key, o \in Route : BurstInv(b, k, o) /\ Bounded(b, k, o)

-----------------------------------------------------------------------------
LEMMA InitInv == Init => Inv
<1> SUFFICES ASSUME Init PROVE Inv
  OBVIOUS
<1>1. TypeOK
  BY LimiterAssumption DEF Init, TypeOK
<1>2. ASSUME NEW r \in Req PROVE RequestInv(r) /\ RetryInv(r) /\ SpentInv(r)
  BY DEF Init, RequestInv, RetryInv, SpentInv
<1>3. RetryAfterHonest
  BY DEF Init, RetryAfterHonest
<1>4. ASSUME NEW b \in Backend, NEW k \in Key PROVE CellOf(b, k) = None
  BY LimiterAssumption DEF Init, Backend, CellOf
<1>5. ASSUME NEW b \in Backend, NEW k \in Key, NEW o \in Route
      PROVE  BurstInv(b, k, o) /\ Bounded(b, k, o)
  <2>1. Admitted(b, k, o) = {}
    BY DEF Init, Admitted
  <2>2. \A s \in 0..MaxClock : AdmittedIn(b, k, o, s) = {}
    BY <2>1 DEF AdmittedIn
  <2>3. Limit[o] \in Nat
    BY LimiterAssumption
  <2> QED
    BY <1>4, <2>1, <2>2, <2>3, FS_EmptySet DEF BurstInv, Bounded
<1> QED
  BY <1>1, <1>2, <1>3, <1>4, <1>5 DEF Inv, CellInv, CountInv, ResentInv, Init

-----------------------------------------------------------------------------
(* What the steps do, in the same words for every backend.                 *)

OthersStay(r) ==
    /\ \A q \in Req \ {r} : pc'[q] = pc[q] /\ req'[q] = req[q]
    /\ resent' = resent

\* A cell opens a window, after the end of the one it replaces, or counts one
\* more in its window, which is not over by a clock reading of at most Stall.
Opened(b, k) ==
    /\ CellOf(b, k)'.count = 1
    /\ CellOf(b, k)'.until <= clock + Window
    /\ clock + Window <= CellOf(b, k)'.until + Stall
    /\ CellOf(b, k) # None => CellOf(b, k).until + Window <= CellOf(b, k)'.until

Added(b, k) ==
    /\ CellOf(b, k) # None
    /\ CellOf(b, k)'.count = CellOf(b, k).count + 1
    /\ CellOf(b, k)'.until = CellOf(b, k).until
    /\ clock <= CellOf(b, k).until + Stall

Counts(b, k) ==
    /\ clock' = clock
    /\ \A a \in Backend, l \in Key : a # b \/ l # k => CellOf(a, l)' = CellOf(a, l)
    /\ CellOf(b, k)' \in Cell
    /\ Opened(b, k) \/ Added(b, k)

\* The answer of b to r, from the cell r was counted in.
Judged(r, b, k) ==
    /\ OthersStay(r)
    /\ pc[r] \in {"redis", "memory"} /\ (pc[r] = "redis" <=> b = "redis")
    /\ req'[r] \in Request
    /\ req[r].key = k /\ req'[r].key = k
    /\ req'[r].route = req[r].route /\ req'[r].proc = req[r].proc
    /\ req'[r].now = req[r].now /\ req'[r].at = clock /\ req'[r].by = b
    /\ \/ /\ pc'[r] = "allowed"
          /\ CellOf(b, k)'.count <= Limit[req[r].route]
       \/ /\ pc'[r] = "denied"
          /\ CellOf(b, k)'.count > Limit[req[r].route]
          /\ req'[r].retryAfter = Left(clock, CellOf(b, k)'.until)

\* r gives up on Redis and reads the clock again.
FallsBack(r) ==
    /\ OthersStay(r)
    /\ pc[r] = "redis" /\ pc'[r] = "memory" /\ req'[r] \in Request
    /\ req'[r].key = req[r].key /\ req'[r].route = req[r].route
    /\ req'[r].proc = req[r].proc /\ req'[r].by = req[r].by
    /\ req'[r].now = clock /\ req'[r].at = clock

\* x counts a request of k once more.
Repeated(x, k) ==
    /\ pc' = pc /\ req' = req
    /\ resent[x] = None /\ resent'[x] # None
    /\ resent'[x].key = k /\ resent'[x].at = clock
    /\ \A y \in Resend \ {x} : resent'[y] = resent[y]

\* The numbers of this module are integers.
LEMMA Numbers ==
    /\ Window \in Nat \ {0} /\ Stall \in 0..Window /\ Window \in Int /\ Stall \in Int
    /\ MaxClock \in Nat
    /\ \A o \in Route : Limit[o] \in Nat \ {0}
    /\ \A c \in Cell : c.count \in Nat /\ c.until \in Nat /\ c # None
    /\ \A q \in Request : /\ q.key \in Key /\ q.route \in Route /\ q.proc \in Proc
                          /\ q.now \in Nat /\ q.at \in Nat /\ q.retryAfter \in Nat
                          /\ q.by \in Proc \cup {"redis", None} /\ q # None
    /\ \A x \in Resent : x.key \in Key /\ x.at \in Nat /\ x # None
<1>1. /\ Window \in Nat \ {0} /\ Stall \in 0..Window /\ MaxClock \in Nat
      /\ \A o \in Route : Limit[o] \in Nat \ {0}
  BY LimiterAssumption
<1>2. \A c \in Cell : c.count \in Nat /\ c.until \in Nat /\ c # None
  BY CellAssumption DEF Cell
<1>3. \A q \in Request : /\ q.key \in Key /\ q.route \in Route /\ q.proc \in Proc
                         /\ q.now \in Nat /\ q.at \in Nat /\ q.retryAfter \in Nat
                         /\ q.by \in Proc \cup {"redis", None} /\ q # None
  BY CellAssumption DEF Request
<1>4. \A x \in Resent : x.key \in Key /\ x.at \in Nat /\ x # None
  BY CellAssumption DEF Resent
<1> QED
  BY <1>1, <1>2, <1>3, <1>4

LEMMA CellType ==
    ASSUME TypeOK, NEW b \in Backend, NEW k \in Key
    PROVE  CellOf(b, k) \in Cell \cup {None}
BY LimiterAssumption DEF TypeOK, Backend, CellOf

\* The Lua script counts for Redis.
LEMMA ScriptCounts ==
    ASSUME TypeOK, NEW k \in Key, UNCHANGED <<clock, bucket>>,
           CellInv("redis", k),
           counter' = [counter EXCEPT ![k] = Script(k)]
    PROVE  Counts("redis", k) /\ counter' \in [Key -> Cell \cup {None}]
<1>1. counter[k] \in Cell \cup {None} /\ clock \in Nat
  BY LimiterAssumption DEF TypeOK
<1>2. counter'[k] = Script(k) /\ \A l \in Key : l # k => counter'[l] = counter[l]
  BY DEF TypeOK
<1>3. CASE counter[k] = None \/ (counter[k] # None /\ counter[k].until <= clock)
  <2>1. Script(k) = [count |-> 1, until |-> clock + Window]
    BY <1>3 DEF Script, Counted
  <2>2. Script(k) \in Cell
    BY <1>1, <2>1, LimiterAssumption DEF Cell
  <2>3. counter[k] # None => counter[k].until \in Nat /\ counter[k].until <= clock
    BY <1>1, <1>3 DEF Cell
  <2>4. Opened("redis", k)
    <3>1. counter'[k].count = 1 /\ counter'[k].until = clock + Window
      BY <1>2, <2>1
    <3> QED
      BY <1>1, <2>3, <3>1, Numbers DEF Opened, CellOf
  <2> QED
    BY <1>2, <2>2, <2>4 DEF Counts, CellOf, TypeOK
<1>4. CASE counter[k] # None /\ ~(counter[k].until <= clock)
  <2>1. Script(k) = [counter[k] EXCEPT !.count = @ + 1]
    BY <1>4 DEF Script, Counted
  <2>2. counter[k] \in Cell /\ counter[k].until \in Nat
    BY <1>1, <1>4 DEF Cell
  <2>3. /\ Script(k) \in Cell /\ Script(k).count = counter[k].count + 1
        /\ Script(k).until = counter[k].until
    BY <2>1, <2>2 DEF Cell
  <2>4. Added("redis", k)
    BY <1>1, <1>2, <1>4, <2>2, <2>3, Numbers DEF Added, CellOf
  <2> QED
    BY <1>2, <2>3, <2>4 DEF Counts, CellOf, TypeOK
<1> QED
  BY <1>3, <1>4

\* allowMemory counts for its process.
LEMMA MemoryCounts ==
    ASSUME TypeOK, NEW k \in Key, NEW p \in Proc, UNCHANGED <<clock, counter>>,
           NEW now \in Nat, now <= clock, clock <= now + Stall,
           bucket' = [bucket EXCEPT ![p][k] = Counted(@, WindowOver(@, now), now + Window)]
    PROVE  Counts(p, k) /\ bucket' \in [Proc -> [Key -> Cell \cup {None}]]
<1> DEFINE old == bucket[p][k]
           new == Counted(old, WindowOver(old, now), now + Window)
<1>1. /\ old \in Cell \cup {None} /\ clock \in Nat /\ p # "redis"
  BY LimiterAssumption DEF TypeOK
<1>2. bucket' = [bucket EXCEPT ![p] = [bucket[p] EXCEPT ![k] = new]]
  OBVIOUS
<1> HIDE DEF new
<1>3. /\ bucket'[p][k] = new
      /\ \A a \in Proc, l \in Key : a # p \/ l # k => bucket'[a][l] = bucket[a][l]
  BY <1>2 DEF TypeOK
<1>4. new \in Cell /\ (Opened(p, k) \/ Added(p, k))
  <2>1. CellOf(p, k) = old /\ CellOf(p, k)' = new
    BY <1>1, <1>3 DEF CellOf
  <2>2. CASE old = None \/ (old # None /\ now > old.until)
    <3>1. new = [count |-> 1, until |-> now + Window]
      BY <2>2 DEF new, Counted, WindowOver
    <3>2. new \in Cell /\ new.count = 1 /\ new.until = now + Window
      BY <3>1, Numbers DEF Cell
    <3>3. old # None => old.until \in Nat /\ old.until < now
      BY <1>1, <2>2 DEF Cell
    <3> QED
      BY <1>1, <2>1, <3>2, <3>3, Numbers DEF Opened
  <2>3. CASE old # None /\ ~(now > old.until)
    <3>1. new = [old EXCEPT !.count = @ + 1]
      BY <2>3 DEF new, Counted, WindowOver
    <3>2. old \in Cell /\ old.until \in Nat /\ now <= old.until
      BY <1>1, <2>3 DEF Cell
    <3>3. new \in Cell /\ new.count = old.count + 1 /\ new.until = old.until
      BY <3>1, <3>2 DEF Cell
    <3> QED
      BY <1>1, <2>1, <2>3, <3>2, <3>3, Numbers DEF Added
  <2> QED
    BY <2>2, <2>3
<1>5. \A a \in Backend, l \in Key : a # p \/ l # k => CellOf(a, l)' = CellOf(a, l)
  BY <1>3, LimiterAssumption DEF Backend, CellOf
<1>6. bucket' \in [Proc -> [Key -> Cell \cup {None}]]
  BY <1>2, <1>4 DEF TypeOK
<1>7. CellOf(p, k)' = new
  BY <1>1, <1>3 DEF CellOf
<1> QED
  BY <1>4, <1>5, <1>6, <1>7 DEF Counts

\* What a request under way is.
LEMMA Asking ==
    ASSUME Inv, NEW r \in Req, pc[r] \in {"redis", "memory"}
    PROVE  /\ req[r] \in Request /\ req[r].key \in Key /\ req[r].route \in Route
           /\ req[r].proc \in Proc /\ req[r].now \in Nat /\ req[r].at \in Nat
           /\ req[r].by = None /\ clock \in Nat
           /\ req[r].now <= clock /\ clock <= req[r].now + Stall
           /\ pc[r] = "redis" => req[r].proc \in Connected
<1>1. req[r] \in Request /\ clock \in Nat
  BY LimiterAssumption DEF Inv, RequestInv, TypeOK
<1>2. /\ req[r].now <= req[r].at /\ req[r].at <= clock /\ req[r].by = None
      /\ clock <= req[r].now + Stall
      /\ pc[r] = "redis" => req[r].proc \in Connected
  BY DEF Inv, RequestInv
<1>3. /\ req[r].key \in Key /\ req[r].route \in Route /\ req[r].proc \in Proc
      /\ req[r].now \in Nat /\ req[r].at \in Nat
  BY <1>1, Numbers
<1> QED
  BY <1>1, <1>2, <1>3

\* The verdict, on a cell that r was counted in.
LEMMA AnswerJudges ==
    ASSUME Inv, NEW r \in Req, pc[r] \in {"redis", "memory"}, NEW b \in Backend,
           pc[r] = "redis" <=> b = "redis", NEW k \in Key, k = req[r].key, Counts(b, k),
           NEW cell, cell = CellOf(b, k)', Answer(r, cell, b), UNCHANGED resent
    PROVE  /\ Judged(r, b, k)
           /\ pc' \in [Req -> {"idle", "redis", "memory", "allowed", "denied"}]
           /\ req' \in [Req -> Request \cup {None}]
<1> DEFINE verdict == IF cell.count <= Limit[req[r].route] THEN "allowed" ELSE "denied"
           wait == IF cell.count <= Limit[req[r].route] THEN 0 ELSE Left(clock, cell.until)
           new == [req[r] EXCEPT !.at = clock, !.by = b, !.retryAfter = wait]
<1>1. pc' = [pc EXCEPT ![r] = verdict] /\ req' = [req EXCEPT ![r] = new]
  BY DEF Answer
<1>2. /\ req[r] \in Request /\ clock \in Nat /\ cell \in Cell /\ req[r].route \in Route
  BY Asking DEF Counts
<1>3. cell.count \in Nat /\ cell.until \in Nat /\ Limit[req[r].route] \in Nat
  BY <1>2, Numbers
<1>4. wait \in Nat
  BY <1>2, <1>3 DEF Left
<1>5. b \in Proc \cup {"redis", None}
  BY DEF Backend
<1> HIDE DEF wait
<1>6. /\ new \in Request /\ new.key = k /\ new.route = req[r].route /\ new.proc = req[r].proc
      /\ new.now = req[r].now /\ new.at = clock /\ new.by = b /\ new.retryAfter = wait
  BY <1>2, <1>4, <1>5 DEF Request
<1> HIDE DEF new
<1>7. pc'[r] = verdict /\ req'[r] = new /\ OthersStay(r)
  BY <1>1 DEF Inv, TypeOK, OthersStay
<1>8. /\ pc' \in [Req -> {"idle", "redis", "memory", "allowed", "denied"}]
      /\ req' \in [Req -> Request \cup {None}]
  BY <1>1, <1>6 DEF Inv, TypeOK
<1>9. Judged(r, b, k)
  BY <1>3, <1>6, <1>7 DEF Judged, wait
<1> QED
  BY <1>8, <1>9

LEMMA RedisAnswersDoes ==
    ASSUME Inv, NEW r \in Req, RedisAnswers(r)
    PROVE  TypeOK' /\ \E k \in Key : Counts("redis", k) /\ Judged(r, "redis", k)
<1> DEFINE k == req[r].key
<1>1. /\ pc[r] = "redis" /\ UNCHANGED <<clock, bucket, resent>>
      /\ counter' = [counter EXCEPT ![k] = Script(k)]
      /\ Answer(r, counter'[k], "redis")
  BY DEF RedisAnswers
<1>2. k \in Key /\ "redis" \in Backend
  BY <1>1, Asking DEF Backend
<1> HIDE DEF k
<1>3. PICK l \in Key : l = k
  BY <1>2
<1>4. Counts("redis", l) /\ counter' \in [Key -> Cell \cup {None}]
  BY <1>1, <1>2, <1>3, ScriptCounts DEF Inv
<1>5. counter'[l] = CellOf("redis", l)' /\ l = req[r].key
  BY <1>3 DEF CellOf, k
<1>6. Answer(r, CellOf("redis", l)', "redis")
  BY <1>1, <1>3, <1>5
<1>7. /\ Judged(r, "redis", l)
      /\ pc' \in [Req -> {"idle", "redis", "memory", "allowed", "denied"}]
      /\ req' \in [Req -> Request \cup {None}]
  BY <1>1, <1>2, <1>4, <1>5, <1>6, AnswerJudges
<1>8. TypeOK'
  BY <1>1, <1>4, <1>7 DEF Inv, TypeOK
<1> QED
  BY <1>4, <1>7, <1>8

LEMMA MemoryAnswersDoes ==
    ASSUME Inv, NEW r \in Req, MemoryAnswers(r)
    PROVE  TypeOK' /\ \E p \in Proc, k \in Key : Counts(p, k) /\ Judged(r, p, k)
<1>1. PICK k \in Key, p \in Proc, now \in Nat :
         /\ k = req[r].key /\ p = req[r].proc /\ now = req[r].now
         /\ now <= clock /\ clock <= now + Stall /\ pc[r] = "memory"
  BY Asking DEF MemoryAnswers
<1>2. /\ UNCHANGED <<clock, counter, resent>>
      /\ bucket' = [bucket EXCEPT ![p][k] = Counted(@, WindowOver(@, now), now + Window)]
      /\ Answer(r, bucket'[p][k], p)
  BY <1>1, SMTT(30) DEF MemoryAnswers
<1>3. Counts(p, k) /\ bucket' \in [Proc -> [Key -> Cell \cup {None}]]
  BY <1>1, <1>2, MemoryCounts DEF Inv
<1>4. p \in Backend /\ p # "redis" /\ bucket'[p][k] = CellOf(p, k)'
  BY LimiterAssumption DEF Backend, CellOf
<1>5. Answer(r, CellOf(p, k)', p)
  BY <1>2, <1>4
<1>6. /\ Judged(r, p, k)
      /\ pc' \in [Req -> {"idle", "redis", "memory", "allowed", "denied"}]
      /\ req' \in [Req -> Request \cup {None}]
  <2>1. pc[r] \in {"redis", "memory"} /\ (pc[r] = "redis" <=> p = "redis")
    BY <1>1, <1>4
  <2> QED
    BY <1>1, <1>2, <1>3, <1>4, <1>5, <2>1, AnswerJudges
<1>7. TypeOK'
  BY <1>2, <1>3, <1>6 DEF Inv, TypeOK
<1> QED
  BY <1>3, <1>6, <1>7

LEMMA RedisFailsDoes ==
    ASSUME Inv, NEW r \in Req, RedisFails(r)
    PROVE  /\ TypeOK' /\ FallsBack(r) /\ clock' = clock
           /\ \/ UNCHANGED <<counter, bucket>>
              \/ \E k \in Key : k = req[r].key /\ Counts("redis", k)
<1>1. /\ pc[r] = "redis" /\ UNCHANGED <<clock, bucket, resent>>
      /\ pc' = [pc EXCEPT ![r] = "memory"]
      /\ req' = [req EXCEPT ![r].now = clock, ![r].at = clock]
  BY DEF RedisFails
<1>2. PICK k \in Key : k = req[r].key
  BY <1>1, Asking
<1>3. /\ counter' \in [Key -> Cell \cup {None}]
      /\ UNCHANGED counter \/ Counts("redis", k)
  <2>1. CASE UNCHANGED counter
    BY <2>1 DEF Inv, TypeOK
  <2>2. CASE counter' = [counter EXCEPT ![k] = Script(k)]
    <3>1. CellInv("redis", k)
      BY DEF Inv, Backend
    <3> QED
      BY <1>1, <2>2, <3>1, ScriptCounts DEF Inv
  <2> QED
    BY <1>2, <2>1, <2>2 DEF RedisFails
<1> DEFINE new == [req[r] EXCEPT !.now = clock, !.at = clock]
<1>4. req' = [req EXCEPT ![r] = new]
  BY <1>1 DEF Inv, TypeOK
<1>5. req[r] \in Request /\ clock \in Nat
  BY <1>1, Asking
<1>6. /\ new \in Request /\ new.key = req[r].key /\ new.route = req[r].route
      /\ new.proc = req[r].proc /\ new.by = req[r].by /\ new.now = clock /\ new.at = clock
  BY <1>5 DEF Request
<1> HIDE DEF new
<1>7. req'[r] = new /\ pc'[r] = "memory" /\ OthersStay(r)
  BY <1>1, <1>4 DEF Inv, TypeOK, OthersStay
<1>8. FallsBack(r)
  BY <1>1, <1>6, <1>7 DEF FallsBack
<1>9. TypeOK'
  BY <1>1, <1>3, <1>4, <1>6 DEF Inv, TypeOK
<1> QED
  BY <1>1, <1>2, <1>3, <1>8, <1>9

LEMMA RedisResendsDoes ==
    ASSUME Inv, NEW r \in Req, NEW x \in Resend, RedisResends(r, x)
    PROVE  TypeOK' /\ \E k \in Key : Counts("redis", k) /\ Repeated(x, k)
<1>1. PICK k \in Key : k = req[r].key
  BY Asking DEF RedisResends
<1> DEFINE new == [key |-> k, at |-> clock]
<1>2. /\ UNCHANGED <<clock, bucket, pc, req>> /\ resent[x] = None
      /\ counter' = [counter EXCEPT ![k] = Script(k)]
      /\ resent' = [resent EXCEPT ![x] = new]
  BY <1>1 DEF RedisResends
<1>3. Counts("redis", k) /\ counter' \in [Key -> Cell \cup {None}]
  <2>1. CellInv("redis", k)
    BY DEF Inv, Backend
  <2> QED
    BY <1>2, <2>1, ScriptCounts DEF Inv
<1>4. new \in Resent /\ new # None /\ new.key = k /\ new.at = clock
  <2>1. new \in Resent
    BY LimiterAssumption DEF Inv, TypeOK, Resent
  <2> QED
    BY <2>1, Numbers
<1> HIDE DEF new
<1>5. resent'[x] = new /\ \A y \in Resend \ {x} : resent'[y] = resent[y]
  BY <1>2 DEF Inv, TypeOK
<1>6. TypeOK'
  BY <1>2, <1>3, <1>4 DEF Inv, TypeOK
<1> QED
  BY <1>2, <1>3, <1>4, <1>5, <1>6 DEF Repeated

-----------------------------------------------------------------------------
(* What such a step preserves                                              *)

\* r was counted by b for the key k: it has its answer, or falls back.
Moves(r, b, k) ==
    /\ Counts(b, k)
    /\ Judged(r, b, k) \/ (b = "redis" /\ req[r].key = k /\ FallsBack(r))

\* Requests that have one are requests.
LEMMA Asked ==
    ASSUME TypeOK, NEW q \in Req, RequestInv(q), pc[q] # "idle"
    PROVE  /\ req[q] \in Request /\ req[q].key \in Key /\ req[q].route \in Route
           /\ req[q].proc \in Proc /\ req[q].now \in Nat /\ req[q].at \in Nat
           /\ req[q].retryAfter \in Nat /\ clock \in Nat
           /\ req[q].now <= req[q].at /\ req[q].at <= clock
<1>1. req[q] \in Request /\ clock \in Nat
  BY LimiterAssumption DEF TypeOK, RequestInv
<1>2. req[q].now <= req[q].at /\ req[q].at <= clock
  BY DEF RequestInv
<1> QED
  BY <1>1, <1>2, Numbers

\* A cell is a cell before and after, and counts at least one more.
LEMMA CountedCell ==
    ASSUME TypeOK, NEW b \in Backend, NEW k \in Key, Counts(b, k)
    PROVE  /\ CellOf(b, k)' \in Cell /\ CellOf(b, k)' # None
           /\ CellOf(b, k)'.count \in Nat /\ CellOf(b, k)'.until \in Nat /\ clock \in Nat
           /\ clock' = clock
           /\ CellOf(b, k) # None => CellOf(b, k).count \in Nat /\ CellOf(b, k).until \in Nat
BY CellType, Numbers, LimiterAssumption DEF Counts, TypeOK

\* A resend that happened is not forgotten.
ResentStays == \A x \in Resend : resent[x] # None => resent'[x] = resent[x]

LEMMA RepeatsStay ==
    ASSUME ResentStays, NEW k, NEW s, NEW e
    PROVE  /\ Cardinality(Repeats(resent, k, s)) \in Nat
           /\ Cardinality(Repeats(resent', k, s)) \in Nat
           /\ Cardinality(Repeats(resent, k, s)) <= Cardinality(Repeats(resent', k, s))
           /\ Cardinality(RepeatsIn(resent, k, s, e)) \in Nat
           /\ Cardinality(RepeatsIn(resent', k, s, e)) \in Nat
           /\ Cardinality(RepeatsIn(resent, k, s, e)) <= Cardinality(RepeatsIn(resent', k, s, e))
<1>1. \A R : /\ IsFiniteSet(Repeats(R, k, s)) /\ Cardinality(Repeats(R, k, s)) \in Nat
             /\ IsFiniteSet(RepeatsIn(R, k, s, e)) /\ Cardinality(RepeatsIn(R, k, s, e)) \in Nat
  <2> TAKE R
  <2>1. Repeats(R, k, s) \subseteq Resend /\ RepeatsIn(R, k, s, e) \subseteq Resend
    BY DEF Repeats, RepeatsIn
  <2> QED
    BY <2>1, CellAssumption, FS_Subset, FS_CardinalityType
<1>2. Repeats(resent, k, s) \subseteq Repeats(resent', k, s)
  BY DEF ResentStays, Repeats
<1>3. RepeatsIn(resent, k, s, e) \subseteq RepeatsIn(resent', k, s, e)
  BY DEF ResentStays, RepeatsIn
<1> QED
  BY <1>1, <1>2, <1>3, FS_Subset

\* A refusal stays paid for while whoever paid for it stays on record.
LEMMA SpentStays ==
    ASSUME Inv, NEW q \in Req, pc[q] = "denied", req'[q] = req[q], ResentStays,
           \A p \in Req \ {q} : Before(p, q) => Before(p, q)'
    PROVE  SpentInv(q)'
<1> DEFINE paid == {p \in Req \ {q} : Before(p, q)}
           paying == {p \in Req \ {q} : Before(p, q)'}
<1>1. PICK k, s, e : k = req[q].key /\ s = req[q].at - Window - Stall /\ e = req[q].at
  OBVIOUS
<1>2. paid \subseteq paying /\ IsFiniteSet(paying)
  BY CellAssumption, FS_Subset
<1>3. /\ Cardinality(paid) <= Cardinality(paying)
      /\ Cardinality(paid) \in Nat /\ Cardinality(paying) \in Nat
  BY <1>2, FS_Subset, FS_CardinalityType
<1>4. Cardinality(paid) + Cardinality(RepeatsIn(resent, k, s, e)) >= Limit[req[q].route]
  BY <1>1 DEF Inv, SpentInv
<1>5. Limit[req[q].route] \in Nat
  BY Asked, Numbers DEF Inv
<1> HIDE DEF paid, paying
<1>6. Cardinality(paying) + Cardinality(RepeatsIn(resent', k, s, e)) >= Limit[req[q].route]
  BY <1>3, <1>4, <1>5, RepeatsStay
<1> QED
  BY <1>1, <1>6 DEF SpentInv, paying

LEMMA MovesRequest ==
    ASSUME Inv, NEW r \in Req, NEW b \in Backend, NEW k \in Key, Moves(r, b, k), TypeOK'
    PROVE  \A q \in Req : RequestInv(q)'
<1>1. pc[r] \in {"redis", "memory"} /\ OthersStay(r) /\ clock' = clock
  BY DEF Moves, Judged, FallsBack, Counts
<1>2. /\ req[r].now \in Nat /\ clock \in Nat /\ req[r].now <= clock /\ req[r].by = None
      /\ pc[r] = "redis" => req[r].proc \in Connected
  BY <1>1, Asking
<1>3. RequestInv(r)'
  <2>1. req'[r] # None
    BY Numbers DEF Moves, Judged, FallsBack
  <2>2. CASE Judged(r, b, k)
    BY <1>1, <1>2, <2>1, <2>2 DEF Judged, RequestInv
  <2>3. CASE FallsBack(r)
    BY <1>1, <1>2, <2>1, <2>3, Numbers DEF FallsBack, RequestInv
  <2> QED
    BY <2>2, <2>3 DEF Moves
<1>4. ASSUME NEW q \in Req, q # r PROVE RequestInv(q)'
  BY <1>1, <1>4 DEF Inv, RequestInv, OthersStay
<1> QED
  BY <1>3, <1>4

\* A window of b that is not over by now is not replaced.
LEMMA NotReplaced ==
    ASSUME TypeOK, NEW b \in Backend, NEW k \in Key, Counts(b, k),
           CellOf(b, k) # None, CellOf(b, k).until > clock
    PROVE  Added(b, k)
<1>1. /\ CellOf(b, k)'.until \in Nat /\ clock \in Nat /\ CellOf(b, k).until \in Nat
      /\ Opened(b, k) \/ Added(b, k)
  BY CountedCell DEF Counts
<1>2. ~Opened(b, k)
  BY <1>1, Numbers DEF Opened
<1> QED
  BY <1>1, <1>2

\* The cell that refused q stays, and stays full, whoever is counted.
LEMMA FullStays ==
    ASSUME Inv, NEW b \in Backend, NEW k \in Key, Counts(b, k),
           NEW q \in Req, pc[q] = "denied", clock < req[q].at + req[q].retryAfter,
           req'[q] = req[q]
    PROVE  RetryInv(q)'
<1>1. PICK a \in Backend, l \in Key : a = req[q].by /\ l = req[q].key
  BY Asked DEF Inv, RequestInv
<1>2. /\ CellOf(a, l) # None
      /\ CellOf(a, l).until = req[q].at + req[q].retryAfter
      /\ CellOf(a, l).count > Limit[req[q].route]
  BY <1>1 DEF Inv, RetryInv
<1>3. /\ CellOf(a, l)' # None
      /\ CellOf(a, l)'.until = CellOf(a, l).until
      /\ CellOf(a, l)'.count > Limit[req[q].route]
  <2>1. CASE a # b \/ l # k
    BY <1>2, <2>1 DEF Counts
  <2>2. CASE a = b /\ l = k
    <3>1. Added(b, k)
      BY <1>2, <2>2, NotReplaced DEF Inv
    <3>2. CellOf(b, k)' # None /\ CellOf(b, k).count \in Nat
      BY <1>2, <2>2, CountedCell DEF Inv
    <3>3. Limit[req[q].route] \in Nat
      BY Asked, Numbers DEF Inv
    <3> QED
      BY <1>2, <2>2, <3>1, <3>2, <3>3 DEF Added
  <2> QED
    BY <2>1, <2>2
<1>4. clock' = clock
  BY DEF Counts
<1> QED
  BY <1>1, <1>2, <1>3, <1>4 DEF RetryInv
LEMMA MovesRetry ==
    ASSUME Inv, NEW r \in Req, NEW b \in Backend, NEW k \in Key, Moves(r, b, k)
    PROVE  \A q \in Req : RetryInv(q)'
<1>1. Counts(b, k) /\ OthersStay(r) /\ clock' = clock
  BY DEF Moves, Judged, FallsBack, Counts
<1>2. ASSUME pc'[r] = "denied" PROVE RetryInv(r)'
  <2>1. Judged(r, b, k)
    BY <1>2 DEF Moves, FallsBack
  <2>2. PICK c \in Cell : c = CellOf(b, k)'
    BY <1>1, CountedCell DEF Inv
  <2>3. /\ c.until \in Nat /\ c # None /\ clock \in Nat
    BY <1>1, <2>2, Numbers, CountedCell DEF Inv
  <2>4. /\ req'[r].key = k /\ req'[r].by = b /\ req'[r].at = clock
        /\ req'[r].route = req[r].route
        /\ c.count > Limit[req[r].route] /\ req'[r].retryAfter = Left(clock, c.until)
    BY <1>2, <2>1, <2>2 DEF Judged
  <2>5. clock < clock + Left(clock, c.until) => c.until = clock + Left(clock, c.until)
    BY <2>3 DEF Left
  <2> QED
    BY <1>1, <2>2, <2>3, <2>4, <2>5 DEF RetryInv
<1>3. ASSUME NEW q \in Req, q # r, pc[q] = "denied",
             clock < req[q].at + req[q].retryAfter
      PROVE  RetryInv(q)'
  <2>1. pc'[q] = "denied" /\ req'[q] = req[q]
    BY <1>1, <1>3 DEF OthersStay
  <2> QED
    BY <1>1, <1>3, <2>1, FullStays
<1>4. ASSUME NEW q \in Req, q # r PROVE RetryInv(q)'
  BY <1>1, <1>3, <1>4 DEF RetryInv, OthersStay
<1> QED
  BY <1>2, <1>4 DEF RetryInv

\* Whoever is admitted finds its cell not full: nobody was told to come back
\* later than now.
LEMMA MovesHonest ==
    ASSUME Inv, NEW r \in Req, NEW b \in Backend, NEW k \in Key, Moves(r, b, k)
    PROVE  RetryAfterHonest'
<1>1. Counts(b, k) /\ OthersStay(r) /\ clock' = clock
  BY DEF Moves, Judged, FallsBack, Counts
<1> SUFFICES ASSUME NEW p \in Req, NEW q \in Req,
                    pc'[p] = "denied", pc'[q] = "allowed",
                    req'[q].key = req'[p].key, req'[q].route = req'[p].route,
                    req'[q].by = req'[p].by,
                    req'[p].at < req'[q].at,
                    req'[q].at < req'[p].at + req'[p].retryAfter
             PROVE  FALSE
  BY DEF RetryAfterHonest
<1>2. CASE p # r /\ q # r
  BY <1>1, <1>2 DEF Inv, RetryAfterHonest, OthersStay
<1>3. CASE p = r
  <2>1. req'[p].at = clock /\ q # r
    BY <1>3 DEF Moves, Judged, FallsBack
  <2>2. req'[q] = req[q] /\ pc[q] # "idle"
    BY <1>1, <2>1 DEF OthersStay
  <2>3. req[q].at <= clock /\ req[q].at \in Nat /\ clock \in Nat
    BY <2>2, Asked DEF Inv
  <2> QED
    BY <2>1, <2>2, <2>3
<1>4. CASE p # r /\ q = r
  <2>1. Judged(r, b, k) /\ CellOf(b, k)'.count <= Limit[req[r].route]
    BY <1>4 DEF Moves, Judged, FallsBack
  <2>2. /\ pc[p] = "denied" /\ req'[p] = req[p] /\ req[p].key = k /\ req[p].by = b
        /\ req[p].route = req[r].route /\ clock < req[p].at + req[p].retryAfter
    BY <1>1, <1>4, <2>1 DEF OthersStay, Judged
  <2>3. /\ CellOf(b, k) # None /\ CellOf(b, k).until = req[p].at + req[p].retryAfter
        /\ CellOf(b, k).count > Limit[req[p].route]
    BY <2>2 DEF Inv, RetryInv
  <2>4. Added(b, k)
    BY <1>1, <2>2, <2>3, NotReplaced DEF Inv
  <2>5. CellOf(b, k).count \in Nat /\ Limit[req[p].route] \in Nat
    BY <1>1, <2>2, <2>3, CountedCell, Asked, Numbers DEF Inv
  <2> QED
    BY <2>1, <2>2, <2>3, <2>4, <2>5 DEF Added
<1> QED
  BY <1>2, <1>3, <1>4

\* Nobody leaves a cell whose window did not end.
LEMMA MemberStays ==
    ASSUME Inv, NEW r \in Req, NEW b \in Backend, NEW k \in Key, Moves(r, b, k),
           NEW q \in Req, NEW a \in Backend, NEW l \in Key, Member(q, a, l),
           a # b \/ l # k \/ q # r,
           CellOf(a, l)'.until = CellOf(a, l).until
    PROVE  Member(q, a, l)'
<1>1. OthersStay(r)
  BY DEF Moves, Judged, FallsBack
<1>2. CASE q # r
  BY <1>1, <1>2 DEF OthersStay, Member
<1>3. CASE q = r
  <2>1. pc[r] = "memory" /\ Judged(r, b, k)
    BY <1>3 DEF Member, Moves, Judged, FallsBack
  <2>2. req[r].by = None /\ b # "redis"
    BY <2>1, Asking DEF Judged
  <2>3. None \notin Backend
    BY LimiterAssumption DEF Backend
  <2> QED
    BY <1>3, <2>1, <2>2, <2>3 DEF Member, Judged
<1> QED
  BY <1>2, <1>3

\* r becomes a member.
LEMMA MemberJoins ==
    ASSUME Inv, NEW r \in Req, NEW b \in Backend, NEW k \in Key, Moves(r, b, k)
    PROVE  ~Member(r, b, k) /\ Member(r, b, k)'
<1>1. /\ clock \in Nat /\ clock' = clock /\ CellOf(b, k)'.until \in Nat
      /\ CellOf(b, k)'.until <= clock + Window
  <2>1. /\ clock \in Nat /\ clock' = clock /\ CellOf(b, k)'.until \in Nat
        /\ CellOf(b, k) # None => CellOf(b, k).until \in Nat
    BY CountedCell DEF Inv, Moves
  <2>2. CellOf(b, k) # None => CellOf(b, k).until <= clock + Window
    BY DEF Inv, CellInv
  <2> QED
    BY <2>1, <2>2 DEF Moves, Counts, Opened, Added
<1>2. CellOf(b, k)'.until - Window <= clock
  BY <1>1, Numbers
<1>3. None \notin Backend
  BY LimiterAssumption DEF Backend
<1>4. req[r].by = None /\ (pc[r] = "redis" => req[r].proc \in Connected)
  BY Asking DEF Moves, Judged, FallsBack
<1>5. ~Member(r, b, k)
  BY <1>3, <1>4 DEF Moves, Judged, FallsBack, Member
<1>6. Member(r, b, k)'
  <2>1. CASE Judged(r, b, k)
    BY <1>2, <2>1 DEF Judged, Member
  <2>2. CASE b = "redis" /\ req[r].key = k /\ FallsBack(r)
    BY <1>2, <1>3, <1>4, <2>2 DEF FallsBack, Member, Backend
  <2> QED
    BY <2>1, <2>2 DEF Moves
<1> QED
  BY <1>5, <1>6

LEMMA MovesCount ==
    ASSUME Inv, NEW r \in Req, NEW b \in Backend, NEW k \in Key, Moves(r, b, k)
    PROVE  \A a \in Backend, l \in Key : CellInv(a, l)' /\ CountInv(a, l)'
<1>1. Counts(b, k) /\ clock' = clock
  BY DEF Moves, Counts
<1>2. /\ IsFiniteSet(Members(b, k)) /\ IsFiniteSet(Members(b, k)')
      /\ \A a \in Backend, l \in Key : IsFiniteSet(Members(a, l)')
  BY CellAssumption, FS_Subset DEF Members
<1>3. /\ r \in Members(b, k)' /\ r \notin Members(b, k)
      /\ Cardinality(Members(b, k)) \in Nat /\ Cardinality(Members(b, k)') \in Nat
  BY <1>2, MemberJoins, FS_CardinalityType DEF Members
<1>4. ResentStays
  BY DEF Moves, Judged, FallsBack, OthersStay, ResentStays
<1>5. CellInv(b, k)' /\ CountInv(b, k)'
  <2>1. /\ clock \in Nat /\ CellOf(b, k)'.until \in Nat /\ CellOf(b, k)'.count \in Nat
        /\ CellOf(b, k) # None => CellOf(b, k).until \in Nat /\ CellOf(b, k).count \in Nat
    BY <1>1, CountedCell DEF Inv
  <2>2. CASE Opened(b, k)
    <3>1. Cardinality(Members(b, k)') >= 1
      <4>1. Cardinality({r}) = 1 /\ {r} \subseteq Members(b, k)'
        BY <1>3, FS_Singleton
      <4> QED
        BY <1>2, <1>3, <4>1, FS_Subset
    <3>2. Cardinality(Repeats(resent', k, CellOf(b, k)'.until - Window)) \in Nat
      BY <1>4, RepeatsStay
    <3> QED
      BY <1>1, <1>3, <2>2, <3>1, <3>2 DEF Opened, CellInv, CountInv
  <2>3. CASE Added(b, k)
    <3>1. Members(b, k) \cup {r} \subseteq Members(b, k)'
      <4>1. ASSUME NEW q \in Members(b, k) PROVE q \in Members(b, k)'
        BY <1>3, <2>3, MemberStays DEF Added, Members
      <4> QED
        BY <1>3, <4>1
    <3>2. Cardinality(Members(b, k) \cup {r}) = Cardinality(Members(b, k)) + 1
      BY <1>2, <1>3, FS_AddElement
    <3>3. Cardinality(Members(b, k)') >= Cardinality(Members(b, k)) + 1
      <4>1. Cardinality(Members(b, k) \cup {r}) <= Cardinality(Members(b, k)')
        BY <1>2, <3>1, FS_Subset
      <4> QED
        BY <1>3, <3>2, <4>1
    <3>4. PICK n : n = CellOf(b, k).until - Window
      OBVIOUS
    <3>5. /\ CellOf(b, k).count <= Cardinality(Members(b, k)) + Cardinality(Repeats(resent, k, n))
          /\ CellOf(b, k).until <= clock + Window
      BY <2>3, <3>4 DEF Inv, CountInv, CellInv, Added
    <3>6. CellOf(b, k)'.count <= Cardinality(Members(b, k)') + Cardinality(Repeats(resent', k, n))
      BY <1>3, <1>4, <2>1, <2>3, <3>3, <3>5, RepeatsStay DEF Added
    <3>7. CellOf(b, k)'.until - Window = n
      BY <2>3, <3>4 DEF Added
    <3> QED
      BY <1>1, <2>3, <3>5, <3>6, <3>7 DEF Added, CellInv, CountInv
  <2> QED
    BY <1>1, <2>2, <2>3 DEF Counts
<1>6. ASSUME NEW a \in Backend, NEW l \in Key, a # b \/ l # k
      PROVE  CellInv(a, l)' /\ CountInv(a, l)'
  <2>1. CellOf(a, l)' = CellOf(a, l)
    BY <1>1, <1>6 DEF Counts
  <2>2. CellInv(a, l)'
    BY <1>1, <2>1 DEF Inv, CellInv
  <2>3. Members(a, l) \subseteq Members(a, l)'
    BY <1>6, <2>1, MemberStays DEF Members
  <2>4. /\ Cardinality(Members(a, l)) <= Cardinality(Members(a, l)')
        /\ Cardinality(Members(a, l)) \in Nat /\ Cardinality(Members(a, l)') \in Nat
    BY <1>2, <2>3, FS_Subset, FS_CardinalityType
  <2>5. PICK n : n = CellOf(a, l).until - Window
    OBVIOUS
  <2>6. CellOf(a, l) # None =>
            /\ CellOf(a, l).count <= Cardinality(Members(a, l)) + Cardinality(Repeats(resent, l, n))
            /\ CellOf(a, l).count \in Nat
    BY <2>5, CellType, Numbers DEF Inv, CountInv
  <2>7. CellOf(a, l) # None =>
            CellOf(a, l).count <= Cardinality(Members(a, l)') + Cardinality(Repeats(resent', l, n))
    BY <1>4, <2>4, <2>6, RepeatsStay
  <2> QED
    BY <2>1, <2>2, <2>5, <2>7 DEF CountInv
<1> QED
  BY <1>5, <1>6

\* Whoever paid for a refusal stays on record.
LEMMA MovesSpent ==
    ASSUME Inv, NEW r \in Req, NEW b \in Backend, NEW k \in Key, Moves(r, b, k),
           \A q \in Req : RequestInv(q)', CountInv(b, k)', TypeOK'
    PROVE  \A q \in Req : SpentInv(q)'
<1>1. Counts(b, k) /\ OthersStay(r) /\ clock' = clock
  BY DEF Moves, Judged, FallsBack, Counts
<1>2. ASSUME NEW q \in Req, q # r, pc[q] = "denied" PROVE SpentInv(q)'
  <2>1. pc'[q] = "denied" /\ req'[q] = req[q]
    BY <1>1, <1>2 DEF OthersStay
  <2>2. ASSUME NEW p \in Req \ {q}, Before(p, q) PROVE Before(p, q)'
    <3>1. CASE p # r
      BY <1>1, <2>1, <2>2, <3>1 DEF OthersStay, Before
    <3>2. CASE p = r
      <4>1. pc[r] = "memory" /\ Judged(r, b, k)
        BY <2>2, <3>2 DEF Before, Moves, Judged, FallsBack
      <4>2. /\ req[r].at \in Nat /\ clock \in Nat /\ req[r].at <= clock /\ req[q].at \in Nat
        BY <1>2, <3>2, <4>1, Asked DEF Inv
      <4> QED
        BY <2>1, <2>2, <3>2, <4>1, <4>2, Numbers DEF Before, Judged
    <3> QED
      BY <3>1, <3>2
  <2>3. ResentStays
    BY <1>1 DEF OthersStay, ResentStays
  <2> QED
    BY <1>2, <2>1, <2>2, <2>3, SpentStays
<1>3. ASSUME pc'[r] = "denied" PROVE SpentInv(r)'
  <2>1. /\ Judged(r, b, k) /\ CellOf(b, k)'.count > Limit[req[r].route]
        /\ req'[r].route = req[r].route /\ req'[r].key = k /\ req'[r].at = clock
    BY <1>3 DEF Moves, Judged, FallsBack
  <2> DEFINE cell == CellOf(b, k)'
             paying == {q \in Req \ {r} : Before(q, r)'}
             mine == Members(b, k)'
             again == Repeats(resent', k, cell.until - Window)
             lately == RepeatsIn(resent', k, clock - Window - Stall, clock)
  <2>2. /\ cell # None /\ cell.count \in Nat /\ cell.until \in Nat /\ clock \in Nat
        /\ clock <= cell.until + Stall
    <3>1. /\ cell # None /\ cell.count \in Nat /\ cell.until \in Nat /\ clock \in Nat
          /\ CellOf(b, k) # None => CellOf(b, k).until \in Nat
      BY <1>1, CountedCell DEF Inv
    <3>2. Opened(b, k) => clock <= cell.until + Stall
      BY <3>1, Numbers DEF Opened
    <3>3. Added(b, k) => clock <= cell.until + Stall
      BY <3>1 DEF Added
    <3> QED
      BY <1>1, <3>1, <3>2, <3>3 DEF Counts
  <2>3. mine \ {r} \subseteq paying
    <3> SUFFICES ASSUME NEW q \in Req \ {r}, Member(q, b, k)' PROVE Before(q, r)'
      BY DEF Members
    <3>1. pc'[q] \in {"memory", "allowed", "denied"} /\ req'[q].key = k
      BY DEF Member
    <3>2. /\ req'[q].now \in Nat /\ req'[q].at \in Nat
          /\ req'[q].now <= req'[q].at /\ req'[q].at <= clock
      <4>1. pc[q] # "idle" /\ req'[q] = req[q]
        BY <1>1, <3>1 DEF OthersStay
      <4> QED
        BY <4>1, Asked DEF Inv
    <3>3. req'[q].at >= cell.until - Window
      <4>1. \/ req'[q].at >= cell.until - Window
            \/ req'[q].now >= cell.until - Window
        BY DEF Member
      <4> QED
        BY <2>2, <3>2, <4>1, Numbers
    <3>4. req'[q].at + Window + Stall >= clock
      BY <2>2, <3>2, <3>3, Numbers
    <3>5. clock >= req'[q].now
      BY <2>2, <3>2
    <3> QED
      BY <2>1, <3>1, <3>4, <3>5 DEF Before
  <2>4. IsFiniteSet(mine) /\ IsFiniteSet(paying)
    BY CellAssumption, FS_Subset DEF Members
  <2>5. r \in mine
    BY MemberJoins DEF Members
  <2>6. Cardinality(mine \ {r}) = Cardinality(mine) - 1
    BY <2>4, <2>5, FS_RemoveElement
  <2>7. Cardinality(mine \ {r}) <= Cardinality(paying)
    BY <2>3, <2>4, FS_Subset
  <2>8. Cardinality(mine) + Cardinality(again) >= cell.count
    BY <2>2 DEF CountInv
  <2>9. IsFiniteSet(again) /\ IsFiniteSet(lately)
    BY CellAssumption, FS_Subset DEF Repeats, RepeatsIn
  <2>10. again \subseteq lately
    <3> SUFFICES ASSUME NEW x \in again PROVE x \in lately
      OBVIOUS
    <3>1. x \in Resend /\ resent[x] # None /\ resent[x].key = k /\ resent'[x] = resent[x]
          /\ resent[x].at >= cell.until - Window
      BY <1>1 DEF Repeats, OthersStay
    <3>2. resent[x].at \in Nat /\ resent[x].at <= clock
      BY <3>1, Numbers DEF Inv, TypeOK, ResentInv
    <3>3. resent[x].at \in (clock - Window - Stall)..clock
      BY <2>2, <3>1, <3>2, Numbers
    <3> QED
      BY <3>1, <3>3 DEF RepeatsIn
  <2>11. Cardinality(again) <= Cardinality(lately)
    BY <2>9, <2>10, FS_Subset
  <2>12. /\ Limit[req[r].route] \in Nat /\ Cardinality(mine) \in Nat
         /\ Cardinality(paying) \in Nat /\ Cardinality(again) \in Nat
         /\ Cardinality(lately) \in Nat
    BY <2>1, <2>4, <2>9, Asking, Numbers, FS_CardinalityType DEF Judged
  <2> HIDE DEF paying, mine, again, lately, cell
  <2>13. Cardinality(paying) + Cardinality(lately) >= Limit[req[r].route]
    BY <2>1, <2>2, <2>6, <2>7, <2>8, <2>11, <2>12 DEF cell
  <2> QED
    BY <2>1, <2>13 DEF SpentInv, paying, lately
<1>4. ASSUME NEW q \in Req, q # r PROVE SpentInv(q)'
  BY <1>1, <1>2, <1>4 DEF SpentInv, OthersStay
<1> QED
  BY <1>3, <1>4 DEF SpentInv

\* The requests b admits of a key and route, after the step: r may join.
LEMMA MovesAdmitted ==
    ASSUME Inv, NEW r \in Req, NEW b \in Backend, NEW k \in Key, Moves(r, b, k),
           NEW a \in Backend, NEW l \in Key, NEW o \in Route
    PROVE  /\ r \notin Admitted(a, l, o)
           /\ \A q \in Admitted(a, l, o) : req'[q].at = req[q].at
           /\ \/ Admitted(a, l, o)' = Admitted(a, l, o)
              \/ /\ Admitted(a, l, o)' = Admitted(a, l, o) \cup {r}
                 /\ a = b /\ l = k /\ req'[r].at = clock
                 /\ CellOf(b, k)'.count <= Limit[o]
<1>1. OthersStay(r) /\ pc[r] \in {"redis", "memory"}
  BY DEF Moves, Judged, FallsBack
<1>2. r \notin Admitted(a, l, o)
  BY <1>1 DEF Admitted
<1>3. \A q \in Req \ {r} : q \in Admitted(a, l, o)' <=> q \in Admitted(a, l, o)
  BY <1>1 DEF OthersStay, Admitted
<1>4. \A q \in Admitted(a, l, o) : req'[q].at = req[q].at
  BY <1>1, <1>2 DEF OthersStay, Admitted
<1>5. r \in Admitted(a, l, o)' => /\ a = b /\ l = k /\ req'[r].at = clock
                                  /\ CellOf(b, k)'.count <= Limit[o]
  BY DEF Admitted, Moves, Judged, FallsBack
<1>6. Admitted(a, l, o) \subseteq Req /\ Admitted(a, l, o)' \subseteq Req
  BY DEF Admitted
<1>7. CASE r \in Admitted(a, l, o)'
  <2>1. Admitted(a, l, o)' = Admitted(a, l, o) \cup {r}
    BY <1>3, <1>6, <1>7
  <2> QED
    BY <1>2, <1>4, <1>5, <1>7, <2>1
<1>8. CASE r \notin Admitted(a, l, o)'
  <2>1. Admitted(a, l, o)' = Admitted(a, l, o)
    BY <1>2, <1>3, <1>6, <1>8
  <2> QED
    BY <1>2, <1>4, <2>1
<1> QED
  BY <1>7, <1>8

\* The window of r takes r in; a window that opens makes the one before it
\* the last, and all the others older than any that still matters.
LEMMA MovesBurst ==
    ASSUME Inv, NEW r \in Req, NEW b \in Backend, NEW k \in Key, Moves(r, b, k), TypeOK'
    PROVE  \A a \in Backend, l \in Key, o \in Route : BurstInv(a, l, o)'
<1>1. Counts(b, k) /\ clock' = clock
  BY DEF Moves, Counts
<1>2. ASSUME NEW a \in Backend, NEW l \in Key, NEW o \in Route, a # b \/ l # k
      PROVE  BurstInv(a, l, o)'
  <2>1. CellOf(a, l)' = CellOf(a, l)
    BY <1>1, <1>2 DEF Counts
  <2>2. /\ Admitted(a, l, o)' = Admitted(a, l, o)
        /\ \A q \in Admitted(a, l, o) : req'[q].at = req[q].at
    BY <1>2, MovesAdmitted
  <2>3. \A X, Y \in SUBSET Req : Windows(a, l, o, X, Y) => Windows(a, l, o, X, Y)'
    BY <2>1, <2>2 DEF Windows
  <2>4. BurstInv(a, l, o)
    BY DEF Inv
  <2> QED
    BY <2>1, <2>2, <2>3, <2>4 DEF BurstInv
<1>3. ASSUME NEW o \in Route PROVE BurstInv(b, k, o)'
  <2> DEFINE old == CellOf(b, k)
             new == CellOf(b, k)'
             before == Admitted(b, k, o)
             after == Admitted(b, k, o)'
  <2>1. /\ new # None /\ new.count \in Nat /\ new.until \in Nat /\ clock \in Nat
        /\ old # None => old.count \in Nat /\ old.until \in Nat
    BY <1>1, CountedCell DEF Inv
  <2>2. Limit[o] \in Nat /\ Window \in Nat /\ Stall \in Nat
    BY Numbers
  <2>3. /\ r \notin before /\ before \subseteq Req /\ IsFiniteSet(before)
        /\ \A q \in before : req'[q].at = req[q].at /\ req[q].at \in Nat
        /\ \/ after = before
           \/ /\ after = before \cup {r} /\ req'[r].at = clock
              /\ new.count <= Limit[o]
    <3>1. before \subseteq Req /\ IsFiniteSet(before)
      BY CellAssumption, FS_Subset DEF Admitted
    <3>2. \A q \in before : req[q].at \in Nat
      BY Asked DEF Admitted, Inv
    <3> QED
      BY <3>1, <3>2, MovesAdmitted
  <2>4. PICK joined \in SUBSET {r} : after = before \cup joined
                                  /\ \A q \in joined : req'[q].at = clock /\ new.count <= Limit[o]
    <3> HIDE DEF before, after, new
    <3>1. CASE after = before
      <4>1. /\ {} \in SUBSET {r} /\ after = before \cup {}
            /\ \A q \in {} : req'[q].at = clock /\ new.count <= Limit[o]
        BY <3>1
      <4> QED
        BY <4>1
    <3>2. CASE after = before \cup {r} /\ req'[r].at = clock /\ new.count <= Limit[o]
      <4>1. {r} \in SUBSET {r}
        OBVIOUS
      <4>2. \A q \in {r} : req'[q].at = clock /\ new.count <= Limit[o]
        BY <3>2
      <4> QED
        BY <3>2, <4>1, <4>2
    <3> QED
      BY <2>3, <3>1, <3>2
  <2>5. \A q \in after : req'[q].at \in Nat /\ (q \in joined => req'[q].at = clock)
                                            /\ (q \notin joined => q \in before /\ req'[q].at = req[q].at)
    BY <2>1, <2>3, <2>4
  <2> HIDE DEF old, new, before, after
  <2>6. ASSUME NEW X \in SUBSET before, Cardinality(X) <= Limit[o]
        PROVE  /\ IsFiniteSet(X) /\ Cardinality(X) \in Nat
               /\ IsFiniteSet(X \cup joined) /\ Cardinality(X \cup joined) \in Nat
               /\ Cardinality(X \cup joined) <= Cardinality(X) + 1
               /\ joined = {} => Cardinality(X \cup joined) = Cardinality(X)
    <3>1. IsFiniteSet(X) /\ Cardinality(X) \in Nat
      BY <2>3, FS_Subset, FS_CardinalityType
    <3>2. CASE joined = {}
      <4>1. X \cup joined = X
        BY <3>2
      <4> QED
        BY <3>1, <4>1
    <3>3. CASE joined = {r}
      <4>1. IsFiniteSet(X \cup {r}) /\ r \notin X
        BY <2>3, <3>1, FS_AddElement
      <4>2. Cardinality(X \cup {r}) = Cardinality(X) + 1
        BY <3>1, <4>1, FS_AddElement
      <4>3. joined # {}
        BY <3>3
      <4> QED
        BY <3>1, <3>3, <4>1, <4>2, <4>3
    <3> QED
      BY <3>2, <3>3
  <2>7. Opened(b, k) => /\ new.count = 1 /\ new.until <= clock + Window
                        /\ clock + Window <= new.until + Stall
                        /\ old # None => old.until + Window <= new.until
    BY DEF Opened, old, new
  <2>8. Added(b, k) => /\ old # None /\ new.count = old.count + 1 /\ new.until = old.until
                       /\ clock <= old.until + Stall
    BY DEF Added, old, new
  <2>9. \/ old = None /\ before = {}
        \/ old # None /\ \E X, Y \in SUBSET Req : Windows(b, k, o, X, Y)
    BY DEF Inv, BurstInv, old, before
  <2>10. {} \subseteq before /\ Cardinality({}) = 0
    BY FS_EmptySet
  <2>11. CASE old = None /\ before = {}
    <3>1. Opened(b, k)
      BY <1>1, <2>8, <2>11 DEF Counts
    <3>2. Cardinality(joined) \in Nat /\ Cardinality(joined) <= 1 /\ (joined = {} => Cardinality(joined) = 0)
      <4>1. {} \cup joined = joined
        OBVIOUS
      <4> QED
        BY <2>2, <2>6, <2>10, <4>1
    <3>3. Cardinality(joined) <= Limit[o]
      <4>1. joined # {} => 1 <= Limit[o]
        BY <2>4, <2>7, <3>1
      <4> QED
        BY <2>2, <3>2, <4>1
    <3>4. \A q \in after : q \in joined /\ req'[q].at <= new.until + Stall
      BY <2>1, <2>2, <2>4, <2>5, <2>7, <2>11, <3>1
    <3>5. joined \subseteq after /\ {} \subseteq after /\ Cardinality(joined) <= new.count
      BY <2>4, <2>7, <3>1, <3>2
    <3>6. Windows(b, k, o, joined, {})'
      BY <2>2, <2>10, <3>3, <3>4, <3>5 DEF Windows, new, after
    <3> QED
      BY <2>1, <3>6 DEF BurstInv, new
  <2>12. CASE old # None
    <3>1. PICK X, Y \in SUBSET Req : Windows(b, k, o, X, Y)
      BY <2>9, <2>12
    <3>2. /\ X \subseteq before /\ Y \subseteq before
          /\ Cardinality(X) <= old.count /\ Cardinality(X) <= Limit[o] /\ Cardinality(Y) <= Limit[o]
          /\ \A q \in before :
                /\ req[q].at <= old.until + Stall
                /\ q \notin X => req[q].at <= old.until - Window + Stall
                /\ q \notin X \cup Y => req[q].at <= old.until - 2 * Window + Stall
      BY <3>1 DEF Windows, old, before
    <3>3. CASE Added(b, k)
      <4> DEFINE X1 == X \cup joined
      <4>1. X1 \subseteq after /\ Y \subseteq after /\ X1 \in SUBSET Req
        BY <2>4, <3>2
      <4>2. Cardinality(X1) <= new.count
        BY <2>1, <2>6, <2>8, <2>12, <3>2, <3>3
      <4>3. Cardinality(X1) <= Limit[o]
        <5>1. CASE joined = {}
          BY <2>6, <3>2, <5>1
        <5>2. CASE joined # {}
          <6>1. new.count <= Limit[o]
            BY <2>4, <5>2
          <6> QED
            BY <2>1, <2>2, <2>6, <3>2, <4>2, <6>1
        <5> QED
          BY <5>1, <5>2
      <4>4. ASSUME NEW q \in after
            PROVE  /\ req'[q].at <= new.until + Stall
                   /\ q \notin X1 => req'[q].at <= new.until - Window + Stall
                   /\ q \notin X1 \cup Y => req'[q].at <= new.until - 2 * Window + Stall
        BY <2>5, <2>8, <3>2, <3>3
      <4> HIDE DEF X1
      <4>5. Windows(b, k, o, X1, Y)'
        BY <3>2, <4>1, <4>2, <4>3, <4>4 DEF Windows, new, after
      <4> QED
        BY <2>1, <4>1, <4>5 DEF BurstInv, new
    <3>4. CASE Opened(b, k)
      <4>1. joined \subseteq after /\ X \subseteq after /\ joined \in SUBSET Req
        BY <2>4, <3>2
      <4>2. Cardinality(joined) \in Nat /\ Cardinality(joined) <= 1 /\ (joined = {} => Cardinality(joined) = 0)
        <5>1. {} \cup joined = joined
          OBVIOUS
        <5> QED
          BY <2>2, <2>6, <2>10, <5>1
      <4>3. Cardinality(joined) <= Limit[o] /\ Cardinality(joined) <= new.count
        <5>1. joined # {} => 1 <= Limit[o]
          BY <2>4, <2>7, <3>4
        <5> QED
          BY <2>2, <2>7, <3>4, <4>2, <5>1
      <4>4. ASSUME NEW q \in after
            PROVE  /\ req'[q].at <= new.until + Stall
                   /\ q \notin joined => req'[q].at <= new.until - Window + Stall
                   /\ q \notin joined \cup X => req'[q].at <= new.until - 2 * Window + Stall
        <5>1. old.until + Window <= new.until /\ clock + Window <= new.until + Stall
          BY <2>7, <2>12, <3>4
        <5>2. CASE q \in joined
          BY <2>1, <2>2, <2>5, <5>1, <5>2
        <5>3. CASE q \notin joined
          <6>1. q \in before /\ req'[q].at = req[q].at /\ req[q].at \in Nat
            BY <2>3, <2>5, <5>3
          <6>2. /\ req[q].at <= old.until + Stall
                /\ q \notin X => req[q].at <= old.until - Window + Stall
            BY <3>2, <6>1
          <6>3. /\ old.until + Stall <= new.until - Window + Stall
                /\ old.until - Window + Stall <= new.until - 2 * Window + Stall
                /\ new.until - Window + Stall <= new.until + Stall
                /\ old.until \in Nat /\ new.until \in Nat
            BY <2>1, <2>2, <2>12, <5>1
          <6> QED
            BY <2>2, <5>3, <6>1, <6>2, <6>3
        <5> QED
          BY <5>2, <5>3
      <4>5. Windows(b, k, o, joined, X)'
        BY <3>2, <4>1, <4>3, <4>4 DEF Windows, new, after
      <4> QED
        BY <2>1, <4>1, <4>5 DEF BurstInv, new
    <3> QED
      BY <1>1, <3>3, <3>4 DEF Counts
  <2> QED
    BY <2>9, <2>11, <2>12
<1> QED
  BY <1>2, <1>3

\* A stretch that reaches now meets the window of the cell and the one before
\* it, and no third.
LEMMA BoundedNow ==
    ASSUME TypeOK', NEW b \in Backend, NEW k \in Key, NEW o \in Route, NEW s \in 0..MaxClock,
           CellOf(b, k)' # None => CellOf(b, k)'.until <= clock' + Window,
           BurstInv(b, k, o)', clock' <= s + Window - 1 - Stall
    PROVE  Cardinality(AdmittedIn(b, k, o, s)') <= 2 * Limit[o]
<1>1. Limit[o] \in Nat /\ Window \in Nat /\ Stall \in Nat /\ s \in Nat /\ clock' \in Nat
  BY Numbers, LimiterAssumption DEF TypeOK
<1> DEFINE here == AdmittedIn(b, k, o, s)'
<1>2. CASE CellOf(b, k)' = None
  <2>1. here = {}
    BY <1>2 DEF BurstInv, AdmittedIn
  <2> QED
    BY <1>1, <2>1, FS_EmptySet
<1>3. CASE CellOf(b, k)' # None
  <2>1. PICK X, Y \in SUBSET Req : Windows(b, k, o, X, Y)'
    BY <1>3 DEF BurstInv
  <2>2. PICK until \in Nat : until = CellOf(b, k)'.until /\ until <= clock' + Window
    <3>1. CellOf(b, k)' \in Cell
      BY <1>3, LimiterAssumption DEF TypeOK, Backend, CellOf
    <3> QED
      BY <1>3, <3>1, Numbers
  <2>3. here \subseteq X \cup Y
    <3> SUFFICES ASSUME NEW q \in here, q \notin X \cup Y PROVE FALSE
      OBVIOUS
    <3>1. q \in Admitted(b, k, o)' /\ req'[q].at \in s..(s + Window - 1 - Stall)
      BY DEF AdmittedIn
    <3>2. req'[q].at <= until - 2 * Window + Stall
      BY <2>1, <2>2, <3>1 DEF Windows
    <3>3. req'[q].at \in Int /\ req'[q].at >= s
      BY <1>1, <3>1
    <3> QED
      BY <1>1, <2>2, <3>2, <3>3
  <2>4. /\ IsFiniteSet(X) /\ IsFiniteSet(Y) /\ IsFiniteSet(X \cup Y)
        /\ IsFiniteSet(X \cap Y)
    BY CellAssumption, FS_Subset
  <2>5. Cardinality(X \cup Y) = Cardinality(X) + Cardinality(Y) - Cardinality(X \cap Y)
    BY <2>4, FS_Union
  <2>6. /\ Cardinality(here) <= Cardinality(X \cup Y)
        /\ IsFiniteSet(here)
    BY <2>3, <2>4, FS_Subset
  <2>7. /\ Cardinality(X) \in Nat /\ Cardinality(Y) \in Nat /\ Cardinality(X \cap Y) \in Nat
        /\ Cardinality(here) \in Nat /\ Cardinality(X \cup Y) \in Nat
    BY <2>4, <2>6, FS_CardinalityType
  <2>8. Cardinality(X) <= Limit[o] /\ Cardinality(Y) <= Limit[o]
    BY <2>1 DEF Windows
  <2> QED
    BY <1>1, <2>5, <2>6, <2>7, <2>8
<1> QED
  BY <1>2, <1>3

LEMMA MovesBounded ==
    ASSUME Inv, NEW r \in Req, NEW b \in Backend, NEW k \in Key, Moves(r, b, k), TypeOK',
           CellInv(b, k)',
           \A a \in Backend, l \in Key, o \in Route : BurstInv(a, l, o)'
    PROVE  \A a \in Backend, l \in Key, o \in Route : Bounded(a, l, o)'
<1> SUFFICES ASSUME NEW a \in Backend, NEW l \in Key, NEW o \in Route, NEW s \in 0..MaxClock
             PROVE  Cardinality(AdmittedIn(a, l, o, s)') <= 2 * Limit[o]
  BY DEF Bounded
<1>1. /\ r \notin Admitted(a, l, o)
      /\ \A q \in Admitted(a, l, o) : req'[q].at = req[q].at
      /\ \/ Admitted(a, l, o)' = Admitted(a, l, o)
         \/ /\ Admitted(a, l, o)' = Admitted(a, l, o) \cup {r}
            /\ a = b /\ l = k /\ req'[r].at = clock
            /\ CellOf(b, k)'.count <= Limit[o]
  BY MovesAdmitted
<1>2. CASE AdmittedIn(a, l, o, s)' = AdmittedIn(a, l, o, s)
  BY <1>2 DEF Inv, Bounded
<1>3. CASE AdmittedIn(a, l, o, s)' # AdmittedIn(a, l, o, s)
  <2>1. /\ Admitted(a, l, o)' = Admitted(a, l, o) \cup {r}
        /\ a = b /\ l = k /\ req'[r].at = clock
    BY <1>1, <1>3 DEF AdmittedIn
  <2>2. clock \in s..(s + Window - 1 - Stall)
    <3> SUFFICES ASSUME clock \notin s..(s + Window - 1 - Stall) PROVE FALSE
      OBVIOUS
    <3>1. AdmittedIn(a, l, o, s)' = AdmittedIn(a, l, o, s)
      BY <1>1, <2>1 DEF AdmittedIn
    <3> QED
      BY <1>3, <3>1
  <2>3. clock' = clock /\ clock \in Nat /\ s \in Nat
    BY Numbers, LimiterAssumption DEF Moves, Counts, Inv, TypeOK
  <2>4. clock' <= s + Window - 1 - Stall
    BY <2>2, <2>3, Numbers
  <2>5. BurstInv(b, k, o)' /\ (CellOf(b, k)' # None => CellOf(b, k)'.until <= clock' + Window)
    BY DEF CellInv
  <2> QED
    BY <2>1, <2>4, <2>5, BoundedNow
<1> QED
  BY <1>2, <1>3

LEMMA MovesInv ==
    ASSUME Inv, NEW r \in Req, NEW b \in Backend, NEW k \in Key, Moves(r, b, k), TypeOK'
    PROVE  Inv'
<1>1. \A q \in Req : RequestInv(q)'
  BY MovesRequest
<1>2. \A q \in Req : RetryInv(q)'
  BY MovesRetry
<1>3. \A a \in Backend, l \in Key : CellInv(a, l)' /\ CountInv(a, l)'
  BY MovesCount
<1>4. \A q \in Req : SpentInv(q)'
  BY <1>1, <1>3, MovesSpent
<1>5. RetryAfterHonest'
  BY MovesHonest
<1>6. \A a \in Backend, l \in Key, o \in Route : BurstInv(a, l, o)'
  BY MovesBurst
<1>7. \A a \in Backend, l \in Key, o \in Route : Bounded(a, l, o)'
  BY <1>3, <1>6, MovesBounded
<1>8. \A x \in Resend : ResentInv(x)'
  BY DEF Inv, ResentInv, Moves, Counts, Judged, FallsBack, OthersStay
<1> QED
  BY <1>1, <1>2, <1>3, <1>4, <1>5, <1>6, <1>7, <1>8 DEF Inv

-----------------------------------------------------------------------------
(* The steps that count nothing                                            *)

\* r begins to wait, for Redis or for the mutex; the cells stay.
Waits(r) ==
    /\ OthersStay(r)
    /\ pc[r] \in {"idle", "redis"} /\ pc'[r] \in {"redis", "memory"}
    /\ UNCHANGED <<clock, counter, bucket, resent>>

\* A request that waits was no member of a cell, had paid for no refusal, and
\* was not admitted: all that is true of the others stays true.
LEMMA WaitsKeeps ==
    ASSUME Inv, NEW r \in Req, Waits(r), RequestInv(r)', TypeOK'
    PROVE  Inv'
<1>1. /\ clock' = clock
      /\ \A q \in Req \ {r} : pc'[q] = pc[q] /\ req'[q] = req[q]
      /\ pc[r] \notin {"memory", "allowed", "denied"} /\ pc'[r] \notin {"allowed", "denied"}
  BY DEF Waits, OthersStay
<1>2. \A b \in Backend, k \in Key : CellOf(b, k)' = CellOf(b, k)
  BY DEF Waits, CellOf
<1>3. ResentStays /\ \A x \in Resend : ResentInv(x)'
  BY <1>1 DEF Inv, ResentInv, ResentStays, Waits, OthersStay
<1>4. \A q \in Req : RequestInv(q)'
  BY <1>1 DEF Inv, RequestInv
<1>5. ASSUME NEW q \in Req PROVE RetryInv(q)'
  <2>1. CASE q = r
    BY <1>1, <2>1 DEF RetryInv
  <2>2. CASE q # r /\ pc[q] = "denied"
    <3>1. req[q].by \in Backend /\ req[q].key \in Key
      BY <2>2, Asked DEF Inv, RequestInv
    <3> QED
      BY <1>1, <1>2, <2>2, <3>1 DEF Inv, RetryInv
  <2>3. CASE q # r /\ pc[q] # "denied"
    BY <1>1, <2>3 DEF RetryInv
  <2> QED
    BY <2>1, <2>2, <2>3
<1>6. RetryAfterHonest'
  BY <1>1 DEF Inv, RetryAfterHonest
<1>7. ASSUME NEW b \in Backend, NEW k \in Key PROVE CellInv(b, k)' /\ CountInv(b, k)'
  <2>1. CellInv(b, k)'
    BY <1>1, <1>2 DEF Inv, CellInv
  <2>2. Members(b, k) \subseteq Members(b, k)'
    BY <1>1, <1>2 DEF Members, Member
  <2>3. IsFiniteSet(Members(b, k)')
    BY CellAssumption, FS_Subset DEF Members
  <2>4. /\ Cardinality(Members(b, k)) <= Cardinality(Members(b, k)')
        /\ Cardinality(Members(b, k)) \in Nat /\ Cardinality(Members(b, k)') \in Nat
    BY <2>2, <2>3, FS_Subset, FS_CardinalityType
  <2>5. PICK n : n = CellOf(b, k).until - Window
    OBVIOUS
  <2>6. CellOf(b, k) # None =>
            /\ CellOf(b, k).count <= Cardinality(Members(b, k)) + Cardinality(Repeats(resent, k, n))
            /\ CellOf(b, k).count \in Nat
    BY <2>5, CellType, Numbers DEF Inv, CountInv
  <2>7. CellOf(b, k) # None =>
            CellOf(b, k).count <= Cardinality(Members(b, k)') + Cardinality(Repeats(resent', k, n))
    BY <1>3, <2>4, <2>6, RepeatsStay
  <2> QED
    BY <1>2, <2>1, <2>5, <2>7 DEF CountInv
<1>8. ASSUME NEW q \in Req PROVE SpentInv(q)'
  <2>1. CASE pc'[q] # "denied"
    BY <2>1 DEF SpentInv
  <2>2. CASE pc'[q] = "denied"
    <3>1. q # r /\ pc[q] = "denied" /\ req'[q] = req[q]
      BY <1>1, <2>2
    <3>2. ASSUME NEW p \in Req \ {q}, Before(p, q) PROVE Before(p, q)'
      BY <1>1, <3>1, <3>2 DEF Before
    <3> QED
      BY <1>3, <3>1, <3>2, SpentStays
  <2> QED
    BY <2>1, <2>2
<1>9. ASSUME NEW b \in Backend, NEW k \in Key, NEW o \in Route
      PROVE  BurstInv(b, k, o)' /\ Bounded(b, k, o)'
  <2>1. /\ Admitted(b, k, o)' = Admitted(b, k, o)
        /\ \A q \in Admitted(b, k, o) : req'[q] = req[q]
    BY <1>1 DEF Admitted
  <2>2. \A s \in 0..MaxClock : AdmittedIn(b, k, o, s)' = AdmittedIn(b, k, o, s)
    BY <2>1 DEF AdmittedIn
  <2>3. \A X, Y \in SUBSET Req : Windows(b, k, o, X, Y) => Windows(b, k, o, X, Y)'
    BY <1>2, <2>1 DEF Windows
  <2>4. BurstInv(b, k, o)'
    BY <1>2, <2>1, <2>3 DEF Inv, BurstInv
  <2> QED
    BY <2>2, <2>4 DEF Inv, Bounded
<1> QED
  BY <1>3, <1>4, <1>5, <1>6, <1>7, <1>8, <1>9 DEF Inv

LEMMA AskWaits ==
    ASSUME Inv, NEW r \in Req, NEW k \in Key, NEW o \in Route, NEW p \in Proc, Ask(r, k, o, p)
    PROVE  Waits(r) /\ RequestInv(r)' /\ TypeOK'
<1> DEFINE new == [key |-> k, route |-> o, proc |-> p, now |-> clock,
                   at |-> clock, by |-> None, retryAfter |-> 0]
           goes == IF p \in Connected THEN "redis" ELSE "memory"
<1>1. /\ pc[r] = "idle" /\ UNCHANGED <<clock, counter, bucket, resent>>
      /\ pc' = [pc EXCEPT ![r] = goes] /\ req' = [req EXCEPT ![r] = new]
  BY DEF Ask
<1>2. clock \in Nat
  BY LimiterAssumption DEF Inv, TypeOK
<1>3. /\ new \in Request /\ new.now = clock /\ new.at = clock /\ new.by = None /\ new.proc = p
  BY <1>2 DEF Request
<1>4. goes \in {"redis", "memory"} /\ (goes = "redis" => p \in Connected)
  OBVIOUS
<1> HIDE DEF new, goes
<1>5. pc'[r] = goes /\ req'[r] = new /\ OthersStay(r)
  BY <1>1 DEF Inv, TypeOK, OthersStay
<1>6. Waits(r)
  BY <1>1, <1>4, <1>5 DEF Waits
<1>7. RequestInv(r)'
  <2>1. new # None /\ clock' = clock
    BY <1>1, <1>3, Numbers
  <2> QED
    BY <1>2, <1>3, <1>4, <1>5, <2>1, Numbers DEF RequestInv
<1>8. TypeOK'
  BY <1>1, <1>3, <1>4 DEF Inv, TypeOK
<1> QED
  BY <1>6, <1>7, <1>8

LEMMA FailWaits ==
    ASSUME Inv, NEW r \in Req, FallsBack(r), UNCHANGED <<clock, counter, bucket>>
    PROVE  Waits(r) /\ RequestInv(r)'
<1>1. Waits(r)
  BY DEF FallsBack, Waits, OthersStay
<1>2. clock \in Nat /\ req[r].by = None
  BY Asking DEF FallsBack
<1>3. req'[r] # None
  BY Numbers DEF FallsBack
<1>4. RequestInv(r)'
  BY <1>2, <1>3, Numbers DEF FallsBack, RequestInv
<1> QED
  BY <1>1, <1>4

\* Time passes, but not past a request that waits.
LEMMA TickKeeps == Inv /\ Tick => Inv'
<1> SUFFICES ASSUME Inv, Tick PROVE Inv'
  OBVIOUS
<1>1. /\ clock < MaxClock /\ clock' = clock + 1 /\ UNCHANGED <<counter, bucket, pc, req, resent>>
      /\ \A r \in Req : pc[r] \in {"redis", "memory"} => clock < req[r].now + Stall
      /\ clock \in Nat /\ MaxClock \in Nat
  BY LimiterAssumption DEF Tick, Inv, TypeOK
<1>2. TypeOK'
  BY <1>1 DEF Inv, TypeOK
<1>3. ASSUME NEW r \in Req PROVE RequestInv(r)'
  <2>1. pc[r] # "idle" => req[r].now \in Nat /\ req[r].at \in Nat
    BY Asked DEF Inv
  <2>2. pc[r] # "idle" => req[r].now <= req[r].at /\ req[r].at <= clock'
    BY <1>1, <2>1 DEF Inv, RequestInv
  <2>3. pc[r] \in {"redis", "memory"} => clock' <= req[r].now + Stall
    BY <1>1, <2>1, Numbers
  <2> QED
    BY <1>1, <2>2, <2>3 DEF Inv, RequestInv
<1>4. \A b \in Backend, k \in Key : CellOf(b, k)' = CellOf(b, k)
  BY <1>1 DEF CellOf
<1>5. ASSUME NEW r \in Req PROVE RetryInv(r)' /\ SpentInv(r)'
  <2>1. SpentInv(r)'
    BY <1>1 DEF Inv, SpentInv, Before
  <2>2. CASE pc[r] = "denied" /\ clock + 1 < req[r].at + req[r].retryAfter
    <3>1. /\ req[r].by \in Backend /\ req[r].key \in Key
          /\ req[r].at \in Nat /\ req[r].retryAfter \in Nat
      BY <2>2, Asked DEF Inv, RequestInv
    <3>2. clock < req[r].at + req[r].retryAfter
      BY <1>1, <2>2, <3>1
    <3> QED
      BY <1>1, <1>4, <2>1, <2>2, <3>1, <3>2 DEF Inv, RetryInv
  <2>3. CASE ~(pc[r] = "denied" /\ clock + 1 < req[r].at + req[r].retryAfter)
    BY <1>1, <2>1, <2>3 DEF RetryInv
  <2> QED
    BY <2>2, <2>3
<1>6. RetryAfterHonest'
  BY <1>1 DEF Inv, RetryAfterHonest
<1>7. ASSUME NEW b \in Backend, NEW k \in Key PROVE CellInv(b, k)' /\ CountInv(b, k)'
  <2>1. CellOf(b, k) # None => CellOf(b, k).until \in Nat
    BY CellType, Numbers DEF Inv
  <2>2. CellInv(b, k)'
    BY <1>1, <1>4, <2>1, Numbers DEF Inv, CellInv
  <2>3. \A q \in Req : Member(q, b, k)' <=> Member(q, b, k)
    BY <1>1, <1>4 DEF Member
  <2>4. Members(b, k)' = Members(b, k)
    BY <2>3 DEF Members
  <2>5. CountInv(b, k)'
    BY <1>1, <1>4, <2>4 DEF Inv, CountInv
  <2> QED
    BY <2>2, <2>5
<1>8. ASSUME NEW b \in Backend, NEW k \in Key, NEW o \in Route
      PROVE  BurstInv(b, k, o)' /\ Bounded(b, k, o)'
  <2>1. Admitted(b, k, o)' = Admitted(b, k, o)
    BY <1>1 DEF Admitted
  <2>2. \A s \in 0..MaxClock : AdmittedIn(b, k, o, s)' = AdmittedIn(b, k, o, s)
    BY <1>1, <2>1 DEF AdmittedIn
  <2>3. \A X, Y \in SUBSET Req : Windows(b, k, o, X, Y) => Windows(b, k, o, X, Y)'
    BY <1>1, <1>4, <2>1 DEF Windows
  <2>4. BurstInv(b, k, o)'
    BY <1>4, <2>1, <2>3 DEF Inv, BurstInv
  <2> QED
    BY <2>2, <2>4 DEF Inv, Bounded
<1>9. ASSUME NEW x \in Resend PROVE ResentInv(x)'
  <2>1. resent[x] # None => resent[x].at \in Nat
    BY Numbers DEF Inv, TypeOK
  <2> QED
    BY <1>1, <2>1 DEF Inv, ResentInv
<1> QED
  BY <1>2, <1>3, <1>5, <1>6, <1>7, <1>8, <1>9 DEF Inv

-----------------------------------------------------------------------------
(* The resend of a script: it counts for Redis, and nobody gets an answer. *)

\* A cell that still counts from the same time has the members it had.
LEMMA RepeatedMembers ==
    ASSUME NEW b, NEW l, pc' = pc, req' = req, CellOf(b, l)'.until = CellOf(b, l).until
    PROVE  Members(b, l)' = Members(b, l)
<1>1. ASSUME NEW q \in Req PROVE Member(q, b, l)' <=> Member(q, b, l)
  BY DEF Member
<1> QED
  BY <1>1 DEF Members

LEMMA RepeatedCount ==
    ASSUME Inv, NEW x \in Resend, NEW k \in Key, Counts("redis", k), Repeated(x, k),
           NEW b \in Backend, NEW l \in Key
    PROVE  CellInv(b, l)' /\ CountInv(b, l)'
<1>1. /\ clock' = clock /\ pc' = pc /\ req' = req /\ ResentStays
      /\ \A R, i, n : IsFiniteSet(Repeats(R, i, n)) /\ Cardinality(Repeats(R, i, n)) \in Nat
      /\ Cardinality(Members(b, l)) \in Nat /\ Cardinality(Members(b, l)') \in Nat
  <2>1. clock' = clock /\ pc' = pc /\ req' = req /\ ResentStays
    BY DEF Counts, Repeated, ResentStays
  <2>2. ASSUME NEW R, NEW i, NEW n
        PROVE  IsFiniteSet(Repeats(R, i, n)) /\ Cardinality(Repeats(R, i, n)) \in Nat
    BY CellAssumption, FS_Subset, FS_CardinalityType DEF Repeats
  <2>3. Cardinality(Members(b, l)) \in Nat /\ Cardinality(Members(b, l)') \in Nat
    BY CellAssumption, FS_Subset, FS_CardinalityType DEF Members
  <2> QED
    BY <2>1, <2>2, <2>3
<1>2. PICK n : n = CellOf(b, l).until - Window
  OBVIOUS
<1>3. CellOf(b, l) # None =>
          /\ CellOf(b, l).count <= Cardinality(Members(b, l)) + Cardinality(Repeats(resent, l, n))
          /\ CellOf(b, l).until <= clock + Window
          /\ CellOf(b, l).count \in Nat /\ CellOf(b, l).until \in Nat
  BY <1>2, CellType, Numbers DEF Inv, CountInv, CellInv
<1>4. CASE b # "redis" \/ l # k
  <2>1. CellOf(b, l)' = CellOf(b, l)
    BY <1>4 DEF Counts
  <2>2. Members(b, l)' = Members(b, l)
    BY <1>1, <2>1, RepeatedMembers
  <2>3. CellOf(b, l) # None =>
            CellOf(b, l).count <= Cardinality(Members(b, l)') + Cardinality(Repeats(resent', l, n))
    BY <1>1, <1>3, <2>2, RepeatsStay
  <2> QED
    BY <1>1, <1>2, <1>3, <2>1, <2>3 DEF CellInv, CountInv
<1>5. CASE b = "redis" /\ l = k /\ Opened("redis", k)
  <2>1. /\ CellOf(b, k)'.count = 1 /\ CellOf(b, k)'.until <= clock + Window
        /\ CellOf(b, k)'.until \in Nat /\ clock \in Nat
    BY <1>5, CountedCell DEF Opened, Inv
  <2>2. PICK m : m = CellOf(b, k)'.until - Window
    OBVIOUS
  <2>3. x \in Repeats(resent', k, m)
    BY <2>1, <2>2, Numbers DEF Repeats, Repeated
  <2>4. Cardinality({x}) = 1 /\ {x} \subseteq Repeats(resent', k, m)
    BY <2>3, FS_Singleton
  <2>5. Cardinality(Repeats(resent', k, m)) >= 1
    BY <1>1, <2>4, FS_Subset
  <2>6. CellOf(b, k)'.count <= Cardinality(Members(b, k)') + Cardinality(Repeats(resent', k, m))
    BY <1>1, <1>5, <2>1, <2>5
  <2> QED
    BY <1>1, <1>5, <2>1, <2>2, <2>6 DEF CellInv, CountInv
<1>6. CASE b = "redis" /\ l = k /\ Added("redis", k)
  <2>1. /\ CellOf(b, k) # None /\ CellOf(b, k)'.count = CellOf(b, k).count + 1
        /\ CellOf(b, k)'.until = CellOf(b, k).until
    BY <1>6 DEF Added
  <2>2. Members(b, k)' = Members(b, k)
    BY <1>1, <2>1, RepeatedMembers
  <2>3. x \notin Repeats(resent, k, n)
    BY DEF Repeats, Repeated
  <2>4. Repeats(resent, k, n) \cup {x} \subseteq Repeats(resent', k, n)
    <3>1. n <= clock
      BY <1>2, <1>3, <1>6, <2>1, Numbers, LimiterAssumption DEF Inv, TypeOK
    <3>2. Repeats(resent, k, n) \subseteq Repeats(resent', k, n)
      BY <1>1 DEF Repeats, ResentStays
    <3>3. x \in Repeats(resent', k, n)
      BY <3>1 DEF Repeats, Repeated
    <3> QED
      BY <3>2, <3>3
  <2>5. Cardinality(Repeats(resent, k, n) \cup {x}) = Cardinality(Repeats(resent, k, n)) + 1
    BY <1>1, <2>3, FS_AddElement
  <2>6. Cardinality(Repeats(resent, k, n) \cup {x}) <= Cardinality(Repeats(resent', k, n))
    BY <1>1, <2>4, FS_Subset
  <2>7. CellOf(b, k)'.count <= Cardinality(Members(b, k)') + Cardinality(Repeats(resent', k, n))
    BY <1>1, <1>3, <1>6, <2>1, <2>2, <2>5, <2>6
  <2> QED
    BY <1>1, <1>2, <1>3, <1>6, <2>1, <2>7 DEF CellInv, CountInv
<1> QED
  BY <1>4, <1>5, <1>6 DEF Counts

\* A window that a resend opens has nobody in it yet.
LEMMA RepeatedBurst ==
    ASSUME Inv, NEW x \in Resend, NEW k \in Key, Counts("redis", k), Repeated(x, k),
           NEW b \in Backend, NEW l \in Key, NEW o \in Route
    PROVE  BurstInv(b, l, o)' /\ Bounded(b, l, o)'
<1>1. /\ pc' = pc /\ req' = req
      /\ Admitted(b, l, o)' = Admitted(b, l, o)
  BY DEF Repeated, Admitted
<1>2. \A s \in 0..MaxClock : AdmittedIn(b, l, o, s)' = AdmittedIn(b, l, o, s)
  BY <1>1 DEF AdmittedIn
<1>3. Bounded(b, l, o)'
  BY <1>2 DEF Inv, Bounded
<1>4. CASE b # "redis" \/ l # k
  <2>1. CellOf(b, l)' = CellOf(b, l)
    BY <1>4 DEF Counts
  <2>2. \A X, Y \in SUBSET Req : Windows(b, l, o, X, Y) => Windows(b, l, o, X, Y)'
    BY <1>1, <2>1 DEF Windows
  <2> QED
    BY <1>1, <1>3, <2>1, <2>2 DEF Inv, BurstInv
<1>5. CASE b = "redis" /\ l = k
  <2>1. /\ CellOf(b, l)' # None /\ CellOf(b, l)'.count \in Nat /\ CellOf(b, l)'.until \in Nat
        /\ CellOf(b, l) # None => CellOf(b, l).count \in Nat /\ CellOf(b, l).until \in Nat
    BY <1>5, CountedCell DEF Inv
  <2>2. Opened(b, l) \/ Added(b, l)
    BY <1>5 DEF Counts
  <2>3. /\ Limit[o] \in Nat /\ Window \in Nat /\ Stall \in Nat
        /\ \A q \in Admitted(b, l, o) : req[q].at \in Nat
    BY Numbers, Asked DEF Admitted, Inv
  <2>4. CASE CellOf(b, l) = None
    <3>1. Admitted(b, l, o) = {}
      BY <2>4 DEF Inv, BurstInv
    <3>2. Windows(b, l, o, {}, {})'
      BY <1>1, <2>1, <2>3, <3>1, FS_EmptySet DEF Windows
    <3>3. {} \in SUBSET Req
      OBVIOUS
    <3> QED
      BY <1>3, <2>1, <3>2, <3>3 DEF BurstInv
  <2>5. CASE CellOf(b, l) # None
    <3>1. PICK X, Y \in SUBSET Req : Windows(b, l, o, X, Y)
      BY <2>5 DEF Inv, BurstInv
    <3>2. Cardinality(X) \in Nat
      BY CellAssumption, FS_Subset, FS_CardinalityType
    <3>3. CASE Added(b, l)
      <4>1. Windows(b, l, o, X, Y)'
        BY <1>1, <2>1, <2>3, <2>5, <3>1, <3>2, <3>3 DEF Windows, Added
      <4> QED
        BY <1>3, <2>1, <4>1 DEF BurstInv
    <3>4. CASE Opened(b, l)
      <4>1. CellOf(b, l).until + Window <= CellOf(b, l)'.until
        BY <2>5, <3>4 DEF Opened
      <4>2. ASSUME NEW q \in Admitted(b, l, o)
            PROVE  /\ req[q].at <= CellOf(b, l)'.until + Stall
                   /\ req[q].at <= CellOf(b, l)'.until - Window + Stall
                   /\ q \notin X => req[q].at <= CellOf(b, l)'.until - 2 * Window + Stall
        <5>1. /\ req[q].at <= CellOf(b, l).until + Stall
              /\ q \notin X => req[q].at <= CellOf(b, l).until - Window + Stall
              /\ req[q].at \in Nat
          BY <2>3, <3>1, <4>2 DEF Windows
        <5> QED
          BY <2>1, <2>3, <2>5, <4>1, <5>1
      <4>3. Windows(b, l, o, {}, X)'
        BY <1>1, <2>1, <2>3, <3>1, <4>2, FS_EmptySet DEF Windows
      <4>4. {} \in SUBSET Req
        OBVIOUS
      <4> QED
        BY <1>3, <2>1, <4>3, <4>4 DEF BurstInv
    <3> QED
      BY <2>2, <3>3, <3>4
  <2> QED
    BY <2>4, <2>5
<1> QED
  BY <1>4, <1>5

LEMMA RepeatedKeeps ==
    ASSUME Inv, NEW x \in Resend, TypeOK',
           \E k \in Key : Counts("redis", k) /\ Repeated(x, k)
    PROVE  Inv'
<1>1. PICK k \in Key : Counts("redis", k) /\ Repeated(x, k)
  OBVIOUS
<1>2. /\ clock' = clock /\ pc' = pc /\ req' = req /\ "redis" \in Backend /\ clock \in Nat
  BY <1>1, LimiterAssumption DEF Counts, Repeated, Backend, Inv, TypeOK
<1>3. ResentStays /\ \A y \in Resend : ResentInv(y)'
  BY <1>1, <1>2, Numbers DEF Repeated, ResentStays, ResentInv, Inv
<1>4. \A q \in Req : RequestInv(q)'
  BY <1>2 DEF Inv, RequestInv
<1>5. ASSUME NEW q \in Req PROVE RetryInv(q)' /\ SpentInv(q)'
  <2>1. pc[q] = "denied" => SpentInv(q)'
    BY <1>2, <1>3, SpentStays DEF Before
  <2>2. pc[q] = "denied" /\ clock < req[q].at + req[q].retryAfter => RetryInv(q)'
    BY <1>1, <1>2, FullStays
  <2> QED
    BY <1>2, <2>1, <2>2 DEF RetryInv, SpentInv
<1>6. RetryAfterHonest'
  BY <1>2 DEF Inv, RetryAfterHonest
<1>7. ASSUME NEW b \in Backend, NEW l \in Key PROVE CellInv(b, l)' /\ CountInv(b, l)'
  BY <1>1, <1>7, RepeatedCount
<1>8. ASSUME NEW b \in Backend, NEW l \in Key, NEW o \in Route
      PROVE  BurstInv(b, l, o)' /\ Bounded(b, l, o)'
  BY <1>1, <1>8, RepeatedBurst
<1> QED
  BY <1>3, <1>4, <1>5, <1>6, <1>7, <1>8 DEF Inv

LEMMA StepInv == Inv /\ [Next]_vars => Inv'
<1> SUFFICES ASSUME Inv, [Next]_vars PROVE Inv'
  OBVIOUS
<1>1. ASSUME NEW r \in Req, NEW k \in Key, NEW o \in Route, NEW p \in Proc, Ask(r, k, o, p)
      PROVE  Inv'
  BY <1>1, AskWaits, WaitsKeeps
<1>2. ASSUME NEW r \in Req, RedisAnswers(r) PROVE Inv'
  <2>1. TypeOK' /\ \E k \in Key : Counts("redis", k) /\ Judged(r, "redis", k)
    BY <1>2, RedisAnswersDoes
  <2>2. PICK k \in Key : Counts("redis", k) /\ Judged(r, "redis", k)
    BY <2>1
  <2>3. Moves(r, "redis", k) /\ "redis" \in Backend
    BY <2>2 DEF Moves, Backend
  <2> QED
    BY <2>1, <2>3, MovesInv
<1>3. ASSUME NEW r \in Req, RedisFails(r) PROVE Inv'
  <2>1. /\ TypeOK' /\ FallsBack(r) /\ clock' = clock
        /\ \/ UNCHANGED <<counter, bucket>>
           \/ \E k \in Key : k = req[r].key /\ Counts("redis", k)
    BY <1>3, RedisFailsDoes
  <2>2. CASE UNCHANGED <<counter, bucket>>
    <3>1. Waits(r) /\ RequestInv(r)'
      BY <2>1, <2>2, FailWaits
    <3> QED
      BY <2>1, <3>1, WaitsKeeps
  <2>3. ASSUME NEW k \in Key, k = req[r].key, Counts("redis", k) PROVE Inv'
    <3>1. Moves(r, "redis", k) /\ "redis" \in Backend
      BY <2>1, <2>3 DEF Moves, Backend
    <3> QED
      BY <2>1, <3>1, MovesInv
  <2> QED
    BY <2>1, <2>2, <2>3
<1>4. ASSUME NEW r \in Req, MemoryAnswers(r) PROVE Inv'
  <2>1. TypeOK' /\ \E p \in Proc, k \in Key : Counts(p, k) /\ Judged(r, p, k)
    BY <1>4, MemoryAnswersDoes
  <2>2. PICK p \in Proc, k \in Key : Counts(p, k) /\ Judged(r, p, k)
    BY <2>1
  <2>3. Moves(r, p, k) /\ p \in Backend
    BY <2>2 DEF Moves, Backend
  <2> QED
    BY <2>1, <2>3, MovesInv
<1>5. ASSUME NEW r \in Req, NEW x \in Resend, RedisResends(r, x) PROVE Inv'
  BY <1>5, RedisResendsDoes, RepeatedKeeps
<1>6. ASSUME Tick PROVE Inv'
  BY <1>6, TickKeeps
<1>7. ASSUME UNCHANGED vars PROVE Inv'
  <2>1. UNCHANGED <<clock, counter, bucket, pc, req, resent>>
    BY <1>7 DEF vars
  <2>2. \A b, k : CellOf(b, k)' = CellOf(b, k)
    BY <2>1 DEF CellOf
  <2>3. /\ \A r \in Req : (RequestInv(r) /\ RetryInv(r) /\ SpentInv(r))'
        /\ \A x \in Resend : ResentInv(x)'
    BY <2>1, <2>2 DEF Inv, RequestInv, RetryInv, SpentInv, Before, ResentInv
  <2>4. ASSUME NEW b \in Backend, NEW k \in Key PROVE (CellInv(b, k) /\ CountInv(b, k))'
    BY <2>1, <2>2 DEF Inv, CellInv, CountInv, Members, Member
  <2>5. ASSUME NEW b \in Backend, NEW k \in Key, NEW o \in Route
        PROVE  (BurstInv(b, k, o) /\ Bounded(b, k, o))'
    BY <2>1, <2>2 DEF Inv, BurstInv, Windows, Bounded, AdmittedIn, Admitted
  <2>6. (TypeOK /\ RetryAfterHonest)'
    BY <2>1 DEF Inv, TypeOK, RetryAfterHonest
  <2> QED
    BY <2>3, <2>4, <2>5, <2>6 DEF Inv
<1> QED
  BY <1>1, <1>2, <1>3, <1>4, <1>5, <1>6, <1>7 DEF Next

-----------------------------------------------------------------------------
(* The theorems                                                            *)

\* The invariant holds however requests, Redis and the clock interleave.
THEOREM LimiterInvHolds == Spec => []Inv
<1>1. Init => Inv
  BY InitInv
<1>2. Inv /\ [Next]_vars => Inv'
  BY StepInv
<1> QED
  BY <1>1, <1>2, PTL DEF Spec

\* The counters of Redis and the buckets of every process stay cells, and a
\* request has its place in Allow.
THEOREM LimiterTypeCorrect == Spec => []TypeOK
<1>1. Inv => TypeOK
  BY DEF Inv
<1> QED
  BY <1>1, LimiterInvHolds, PTL

\* In any stretch a little shorter than a window, a backend admits at most
\* twice the limit of a route: the window of a bucket and the one before it
\* meet in it and no third, though allowMemory reads the clock before it takes
\* the mutex and Redis may count a request its process gave up on.
THEOREM BurstIsBounded == Spec => []BurstBounded
<1>1. Inv => BurstBounded
  <2> SUFFICES ASSUME Inv, NEW k \in Key, NEW o \in Route, NEW b \in Backend,
                      NEW s \in 0..MaxClock
               PROVE  Cardinality({r \in AdmittedBy(k, o, b) :
                                      req[r].at \in s..s + Window - 1 - Stall}) <= 2 * Limit[o]
    BY DEF BurstBounded, Backend
  <2>1. AdmittedIn(b, k, o, s)
          = {r \in AdmittedBy(k, o, b) : req[r].at \in s..s + Window - 1 - Stall}
    BY DEF AdmittedIn, Admitted, AdmittedBy
  <2> QED
    BY <2>1 DEF Inv, Bounded
<1> QED
  BY <1>1, LimiterInvHolds, PTL

\* A request is refused, on either route and by Redis or by a process, only if
\* as many requests of its key as its limit were counted in the window before
\* it: a count is never more than the requests that may have been counted.
THEOREM DeniedIfSpent == Spec => []DeniedOnlyIfSpent
<1>1. Inv => DeniedOnlyIfSpent
  <2> SUFFICES ASSUME Inv, NEW r \in Req, pc[r] = "denied"
               PROVE  Cardinality({q \in Req \ {r} :
                          /\ req[q] # None
                          /\ req[q].key = req[r].key
                          /\ req[q].at + Window + Stall >= req[r].at
                          /\ req[r].at >= req[q].now})
                      + Again(req[r].key, req[r].at - Window - Stall, req[r].at)
                          >= Limit[req[r].route]
    BY DEF DeniedOnlyIfSpent
  <2> DEFINE paid == {q \in Req \ {r} : Before(q, r)}
             near == {q \in Req \ {r} :
                          /\ req[q] # None
                          /\ req[q].key = req[r].key
                          /\ req[q].at + Window + Stall >= req[r].at
                          /\ req[r].at >= req[q].now}
             again == Again(req[r].key, req[r].at - Window - Stall, req[r].at)
  <2>1. paid \subseteq near
    BY DEF Before, Inv, RequestInv
  <2>2. IsFiniteSet(near)
    BY CellAssumption, FS_Subset
  <2>3. /\ Cardinality(paid) <= Cardinality(near)
        /\ Cardinality(paid) \in Nat /\ Cardinality(near) \in Nat
    BY <2>1, <2>2, FS_Subset, FS_CardinalityType
  <2>4. Cardinality(paid) + again >= Limit[req[r].route] /\ again \in Nat
    <3>1. \A k, s, e : Again(k, s, e) = Cardinality(RepeatsIn(resent, k, s, e))
      BY DEF Again, RepeatsIn
    <3>2. \A k, s, e : Cardinality(RepeatsIn(resent, k, s, e)) \in Nat
      BY CellAssumption, FS_Subset, FS_CardinalityType DEF RepeatsIn
    <3> QED
      BY <3>1, <3>2 DEF Inv, SpentInv
  <2>5. Limit[req[r].route] \in Nat
    BY Asked, Numbers DEF Inv
  <2> HIDE DEF paid, near, again
  <2>6. Cardinality(near) + again >= Limit[req[r].route]
    BY <2>3, <2>4, <2>5
  <2> QED
    BY <2>6 DEF near, again
<1> QED
  BY <1>1, LimiterInvHolds, PTL

\* Until the Retry-After of a refused request has passed, its backend admits
\* no request of its key and route: the cell that refused it stays full.
THEOREM RetryAfterIsHonest == Spec => []RetryAfterHonest
<1>1. Inv => RetryAfterHonest
  BY DEF Inv
<1> QED
  BY <1>1, LimiterInvHolds, PTL
-----------------------------------------------------------------------------
(* What is left of "per-route counters" (DeniedOnlyByOwnRoute, which the   *)
(* code violates): they are per route for a key that one route asks for.   *)

OneRoute(k) ==
    \A q, r \in Req : /\ req[q] # None /\ req[q].key = k
                      /\ req[r] # None /\ req[r].key = k
                      => req[q].route = req[r].route

\* As long as no key was asked for on two routes and no script was sent again,
\* a request is refused only for as many of its own route as its limit:
\* sharing a key is all that makes one route spend the limit of another
\* (deriveRateLimitKey).
THEOREM OwnRouteIfKeysUnshared ==
    Spec => []((\A k \in Key : OneRoute(k)) /\ (\A x \in Resend : resent[x] = None)
               => DeniedOnlyByOwnRoute)
<1>1. Inv /\ (\A k \in Key : OneRoute(k)) /\ (\A x \in Resend : resent[x] = None)
      => DeniedOnlyByOwnRoute
  <2> SUFFICES ASSUME Inv, \A k \in Key : OneRoute(k), \A x \in Resend : resent[x] = None, NEW r \in Req, pc[r] = "denied"
               PROVE  Cardinality({q \in Req \ {r} :
                          /\ req[q] # None
                          /\ req[q].key = req[r].key
                          /\ req[q].route = req[r].route}) >= Limit[req[r].route]
    BY DEF DeniedOnlyByOwnRoute
  <2> DEFINE paid == {q \in Req \ {r} : Before(q, r)}
             own  == {q \in Req \ {r} :
                          /\ req[q] # None
                          /\ req[q].key = req[r].key
                          /\ req[q].route = req[r].route}
  <2>1. req[r] # None /\ req[r].key \in Key /\ Limit[req[r].route] \in Nat
    BY Asked, Numbers DEF Inv, RequestInv
  <2>2. paid \subseteq own
    BY <2>1 DEF Before, Inv, RequestInv, OneRoute
  <2>3. IsFiniteSet(own)
    BY CellAssumption, FS_Subset
  <2>4. /\ Cardinality(paid) <= Cardinality(own)
        /\ Cardinality(paid) \in Nat /\ Cardinality(own) \in Nat
    BY <2>2, <2>3, FS_Subset, FS_CardinalityType
  <2>5. Cardinality(paid) >= Limit[req[r].route]
    <3>1. \A k, s, e : RepeatsIn(resent, k, s, e) = {}
      BY DEF RepeatsIn
    <3>2. Cardinality(paid) + 0 >= Limit[req[r].route]
      BY <3>1, FS_EmptySet DEF Inv, SpentInv
    <3> QED
      BY <2>4, <3>2
  <2> HIDE DEF paid, own
  <2>6. Cardinality(own) >= Limit[req[r].route]
    BY <2>1, <2>4, <2>5
  <2> QED
    BY <2>6 DEF own
<1> QED
  BY <1>1, LimiterInvHolds, PTL
=============================================================================
