--------------------------- MODULE RefreshRotation ---------------------------
(***************************************************************************)
(* The refresh-token table (app.refresh_tokens) and the requests that work *)
(* on it: POST /auth/login opens a token family, POST /auth/refresh        *)
(* rotates the presented token inside its family or, when the token was    *)
(* already rotated, revokes the whole family.                              *)
(*                                                                         *)
(* authService is stateless: a request is a goroutine that makes one SQL   *)
(* statement after another, each its own transaction, so every statement   *)
(* is one action and requests interleave between any two of them.  A       *)
(* request generates at most one token and, for a login, one family, so    *)
(* both are named by the request that generated them.                      *)
(***************************************************************************)
EXTENDS Naturals

CONSTANTS
    Req,        \* requests; each runs once, so Req also names tokens and families
    Account,    \* (user, tenant) pairs that can log in
    None,       \* SQL NULL, "no row", "nothing presented"
    TTL,        \* lifetime of a refresh token (refreshTTL), in ticks
    MaxClock,   \* bound on the clock, for TLC
    Overlap     \* may a token be presented while another request of its
                \* family is unanswered?  FALSE: every client waits

VARIABLES
    clock,      \* time, shared by the service and its database
    row,        \* app.refresh_tokens: the row of each token, or None
    pc,         \* where each request is, or how it ended
    presented,  \* the token a refresh request presents
    seen,       \* the record FindByHash gave the request (may be stale)
    next        \* the record the request is about to store

vars == <<clock, row, pc, presented, seen, next>>

Row == [account    : Account,
        family     : Req,
        expiresAt  : Nat,
        revoked    : BOOLEAN,
        replacedBy : Req \cup {None}]

ASSUME RotationAssumption ==
    /\ None \notin Req \cup Row
    /\ TTL \in Nat \ {0}
    /\ MaxClock \in Nat
    /\ Overlap \in BOOLEAN

(***************************************************************************)
(* pc.  The ends: "ok" (200 with a session), "unauthorized" (401),         *)
(* "replay" (401 after a family revocation and its critical signal),       *)
(* "failed" (an error before the request wrote anything) and "lost" (an    *)
(* error, a cancelled context or a crash after it wrote).                  *)
(***************************************************************************)
Unwritten  == {"verified", "found", "allowed", "resolved", "replaying"}
Written    == {"revoked", "stored", "familyRevoked"}
InFlight   == Unwritten \cup Written
Ended      == {"ok", "unauthorized", "replay", "failed", "lost"}

TypeOK ==
    /\ clock \in 0..MaxClock
    /\ row \in [Req -> Row \cup {None}]
    /\ pc \in [Req -> {"idle"} \cup InFlight \cup Ended]
    /\ presented \in [Req -> Req \cup {None}]
    /\ seen \in [Req -> Row \cup {None}]
    /\ next \in [Req -> Row \cup {None}]

Init ==
    /\ clock = 0
    /\ row = [r \in Req |-> None]
    /\ pc = [r \in Req |-> "idle"]
    /\ presented = [r \in Req |-> None]
    /\ seen = [r \in Req |-> None]
    /\ next = [r \in Req |-> None]

Goto(r, from, to) == pc[r] = from /\ pc' = [pc EXCEPT ![r] = to]

-----------------------------------------------------------------------------
(* Faulty records and verdicts the properties must tell from those below *)

\* The record has no expiry.
TokenWithoutExpiry(account, family) ==
    [account |-> account, family |-> family, expiresAt |-> None,
     revoked |-> FALSE, replacedBy |-> None]

\* Expiry is looked at first and taken for a replay.
VerdictExpiredIsReplay(rec, now) ==
    CASE rec.expiresAt <= now                     -> "RejectRevoked"
      [] rec.expiresAt > now /\ rec.revoked       -> "RejectInvalid"
      [] rec.expiresAt > now /\ ~rec.revoked      -> "Allow"

\* A token still works in the second it expires.
VerdictExpiresLate(rec, now) ==
    CASE rec.revoked /\ rec.replacedBy # None     -> "RejectRevoked"
      [] rec.revoked /\ rec.replacedBy = None     -> "RejectInvalid"
      [] ~rec.revoked /\ rec.expiresAt < now      -> "RejectExpired"
      [] ~rec.revoked /\ ~(rec.expiresAt < now)   -> "Allow"

\* A token that a family revocation took is not rejected.
VerdictKilledAllowed(rec, now) ==
    CASE rec.replacedBy # None                    -> "RejectRevoked"
      [] rec.replacedBy = None /\ rec.expiresAt <= now -> "RejectExpired"
      [] rec.replacedBy = None /\ rec.expiresAt > now  -> "Allow"

(***************************************************************************)
(* The verdict on a stored record.  Revocation is looked at before expiry. *)
(***************************************************************************)
DecideRotation(rec, now) ==
    CASE rec.revoked /\ rec.replacedBy # None     -> "RejectRevoked"
      [] rec.revoked /\ rec.replacedBy = None     -> "RejectInvalid"
      [] ~rec.revoked /\ rec.expiresAt <= now     -> "RejectExpired"
      [] ~rec.revoked /\ ~(rec.expiresAt <= now)  -> "Allow"

\* NewRefreshToken: the record of a fresh token, live until TTL from now.
NewRefreshToken(account, family) ==
    [account |-> account, family |-> family, expiresAt |-> clock + TTL,
     revoked |-> FALSE, replacedBy |-> None]

-----------------------------------------------------------------------------
(* Faulty steps the properties must tell from the ones below *)

\* A login joins a family that exists.
LoginJoinsFamily(r, a) ==
    /\ Goto(r, "idle", "verified")
    /\ \E f \in Req : next' = [next EXCEPT ![r] = NewRefreshToken(a, f)]
    /\ UNCHANGED <<clock, row, presented, seen>>

\* The branch for expired tokens is missing.
RejectOnlyInvalid(r) ==
    /\ Goto(r, "found", "unauthorized")
    /\ DecideRotation(seen[r], clock) = "RejectInvalid"
    /\ UNCHANGED <<clock, row, presented, seen, next>>

\* Only the presented token is revoked.
RevokePresented(r) ==
    /\ Goto(r, "replaying", "familyRevoked")
    /\ row' = [row EXCEPT ![presented[r]].revoked = TRUE]
    /\ UNCHANGED <<clock, presented, seen, next>>

\* The successor keeps the family it was generated with.
ResolveRoleOwnFamily(r) ==
    /\ Goto(r, "allowed", "resolved")
    /\ next' = [next EXCEPT ![r] = NewRefreshToken(seen[r].account, r)]
    /\ UNCHANGED <<clock, row, presented, seen>>

\* The presented token is burned before the role is known.
ResolveRoleAfterRevoke(r) ==
    /\ Goto(r, "allowed", "resolved")
    /\ next' = [next EXCEPT ![r] =
                  NewRefreshToken(seen[r].account, seen[r].family)]
    /\ row' = [row EXCEPT ![presented[r]] =
                 [@ EXCEPT !.revoked = TRUE, !.replacedBy = r]]
    /\ UNCHANGED <<clock, presented, seen>>

\* The successor is stored before the presented token is revoked.
StoreBeforeRevoke(r) ==
    /\ Goto(r, "resolved", "revoked")
    /\ row' = [row EXCEPT ![r] = next[r]]
    /\ UNCHANGED <<clock, presented, seen, next>>

\* The replacement is noted but revoked_at is not set.
RevokeNotesOnly(r) ==
    /\ Goto(r, "resolved", "revoked")
    /\ row' = [row EXCEPT ![presented[r]].replacedBy = r]
    /\ UNCHANGED <<clock, presented, seen, next>>

\* The record read at the start is written back with the successor.
StoreWritesBack(r) ==
    /\ Goto(r, "revoked", "stored")
    /\ row' = [row EXCEPT ![r] = next[r], ![presented[r]] = seen[r]]
    /\ UNCHANGED <<clock, presented, seen, next>>

-----------------------------------------------------------------------------
(* Login *)

\* FindByEmail, IsActive, Verify, resolveRole and Issue only read: the token
\* of a fresh family is generated once they all succeeded.
LoginVerify(r, a) ==
    /\ Goto(r, "idle", "verified")
    /\ next' = [next EXCEPT ![r] = NewRefreshToken(a, r)]
    /\ UNCHANGED <<clock, row, presented, seen>>

LoginReject(r) ==
    /\ Goto(r, "idle", "unauthorized")
    /\ UNCHANGED <<clock, row, presented, seen, next>>

LoginStore(r) ==
    /\ Goto(r, "verified", "stored")
    /\ row' = [row EXCEPT ![r] = next[r]]
    /\ UNCHANGED <<clock, presented, seen, next>>

-----------------------------------------------------------------------------
(* Refresh *)

\* The family of the token q has no unanswered refresh.
Quiet(q) ==
    \A s \in Req : pc[s] \in InFlight /\ seen[s] # None
                       => seen[s].family # row[q].family

\* FindByHash of a token whose plain value some client was given.
RefreshFind(r, q) ==
    /\ Goto(r, "idle", "found")
    /\ pc[q] = "ok"
    /\ Overlap \/ Quiet(q)
    /\ presented' = [presented EXCEPT ![r] = q]
    /\ seen' = [seen EXCEPT ![r] = row[q]]
    /\ UNCHANGED <<clock, row, next>>

\* An empty token, or one no row has the hash of.
RefreshUnknown(r) ==
    /\ Goto(r, "idle", "unauthorized")
    /\ UNCHANGED <<clock, row, presented, seen, next>>

\* The switch on the verdict; now is read after FindByHash returned.
RefreshReject(r) ==
    /\ Goto(r, "found", "unauthorized")
    /\ DecideRotation(seen[r], clock) \in {"RejectExpired", "RejectInvalid"}
    /\ UNCHANGED <<clock, row, presented, seen, next>>

RefreshReplay(r) ==
    /\ Goto(r, "found", "replaying")
    /\ DecideRotation(seen[r], clock) = "RejectRevoked"
    /\ UNCHANGED <<clock, row, presented, seen, next>>

RefreshAllow(r) ==
    /\ Goto(r, "found", "allowed")
    /\ DecideRotation(seen[r], clock) = "Allow"
    /\ UNCHANGED <<clock, row, presented, seen, next>>

\* RevokeFamily: UPDATE ... WHERE family_id = $1 AND revoked_at IS NULL.
RevokeFamily(r) ==
    /\ Goto(r, "replaying", "familyRevoked")
    /\ row' = [t \in Req |->
                 IF row[t] # None /\ row[t].family = seen[r].family
                 THEN [row[t] EXCEPT !.revoked = TRUE]
                 ELSE row[t]]
    /\ UNCHANGED <<clock, presented, seen, next>>

\* The critical auth.refresh.replay signal, then the 401.
EmitReplay(r) ==
    /\ Goto(r, "familyRevoked", "replay")
    /\ UNCHANGED <<clock, row, presented, seen, next>>

\* resolveRole reads the memberships; then the successor is generated and
\* joins the family of the record that was read.
ResolveRole(r) ==
    /\ Goto(r, "allowed", "resolved")
    /\ next' = [next EXCEPT ![r] =
                  NewRefreshToken(seen[r].account, seen[r].family)]
    /\ UNCHANGED <<clock, row, presented, seen>>

\* Revoke: UPDATE ... SET revoked_at, replaced_by WHERE id = $1, whatever the
\* row holds by now.
Revoke(r) ==
    /\ Goto(r, "resolved", "revoked")
    /\ row' = [row EXCEPT ![presented[r]] =
                 [@ EXCEPT !.revoked = TRUE, !.replacedBy = r]]
    /\ UNCHANGED <<clock, presented, seen, next>>

StoreSuccessor(r) ==
    /\ Goto(r, "revoked", "stored")
    /\ row' = [row EXCEPT ![r] = next[r]]
    /\ UNCHANGED <<clock, presented, seen, next>>

-----------------------------------------------------------------------------
(* Both *)

\* Issue (refresh only), the success signal and the response.
Answer(r) ==
    /\ Goto(r, "stored", "ok")
    /\ UNCHANGED <<clock, row, presented, seen, next>>

\* Any call may return an error, the client may cancel the context and the
\* process may die: the request stops where it is and nothing is undone.
\* An error returned by a statement that took effect is the statement's
\* action followed by this one.
Fail(r) ==
    /\ \/ pc[r] \in Unwritten /\ pc' = [pc EXCEPT ![r] = "failed"]
       \/ pc[r] \in Written   /\ pc' = [pc EXCEPT ![r] = "lost"]
    /\ UNCHANGED <<clock, row, presented, seen, next>>

Tick ==
    /\ clock < MaxClock
    /\ clock' = clock + 1
    /\ UNCHANGED <<row, pc, presented, seen, next>>

\* What a request in flight does next when nothing fails.
Proceed(r) ==
    \/ LoginStore(r)
    \/ RefreshReject(r) \/ RefreshReplay(r) \/ RefreshAllow(r)
    \/ RevokeFamily(r) \/ EmitReplay(r)
    \/ ResolveRole(r) \/ Revoke(r) \/ StoreSuccessor(r)
    \/ Answer(r)

Arrive(r) ==
    \/ \E a \in Account : LoginVerify(r, a)
    \/ LoginReject(r)
    \/ \E q \in Req : RefreshFind(r, q)
    \/ RefreshUnknown(r)

Next ==
    \/ \E r \in Req : Arrive(r) \/ Proceed(r) \/ Fail(r)
    \/ Tick

Spec == Init /\ [][Next]_vars

\* A goroutine that can run runs, and a database call returns.
FairSpec == Spec /\ \A r \in Req : WF_vars(Proceed(r))

-----------------------------------------------------------------------------
(* What may be relied on whatever the requests do at the same time *)

Stored(t) == row[t] # None
Live(t)   == Stored(t) /\ ~row[t].revoked
Members(f) == {t \in Req : Stored(t) /\ row[t].family = f}

\* A successor is in the table only if the token it replaces is spent:
\* Refresh revokes first and stores second, so no failure in between leaves
\* both tokens working.
SuccessorAfterRevocation ==
    \A t \in Req : Stored(t) /\ presented[t] # None
                      => /\ row[presented[t]].revoked
                         /\ row[presented[t]].replacedBy # None

\* A successor belongs to the family and the account of the token it
\* replaces (Refresh overwrites the FamilyID of the generated token), so a
\* family never mixes two users or tenants.
SuccessorInFamily ==
    \A t \in Req : Stored(t) /\ presented[t] # None
                      => /\ row[t].family = row[presented[t]].family
                         /\ row[t].account = row[presented[t]].account

FamilyOfOneAccount ==
    \A t, u \in Req : /\ Stored(t) /\ Stored(u)
                      /\ row[t].family = row[u].family
                      => row[t].account = row[u].account

\* Only a rotated token gets a family revoked: a token revoked without a
\* replacement has a rotated one in its family.  Presenting an expired token
\* is a 401 and no more.
KilledOnlyByReplay ==
    \A t \in Req : /\ Stored(t)
                   /\ row[t].revoked
                   /\ row[t].replacedBy = None
                   => \E u \in Members(row[t].family) : row[u].replacedBy # None

\* A client that was given a token of a family still holds a live one, or a
\* rotation is between its two writes, or one was cut off there, or a
\* rotated token was presented again.  So a request that failed before its
\* Revoke, in role resolution above all, never costs the session.
NotLockedOut ==
    \A t \in Req : pc[t] = "ok" =>
        LET f == row[t].family
        IN \/ \E u \in Members(f) : Live(u) /\ pc[u] = "ok"
           \/ \E r \in Req : /\ pc[r] \in Written \cup {"lost", "replay"}
                            /\ seen[r] # None
                            /\ seen[r].family = f

\* A revoked token stays revoked and replaced, and a stored one keeps its
\* family, account and expiry: no statement writes a stale record back.
NoTokenComesBack ==
    [][\A t \in Req : Stored(t) =>
          /\ Stored(t)'
          /\ row[t].revoked => row'[t].revoked
          /\ row[t].replacedBy # None => row'[t].replacedBy # None
          /\ row'[t].family = row[t].family
          /\ row'[t].account = row[t].account
          /\ row'[t].expiresAt = row[t].expiresAt]_vars

\* No token of the family works and no request has a rotation under way
\* that it was allowed, or is about to be allowed, on a live record.
Rotating(f) ==
    \E r \in Req : /\ \/ pc[r] \in {"allowed", "resolved", "revoked"}
                      \/ /\ pc[r] = "found" /\ ~seen[r].revoked
                         /\ seen[r].expiresAt > clock
                   /\ seen[r].family = f

Over(f) ==
    /\ Members(f) # {}
    /\ \A t \in Members(f) : row[t].revoked \/ row[t].expiresAt <= clock
    /\ ~Rotating(f)

\* A session that is over stays over: once every token of a family is
\* revoked or past its expiry and no allowed rotation is under way, nothing
\* extends the family again; only a login helps, and it opens a new one.
SessionStaysOver ==
    [][\A f \in Req : Over(f) => Over(f)']_vars

\* Every request that reached the service is answered or cut off.
EveryRequestEnds ==
    \A r \in Req : pc[r] \in InFlight ~> pc[r] \in Ended

-----------------------------------------------------------------------------
(* What may be relied on when the clients of a family wait for answers *)

\* "One-time use": no two requests rotate the same token.
OneRotationPerToken ==
    \A r, s \in Req : /\ pc[r] = "ok" /\ pc[s] = "ok"
                      /\ presented[r] # None
                      /\ presented[r] = presented[s]
                      => r = s

\* A family has at most one token that works.
OneLiveToken ==
    \A t, u \in Req : /\ Live(t) /\ Live(u)
                      /\ row[t].family = row[u].family
                      => t = u

\* Once a rotated token was presented and its family revoked, nothing in the
\* family works again, the successors stored since included.
ReplayKillsFamily ==
    \A r \in Req : pc[r] \in {"familyRevoked", "replay"} =>
        \A t \in Members(seen[r].family) : ~Live(t)

-----------------------------------------------------------------------------
(* The abstract promise this implements: see RotationPromise *)

current == [f \in Req |-> {t \in Members(f) : Live(t)}]
spent   == {t \in Req : Stored(t) /\ ~Live(t)}
phase   == [f \in Req |->
    IF Members(f) = {} THEN "unopened"
    ELSE IF current[f] # {} THEN "open"
    ELSE IF \E r \in Req : pc[r] = "revoked" /\ seen[r].family = f
         THEN "rotating"
    ELSE "closed"]

Promise == INSTANCE RotationPromise WITH Token <- Req, Family <- Req

\* Requests that do not overlap implement one-time tokens in a family that
\* opens once and never reopens.
KeepsPromise == Promise!Spec
=============================================================================
