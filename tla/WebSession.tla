----------------------------- MODULE WebSession -----------------------------
(***************************************************************************)
(* The session of a browser (api.js, tokens.js, app.js) over the service's *)
(* refresh-token table (RefreshRotation).  Each tab keeps its access token *)
(* in memory; all tabs share the refresh token in local storage.  A call   *)
(* that is answered 401 awaits the refresh of its tab, at most one at a    *)
(* time, and is sent once more.                                            *)
(*                                                                         *)
(* A tab runs one callback at a time, up to its next await, and is one     *)
(* action for each; tabs interleave with each other and with the network.  *)
(* Between sending a request and handling its answer anything may happen:  *)
(* the answer is lost, the page reloads, the user signs out or in.  Local  *)
(* storage may throw whenever it is read or written: tokens.js takes a     *)
(* read that throws for an empty storage, and swallows a refused write.    *)
(***************************************************************************)
EXTENDS Naturals, FiniteSetsExt

CONSTANTS
    Req,        \* login and refresh requests, numbered in the order sent
    Account,    \* who signs in
    None,       \* no token, no request, no tab
    Tab,        \* tabs of one browser
    Call        \* calls of the views to the API; each is made once

\* Tabs do not wait for each other, and refresh tokens live for thirty days:
\* none expires while the browser is watched (RefreshRotation has expiry).
Overlap  == TRUE
TTL      == 1
MaxClock == 0

VARIABLES
    clock, row, pc, presented, seen, next,      \* of RefreshRotation
    stored,     \* the refresh token in local storage
    access,     \* the tabs that hold an access token in memory
    flight,     \* of each tab: the refresh in flight (inFlight)
    by,         \* of each request: the tab that sent it
    body,       \* of each refresh: the refresh token it presents
    wire,       \* of each request: "unsent", "sent", "handled", "unsaved"
                \* (handled, and what it brought was not stored) or "lost"
    call        \* of each call: where it is, its tab, may it be sent again

Server == INSTANCE RefreshRotation

ASSUME SessionAssumption ==
    /\ IsFiniteSet(Req) /\ Req # {} /\ Req = 1..Cardinality(Req)
    /\ None \notin Req \cup Tab \cup Server!Row
    /\ Tab # {}

server == <<clock, row, pc, presented, seen, next>>
client == <<stored, access, flight, by, body, wire, call>>
vars   == <<server, client>>

\* A call that was answered or given up is "settled", and forgotten.
Calls == [at : {"new", "sent", "waiting", "settled"},
          tab : Tab \cup {None}, again : BOOLEAN]

New     == [at |-> "new", tab |-> None, again |-> FALSE]
Settled == [at |-> "settled", tab |-> None, again |-> FALSE]

TypeOK ==
    /\ Server!TypeOK
    /\ stored \in Req \cup {None}
    /\ access \subseteq Tab
    /\ flight \in [Tab -> Req \cup {None}]
    /\ by \in [Req -> Tab \cup {None}]
    /\ body \in [Req -> Req \cup {None}]
    /\ wire \in [Req -> {"unsent", "sent", "handled", "unsaved", "lost"}]
    /\ call \in [Call -> Calls]

\* Somebody signed in, in one of the tabs, which are interchangeable.
First    == Min(Req)
FirstTab == CHOOSE t \in Tab : TRUE

FirstToken(a) == [account |-> a, family |-> First, expiresAt |-> TTL,
                  revoked |-> FALSE, replacedBy |-> None]

Init ==
    /\ clock = 0
    /\ \E a \in Account :
           row = [r \in Req |-> IF r = First THEN FirstToken(a) ELSE None]
    /\ pc = [r \in Req |-> IF r = First THEN "ok" ELSE "idle"]
    /\ presented = [r \in Req |-> None]
    /\ seen = [r \in Req |-> None]
    /\ next = [r \in Req |-> IF r = First THEN row[r] ELSE None]
    /\ stored = First
    /\ access = {FirstTab}
    /\ by = [r \in Req |-> IF r = First THEN FirstTab ELSE None]
    /\ flight = [t \in Tab |-> None]
    /\ body = [r \in Req |-> None]
    /\ wire = [r \in Req |-> IF r = First THEN "handled" ELSE "unsent"]
    /\ call = [c \in Call |-> New]

-----------------------------------------------------------------------------
(* Requests to the service *)

\* Its answer is awaited.
Pending(r) == wire[r] = "sent"

\* The storage never got what its answer brought.
NotKept == {"unsaved", "lost"}

Unsent == {r \in Req : wire[r] = "unsent"}

Send(t, r, token) ==
    /\ by' = [by EXCEPT ![r] = t]
    /\ body' = [body EXCEPT ![r] = token]
    /\ wire' = [wire EXCEPT ![r] = "sent"]

\* The calls of tab t that await its refresh.
Waiting(t) == {c \in Call : call[c].at = "waiting" /\ call[c].tab = t}

\* A refresh that succeeded: they are sent once more, with its access token.
Resume(t) ==
    [c \in Call |-> IF c \in Waiting(t)
                    THEN [at |-> "sent", tab |-> t, again |-> FALSE]
                    ELSE call[c]]

-----------------------------------------------------------------------------
(* Faulty steps the properties must tell from the ones below *)

\* Every 401 starts a refresh of its own.
NoFlight(t) == TRUE

\* A settled refresh leaves its waiters waiting when it failed.
RejectNobody(t) == call

\* The access token is taken and nothing is written to the storage.
TakeAccessOnly(t, r, saved) ==
    /\ access' = access \cup {t}
    /\ UNCHANGED stored

-----------------------------------------------------------------------------
(* The single flight and the session it brings *)

\* createSingleFlight: a refresh may start only while none is in flight.
NoneInFlight(t) == flight[t] = None

\* A refresh that failed: they fail with the 401 they were answered.
Reject(t) == [c \in Call |-> IF c \in Waiting(t) THEN Settled ELSE call[c]]

\* What a refresh, or a login, that succeeded leaves behind.  setRefresh
\* swallows a write the storage refuses: the old token stays where it was.
TakeSession(t, r, saved) ==
    /\ access' = access \cup {t}
    /\ stored' = IF saved THEN r ELSE stored

\* clear: the token in memory goes; the stored one may refuse to.
ClearSession(t) ==
    /\ access' = access \ {t}
    /\ stored' \in {None, stored}

\* The wrapped function runs: it reads the storage, and sends what it finds.
StartRefresh(t) ==
    \E r \in Unsent :
        /\ r = Min(Unsent)
        /\ stored # None
        /\ Send(t, r, stored)
        /\ flight' = [flight EXCEPT ![t] = r]

\* refresh() of a tab in which this call is the only one that waits for it.
\* Where the storage holds no token, or cannot be read, it rejects at once and
\* nothing is sent.
AwaitRefresh(c, t) ==
    \/ /\ ~NoneInFlight(t)
       /\ call' = [call EXCEPT ![c].at = "waiting"]
       /\ UNCHANGED <<flight, by, body, wire>>
    \/ /\ NoneInFlight(t)
       /\ StartRefresh(t)
       /\ call' = [call EXCEPT ![c].at = "waiting"]
    \/ /\ NoneInFlight(t)
       /\ call' = [call EXCEPT ![c] = Settled]
       /\ UNCHANGED <<flight, by, body, wire>>

-----------------------------------------------------------------------------
(* Calls of the views *)

SendCall(t, c) ==
    /\ call[c] = New /\ \A d \in Call : d < c => call[d] # New
    /\ call' = [call EXCEPT ![c] = [at |-> "sent", tab |-> t,
                                    again |-> t \in access]]
    /\ UNCHANGED <<server, stored, access, flight, by, body, wire>>

\* Any answer but a 401 settles a call, an error of the network included, and
\* so does a 401 to a call without a token or to one that was sent again.
CallSettles(c) ==
    /\ call[c].at = "sent"
    /\ call' = [call EXCEPT ![c] = Settled]
    /\ UNCHANGED <<server, stored, access, flight, by, body, wire>>

\* The access token expired: await the refresh.
CallExpired(c) ==
    /\ call[c].at = "sent"
    /\ call[c].again
    /\ AwaitRefresh(c, call[c].tab)
    /\ UNCHANGED <<server, stored, access>>

-----------------------------------------------------------------------------
(* The user *)

\* route draws a new login form wherever it reads no stored token, which may
\* be in a tab that holds an access token (another one signed out, or the
\* storage cannot be read) or that has submitted the form before, and boot
\* draws one when its refresh failed.
SubmitLogin(t) ==
    /\ \E r \in Unsent : r = Min(Unsent) /\ Send(t, r, None)
    /\ UNCHANGED <<server, stored, access, flight, call>>

\* logout, from the shell, which route shows wherever it reads a stored token:
\* both tokens are cleared; the service is not told, and a refresh in flight
\* stays there.
Logout(t) ==
    /\ t \in access \/ stored # None
    /\ ClearSession(t)
    /\ UNCHANGED <<server, flight, by, body, wire, call>>

\* A page that is loaded again knows nothing of the old one's calls, whose
\* answers nobody handles; boot refreshes when it reads a stored token.
Gone(t) == {r \in Req : Pending(r) /\ by[r] = t}

Load(t) ==
    /\ access' = access \ {t}
    /\ call' = [c \in Call |-> IF call[c].tab = t THEN Settled ELSE call[c]]
    /\ LET left == [r \in Req |-> IF r \in Gone(t) THEN "lost" ELSE wire[r]]
       IN \/ /\ wire' = left
             /\ flight' = [flight EXCEPT ![t] = None]
             /\ UNCHANGED <<by, body>>
          \/ /\ stored # None
             /\ \E r \in Unsent :
                    /\ r = Min(Unsent)
                    /\ by' = [by EXCEPT ![r] = t]
                    /\ body' = [body EXCEPT ![r] = stored]
                    /\ wire' = [left EXCEPT ![r] = "sent"]
                    /\ flight' = [flight EXCEPT ![t] = r]
    /\ UNCHANGED <<server, stored>>

-----------------------------------------------------------------------------
(* The network and the service *)

Arrive(r) ==
    /\ wire[r] # "unsent"
    /\ \/ /\ body[r] = None
          /\ (\E a \in Account : Server!LoginVerify(r, a)) \/ Server!LoginReject(r)
       \/ /\ body[r] # None
          /\ Server!RefreshFind(r, body[r])
    /\ UNCHANGED client

Serve(r) == Server!Proceed(r) /\ UNCHANGED client

Crash(r) == Server!Fail(r) /\ UNCHANGED client

Land(r, as) ==
    /\ wire' = [wire EXCEPT ![r] = as]
    /\ UNCHANGED <<server, by, body>>

\* A request that is not the refresh its tab awaits settles nothing.
Landed(r) == IF flight[by[r]] = r THEN [flight EXCEPT ![by[r]] = None] ELSE flight

\* 200: the tokens are taken, whatever happened since the request was sent.
Succeed(r) ==
    /\ Pending(r)
    /\ pc[r] = "ok"
    /\ \E saved \in BOOLEAN :
           /\ TakeSession(by[r], r, saved)
           /\ Land(r, IF saved THEN "handled" ELSE "unsaved")
    /\ flight' = Landed(r)
    /\ call' = IF flight[by[r]] = r THEN Resume(by[r]) ELSE call

\* 401 to a refresh: both tokens are cleared, whatever is stored by now.
Expel(r) ==
    /\ Pending(r)
    /\ body[r] # None
    /\ pc[r] \in {"unauthorized", "replay"}
    /\ ClearSession(by[r])
    /\ flight' = Landed(r)
    /\ call' = IF flight[by[r]] = r THEN Reject(by[r]) ELSE call
    /\ Land(r, "handled")

\* Any other answer, or none: 429, 500, an error of the network.  The refresh
\* rejects and clears nothing; the refused login only shows.
GiveUp(r, as) ==
    /\ Pending(r)
    /\ flight' = Landed(r)
    /\ call' = IF flight[by[r]] = r THEN Reject(by[r]) ELSE call
    /\ Land(r, as)
    /\ UNCHANGED <<stored, access>>

Refused(r) ==
    /\ pc[r] = "unauthorized" /\ body[r] = None
    /\ GiveUp(r, "handled")

Broken(r) == pc[r] \in {"failed", "lost"} /\ GiveUp(r, "lost")

\* Lost or refused on the way, at any time; the request may still arrive.
Drop(r) == GiveUp(r, "lost")

Settle(r) == Succeed(r) \/ Expel(r) \/ Refused(r) \/ Broken(r)

-----------------------------------------------------------------------------

Next ==
    \/ \E t \in Tab : SubmitLogin(t) \/ Logout(t) \/ Load(t)
    \/ \E t \in Tab, c \in Call : SendCall(t, c)
    \/ \E c \in Call : CallSettles(c) \/ CallExpired(c)
    \/ \E r \in Req : \/ Arrive(r) \/ Serve(r) \/ Crash(r)
                      \/ Settle(r) \/ Drop(r)

Spec == Init /\ [][Next]_vars

\* A request that is sent arrives, the service answers it (as FairSpec of
\* RefreshRotation has it), and the browser runs the callback of an answer:
\* one of the three at a time.
FairSpec ==
    /\ Spec
    /\ \A r \in Req : WF_vars(Arrive(r) \/ Serve(r) \/ Settle(r))
    /\ \A c \in Call : WF_vars(CallSettles(c))

-----------------------------------------------------------------------------

Family(q) == row[q].family

\* What may cost a session: the answer to a refresh that was lost, or whose
\* token the storage refused, or two tabs that presented the same token.
Disturbed(f) ==
    \/ \E r \in Req : /\ body[r] # None /\ Family(body[r]) = f
                      /\ wire[r] \in NotKept
    \/ \E r, s \in Req : /\ body[r] # None /\ body[r] = body[s]
                         /\ Family(body[r]) = f
                         /\ by[r] # by[s]

\* A refresh is answered 401, and the session given up, only if the family
\* was disturbed.  While the storage takes what is written, answers arrive and
\* tabs do not meet, the single flight and the write-back never present a
\* rotated token, whatever a tab's calls, logins, logouts and refreshes do at
\* the same time.
ExpelledOnlyForCause ==
    \A r \in Req : /\ body[r] # None
                   /\ pc[r] \in {"unauthorized", "replay"}
        => Disturbed(Family(body[r]))

\* At rest the storage holds a token that works, for as long as its family
\* was not disturbed: a used-up token is left in storage where the answer that
\* replaced it was lost, or was taken and its write refused, or went to
\* another tab, and nowhere else.
StoredTokenWorks ==
    /\ stored # None
    /\ \A r \in Req : ~Pending(r)
    => \/ Server!Live(stored)
       \/ Disturbed(Family(stored))

\* Every call a view made is settled, and none is under way for good: the
\* refresh it awaits ends, and ends its wait.
EveryCallSettles ==
    \A c \in Call : []<>(call[c].at \in {"new", "settled"})

\* A user who signed out stays signed out: where the storage was cleared only a
\* login stores a token, and no refresh that was under way.
SignedOutStaysOut ==
    [][stored = None /\ stored' # None => body[stored'] = None]_vars
=============================================================================
