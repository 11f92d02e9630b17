--------------------------- MODULE WebSessionProofs ---------------------------
(***************************************************************************)
(* The session of a browser, for any number of requests, accounts, tabs    *)
(* and calls.                                                              *)
(*                                                                         *)
(* The table of the service keeps the invariant of RefreshRotationProofs,  *)
(* Rotation!Inv, since every step here is one of its steps or leaves it    *)
(* alone.  To that TokenInv adds what the browser does: a tab has one      *)
(* refresh under way, and none presents a token that a handled refresh     *)
(* has used up, unless the storage would not be cleared of it.  So a token *)
(* is presented twice only by two tabs, or after an answer that was lost   *)
(* or could not be stored (PresentedInv), which is what Disturbed says;    *)
(* RowBlame and SeenBlame carry the blame from a revoked row to who        *)
(* presented it.                                                           *)
(* FlightInv and WaitInv say what a call waits for, and that it is under   *)
(* way, from which every call is settled.                                  *)
(***************************************************************************)
EXTENDS WebSession, FiniteSetTheorems, TLAPS

Rotation == INSTANCE RefreshRotationProofs

ClientType ==
    /\ stored \in Req \cup {None}
    /\ flight \in [Tab -> Req \cup {None}]
    /\ by \in [Req -> Tab \cup {None}]
    /\ body \in [Req -> Req \cup {None}]
    /\ wire \in [Req -> {"unsent", "sent", "handled", "unsaved", "lost"}]

\* What the browser stores or presents was given to it.
Given(p) == p \in Req /\ wire[p] = "handled" /\ pc[p] = "ok"

\* A request that is not sent is nowhere, and a refresh presents its body.
SentInv(r) ==
    /\ wire[r] = "unsent" => body[r] = None /\ pc[r] = "idle"
    /\ wire[r] # "unsent" => by[r] \in Tab
    /\ presented[r] # None => presented[r] = body[r]
    /\ body[r] # None => Given(body[r])

\* It presents a token whose family was disturbed.
Blamed(r) == body[r] # None /\ Disturbed(Family(body[r]))

\* A tab awaits one refresh, and what a handled one used up is not stored, but
\* for a token that was refused for cause and could not be removed.
TokenInv(r) ==
    body[r] # None =>
        /\ Pending(r) => flight[by[r]] = r
        /\ wire[r] = "handled" => stored # body[r] \/ Blamed(r)

\* A tab presents a token again only if the answer did not replace it.
PresentedInv(r, s) ==
    r # s /\ body[r] # None /\ body[r] = body[s] /\ by[r] = by[s]
        => wire[r] \in NotKept \/ wire[s] \in NotKept \/ Blamed(r)

\* Nothing expires, and every revocation is somebody's: of the request that
\* rotated the token, or of one that found a revoked token of its family.
RowBlame(t) ==
    row[t] # None =>
        /\ row[t].expiresAt = 1
        /\ row[t].replacedBy # None => presented[row[t].replacedBy] = t
        /\ row[t].revoked /\ row[t].replacedBy = None =>
              \E s \in Req : /\ presented[s] # None /\ seen[s].revoked
                             /\ seen[s].family = row[t].family

\* Whoever found a revoked token did so in a family that was disturbed, and
\* nobody else is answered 401 to a refresh.
SeenBlame(r) ==
    /\ seen[r] # None => seen[r].expiresAt = 1
    /\ next[r] # None => next[r].expiresAt = 1 /\ next[r].replacedBy = None
    /\ presented[r] # None /\ seen[r].revoked => Disturbed(seen[r].family)
    /\ body[r] # None /\ pc[r] \in {"unauthorized", "replaying", "familyRevoked", "replay"}
          => presented[r] # None /\ seen[r].revoked

Inv ==
    /\ Rotation!Inv
    /\ ClientType
    /\ stored # None => Given(stored)
    /\ \A r \in Req : SentInv(r) /\ TokenInv(r) /\ RowBlame(r) /\ SeenBlame(r)
    /\ \A r, s \in Req : PresentedInv(r, s)

-----------------------------------------------------------------------------
(* The constants, and the table's own invariant                            *)

LEMMA FirstIsSent == First \in Req /\ FirstTab \in Tab /\ None \notin Req \cup Tab
<1> DEFINE n == Cardinality(Req)
<1>1. n \in Nat
  BY SessionAssumption, FS_CardinalityType
<1>2. 1 \in Req /\ \A r \in Req : 1 <= r
  <2> HIDE DEF n
  <2>1. Req = 1..n /\ Req # {}
    BY SessionAssumption DEF n
  <2> QED
    BY <1>1, <2>1
<1>3. First \in Req
  BY <1>2 DEF First, Min
<1>4. FirstTab \in Tab
  BY SessionAssumption DEF FirstTab
<1> QED
  BY <1>3, <1>4, SessionAssumption

\* Its table is an instance that RefreshRotation allows.
LEMMA RotationMay ==
    /\ None \notin Req \cup Rotation!Row
    /\ TTL \in Nat \ {0} /\ MaxClock \in Nat /\ Overlap \in BOOLEAN
BY SessionAssumption DEF Rotation!Row, Server!Row, TTL, MaxClock, Overlap

LEMMA ServerProceeds ==
    ASSUME NEW r \in Req
    PROVE  Server!Proceed(r) => Rotation!Proceed(r)
BY DEF Server!Proceed, Rotation!Proceed, Server!Goto, Rotation!Goto,
       Server!LoginStore, Rotation!LoginStore, Server!RefreshReject, Rotation!RefreshReject,
       Server!RefreshReplay, Rotation!RefreshReplay, Server!RefreshAllow, Rotation!RefreshAllow,
       Server!DecideRotation, Rotation!DecideRotation,
       Server!RevokeFamily, Rotation!RevokeFamily, Server!EmitReplay, Rotation!EmitReplay,
       Server!ResolveRole, Rotation!ResolveRole,
       Server!NewRefreshToken, Rotation!NewRefreshToken,
       Server!Revoke, Rotation!Revoke, Server!StoreSuccessor, Rotation!StoreSuccessor,
       Server!Answer, Rotation!Answer

\* A step of the service is a step of RefreshRotation.
LEMMA ServerSteps ==
    ASSUME NEW r \in Req, Arrive(r) \/ Serve(r) \/ Crash(r), body[r] # None => body[r] \in Req
    PROVE  Rotation!Next
<1>1. ASSUME NEW a \in Account, Server!LoginVerify(r, a) PROVE Rotation!LoginVerify(r, a)
  BY <1>1 DEF Server!LoginVerify, Rotation!LoginVerify, Server!Goto, Rotation!Goto,
              Server!NewRefreshToken, Rotation!NewRefreshToken
<1>2. Server!LoginReject(r) => Rotation!LoginReject(r)
  BY DEF Server!LoginReject, Rotation!LoginReject, Server!Goto, Rotation!Goto
<1>3. ASSUME NEW q \in Req, Server!RefreshFind(r, q) PROVE Rotation!RefreshFind(r, q)
  BY <1>3 DEF Server!RefreshFind, Rotation!RefreshFind, Server!Goto, Rotation!Goto, Overlap
<1>4. ASSUME Arrive(r) PROVE Rotation!Arrive(r)
  <2>1. \/ \E a \in Account : Server!LoginVerify(r, a)
        \/ Server!LoginReject(r)
        \/ body[r] # None /\ Server!RefreshFind(r, body[r])
    BY <1>4, Zenon DEF Arrive
  <2>2. CASE body[r] # None /\ Server!RefreshFind(r, body[r])
    <3>1. Rotation!RefreshFind(r, body[r])
      BY <1>3, <2>2
    <3> QED
      BY <2>2, <3>1 DEF Rotation!Arrive
  <2> QED
    BY <1>1, <1>2, <2>1, <2>2, Zenon DEF Rotation!Arrive
<1>5. Server!Proceed(r) => Rotation!Proceed(r)
  BY ServerProceeds
<1>6. Server!Fail(r) => Rotation!Fail(r)
  BY DEF Server!Fail, Rotation!Fail, Server!Unwritten, Rotation!Unwritten,
         Server!Written, Rotation!Written
<1> QED
  BY <1>4, <1>5, <1>6 DEF Serve, Crash, Rotation!Next

LEMMA RotationKeeps ==
    /\ Rotation!Inv /\ [Rotation!Next]_(Rotation!vars) => Rotation!Inv'
    /\ Rotation!Inv /\ [Rotation!Next]_(Rotation!vars) => Rotation!RowsKept
BY RotationMay, Rotation!InvStep, Rotation!KeptByStep

\* What the table's invariant says of the requests, in the words used here.
LEMMA Known ==
    ASSUME Inv
    PROVE  /\ clock = 0
           /\ row \in [Req -> Server!Row \cup {None}] /\ seen \in [Req -> Server!Row \cup {None}]
           /\ next \in [Req -> Server!Row \cup {None}]
           /\ presented \in [Req -> Req \cup {None}]
           /\ pc \in [Req -> {"idle", "verified", "found", "allowed", "resolved", "replaying",
                              "revoked", "stored", "familyRevoked",
                              "ok", "unauthorized", "replay", "failed", "lost"}]
           /\ \A r \in Req :
                 /\ pc[r] \in {"idle", "verified"} => presented[r] = None /\ seen[r] = None
                 /\ pc[r] \in {"found", "allowed", "resolved", "revoked",
                               "replaying", "familyRevoked", "replay"} => presented[r] # None
                 /\ presented[r] # None => /\ seen[r] # None /\ row[presented[r]] # None
                                           /\ row[presented[r]].family = seen[r].family
                 /\ pc[r] \in {"verified", "resolved", "revoked"}
                       => next[r] # None /\ ~next[r].revoked
                 /\ pc[r] = "replaying" => seen[r].revoked
                 /\ pc[r] \in {"stored", "ok"} => row[r] # None
                 /\ pc[r] \in {"verified", "revoked"} => row[r] = None
<1>1. Rotation!TypeOK /\ \A r \in Req : Rotation!RequestInv(r) /\ Rotation!RowInv(r)
  BY DEF Inv, Rotation!Inv
<1>2. clock = 0
  BY <1>1 DEF Rotation!TypeOK, MaxClock
<1>3. Rotation!Row = Server!Row
  BY DEF Rotation!Row, Server!Row
<1>4. ASSUME NEW r \in Req
      PROVE  /\ pc[r] \in {"idle", "verified"} => presented[r] = None /\ seen[r] = None
             /\ pc[r] \in {"found", "allowed", "resolved", "revoked",
                           "replaying", "familyRevoked", "replay"} => presented[r] # None
             /\ presented[r] # None => /\ seen[r] # None /\ row[presented[r]] # None
                                       /\ row[presented[r]].family = seen[r].family
             /\ pc[r] \in {"verified", "resolved", "revoked"}
                   => next[r] # None /\ ~next[r].revoked
             /\ pc[r] = "replaying" => seen[r].revoked
             /\ pc[r] \in {"stored", "ok"} => row[r] # None
  BY <1>1 DEF Rotation!RequestInv
<1>5. \A r \in Req : pc[r] \in {"verified", "revoked"} => row[r] = None
  BY <1>1 DEF Rotation!RowInv
<1>6. /\ row \in [Req -> Server!Row \cup {None}] /\ seen \in [Req -> Server!Row \cup {None}]
      /\ next \in [Req -> Server!Row \cup {None}]
      /\ presented \in [Req -> Req \cup {None}]
  BY <1>1, <1>3 DEF Rotation!TypeOK
<1>7. pc \in [Req -> {"idle", "verified", "found", "allowed", "resolved", "replaying",
                      "revoked", "stored", "familyRevoked",
                      "ok", "unauthorized", "replay", "failed", "lost"}]
  BY <1>1 DEF Rotation!TypeOK, Rotation!InFlight, Rotation!Unwritten, Rotation!Written,
              Rotation!Ended
<1> QED
  BY <1>2, <1>4, <1>5, <1>6, <1>7

-----------------------------------------------------------------------------
(* The start                                                               *)

LEMMA InitInv == Init => Inv
<1> SUFFICES ASSUME Init PROVE Inv
  OBVIOUS
<1>1. PICK a \in Account : row = [r \in Req |-> IF r = First THEN FirstToken(a) ELSE None]
  BY DEF Init
<1>2. First \in Req /\ FirstTab \in Tab /\ None \notin Req \cup Tab
  BY FirstIsSent
<1> DEFINE token == FirstToken(a)
<1>3. /\ token \in Server!Row /\ token # None /\ token.family = First /\ token.account = a
      /\ token.expiresAt = 1 /\ ~token.revoked /\ token.replacedBy = None
  <2>1. /\ token.family = First /\ token.account = a /\ token.expiresAt = 1
        /\ ~token.revoked /\ token.replacedBy = None
    BY DEF FirstToken, TTL
  <2>2. token \in Server!Row
    BY <1>2 DEF FirstToken, Server!Row, TTL
  <2> QED
    BY <2>1, <2>2, SessionAssumption
<1> HIDE DEF token
<1>4. /\ row[First] = token
      /\ \A r \in Req : row[r] = (IF r = First THEN token ELSE None)
      /\ \A r \in Req : pc[r] = (IF r = First THEN "ok" ELSE "idle")
      /\ \A r \in Req : presented[r] = None /\ seen[r] = None /\ body[r] = None
      /\ \A r \in Req : next[r] = (IF r = First THEN token ELSE None)
      /\ \A r \in Req : by[r] = (IF r = First THEN FirstTab ELSE None)
      /\ \A r \in Req : wire[r] = (IF r = First THEN "handled" ELSE "unsent")
      /\ stored = First
  BY <1>1, <1>2 DEF Init, token
<1>5. Rotation!TypeOK
  <2>1. Rotation!Row = Server!Row
    BY DEF Rotation!Row, Server!Row
  <2>2. row \in [Req -> Server!Row \cup {None}] /\ next \in [Req -> Server!Row \cup {None}]
    BY <1>1, <1>2, <1>3, <1>4 DEF Init
  <2> QED
    BY <2>1, <2>2 DEF Init, Rotation!TypeOK, Rotation!Ended, MaxClock
<1>6. ASSUME NEW r \in Req PROVE Rotation!RequestInv(r) /\ Rotation!RowInv(r)
  BY <1>2, <1>3, <1>4 DEF Rotation!RequestInv, Rotation!RowInv
<1>7. ClientType /\ Given(stored)
  BY <1>2, <1>4 DEF Init, ClientType, Given
<1>8. ASSUME NEW r \in Req PROVE SentInv(r) /\ TokenInv(r) /\ RowBlame(r) /\ SeenBlame(r)
  BY <1>2, <1>3, <1>4 DEF SentInv, TokenInv, RowBlame, SeenBlame
<1>9. \A r, s \in Req : PresentedInv(r, s)
  BY <1>4 DEF PresentedInv
<1> QED
  BY <1>5, <1>6, <1>7, <1>8, <1>9 DEF Inv, Rotation!Inv

-----------------------------------------------------------------------------
(* The steps of the browser, which leave the table alone                   *)

\* Whatever is on record against a family stays there.
LEMMA BlameStays ==
    ASSUME \A r \in Req : body[r] # None =>
              /\ body'[r] = body[r] /\ by'[r] = by[r]
              /\ Family(body[r])' = Family(body[r])
              /\ wire[r] \in NotKept => wire'[r] = wire[r],
           NEW f, Disturbed(f)
    PROVE  Disturbed(f)'
<1>1. CASE \E r \in Req : body[r] # None /\ Family(body[r]) = f /\ wire[r] \in NotKept
  <2>1. PICK r \in Req : body[r] # None /\ Family(body[r]) = f /\ wire[r] \in NotKept
    BY <1>1
  <2>2. body'[r] # None /\ Family(body[r])' = f /\ wire'[r] \in NotKept
    BY <2>1
  <2> QED
    BY <2>2 DEF Disturbed
<1>2. CASE \E r, s \in Req : /\ body[r] # None /\ body[r] = body[s]
                             /\ Family(body[r]) = f /\ by[r] # by[s]
  <2>1. PICK r, s \in Req : /\ body[r] # None /\ body[r] = body[s]
                            /\ Family(body[r]) = f /\ by[r] # by[s]
    BY <1>2
  <2>2. /\ body'[r] # None /\ body'[r] = body'[s] /\ Family(body[r])' = f
        /\ by'[r] # by'[s]
    BY <2>1
  <2> QED
    BY <2>2 DEF Disturbed
<1> QED
  BY <1>1, <1>2 DEF Disturbed

\* A step of the browser gives a body only to a request that was not sent, and
\* takes back neither an answer nor the loss of one.
LEMMA BrowserKeeps ==
    ASSUME Inv, UNCHANGED server,
           \A r \in Req : /\ wire[r] # "unsent" => body'[r] = body[r] /\ by'[r] = by[r]
                          /\ wire[r] \in {"handled", "unsaved", "lost"} => wire'[r] = wire[r]
    PROVE  /\ Rotation!Inv'
           /\ \A r \in Req : RowBlame(r)' /\ SeenBlame(r)'
           /\ \A p \in Req : Given(p) => Given(p)'
           /\ \A r \in Req : Blamed(r) => Blamed(r)'
<1>1. UNCHANGED <<clock, row, pc, presented, seen, next>>
  BY DEF server
<1>2. Rotation!Inv'
  BY <1>1, RotationKeeps DEF Inv, Rotation!vars
<1>3. \A r \in Req : RowBlame(r)'
  BY <1>1 DEF Inv, RowBlame
<1>4. ASSUME NEW f, Disturbed(f) PROVE Disturbed(f)'
  <2>1. \A r \in Req : body[r] # None =>
              /\ body'[r] = body[r] /\ by'[r] = by[r]
              /\ Family(body[r])' = Family(body[r])
              /\ wire[r] \in NotKept => wire'[r] = wire[r]
    BY <1>1 DEF Inv, SentInv, Family, NotKept
  <2> QED
    BY <1>4, <2>1, BlameStays
<1>5. ASSUME NEW r \in Req PROVE SeenBlame(r)'
  <2>1. wire[r] = "unsent" => pc[r] = "idle"
    BY DEF Inv, SentInv
  <2>2. body'[r] # body[r] => pc'[r] = "idle"
    BY <1>1, <2>1
  <2> QED
    BY <1>1, <1>4, <2>2 DEF Inv, SeenBlame
<1>6. \A p \in Req : Given(p) => Given(p)'
  BY <1>1 DEF Given
<1>7. ASSUME NEW r \in Req, Blamed(r) PROVE Blamed(r)'
  <2>1. PICK f : f = Family(body[r]) /\ Disturbed(f)
    BY <1>7 DEF Blamed
  <2>2. body'[r] = body[r] /\ body[r] # None
    BY <1>7 DEF Blamed, Inv, SentInv
  <2>3. Disturbed(f)' /\ Family(body[r])' = f
    BY <1>1, <1>4, <2>1, <2>2 DEF Family
  <2> QED
    BY <2>2, <2>3 DEF Blamed
<1> QED
  BY <1>2, <1>3, <1>5, <1>6, <1>7

\* A request is sent by t, with the stored token or for a login: the other
\* requests stay, or are lost with the page that sent them.
Sends(t, r, b) ==
    /\ UNCHANGED <<server, stored>>
    /\ wire[r] = "unsent" /\ wire'[r] = "sent"
    /\ b \in {None, stored}
    /\ by' = [by EXCEPT ![r] = t] /\ body' = [body EXCEPT ![r] = b]
    /\ \A s \in Req \ {r} : \/ wire'[s] = wire[s]
                            \/ Pending(s) /\ by[s] = t /\ wire'[s] = "lost"
    /\ b = None => UNCHANGED flight
    /\ b # None => /\ flight' = [flight EXCEPT ![t] = r]
                   /\ \A s \in Req \ {r} : body[s] # None /\ by[s] = t
                          => wire'[s] # "sent"

LEMMA SendsKeeps ==
    ASSUME Inv, NEW t \in Tab, NEW r \in Req, NEW b, Sends(t, r, b), ClientType'
    PROVE  Inv'
<1>1. /\ wire[r] = "unsent" /\ wire'[r] = "sent" /\ by'[r] = t /\ body'[r] = b
      /\ stored' = stored
      /\ \A s \in Req \ {r} : /\ by'[s] = by[s] /\ body'[s] = body[s]
                              /\ \/ wire'[s] = wire[s]
                                 \/ Pending(s) /\ by[s] = t /\ wire'[s] = "lost"
  BY DEF Sends, Inv, ClientType
<1>2. /\ Rotation!Inv'
      /\ \A s \in Req : RowBlame(s)' /\ SeenBlame(s)'
      /\ \A p \in Req : Given(p) => Given(p)'
      /\ \A s \in Req : Blamed(s) => Blamed(s)'
  <2>1. UNCHANGED server
    BY DEF Sends
  <2>2. \A s \in Req : /\ wire[s] # "unsent" => body'[s] = body[s] /\ by'[s] = by[s]
                       /\ wire[s] \in {"handled", "unsaved", "lost"} => wire'[s] = wire[s]
    BY <1>1 DEF Pending
  <2> QED
    BY <2>1, <2>2, BrowserKeeps
<1>3. stored # None => Given(stored) /\ Given(stored)'
  BY <1>1, <1>2 DEF Inv, ClientType
<1>4. UNCHANGED <<pc, presented>>
  BY DEF Sends, server
<1>5. ASSUME NEW s \in Req PROVE SentInv(s)'
  <2>1. CASE s = r
    <3>1. body[r] = None /\ presented[r] = None
      BY <1>1, Known DEF Inv, SentInv
    <3>2. b # None => Given(b)'
      BY <1>1, <1>3 DEF Sends
    <3> QED
      BY <1>1, <1>4, <2>1, <3>1, <3>2 DEF SentInv
  <2>2. CASE s # r
    <3>1. body[s] # None => Given(body[s])'
      <4>1. body'[s] = body[s]
        BY <1>1, <2>2
      <4>2. \A p \in Req : p = body'[s] => (Given(p)' => Given(body[s])')
        OBVIOUS
      <4> QED
        BY <1>2, <4>1, <4>2 DEF Inv, SentInv, ClientType
    <3>2. wire'[s] = "unsent" => wire[s] = "unsent"
      BY <1>1, <2>2
    <3>3. wire'[s] # "unsent" => wire[s] # "unsent"
      BY <1>1, <2>2 DEF Pending
    <3> QED
      BY <1>1, <1>4, <2>2, <3>1, <3>2, <3>3 DEF Inv, SentInv
  <2> QED
    BY <2>1, <2>2
<1>6. ASSUME NEW s \in Req PROVE TokenInv(s)'
  <2>1. CASE s = r
    BY <1>1, <2>1 DEF Sends, Inv, ClientType, TokenInv, Pending
  <2>2. CASE s # r
    <3>1. Pending(s)' => Pending(s) /\ wire'[s] = wire[s]
      BY <1>1, <2>2 DEF Pending
    <3>2. wire'[s] = "handled" => wire[s] = "handled"
      BY <1>1, <2>2
    <3>4. Blamed(s) => Blamed(s)'
      BY <1>2
    <3>3. ASSUME body[s] # None, Pending(s)' PROVE flight'[by[s]] = s
      <4>1. flight[by[s]] = s
        BY <3>1, <3>3 DEF Inv, TokenInv
      <4>2. CASE b = None
        BY <4>1, <4>2 DEF Sends
      <4>3. CASE b # None
        <5>1. by[s] # t /\ by[s] \in Tab
          BY <2>2, <3>1, <3>3, <4>3 DEF Sends, Pending, Inv, SentInv
        <5> QED
          BY <4>1, <4>3, <5>1 DEF Sends, Inv, ClientType
      <4> QED
        BY <4>2, <4>3
    <3> QED
      BY <1>1, <2>2, <3>2, <3>3, <3>4 DEF Inv, TokenInv
  <2> QED
    BY <2>1, <2>2
<1>7. ASSUME NEW s \in Req, s # r, b # None, body[s] = b, by[s] = t
      PROVE  wire'[s] \in NotKept \/ Blamed(s)'
  <2>1. wire[s] # "unsent" /\ (wire[s] = "handled" => Blamed(s))
    BY <1>7 DEF Sends, Inv, SentInv, TokenInv
  <2>2. wire'[s] # "sent"
    BY <1>7 DEF Sends
  <2>3. wire[s] \in {"sent", "handled", "unsaved", "lost"}
    BY <2>1 DEF Inv, ClientType
  <2>4. wire[s] = "handled" => Blamed(s)'
    BY <1>2, <2>1
  <2> QED
    BY <1>1, <1>7, <2>2, <2>3, <2>4 DEF NotKept
<1>8. ASSUME NEW s \in Req, NEW u \in Req PROVE PresentedInv(s, u)'
  <2>1. CASE s = r \/ u = r
    <3> SUFFICES ASSUME s # u, body'[s] # None, body'[s] = body'[u], by'[s] = by'[u]
                 PROVE  wire'[s] \in NotKept \/ wire'[u] \in NotKept \/ Blamed(s)'
      BY DEF PresentedInv
    <3>1. Blamed(u)' => Blamed(s)'
      BY DEF Blamed
    <3>2. CASE s = r
      BY <1>1, <1>7, <3>1, <3>2
    <3>3. CASE u = r
      BY <1>1, <1>7, <3>3
    <3> QED
      BY <2>1, <3>2, <3>3
  <2>2. CASE s # r /\ u # r
    <3>1. \A q \in {s, u} : wire[q] \in NotKept => wire'[q] \in NotKept
      BY <1>1, <2>2 DEF Pending, NotKept
    <3>2. Blamed(s) => Blamed(s)'
      BY <1>2
    <3> QED
      BY <1>1, <2>2, <3>1, <3>2 DEF Inv, PresentedInv
  <2> QED
    BY <2>1, <2>2
<1> QED
  BY <1>1, <1>2, <1>3, <1>5, <1>6, <1>8 DEF Inv

\* An answer is handled, or known to be lost.
Lands(r, as) ==
    /\ UNCHANGED <<server, by, body>>
    /\ Pending(r) /\ as \in {"handled", "unsaved", "lost"}
    /\ wire' = [wire EXCEPT ![r] = as]
    /\ flight' = Landed(r)
    /\ \/ stored' = None
       \/ stored' = r /\ pc[r] = "ok" /\ as = "handled"
       \/ stored' = stored /\ (as \in NotKept \/ body[r] = None \/ Blamed(r))

LEMMA LandsKeeps ==
    ASSUME Inv, NEW r \in Req, NEW as, Lands(r, as)
    PROVE  Inv'
<1>1. /\ wire[r] = "sent" /\ wire'[r] = as /\ as \in {"handled", "unsaved", "lost"}
      /\ \A s \in Req \ {r} : wire'[s] = wire[s]
      /\ by' = by /\ body' = body /\ UNCHANGED <<pc, presented>>
  BY DEF Lands, Pending, Inv, ClientType, server
<1>2. by[r] \in Tab
  BY <1>1 DEF Inv, SentInv
<1>3. ClientType'
  <2>1. wire' \in [Req -> {"unsent", "sent", "handled", "unsaved", "lost"}]
    BY DEF Lands, Inv, ClientType
  <2>2. flight' \in [Tab -> Req \cup {None}]
    BY <1>2 DEF Lands, Landed, Inv, ClientType
  <2>3. stored' \in Req \cup {None}
    BY DEF Lands, Inv, ClientType
  <2> QED
    BY <1>1, <2>1, <2>2, <2>3 DEF Inv, ClientType
<1>4. /\ Rotation!Inv'
      /\ \A s \in Req : RowBlame(s)' /\ SeenBlame(s)'
      /\ \A p \in Req : Given(p) => Given(p)'
      /\ \A s \in Req : Blamed(s) => Blamed(s)'
  <2>1. \A s \in Req : /\ wire[s] # "unsent" => body'[s] = body[s] /\ by'[s] = by[s]
                       /\ wire[s] \in {"handled", "unsaved", "lost"} => wire'[s] = wire[s]
    BY <1>1
  <2> QED
    BY <2>1, BrowserKeeps DEF Lands
<1>5. stored' # None => Given(stored)'
  <2>1. CASE stored' = stored /\ stored # None
    <3>1. stored \in Req /\ Given(stored)
      BY <2>1 DEF Inv, ClientType
    <3>2. PICK p \in Req : p = stored /\ Given(p)'
      BY <1>4, <3>1
    <3> QED
      BY <2>1, <3>2 DEF Given
  <2>2. CASE stored' = r /\ pc[r] = "ok" /\ as = "handled"
    BY <1>1, <2>2 DEF Given
  <2> QED
    BY <2>1, <2>2 DEF Lands
<1>6. ASSUME NEW s \in Req PROVE SentInv(s)'
  <2>1. body[s] # None => Given(body[s])'
    <3> SUFFICES ASSUME body[s] # None PROVE Given(body[s])'
      OBVIOUS
    <3>1. body[s] \in Req /\ Given(body[s])
      BY DEF Inv, SentInv, ClientType
    <3>2. PICK p \in Req : p = body[s] /\ Given(p)'
      BY <1>4, <3>1
    <3> QED
      BY <1>1, <3>2 DEF Given
  <2>2. /\ wire'[s] = "unsent" => wire[s] = "unsent"
        /\ wire'[s] # "unsent" => wire[s] # "unsent"
    BY <1>1
  <2> QED
    BY <1>1, <2>1, <2>2 DEF Inv, SentInv
<1>7. ASSUME NEW s \in Req PROVE TokenInv(s)'
  <2> SUFFICES ASSUME body[s] # None PROVE TokenInv(s)'
    BY <1>1 DEF TokenInv
  <2>1. Pending(s)' => flight'[by[s]] = s
    <3> SUFFICES ASSUME Pending(s)' PROVE flight'[by[s]] = s
      OBVIOUS
    <3>1. s # r /\ Pending(s)
      BY <1>1 DEF Pending
    <3>2. flight[by[s]] = s /\ by[s] \in Tab
      BY <3>1 DEF Inv, TokenInv, SentInv, Pending
    <3> QED
      BY <1>2, <3>1, <3>2 DEF Lands, Landed, Inv, ClientType
  <2>2. wire'[s] = "handled" => stored' # body[s] \/ Blamed(s)'
    <3> SUFFICES ASSUME wire'[s] = "handled", ~Blamed(s)' PROVE stored' # body[s]
      OBVIOUS
    <3>1. CASE stored' = None
      BY <3>1
    <3>2. CASE stored' = r
      <4>1. wire[body[s]] = "handled"
        BY DEF Inv, SentInv, Given
      <4> QED
        BY <1>1, <3>2, <4>1
    <3>3. CASE stored' = stored /\ (as \in NotKept \/ body[r] = None \/ Blamed(r))
      <4>1. ~Blamed(s)
        BY <1>4
      <4>2. s # r
        BY <1>1, <3>3, <4>1 DEF NotKept
      <4> QED
        BY <1>1, <3>3, <4>1, <4>2 DEF Inv, TokenInv
    <3> QED
      BY <3>1, <3>2, <3>3 DEF Lands
  <2> QED
    BY <1>1, <2>1, <2>2 DEF TokenInv
<1>8. ASSUME NEW s \in Req, NEW u \in Req PROVE PresentedInv(s, u)'
  <2>1. \A q \in {s, u} : wire[q] \in NotKept => wire'[q] \in NotKept
    BY <1>1 DEF NotKept
  <2>2. Blamed(s) => Blamed(s)'
    BY <1>4
  <2> QED
    BY <1>1, <2>1, <2>2 DEF Inv, PresentedInv
<1> QED
  BY <1>3, <1>4, <1>5, <1>6, <1>7, <1>8 DEF Inv

\* A tab forgets: it signs out, or is loaded again and reads no stored token.
\* Its requests stay, or are lost.
Forgets(t) ==
    /\ UNCHANGED <<server, by, body>>
    /\ stored' \in {None, stored}
    /\ \A s \in Req : \/ wire'[s] = wire[s]
                      \/ wire[s] = "sent" /\ wire'[s] = "lost"
    /\ \/ UNCHANGED flight
       \/ /\ flight' = [flight EXCEPT ![t] = None]
          /\ \A s \in Req : by[s] = t => wire'[s] # "sent"

LEMMA ForgetsKeeps ==
    ASSUME Inv, NEW t \in Tab, Forgets(t), ClientType'
    PROVE  Inv'
<1>1. /\ by' = by /\ body' = body /\ UNCHANGED <<pc, presented>>
      /\ stored' \in {None, stored}
      /\ \A s \in Req : \/ wire'[s] = wire[s]
                        \/ wire[s] = "sent" /\ wire'[s] = "lost"
  BY DEF Forgets, server
<1>2. /\ Rotation!Inv'
      /\ \A s \in Req : RowBlame(s)' /\ SeenBlame(s)'
      /\ \A p \in Req : Given(p) => Given(p)'
      /\ \A s \in Req : Blamed(s) => Blamed(s)'
  <2>1. \A s \in Req : /\ wire[s] # "unsent" => body'[s] = body[s] /\ by'[s] = by[s]
                       /\ wire[s] \in {"handled", "unsaved", "lost"} => wire'[s] = wire[s]
    BY <1>1
  <2> QED
    BY <2>1, BrowserKeeps DEF Forgets
<1>3. ASSUME NEW s \in Req PROVE SentInv(s)'
  <2>1. body[s] # None => Given(body[s])'
    <3> SUFFICES ASSUME body[s] # None PROVE Given(body[s])'
      OBVIOUS
    <3>1. body[s] \in Req /\ Given(body[s])
      BY DEF Inv, SentInv, ClientType
    <3>2. PICK p \in Req : p = body[s] /\ Given(p)'
      BY <1>2, <3>1
    <3> QED
      BY <1>1, <3>2 DEF Given
  <2>2. /\ wire'[s] = "unsent" => wire[s] = "unsent"
        /\ wire'[s] # "unsent" => wire[s] # "unsent"
    BY <1>1
  <2> QED
    BY <1>1, <2>1, <2>2 DEF Inv, SentInv
<1>4. ASSUME NEW s \in Req PROVE TokenInv(s)'
  <2>1. ASSUME body[s] # None, Pending(s)' PROVE flight'[by[s]] = s
    <3>1. Pending(s)
      BY <1>1, <2>1 DEF Pending
    <3>2. flight[by[s]] = s /\ by[s] \in Tab
      BY <2>1, <3>1 DEF Inv, TokenInv, SentInv, Pending
    <3> QED
      BY <2>1, <3>2 DEF Forgets, Pending, Inv, ClientType
  <2>2. ASSUME body[s] # None, wire'[s] = "handled", ~Blamed(s)' PROVE stored' # body[s]
    <3>1. wire[s] = "handled" /\ ~Blamed(s)
      BY <1>1, <1>2, <2>2
    <3> QED
      BY <1>1, <2>2, <3>1 DEF Inv, TokenInv
  <2> QED
    BY <1>1, <2>1, <2>2 DEF TokenInv
<1>5. ASSUME NEW s \in Req, NEW u \in Req PROVE PresentedInv(s, u)'
  <2>1. \A q \in {s, u} : wire[q] \in NotKept => wire'[q] \in NotKept
    BY <1>1 DEF NotKept
  <2>2. Blamed(s) => Blamed(s)'
    BY <1>2
  <2> QED
    BY <1>1, <2>1, <2>2 DEF Inv, PresentedInv
<1>6. ASSUME stored' # None PROVE Given(stored)'
  <2>1. PICK p \in Req : p = stored /\ Given(p)
    BY <1>1, <1>6 DEF Inv, ClientType
  <2>2. Given(p)' /\ p = stored'
    BY <1>1, <1>2, <1>6, <2>1
  <2> QED
    BY <2>2 DEF Given
<1> QED
  BY <1>2, <1>3, <1>4, <1>5, <1>6 DEF Inv

\* Nothing that Inv speaks of changes.
LEMMA QuietKeeps ==
    ASSUME Inv, UNCHANGED <<server, stored, flight, by, body, wire>>
    PROVE  Inv'
<1>1. UNCHANGED <<clock, row, pc, presented, seen, next>>
  BY DEF server
<1>2. Rotation!Inv'
  BY <1>1, RotationKeeps DEF Inv, Rotation!vars
<1>3. \A r \in Req : RowBlame(r)' /\ SeenBlame(r)'
  BY <1>1 DEF Inv, RowBlame, SeenBlame, Disturbed, Family
<1>4. \A r \in Req : SentInv(r)' /\ TokenInv(r)'
  BY <1>1 DEF Inv, SentInv, TokenInv, Given, Pending, Blamed, Disturbed, Family
<1>5. \A r, s \in Req : PresentedInv(r, s)'
  BY <1>1 DEF Inv, PresentedInv, Blamed, Disturbed, Family
<1>6. ClientType' /\ (stored' # None => Given(stored)')
  BY <1>1 DEF Inv, ClientType, Given
<1> QED
  BY <1>2, <1>3, <1>4, <1>5, <1>6 DEF Inv

\* A call that was sent has its tab.
CallInv ==
    /\ call \in [Call -> Calls]
    /\ \A c \in Call : call[c].at = "sent" => call[c].tab \in Tab

LEMMA SendIsTyped ==
    ASSUME ClientType, NEW t \in Tab, NEW r \in Req, NEW b \in Req \cup {None},
           NEW w \in [Req -> {"unsent", "sent", "handled", "unsaved", "lost"}],
           by' = [by EXCEPT ![r] = t], body' = [body EXCEPT ![r] = b],
           wire' = [w EXCEPT ![r] = "sent"], UNCHANGED stored,
           UNCHANGED flight \/ flight' = [flight EXCEPT ![t] = r]
    PROVE  ClientType'
BY DEF ClientType

LEMMA SubmitLoginKeeps ==
    ASSUME Inv, NEW t \in Tab, SubmitLogin(t)
    PROVE  Inv'
<1>1. PICK r \in Unsent : Send(t, r, None)
  BY DEF SubmitLogin
<1>2. r \in Req /\ wire[r] = "unsent"
  BY DEF Unsent
<1>3. /\ by' = [by EXCEPT ![r] = t] /\ body' = [body EXCEPT ![r] = None]
      /\ wire' = [wire EXCEPT ![r] = "sent"]
      /\ UNCHANGED <<server, stored, flight>>
  BY <1>1 DEF Send, SubmitLogin
<1>4. ClientType'
  BY <1>2, <1>3, SendIsTyped DEF Inv, ClientType
<1>5. Sends(t, r, None)
  BY <1>2, <1>3 DEF Sends, Inv, ClientType
<1> QED
  BY <1>2, <1>4, <1>5, SendsKeeps

LEMMA CallExpiredKeeps ==
    ASSUME Inv, CallInv, NEW c \in Call, CallExpired(c)
    PROVE  Inv'
<1>1. PICK t \in Tab : t = call[c].tab /\ AwaitRefresh(c, t)
  BY DEF CallExpired, CallInv
<1>2. UNCHANGED <<server, stored>>
  BY DEF CallExpired
<1>3. CASE UNCHANGED <<flight, by, body, wire>>
  BY <1>2, <1>3, QuietKeeps
<1>4. CASE flight[t] = None /\ StartRefresh(t)
  <2>1. PICK r \in Unsent : /\ stored # None /\ Send(t, r, stored)
                            /\ flight' = [flight EXCEPT ![t] = r]
    BY <1>4 DEF StartRefresh
  <2>2. r \in Req /\ wire[r] = "unsent"
    BY DEF Unsent
  <2>3. /\ by' = [by EXCEPT ![r] = t] /\ body' = [body EXCEPT ![r] = stored]
        /\ wire' = [wire EXCEPT ![r] = "sent"]
    BY <2>1 DEF Send
  <2>4. ClientType'
    BY <1>2, <2>1, <2>2, <2>3, SendIsTyped DEF Inv, ClientType
  <2>5. \A s \in Req \ {r} : wire'[s] = wire[s]
    BY <2>3 DEF Inv, ClientType
  <2>6. ASSUME NEW s \in Req \ {r}, body[s] # None, by[s] = t
        PROVE  wire'[s] # "sent"
    <3>1. Pending(s) => flight[t] = s
      BY <2>6 DEF Inv, TokenInv
    <3> QED
      BY <1>4, <2>5, <3>1, FirstIsSent DEF Pending
  <2>7. Sends(t, r, stored)
    BY <1>2, <2>1, <2>2, <2>3, <2>5, <2>6 DEF Sends, Inv, ClientType
  <2> QED
    BY <2>2, <2>4, <2>7, SendsKeeps
<1> QED
  BY <1>1, <1>3, <1>4 DEF AwaitRefresh, NoneInFlight

LEMMA LogoutKeeps ==
    ASSUME Inv, NEW t \in Tab, Logout(t)
    PROVE  Inv'
<1>1. UNCHANGED <<server, by, body, flight, wire>> /\ stored' \in {None, stored}
  BY DEF Logout, ClearSession
<1>2. Forgets(t)
  BY <1>1 DEF Forgets
<1>3. ClientType'
  BY <1>1 DEF Inv, ClientType
<1> QED
  BY <1>2, <1>3, ForgetsKeeps

LEMMA LoadKeeps ==
    ASSUME Inv, NEW t \in Tab, Load(t)
    PROVE  Inv'
<1> DEFINE left == [r \in Req |-> IF r \in Gone(t) THEN "lost" ELSE wire[r]]
<1>1. UNCHANGED <<server, stored>>
  BY DEF Load
<1>2. left \in [Req -> {"unsent", "sent", "handled", "unsaved", "lost"}]
  BY DEF Inv, ClientType
<1>3. \A s \in Req : \/ left[s] = wire[s] /\ (by[s] = t => wire[s] # "sent")
                     \/ left[s] = wire[s] /\ by[s] # t
                     \/ Pending(s) /\ by[s] = t /\ left[s] = "lost"
  BY DEF Gone, Pending
<1>4. \/ /\ wire' = left
         /\ flight' = [flight EXCEPT ![t] = None] /\ UNCHANGED <<by, body>>
      \/ /\ stored # None
         /\ \E r \in Unsent :
               /\ by' = [by EXCEPT ![r] = t] /\ body' = [body EXCEPT ![r] = stored]
               /\ wire' = [left EXCEPT ![r] = "sent"]
               /\ flight' = [flight EXCEPT ![t] = r]
  BY DEF Load
<1> HIDE DEF left
<1>5. CASE /\ wire' = left
           /\ flight' = [flight EXCEPT ![t] = None] /\ UNCHANGED <<by, body>>
  <2>1. ClientType'
    BY <1>1, <1>2, <1>5 DEF Inv, ClientType
  <2>2. Forgets(t)
    <3>1. \A s \in Req : \/ wire'[s] = wire[s]
                         \/ wire[s] = "sent" /\ wire'[s] = "lost"
      BY <1>3, <1>5 DEF Pending
    <3>2. \A s \in Req : by[s] = t => wire'[s] # "sent"
      BY <1>3, <1>5
    <3> QED
      BY <1>1, <1>5, <3>1, <3>2 DEF Forgets
  <2> QED
    BY <2>1, <2>2, ForgetsKeeps
<1>6. ASSUME stored # None, NEW r \in Unsent,
             by' = [by EXCEPT ![r] = t], body' = [body EXCEPT ![r] = stored],
             wire' = [left EXCEPT ![r] = "sent"],
             flight' = [flight EXCEPT ![t] = r]
      PROVE  Inv'
  <2>1. r \in Req /\ wire[r] = "unsent"
    BY DEF Unsent
  <2>2. ClientType'
    BY <1>1, <1>2, <1>6, <2>1, SendIsTyped DEF Inv, ClientType
  <2>3. wire'[r] = "sent" /\ \A s \in Req \ {r} : wire'[s] = left[s]
    BY <1>2, <1>6, <2>1
  <2>4. \A s \in Req \ {r} : /\ \/ wire'[s] = wire[s]
                                \/ Pending(s) /\ by[s] = t /\ wire'[s] = "lost"
                             /\ by[s] = t => wire'[s] # "sent"
    BY <1>3, <2>3
  <2>5. Sends(t, r, stored)
    BY <1>1, <1>6, <2>1, <2>3, <2>4 DEF Sends
  <2> QED
    BY <2>1, <2>2, <2>5, SendsKeeps
<1> QED
  BY <1>4, <1>5, <1>6

\* A refresh is refused only if the family of its token was disturbed.
LEMMA RefusedForCause ==
    ASSUME Inv, NEW r \in Req, body[r] # None, pc[r] \in {"unauthorized", "replay"}
    PROVE  Blamed(r)
<1>1. presented[r] # None /\ seen[r].revoked
  BY DEF Inv, SeenBlame
<1>2. Disturbed(seen[r].family)
  BY <1>1 DEF Inv, SeenBlame
<1>3. presented[r] = body[r] /\ row[presented[r]].family = seen[r].family
  BY <1>1, Known DEF Inv, SentInv
<1> QED
  BY <1>2, <1>3 DEF Blamed, Family

LEMMA AnswerKeeps ==
    ASSUME Inv, NEW r \in Req, Settle(r) \/ Drop(r)
    PROVE  Inv'
<1>1. CASE Succeed(r)
  <2>1. PICK saved \in BOOLEAN : /\ TakeSession(by[r], r, saved)
                                 /\ Land(r, IF saved THEN "handled" ELSE "unsaved")
    BY <1>1 DEF Succeed
  <2>2. /\ Pending(r) /\ pc[r] = "ok" /\ flight' = Landed(r)
        /\ stored' = IF saved THEN r ELSE stored
    BY <1>1, <2>1 DEF Succeed, TakeSession
  <2>3. CASE saved
    <3>1. Lands(r, "handled")
      BY <2>1, <2>2, <2>3 DEF Land, Lands
    <3> QED
      BY <3>1, LandsKeeps
  <2>4. CASE ~saved
    <3>1. Lands(r, "unsaved")
      BY <2>1, <2>2, <2>4 DEF Land, Lands, NotKept
    <3> QED
      BY <3>1, LandsKeeps
  <2> QED
    BY <2>3, <2>4
<1>2. CASE Expel(r)
  <2>1. Blamed(r)
    BY <1>2, RefusedForCause DEF Expel
  <2>2. Lands(r, "handled")
    BY <1>2, <2>1 DEF Expel, ClearSession, Land, Lands
  <2> QED
    BY <2>2, LandsKeeps
<1>3. CASE Refused(r)
  <2>1. Lands(r, "handled")
    BY <1>3 DEF Refused, GiveUp, Land, Lands
  <2> QED
    BY <2>1, LandsKeeps
<1>4. CASE GiveUp(r, "lost")
  <2>1. Lands(r, "lost")
    BY <1>4 DEF GiveUp, Land, Lands, NotKept
  <2> QED
    BY <2>1, LandsKeeps
<1> QED
  BY <1>1, <1>2, <1>3, <1>4 DEF Settle, Broken, Drop

-----------------------------------------------------------------------------
(* The steps of the service, which leave the browser alone                 *)

RowsServed(r) ==
    \/ row' = row
    \/ /\ row[r] = None /\ next[r] # None /\ ~next[r].revoked
       /\ row' = [row EXCEPT ![r] = next[r]]
    \/ /\ pc[r] = "resolved"
       /\ row' = [row EXCEPT ![presented[r]] = [@ EXCEPT !.revoked = TRUE, !.replacedBy = r]]
    \/ /\ pc[r] = "replaying"
       /\ row' = [t \in Req |-> IF row[t] # None /\ row[t].family = seen[r].family
                                THEN [row[t] EXCEPT !.revoked = TRUE] ELSE row[t]]

\* One request of the service moves: it presents its body if it begins, and
\* is refused only what it saw revoked.
Serves(r) ==
    /\ UNCHANGED <<clock, stored, flight, by, body, wire>>
    /\ wire[r] # "unsent" /\ pc[r] # "ok" /\ pc'[r] # "idle"
    /\ \A s \in Req \ {r} : /\ pc'[s] = pc[s] /\ presented'[s] = presented[s]
                            /\ seen'[s] = seen[s] /\ next'[s] = next[s]
    /\ \/ presented'[r] = presented[r] /\ seen'[r] = seen[r]
       \/ /\ pc[r] = "idle" /\ body[r] # None /\ row' = row
          /\ presented'[r] = body[r] /\ seen'[r] = row[body[r]]
    /\ next'[r] = next[r] \/ (next'[r].expiresAt = 1 /\ next'[r].replacedBy = None)
    /\ body[r] # None /\ pc'[r] \in {"unauthorized", "replaying", "familyRevoked", "replay"}
          => /\ presented'[r] = presented[r] /\ seen'[r] = seen[r]
             /\ presented[r] # None /\ seen[r].revoked
    /\ RowsServed(r)

\* A token that has not expired is refused only if it was revoked.
LEMMA RefusedIfRevoked ==
    ASSUME Inv, NEW r \in Req, pc[r] = "found", Server!DecideRotation(seen[r], clock) # "Allow"
    PROVE  presented[r] # None /\ seen[r].revoked
<1>1. clock = 0 /\ presented[r] # None /\ seen[r] \in Server!Row /\ seen[r] # None
  BY Known
<1>2. seen[r].expiresAt = 1
  BY <1>1 DEF Inv, SeenBlame
<1>3. seen[r].revoked \in BOOLEAN
  BY <1>1 DEF Server!Row
<1> QED
  BY <1>1, <1>2, <1>3 DEF Server!DecideRotation

LEMMA TokenIsNew ==
    ASSUME clock = 0, NEW a, NEW f
    PROVE  LET q == Server!NewRefreshToken(a, f) IN q.expiresAt = 1 /\ q.replacedBy = None
BY DEF Server!NewRefreshToken, TTL

LEMMA ArriveServes ==
    ASSUME Inv, NEW r \in Req, Arrive(r)
    PROVE  Serves(r)
<1>1. /\ clock = 0 /\ pc \in [Req -> {"idle", "verified", "found", "allowed", "resolved",
                 "replaying", "revoked", "stored", "familyRevoked",
                 "ok", "unauthorized", "replay", "failed", "lost"}]
      /\ DOMAIN presented = Req /\ DOMAIN seen = Req /\ DOMAIN next = Req
  BY Known
<1>2. UNCHANGED <<stored, flight, by, body, wire>> /\ wire[r] # "unsent"
  BY DEF Arrive, client
<1>3. ASSUME NEW a \in Account, body[r] = None, Server!LoginVerify(r, a) PROVE Serves(r)
  BY <1>1, <1>2, <1>3, TokenIsNew DEF Server!LoginVerify, Server!Goto, Serves, RowsServed
<1>4. CASE body[r] = None /\ Server!LoginReject(r)
  BY <1>1, <1>2, <1>4 DEF Server!LoginReject, Server!Goto, Serves, RowsServed
<1>5. CASE body[r] # None /\ Server!RefreshFind(r, body[r])
  BY <1>1, <1>2, <1>5 DEF Server!RefreshFind, Server!Goto, Serves, RowsServed
<1> QED
  BY <1>3, <1>4, <1>5 DEF Arrive

LEMMA ServeServes ==
    ASSUME Inv, NEW r \in Req, Serve(r)
    PROVE  Serves(r)
<1> USE DEF Server!Goto
<1>1. /\ clock = 0 /\ pc \in [Req -> {"idle", "verified", "found", "allowed", "resolved",
                 "replaying", "revoked", "stored", "familyRevoked",
                 "ok", "unauthorized", "replay", "failed", "lost"}]
      /\ DOMAIN presented = Req /\ DOMAIN seen = Req /\ DOMAIN next = Req
  BY Known
<1>2. UNCHANGED <<stored, flight, by, body, wire>>
  BY DEF Serve, client
<1>3. pc[r] # "idle" => wire[r] # "unsent"
  BY DEF Inv, SentInv
<1>4. CASE Server!LoginStore(r) \/ Server!StoreSuccessor(r)
  <2>1. row[r] = None /\ next[r] # None /\ ~next[r].revoked
    BY <1>4, Known DEF Server!LoginStore, Server!StoreSuccessor
  <2> QED
    BY <1>1, <1>2, <1>3, <1>4, <2>1
    DEF Server!LoginStore, Server!StoreSuccessor, Serves, RowsServed
<1>5. CASE Server!RefreshReject(r) \/ Server!RefreshReplay(r)
  <2>1. presented[r] # None /\ seen[r].revoked
    BY <1>5, RefusedIfRevoked DEF Server!RefreshReject, Server!RefreshReplay
  <2> QED
    BY <1>1, <1>2, <1>3, <1>5, <2>1
    DEF Server!RefreshReject, Server!RefreshReplay, Serves, RowsServed
<1>6. CASE Server!RefreshAllow(r) \/ Server!Answer(r)
  BY <1>1, <1>2, <1>3, <1>6 DEF Server!RefreshAllow, Server!Answer, Serves, RowsServed
<1>7. CASE Server!RevokeFamily(r) \/ Server!EmitReplay(r)
  <2>1. body[r] # None => presented[r] # None /\ seen[r].revoked
    BY <1>7 DEF Server!RevokeFamily, Server!EmitReplay, Inv, SeenBlame
  <2> QED
    BY <1>1, <1>2, <1>3, <1>7, <2>1
    DEF Server!RevokeFamily, Server!EmitReplay, Serves, RowsServed
<1>8. CASE Server!ResolveRole(r)
  BY <1>1, <1>2, <1>3, <1>8, TokenIsNew DEF Server!ResolveRole, Serves, RowsServed
<1>9. CASE Server!Revoke(r)
  BY <1>1, <1>2, <1>3, <1>9 DEF Server!Revoke, Serves, RowsServed
<1> QED
  BY <1>4, <1>5, <1>6, <1>7, <1>8, <1>9 DEF Serve, Server!Proceed

LEMMA CrashServes ==
    ASSUME Inv, NEW r \in Req, Crash(r)
    PROVE  Serves(r)
<1>1. /\ pc \in [Req -> {"idle", "verified", "found", "allowed", "resolved",
                 "replaying", "revoked", "stored", "familyRevoked",
                 "ok", "unauthorized", "replay", "failed", "lost"}]
  BY Known
<1>2. UNCHANGED <<stored, flight, by, body, wire>>
  BY DEF Crash, client
<1>3. pc[r] # "idle" => wire[r] # "unsent"
  BY DEF Inv, SentInv
<1> QED
  BY <1>1, <1>2, <1>3
  DEF Crash, Server!Fail, Server!Unwritten, Server!Written, Serves, RowsServed

\* What was presented stays presented, rows keep their family, and so what is
\* on record against a family stays there.
LEMMA ServedStays ==
    ASSUME Inv, NEW r \in Req, Serves(r), Rotation!RowsKept
    PROVE  /\ \A t \in Req : row[t] # None => /\ row'[t] # None
                                              /\ row'[t].family = row[t].family
                                              /\ row'[t].expiresAt = row[t].expiresAt
           /\ \A s \in Req : presented[s] # None => presented'[s] = presented[s] /\ seen'[s] = seen[s]
           /\ \A p \in Req : Given(p) => Given(p)' /\ row[p] # None
           /\ \A f : Disturbed(f) => Disturbed(f)'
           /\ \A s \in Req : Blamed(s) => Blamed(s)'
<1>1. \A t \in Req : row[t] # None => /\ row'[t] # None
                                      /\ row'[t].family = row[t].family
                                      /\ row'[t].expiresAt = row[t].expiresAt
  BY DEF Rotation!RowsKept, Rotation!Keeps
<1>2. ASSUME NEW s \in Req, presented[s] # None
      PROVE  presented'[s] = presented[s] /\ seen'[s] = seen[s]
  <2>1. pc[s] # "idle"
    BY <1>2, Known
  <2> QED
    BY <1>2, <2>1 DEF Serves
<1>3. ASSUME NEW p \in Req, Given(p) PROVE Given(p)' /\ row[p] # None
  <2>1. pc[p] = "ok" /\ row[p] # None
    BY <1>3, Known DEF Given
  <2>2. p # r
    BY <2>1 DEF Serves
  <2> QED
    BY <1>3, <2>1, <2>2 DEF Given, Serves
<1>4. ASSUME NEW s \in Req, body[s] # None
      PROVE  /\ body'[s] = body[s] /\ by'[s] = by[s]
             /\ Family(body[s])' = Family(body[s])
             /\ wire[s] \in NotKept => wire'[s] = wire[s]
  <2>1. UNCHANGED <<body, by, wire>>
    BY DEF Serves
  <2>2. PICK p \in Req : p = body[s] /\ Given(p)
    BY <1>4 DEF Inv, SentInv, Given
  <2>3. row'[p].family = row[p].family
    BY <1>1, <1>3, <2>2
  <2>4. body'[s] = p
    BY <2>1, <2>2
  <2> QED
    BY <2>1, <2>2, <2>3, <2>4 DEF Family
<1>5. ASSUME NEW f, Disturbed(f) PROVE Disturbed(f)'
  BY <1>4, <1>5, BlameStays
<1>6. ASSUME NEW s \in Req, Blamed(s) PROVE Blamed(s)'
  <2>1. PICK f : f = Family(body[s]) /\ Disturbed(f) /\ body[s] # None
    BY <1>6 DEF Blamed
  <2>2. body'[s] = body[s] /\ Family(body[s])' = f /\ Disturbed(f)'
    BY <1>4, <1>5, <2>1
  <2> QED
    BY <2>1, <2>2 DEF Blamed
<1> QED
  BY <1>1, <1>2, <1>3, <1>5, <1>6

\* Every revocation has its author, the one of this step included.
LEMMA ServedRowBlame ==
    ASSUME Inv, NEW r \in Req, Serves(r), Rotation!RowsKept, Rotation!Inv', NEW t \in Req
    PROVE  RowBlame(t)'
<1> DEFINE Witness(s, f) == presented'[s] # None /\ seen'[s].revoked /\ seen'[s].family = f
<1>1. /\ \A s \in Req : presented[s] # None => presented'[s] = presented[s] /\ seen'[s] = seen[s]
      /\ row[t] # None => /\ row'[t] # None
                          /\ row'[t].family = row[t].family
                          /\ row'[t].expiresAt = row[t].expiresAt
  BY ServedStays
<1>2. /\ row \in [Req -> Server!Row \cup {None}] /\ presented \in [Req -> Req \cup {None}]
      /\ next \in [Req -> Server!Row \cup {None}]
      /\ seen \in [Req -> Server!Row \cup {None}]
  BY Known
<1>3. None \notin Req \cup Server!Row
  BY SessionAssumption
<1> SUFFICES ASSUME row'[t] # None
             PROVE  /\ row'[t].expiresAt = 1
                    /\ row'[t].replacedBy # None => presented'[row'[t].replacedBy] = t
                    /\ row'[t].revoked /\ row'[t].replacedBy = None =>
                          \E s \in Req : Witness(s, row'[t].family)
  BY DEF RowBlame
<1>4. CASE row[t] # None /\ row'[t] = row[t]
  <2>1. /\ row[t].expiresAt = 1
        /\ row[t].replacedBy # None => presented[row[t].replacedBy] = t
        /\ row[t].revoked /\ row[t].replacedBy = None =>
              \E s \in Req : presented[s] # None /\ seen[s].revoked /\ seen[s].family = row[t].family
    BY <1>4 DEF Inv, RowBlame
  <2>2. row[t].replacedBy \in Req \cup {None}
    BY <1>2, <1>4 DEF Server!Row
  <2>3. row[t].replacedBy # None => presented'[row[t].replacedBy] = t
    BY <1>1, <1>3, <2>1, <2>2
  <2>4. row[t].revoked /\ row[t].replacedBy = None => \E s \in Req : Witness(s, row[t].family)
    BY <1>1, <2>1
  <2> HIDE DEF Witness
  <2> QED
    BY <1>4, <2>1, <2>3, <2>4
<1>5. CASE row[t] = None \/ row'[t] # row[t]
  <2>1. row' # row
    BY <1>5
  <2>2. presented'[r] = presented[r] /\ seen'[r] = seen[r]
    BY <2>1 DEF Serves
  <2>3. CASE /\ row[r] = None /\ next[r] # None /\ ~next[r].revoked
             /\ row' = [row EXCEPT ![r] = next[r]]
    <3>1. t = r /\ row'[t] = next[r]
      BY <1>2, <1>5, <2>3
    <3>2. next[r].expiresAt = 1 /\ next[r].replacedBy = None
      BY <2>3 DEF Inv, SeenBlame
    <3> HIDE DEF Witness
    <3> QED
      BY <2>3, <3>1, <3>2
  <2>4. CASE /\ pc[r] = "resolved"
             /\ row' = [row EXCEPT ![presented[r]] = [@ EXCEPT !.revoked = TRUE, !.replacedBy = r]]
    <3>1. presented[r] \in Req /\ row[presented[r]] \in Server!Row
      BY <1>2, <2>4, Known
    <3>2. t = presented[r] /\ row[t] \in Server!Row
      BY <1>2, <1>5, <2>4, <3>1
    <3>3. row'[t] = [row[t] EXCEPT !.revoked = TRUE, !.replacedBy = r]
      BY <1>2, <2>4, <3>1, <3>2
    <3>4. row'[t].replacedBy = r /\ row'[t].expiresAt = row[t].expiresAt
      BY <3>2, <3>3 DEF Server!Row
    <3>5. row[t].expiresAt = 1
      BY <1>3, <3>2 DEF Inv, RowBlame
    <3>6. r # None
      BY <1>3
    <3> HIDE DEF Witness
    <3> QED
      BY <2>2, <3>2, <3>4, <3>5, <3>6
  <2>5. CASE /\ pc[r] = "replaying"
             /\ row' = [u \in Req |-> IF row[u] # None /\ row[u].family = seen[r].family
                                      THEN [row[u] EXCEPT !.revoked = TRUE] ELSE row[u]]
    <3>1. row[t] # None /\ row[t].family = seen[r].family
      BY <1>5, <2>5
    <3>2. row[t] \in Server!Row /\ row'[t] = [row[t] EXCEPT !.revoked = TRUE]
      BY <1>2, <2>5, <3>1
    <3>3. /\ row'[t].replacedBy = row[t].replacedBy /\ row'[t].family = row[t].family
          /\ row'[t].expiresAt = row[t].expiresAt
      BY <3>2 DEF Server!Row
    <3>4. row[t].expiresAt = 1 /\ (row[t].replacedBy # None => presented[row[t].replacedBy] = t)
      BY <3>1 DEF Inv, RowBlame
    <3>5. row[t].replacedBy \in Req \cup {None}
      BY <3>2 DEF Server!Row
    <3>6. row'[t].replacedBy # None => presented'[row'[t].replacedBy] = t
      BY <1>1, <1>3, <3>3, <3>4, <3>5
    <3>7. Witness(r, row'[t].family)
      BY <2>2, <2>5, <3>1, <3>3, Known
    <3> HIDE DEF Witness
    <3> QED
      BY <3>3, <3>4, <3>6, <3>7
  <2> QED
    BY <2>1, <2>3, <2>4, <2>5 DEF Serves, RowsServed
<1> QED
  BY <1>4, <1>5

\* Who revoked a row: one that presented it, or one that found a revoked row
\* of its family, which was disturbed then.
LEMMA RevokedBySomebody ==
    ASSUME Inv, NEW q \in Req, row[q] # None, row[q].revoked
    PROVE  \/ Disturbed(Family(q))
           \/ \E s \in Req : presented[s] = q /\ body[s] = q /\ pc[s] # "idle"
<1>1. row[q] \in Server!Row /\ None \notin Req
  BY Known, SessionAssumption
<1>2. CASE row[q].replacedBy # None
  <2>1. PICK s \in Req : s = row[q].replacedBy
    BY <1>1, <1>2 DEF Server!Row
  <2>2. presented[s] = q
    BY <1>2, <2>1 DEF Inv, RowBlame
  <2>3. body[s] = q /\ pc[s] # "idle"
    BY <1>1, <2>2, Known DEF Inv, SentInv
  <2> QED
    BY <2>2, <2>3
<1>3. CASE row[q].replacedBy = None
  <2>1. PICK s \in Req : presented[s] # None /\ seen[s].revoked /\ seen[s].family = row[q].family
    BY <1>3 DEF Inv, RowBlame
  <2>2. Disturbed(seen[s].family)
    BY <2>1 DEF Inv, SeenBlame
  <2> QED
    BY <2>1, <2>2 DEF Family
<1> QED
  BY <1>2, <1>3

\* A request that presents a revoked token comes too late in a family that
\* was disturbed: by another tab, or by an answer that was lost or could not
\* be stored.
LEMMA FoundForCause ==
    ASSUME Inv, NEW r \in Req, pc[r] = "idle", body[r] # None,
           row[body[r]] # None, row[body[r]].revoked
    PROVE  Disturbed(Family(body[r]))
<1>1. PICK q \in Req : q = body[r]
  BY DEF Inv, SentInv, Given
<1>2. CASE \E s \in Req : presented[s] = q /\ body[s] = q /\ pc[s] # "idle"
  <2>1. PICK s \in Req : body[s] = q /\ s # r
    BY <1>2
  <2>2. CASE by[r] # by[s]
    BY <1>1, <2>1, <2>2 DEF Disturbed
  <2>3. CASE by[r] = by[s]
    <3>1. wire[r] \in NotKept \/ wire[s] \in NotKept \/ Blamed(r)
      BY <1>1, <2>1, <2>3 DEF Inv, PresentedInv
    <3>2. body[s] # None /\ Family(body[s]) = Family(body[r])
      BY <1>1, <2>1
    <3> QED
      BY <3>1, <3>2 DEF Disturbed, Blamed
  <2> QED
    BY <2>2, <2>3
<1> QED
  BY <1>1, <1>2, RevokedBySomebody

LEMMA ServedSeenBlame ==
    ASSUME Inv, NEW r \in Req, Serves(r), Rotation!RowsKept, NEW s \in Req
    PROVE  SeenBlame(s)'
<1>1. \A f : Disturbed(f) => Disturbed(f)'
  BY ServedStays
<1>2. SeenBlame(s)
  BY DEF Inv
<1>3. body' = body
  BY DEF Serves
<1>4. CASE s # r \/ (presented'[s] = presented[s] /\ seen'[s] = seen[s])
  <2>1. presented'[s] = presented[s] /\ seen'[s] = seen[s]
    BY <1>4 DEF Serves
  <2>2. next'[s] = next[s] \/ (next'[s].expiresAt = 1 /\ next'[s].replacedBy = None)
    BY DEF Serves
  <2>3. body[s] # None /\ pc'[s] \in {"unauthorized", "replaying", "familyRevoked", "replay"}
           => presented[s] # None /\ seen[s].revoked
    BY <1>2 DEF Serves, SeenBlame
  <2>4. presented[s] # None /\ seen[s].revoked => Disturbed(seen[s].family)'
    <3>1. PICK f : f = seen[s].family
      OBVIOUS
    <3>2. presented[s] # None /\ seen[s].revoked => Disturbed(f)'
      BY <1>1, <1>2, <3>1 DEF SeenBlame
    <3>3. seen'[s].family = f
      BY <2>1, <3>1
    <3> QED
      BY <3>2, <3>3
  <2> QED
    BY <1>2, <1>3, <2>1, <2>2, <2>3, <2>4 DEF SeenBlame
<1>5. CASE s = r /\ ~(presented'[s] = presented[s] /\ seen'[s] = seen[s])
  <2>1. /\ pc[s] = "idle" /\ body[s] # None /\ row' = row
        /\ presented'[s] = body[s] /\ seen'[s] = row[body[s]]
    BY <1>5 DEF Serves
  <2>2. PICK q \in Req : q = body[s] /\ row[q] # None
    BY <2>1, ServedStays DEF Inv, SentInv, Given
  <2>3. row[q].expiresAt = 1
    BY <2>2 DEF Inv, RowBlame
  <2>4. row[q].revoked => Disturbed(row[q].family)'
    <3>1. row[q].revoked => Disturbed(Family(body[s]))
      BY <2>1, <2>2, FoundForCause
    <3>2. PICK f : f = row[q].family
      OBVIOUS
    <3>3. row[q].revoked => Disturbed(f)'
      BY <1>1, <2>2, <3>1, <3>2 DEF Family
    <3>4. row'[q].family = f
      BY <2>1, <3>2
    <3> QED
      BY <3>3, <3>4
  <2>5. next'[s] = next[s] \/ (next'[s].expiresAt = 1 /\ next'[s].replacedBy = None)
    BY DEF Serves
  <2>6. pc'[s] \notin {"unauthorized", "replaying", "familyRevoked", "replay"}
    BY <1>5, <2>1 DEF Serves
  <2> QED
    BY <1>2, <1>3, <2>1, <2>2, <2>3, <2>4, <2>5, <2>6 DEF SeenBlame
<1> QED
  BY <1>4, <1>5

LEMMA ServesKeeps ==
    ASSUME Inv, NEW r \in Req, Serves(r), Rotation!RowsKept, Rotation!Inv'
    PROVE  Inv'
<1>1. /\ UNCHANGED <<clock, stored, flight, by, body, wire>>
      /\ wire[r] # "unsent"
      /\ \A s \in Req \ {r} : pc'[s] = pc[s] /\ presented'[s] = presented[s]
      /\ presented'[r] = presented[r] \/ presented'[r] = body[r]
  BY DEF Serves
<1>2. /\ \A p \in Req : Given(p) => Given(p)'
      /\ \A s \in Req : Blamed(s) => Blamed(s)'
  BY ServedStays
<1>3. ASSUME NEW s \in Req PROVE SentInv(s)'
  <2>1. body[s] # None => Given(body[s])'
    <3>1. \A p \in Req : p = body'[s] => (Given(p)' => Given(body[s])')
      OBVIOUS
    <3> QED
      BY <1>1, <1>2, <3>1 DEF Inv, SentInv, ClientType
  <2>2. SentInv(s)
    BY DEF Inv
  <2> QED
    BY <1>1, <2>1, <2>2 DEF SentInv
<1>4. \A s \in Req : TokenInv(s)'
  BY <1>1, <1>2 DEF Inv, TokenInv, Pending
<1>5. \A s, u \in Req : PresentedInv(s, u)'
  BY <1>1, <1>2 DEF Inv, PresentedInv
<1>6. ClientType' /\ (stored' # None => Given(stored)')
  BY <1>1, <1>2 DEF Inv, ClientType
<1>7. \A s \in Req : RowBlame(s)' /\ SeenBlame(s)'
  BY ServedRowBlame, ServedSeenBlame
<1> QED
  BY <1>3, <1>4, <1>5, <1>6, <1>7 DEF Inv

LEMMA ServerKeeps ==
    ASSUME Inv, NEW r \in Req, Arrive(r) \/ Serve(r) \/ Crash(r)
    PROVE  Inv'
<1>1. Serves(r)
  BY ArriveServes, ServeServes, CrashServes
<1>2. body[r] # None => body[r] \in Req
  BY DEF Inv, ClientType
<1>3. Rotation!Inv' /\ Rotation!RowsKept
  BY <1>2, ServerSteps, RotationKeeps DEF Inv
<1> QED
  BY <1>1, <1>3, ServesKeeps

-----------------------------------------------------------------------------
(* Every step                                                              *)

LEMMA CallInit == Init => CallInv
<1> SUFFICES ASSUME Init PROVE CallInv
  OBVIOUS
<1>1. call = [c \in Call |-> New]
  BY DEF Init
<1>2. New \in Calls /\ New.at # "sent"
  BY DEF New, Calls
<1> QED
  BY <1>1, <1>2 DEF CallInv

\* The calls a step rewrites, all at once: one is settled or waits, or is
\* sent by a tab.
LEMMA CallsRewritten ==
    ASSUME CallInv, NEW S, NEW d \in Calls, d.at = "sent" => d.tab \in Tab,
           call' = [c \in Call |-> IF c \in S THEN d ELSE call[c]]
    PROVE  CallInv'
BY DEF CallInv

LEMMA OneCallRewritten ==
    ASSUME CallInv, NEW c \in Call, NEW d \in Calls, d.at = "sent" => d.tab \in Tab,
           call' = [call EXCEPT ![c] = d]
    PROVE  CallInv'
BY DEF CallInv

LEMMA SettledIsACall == Settled \in Calls /\ Settled.at # "sent"
BY DEF Settled, Calls

LEMMA CallKeeps ==
    ASSUME Inv, CallInv, [Next]_vars
    PROVE  CallInv'
<1>1. CASE UNCHANGED call
  BY <1>1 DEF CallInv
<1>2. ASSUME NEW t \in Tab, Load(t) PROVE CallInv'
  <2> DEFINE S == {c \in Call : call[c].tab = t}
  <2>1. call' = [c \in Call |-> IF c \in S THEN Settled ELSE call[c]]
    BY <1>2 DEF Load
  <2> QED
    BY <2>1, CallsRewritten, SettledIsACall
<1>3. ASSUME NEW t \in Tab, NEW c \in Call, SendCall(t, c) PROVE CallInv'
  <2>1. (t \in access) \in BOOLEAN
    OBVIOUS
  <2> DEFINE d == [at |-> "sent", tab |-> t, again |-> t \in access]
  <2>2. d \in Calls /\ d.tab \in Tab
    BY <2>1 DEF Calls
  <2>3. call' = [call EXCEPT ![c] = d]
    BY <1>3 DEF SendCall
  <2> HIDE DEF d
  <2> QED
    BY <2>2, <2>3, OneCallRewritten
<1>4. ASSUME NEW c \in Call, CallSettles(c) PROVE CallInv'
  BY <1>4, OneCallRewritten, SettledIsACall DEF CallSettles
<1>5. ASSUME NEW c \in Call, CallExpired(c) PROVE CallInv'
  <2>1. CASE call' = [call EXCEPT ![c] = Settled]
    BY <2>1, OneCallRewritten, SettledIsACall
  <2>2. CASE call' = [call EXCEPT ![c].at = "waiting"]
    <3> DEFINE d == [call[c] EXCEPT !.at = "waiting"]
    <3>1. d \in Calls /\ d.at # "sent"
      BY DEF CallInv, Calls
    <3>2. call' = [call EXCEPT ![c] = d]
      BY <2>2 DEF CallInv
    <3> HIDE DEF d
    <3> QED
      BY <3>1, <3>2, OneCallRewritten
  <2> QED
    BY <1>5, <2>1, <2>2 DEF CallExpired, AwaitRefresh
<1>6. ASSUME NEW r \in Req, Settle(r) \/ Drop(r) PROVE CallInv'
  <2>1. Pending(r)
    BY <1>6 DEF Settle, Succeed, Expel, Refused, Broken, Drop, GiveUp
  <2>2. by[r] \in Tab
    BY <2>1 DEF Inv, SentInv, Pending
  <2>3. CASE call' = Resume(by[r])
    <3> DEFINE d == [at |-> "sent", tab |-> by[r], again |-> FALSE]
    <3>1. d \in Calls /\ d.tab \in Tab
      BY <2>2 DEF Calls
    <3>2. call' = [c \in Call |-> IF c \in Waiting(by[r]) THEN d ELSE call[c]]
      BY <2>3 DEF Resume
    <3> HIDE DEF d
    <3> QED
      BY <3>1, <3>2, CallsRewritten
  <2>4. CASE call' = Reject(by[r])
    BY <2>4, CallsRewritten, SettledIsACall DEF Reject
  <2> QED
    BY <1>1, <1>6, <2>3, <2>4 DEF Settle, Succeed, Expel, Refused, Broken, Drop, GiveUp
<1>7. ASSUME NEW t \in Tab, SubmitLogin(t) \/ Logout(t) PROVE CallInv'
  BY <1>1, <1>7 DEF SubmitLogin, Logout
<1>8. ASSUME NEW r \in Req, Arrive(r) \/ Serve(r) \/ Crash(r) PROVE CallInv'
  BY <1>1, <1>8 DEF Arrive, Serve, Crash, client
<1>9. CASE UNCHANGED vars
  BY <1>1, <1>9 DEF vars, client
<1> QED
  BY <1>2, <1>3, <1>4, <1>5, <1>6, <1>7, <1>8, <1>9 DEF Next

LEMMA StepInv == Inv /\ CallInv /\ [Next]_vars => Inv'
<1> SUFFICES ASSUME Inv, CallInv, [Next]_vars PROVE Inv'
  OBVIOUS
<1>1. ASSUME NEW t \in Tab, SubmitLogin(t) \/ Logout(t) \/ Load(t) PROVE Inv'
  BY <1>1, SubmitLoginKeeps, LogoutKeeps, LoadKeeps
<1>2. ASSUME NEW t \in Tab, NEW c \in Call, SendCall(t, c) PROVE Inv'
  BY <1>2, QuietKeeps DEF SendCall
<1>3. ASSUME NEW c \in Call, CallSettles(c) PROVE Inv'
  BY <1>3, QuietKeeps DEF CallSettles
<1>4. ASSUME NEW c \in Call, CallExpired(c) PROVE Inv'
  BY <1>4, CallExpiredKeeps
<1>5. ASSUME NEW r \in Req, Arrive(r) \/ Serve(r) \/ Crash(r) PROVE Inv'
  BY <1>5, ServerKeeps
<1>6. ASSUME NEW r \in Req, Settle(r) \/ Drop(r) PROVE Inv'
  BY <1>6, AnswerKeeps
<1>7. CASE UNCHANGED vars
  BY <1>7, QuietKeeps DEF vars, client
<1> QED
  BY <1>1, <1>2, <1>3, <1>4, <1>5, <1>6, <1>7 DEF Next

\* The invariant of the browser and the table together: a tab has one refresh
\* under way (createSingleFlight); what a handled refresh used up is not
\* stored, unless the service refused it for cause and the storage would not
\* be cleared (setRefresh, clear), nor what one whose answer was kept presents
\* presented by its tab again; and every revocation is on somebody's account.
THEOREM SessionInvHolds == Spec => []Inv
<1>1. Init => Inv /\ CallInv
  BY InitInv, CallInit
<1>2. Inv /\ CallInv /\ [Next]_vars => (Inv /\ CallInv)'
  BY StepInv, CallKeeps
<1> QED
  BY <1>1, <1>2, PTL DEF Spec

\* A refresh is answered 401, upon which api.js clears the session, only if
\* an answer of its family was lost, or brought a token the storage refused,
\* or two tabs presented the same token.
THEOREM ExpelledForCause == Spec => []ExpelledOnlyForCause
<1>1. Inv => ExpelledOnlyForCause
  BY RefusedForCause DEF ExpelledOnlyForCause, Blamed
<1> QED
  BY <1>1, SessionInvHolds, PTL

\* When no request is under way the stored refresh token is live, or its
\* family was disturbed: the write-back leaves a token in storage that the
\* service has already rotated only where an answer was lost, the storage
\* refused what it brought, or another tab had it.
THEOREM StoredWorks == Spec => []StoredTokenWorks
<1>1. Inv => StoredTokenWorks
  <2> SUFFICES ASSUME Inv, stored # None, \A r \in Req : ~Pending(r),
                      ~Server!Live(stored)
               PROVE  Disturbed(Family(stored))
    BY DEF StoredTokenWorks
  <2>1. stored \in Req /\ row[stored] # None
    BY Known DEF Inv, Given
  <2>2. row[stored].revoked
    BY <2>1 DEF Server!Live, Server!Stored
  <2>3. ASSUME NEW s \in Req, body[s] = stored, pc[s] # "idle"
        PROVE  Disturbed(Family(stored))
    <3>1. wire[s] \notin {"unsent", "sent"}
      BY <2>3 DEF Inv, SentInv, Pending
    <3>2. CASE wire[s] = "handled"
      BY <2>3, <3>2 DEF Inv, TokenInv, Blamed
    <3>3. CASE wire[s] \in NotKept
      BY <2>3, <3>3 DEF Disturbed
    <3> QED
      BY <3>1, <3>2, <3>3 DEF Inv, ClientType, NotKept
  <2> QED
    BY <2>1, <2>2, <2>3, RevokedBySomebody
<1> QED
  BY <1>1, SessionInvHolds, PTL

LEMMA AccessKeeps ==
    ASSUME Inv, access \subseteq Tab, [Next]_vars
    PROVE  access' \subseteq Tab
<1>1. \A t \in Tab : access \cup {t} \subseteq Tab /\ access \ {t} \subseteq Tab
  OBVIOUS
<1>2. ASSUME NEW r \in Req, Settle(r) \/ Drop(r) PROVE access' \subseteq Tab
  <2>1. CASE Pending(r)
    <3>1. by[r] \in Tab
      BY <2>1 DEF Inv, SentInv, Pending
    <3> QED
      BY <1>2, <3>1 DEF Settle, Succeed, TakeSession, Expel, ClearSession, Refused, Broken,
                        Drop, GiveUp
  <2> QED
    BY <1>2, <2>1 DEF Settle, Succeed, Expel, Refused, Broken, Drop, GiveUp
<1>3. ASSUME NEW t \in Tab, SubmitLogin(t) \/ Logout(t) \/ Load(t) PROVE access' \subseteq Tab
  BY <1>3 DEF SubmitLogin, Logout, ClearSession, Load
<1>4. ASSUME NEW c \in Call, \/ CallSettles(c) \/ CallExpired(c)
                             \/ \E t \in Tab : SendCall(t, c)
      PROVE  access' \subseteq Tab
  BY <1>4 DEF CallSettles, CallExpired, SendCall
<1>5. ASSUME NEW r \in Req, Arrive(r) \/ Serve(r) \/ Crash(r) PROVE access' \subseteq Tab
  BY <1>5 DEF Arrive, Serve, Crash, client
<1>6. CASE UNCHANGED vars
  BY <1>6 DEF vars, client
<1> QED
  BY <1>2, <1>3, <1>4, <1>5, <1>6 DEF Next

\* Storage, tabs, requests and calls keep their shape: what a tab stores is a
\* token, and the tab that handles an answer is the one that asked.
THEOREM SessionTypeCorrect == Spec => []TypeOK
<1>1. Init => Inv /\ CallInv /\ access \subseteq Tab
  BY InitInv, CallInit, FirstIsSent DEF Init
<1>2. Inv /\ CallInv /\ access \subseteq Tab /\ [Next]_vars
         => (Inv /\ CallInv /\ access \subseteq Tab)'
  BY StepInv, CallKeeps, AccessKeeps
<1>3. Inv /\ CallInv /\ access \subseteq Tab => TypeOK
  <2> SUFFICES ASSUME Inv, CallInv, access \subseteq Tab PROVE TypeOK
    OBVIOUS
  <2>1. Rotation!TypeOK
    BY DEF Inv, Rotation!Inv
  <2>2. Server!TypeOK
    BY <2>1 DEF Rotation!TypeOK, Server!TypeOK, Rotation!Row, Server!Row,
                Rotation!InFlight, Server!InFlight, Rotation!Unwritten, Server!Unwritten,
                Rotation!Written, Server!Written, Rotation!Ended, Server!Ended
  <2> QED
    BY <2>2 DEF Inv, CallInv, ClientType, TypeOK
<1> QED
  BY <1>1, <1>2, <1>3, PTL DEF Spec

-----------------------------------------------------------------------------
(* Liveness.  Answers(r) and Returns(c) are the fairness of FairSpec for   *)
(* one request and one call with the condition in place of ENABLED: while  *)
(* its answer is awaited a request has a step, to arrive, to be served or  *)
(* to be handled (GuardHolds), and a call that is sent may be answered at  *)
(* any time.                                                               *)

Act(r) == Arrive(r) \/ Serve(r) \/ Settle(r)

Answers(r) == []<>(~Pending(r)) \/ []<><<Act(r)>>_vars
Returns(c) == []<>(call[c].at # "sent") \/ []<><<CallSettles(c)>>_vars

\* A request whose answer is awaited always has a step: the token it presents
\* was given to its tab, the service has one (Rotation!GuardHolds), and every
\* end the service knows is handled.
LEMMA GuardHolds ==
    ASSUME Inv, NEW r \in Req, Pending(r)
    PROVE  \/ pc[r] = "idle" /\ wire[r] # "unsent" /\ (body[r] # None => pc[body[r]] = "ok")
           \/ pc[r] \in Rotation!InFlight
           \/ pc[r] \in {"ok", "failed", "lost"}
           \/ pc[r] = "unauthorized"
           \/ pc[r] = "replay" /\ body[r] # None
<1>1. pc[r] \in {"idle"} \cup Rotation!InFlight \cup Rotation!Ended
  BY DEF Inv, Rotation!Inv, Rotation!TypeOK
<1>2. pc[r] = "replay" => body[r] # None
  <2>1. pc[r] = "replay" => presented[r] # None
    BY DEF Inv, Rotation!Inv, Rotation!RequestInv
  <2> QED
    BY <2>1 DEF Inv, SentInv
<1>3. wire[r] # "unsent"
  BY DEF Pending
<1>4. body[r] # None => pc[body[r]] = "ok"
  BY DEF Inv, SentInv, Given
<1> QED
  BY <1>1, <1>2, <1>3, <1>4 DEF Rotation!Ended

\* The refresh in flight of a tab is one it sent and whose answer it awaits.
FlightInv ==
    \A t \in Tab, r \in Req :
        flight[t] = r => Pending(r) /\ by[r] = t /\ body[r] # None

\* A call that waits has a refresh to wait for: its tab's.
WaitInv ==
    \A c \in Call : call[c].at = "waiting" => /\ call[c].tab \in Tab
                                              /\ flight[call[c].tab] # None

LEMMA LandedFlight ==
    ASSUME Inv, FlightInv, NEW r \in Req, Pending(r), NEW t \in Tab
    PROVE  /\ flight[t] = r => Landed(r)[t] = None /\ flight[by[r]] = r
           /\ flight[t] # r => Landed(r)[t] = flight[t]
<1>1. by[r] \in Tab /\ flight \in [Tab -> Req \cup {None}]
  BY DEF Inv, SentInv, ClientType, Pending
<1>2. flight[t] = r => by[r] = t
  BY FirstIsSent DEF FlightInv
<1> QED
  BY <1>1, <1>2, FirstIsSent DEF Landed

\* Sending a refresh for a tab that awaits none, or no longer does.
LEMMA FlightSent ==
    ASSUME Inv, FlightInv, NEW t \in Tab, NEW r \in Unsent, stored # None,
           by' = [by EXCEPT ![r] = t], body' = [body EXCEPT ![r] = stored],
           flight' = [flight EXCEPT ![t] = r], wire'[r] = "sent",
           \A s \in Req \ {r} : by[s] # t => wire'[s] = wire[s]
    PROVE  FlightInv'
<1>1. r \in Req /\ wire[r] = "unsent"
  BY DEF Unsent
<1>2. /\ by'[r] = t /\ body'[r] # None /\ flight'[t] = r
      /\ \A s \in Req \ {r} : by'[s] = by[s] /\ body'[s] = body[s]
      /\ \A u \in Tab \ {t} : flight'[u] = flight[u]
  BY <1>1 DEF Inv, ClientType
<1>3. ASSUME NEW u \in Tab, NEW s \in Req, flight'[u] = s
      PROVE  Pending(s)' /\ by'[s] = u /\ body'[s] # None
  <2>1. CASE u = t
    BY <1>2, <1>3, <2>1 DEF Pending
  <2>2. CASE u # t
    <3>1. flight[u] = s /\ by[s] = u /\ Pending(s) /\ body[s] # None
      BY <1>2, <1>3, <2>2 DEF FlightInv
    <3>2. s # r
      BY <1>1, <3>1 DEF Pending
    <3>3. wire'[s] = wire[s]
      BY <2>2, <3>1, <3>2
    <3> QED
      BY <1>2, <3>1, <3>2, <3>3 DEF Pending
  <2> QED
    BY <2>1, <2>2
<1> QED
  BY <1>3 DEF FlightInv

\* The steps that send no refresh: a tab awaits what it did, whose answer is
\* still out, or nothing.
LEMMA FlightStays ==
    ASSUME Inv, FlightInv,
           \A t \in Tab, r \in Req : flight'[t] = r =>
               /\ flight[t] = r
               /\ by'[r] = by[r] /\ body'[r] = body[r]
               /\ wire'[r] = "sent"
    PROVE  FlightInv'
<1>1. ASSUME NEW t \in Tab, NEW r \in Req, flight'[t] = r
      PROVE  Pending(r)' /\ by'[r] = t /\ body'[r] # None
  BY <1>1 DEF FlightInv, Pending
<1> QED
  BY <1>1 DEF FlightInv

LEMMA LoadFlight ==
    ASSUME Inv, FlightInv, NEW t \in Tab, Load(t)
    PROVE  FlightInv'
<1> DEFINE left == [r \in Req |-> IF r \in Gone(t) THEN "lost" ELSE wire[r]]
<1>1. left \in [Req -> {"unsent", "sent", "handled", "unsaved", "lost"}]
  BY DEF Inv, ClientType
<1>2. \A s \in Req : by[s] # t => left[s] = wire[s]
  BY DEF Gone
<1>3. \/ /\ wire' = left
         /\ flight' = [flight EXCEPT ![t] = None] /\ UNCHANGED <<by, body>>
      \/ /\ stored # None
         /\ \E r \in Unsent :
               /\ by' = [by EXCEPT ![r] = t] /\ body' = [body EXCEPT ![r] = stored]
               /\ wire' = [left EXCEPT ![r] = "sent"]
               /\ flight' = [flight EXCEPT ![t] = r]
  BY DEF Load
<1> HIDE DEF left
<1>4. CASE /\ wire' = left
           /\ flight' = [flight EXCEPT ![t] = None] /\ UNCHANGED <<by, body>>
  <2>1. flight'[t] = None /\ \A u \in Tab \ {t} : flight'[u] = flight[u]
    BY <1>4 DEF Inv, ClientType
  <2>2. ASSUME NEW u \in Tab, NEW r \in Req, flight'[u] = r
        PROVE  flight[u] = r /\ wire'[r] = "sent"
    <3>1. u # t /\ flight[u] = r
      BY <2>1, <2>2, FirstIsSent
    <3>2. by[r] = u /\ wire[r] = "sent"
      BY <3>1 DEF FlightInv, Pending
    <3> QED
      BY <1>2, <1>4, <3>1, <3>2
  <2> QED
    BY <1>4, <2>2, FlightStays
<1>5. ASSUME stored # None, NEW r \in Unsent,
             by' = [by EXCEPT ![r] = t], body' = [body EXCEPT ![r] = stored],
             wire' = [left EXCEPT ![r] = "sent"],
             flight' = [flight EXCEPT ![t] = r]
      PROVE  FlightInv'
  <2>1. r \in Req
    BY DEF Unsent
  <2>2. wire'[r] = "sent" /\ \A s \in Req \ {r} : wire'[s] = left[s]
    BY <1>1, <1>5, <2>1
  <2>3. \A s \in Req \ {r} : by[s] # t => wire'[s] = wire[s]
    BY <1>2, <2>2
  <2> QED
    BY <1>5, <2>2, <2>3, FlightSent
<1> QED
  BY <1>3, <1>4, <1>5

LEMMA FlightKeeps ==
    ASSUME Inv, CallInv, FlightInv, [Next]_vars
    PROVE  FlightInv'
<1>1. \A t \in Tab, r \in Req : flight[t] = r => wire[r] = "sent"
  BY DEF FlightInv, Pending
<1>2. CASE UNCHANGED <<flight, by, body, wire>>
  BY <1>1, <1>2, FlightStays
<1>3. ASSUME NEW t \in Tab, SubmitLogin(t) PROVE FlightInv'
  <2>1. PICK r \in Unsent : Send(t, r, None)
    BY <1>3 DEF SubmitLogin
  <2>2. /\ flight' = flight
        /\ \A s \in Req \ {r} : /\ by'[s] = by[s] /\ body'[s] = body[s]
                                /\ wire'[s] = wire[s]
    BY <1>3, <2>1 DEF SubmitLogin, Send, Inv, ClientType
  <2>3. \A u \in Tab : flight[u] # r
    BY <1>1 DEF Unsent
  <2> QED
    BY <1>1, <2>2, <2>3, FlightStays
<1>4. ASSUME NEW t \in Tab, Logout(t) PROVE FlightInv'
  <2>1. /\ UNCHANGED <<flight, by, body>>
        /\ \A s \in Req : wire[s] = "sent" => wire'[s] = "sent"
    BY <1>4 DEF Logout
  <2> QED
    BY <1>1, <2>1, FlightStays
<1>5. ASSUME NEW t \in Tab, Load(t) PROVE FlightInv'
  BY <1>5, LoadFlight
<1>6. ASSUME NEW c \in Call, CallExpired(c) PROVE FlightInv'
  <2>1. PICK t \in Tab : t = call[c].tab /\ AwaitRefresh(c, t)
    BY <1>6 DEF CallExpired, CallInv
  <2>2. CASE flight[t] = None /\ StartRefresh(t)
    <3>1. PICK r \in Unsent : /\ stored # None /\ Send(t, r, stored)
                              /\ flight' = [flight EXCEPT ![t] = r]
      BY <2>2 DEF StartRefresh
    <3>2. /\ by' = [by EXCEPT ![r] = t] /\ body' = [body EXCEPT ![r] = stored]
          /\ wire'[r] = "sent" /\ \A s \in Req \ {r} : wire'[s] = wire[s]
      BY <3>1 DEF Send, Unsent, Inv, ClientType
    <3> QED
      BY <3>1, <3>2, FlightSent
  <2> QED
    BY <1>2, <2>1, <2>2 DEF AwaitRefresh, NoneInFlight
<1>7. ASSUME NEW r \in Req, Settle(r) \/ Drop(r) PROVE FlightInv'
  <2>1. /\ Pending(r) /\ flight' = Landed(r)
        /\ \E as : Land(r, as)
    BY <1>7 DEF Settle, Succeed, Expel, Refused, Broken, Drop, GiveUp
  <2>2. /\ UNCHANGED <<by, body>>
        /\ \A s \in Req \ {r} : wire'[s] = wire[s]
    BY <2>1 DEF Land, Inv, ClientType
  <2>3. \A t \in Tab : /\ flight[t] = r => flight'[t] = None
                       /\ flight[t] # r => flight'[t] = flight[t]
    BY <2>1, LandedFlight
  <2>4. ASSUME NEW t \in Tab, NEW s \in Req, flight'[t] = s
        PROVE  flight[t] = s /\ wire'[s] = "sent"
    BY <1>1, <2>2, <2>3, <2>4, FirstIsSent
  <2> QED
    BY <2>2, <2>4, FlightStays
<1>8. ASSUME NEW r \in Req, Arrive(r) \/ Serve(r) \/ Crash(r) PROVE FlightInv'
  BY <1>2, <1>8 DEF Arrive, Serve, Crash, client
<1>9. ASSUME NEW c \in Call, CallSettles(c) \/ \E t \in Tab : SendCall(t, c)
      PROVE  FlightInv'
  BY <1>2, <1>9 DEF CallSettles, SendCall
<1>10. CASE UNCHANGED vars
  BY <1>2, <1>10 DEF vars, client
<1> QED
  BY <1>3, <1>4, <1>5, <1>6, <1>7, <1>8, <1>9, <1>10 DEF Next

-----------------------------------------------------------------------------
(* The way of a call, which never leads back: sent with a token, waiting   *)
(* for the refresh of its tab, sent once more, settled.                    *)

First401(c) == call[c].at = "sent" /\ call[c].again
Awaits(c)   == call[c].at = "waiting"
Last(c)     == call[c].at = "sent" /\ ~call[c].again
Done(c)     == call[c] = Settled

\* What one step may do to a call.
CallMoves(c) ==
    \/ /\ call'[c] = call[c]
       /\ call[c].at = "waiting" => flight'[call[c].tab] = flight[call[c].tab]
    \/ call[c].at = "new" /\ call'[c].at = "sent"
    \/ /\ First401(c) /\ call'[c].at = "waiting"
       /\ call'[c].tab \in Tab /\ flight'[call'[c].tab] # None
    \/ Awaits(c) /\ call'[c].at = "sent" /\ ~call'[c].again
    \/ call'[c] = Settled

LEMMA Stages ==
    /\ New.at = "new" /\ Settled.at = "settled"
    /\ \A c \in Call : CallInv => call[c].again \in BOOLEAN
BY DEF New, Settled, CallInv, Calls

LEMMA ExpiredMoves ==
    ASSUME Inv, CallInv, NEW c \in Call, NEW d \in Call, CallExpired(d),
           WaitInv
    PROVE  CallMoves(c)
<1>1. PICK t \in Tab : t = call[d].tab /\ AwaitRefresh(d, t)
  BY DEF CallExpired, CallInv
<1>2. call[d].at = "sent" /\ call[d].again
  BY DEF CallExpired
<1>3. CASE call' = [call EXCEPT ![d] = Settled] /\ flight' = flight
  BY <1>3 DEF CallMoves, CallInv
<1>4. ASSUME call' = [call EXCEPT ![d].at = "waiting"], flight'[t] # None,
             \A u \in Tab \ {t} : flight'[u] = flight[u],
             flight' = flight \/ flight[t] = None
      PROVE  CallMoves(c)
  <2>1. CASE c = d
    <3>1. call'[d] = [call[d] EXCEPT !.at = "waiting"]
      BY <1>4 DEF CallInv
    <3>2. call'[d].at = "waiting" /\ call'[d].tab = t
      BY <1>1, <3>1 DEF CallInv, Calls
    <3> QED
      BY <1>2, <1>4, <2>1, <3>2 DEF CallMoves, First401
  <2>2. CASE c # d
    <3>1. call'[c] = call[c]
      BY <1>4, <2>2 DEF CallInv
    <3>2. call[c].at = "waiting" => call[c].tab \in Tab /\ flight[call[c].tab] # None
      BY DEF WaitInv
    <3>3. call[c].at = "waiting" => flight'[call[c].tab] = flight[call[c].tab]
      <4> SUFFICES ASSUME NEW u \in Tab, flight[u] # None
                   PROVE  flight'[u] = flight[u]
        BY <3>2
      <4> QED
        BY <1>4
    <3> QED
      BY <3>1, <3>3 DEF CallMoves
  <2> QED
    BY <2>1, <2>2
<1>5. CASE /\ flight[t] # None /\ call' = [call EXCEPT ![d].at = "waiting"]
           /\ flight' = flight
  BY <1>4, <1>5
<1>6. CASE /\ flight[t] = None /\ StartRefresh(t)
           /\ call' = [call EXCEPT ![d].at = "waiting"]
  <2>1. PICK r \in Req : flight' = [flight EXCEPT ![t] = r]
    BY <1>6 DEF StartRefresh, Unsent
  <2>2. flight'[t] # None /\ \A u \in Tab \ {t} : flight'[u] = flight[u]
    BY <2>1, FirstIsSent DEF Inv, ClientType
  <2> QED
    BY <1>4, <1>6, <2>2
<1> QED
  BY <1>1, <1>3, <1>5, <1>6 DEF AwaitRefresh, NoneInFlight

\* The answer of a request moves the calls that wait for it, and no others.
LEMMA AnswerMoves ==
    ASSUME Inv, CallInv, FlightInv, WaitInv,
           NEW r \in Req, Settle(r) \/ Drop(r), NEW c \in Call
    PROVE  /\ CallMoves(c)
           /\ Awaits(c) /\ flight[call[c].tab] = r => (Last(c) \/ Done(c))'
<1> DEFINE u == call[c].tab
<1>1. Pending(r) /\ flight' = Landed(r)
  BY DEF Settle, Succeed, Expel, Refused, Broken, Drop, GiveUp
<1>2. call' = IF flight[by[r]] = r THEN call' ELSE call
  BY DEF Settle, Succeed, Expel, Refused, Broken, Drop, GiveUp
<1>3. flight[by[r]] = r => call' = Resume(by[r]) \/ call' = Reject(by[r])
  BY DEF Settle, Succeed, Expel, Refused, Broken, Drop, GiveUp
<1>4. CASE flight[by[r]] = r /\ c \in Waiting(by[r])
  <2>1. CASE call' = Resume(by[r])
    <3>1. call'[c] = [at |-> "sent", tab |-> by[r], again |-> FALSE]
      BY <1>4, <2>1 DEF Resume
    <3>2. call'[c].at = "sent" /\ ~call'[c].again
      BY <3>1
    <3> QED
      BY <1>4, <3>2 DEF CallMoves, Awaits, Last, Waiting
  <2>2. CASE call' = Reject(by[r])
    BY <1>4, <2>2 DEF Reject, CallMoves, Done
  <2> QED
    BY <1>3, <1>4, <2>1, <2>2
<1>5. CASE ~(flight[by[r]] = r /\ c \in Waiting(by[r]))
  <2>1. call'[c] = call[c]
    BY <1>2, <1>3, <1>5 DEF Resume, Reject
  <2>2. Awaits(c) => u \in Tab /\ flight[u] # r
    <3> SUFFICES ASSUME Awaits(c), u \in Tab, flight[u] = r PROVE FALSE
      BY DEF WaitInv, Awaits
    <3>1. by[r] = u
      BY DEF FlightInv
    <3> QED
      BY <1>5, <3>1 DEF Waiting, Awaits
  <2>3. Awaits(c) => flight'[u] = flight[u]
    BY <1>1, <2>2, LandedFlight
  <2> QED
    BY <2>1, <2>2, <2>3 DEF CallMoves, Awaits
<1> QED
  BY <1>4, <1>5

LEMMA EveryCallMoves ==
    ASSUME Inv, CallInv, FlightInv, WaitInv, [Next]_vars, NEW c \in Call
    PROVE  CallMoves(c)
<1>1. CASE UNCHANGED <<call, flight>>
  BY <1>1 DEF CallMoves
<1>2. ASSUME NEW t \in Tab, Load(t) PROVE CallMoves(c)
  <2>1. call' = [d \in Call |-> IF call[d].tab = t THEN Settled ELSE call[d]]
    BY <1>2 DEF Load
  <2>2. \A u \in Tab \ {t} : flight'[u] = flight[u]
    BY <1>2 DEF Load, Inv, ClientType
  <2>3. CASE call[c].tab = t
    BY <2>1, <2>3 DEF CallMoves
  <2>4. CASE call[c].tab # t
    <3>1. call'[c] = call[c]
      BY <2>1, <2>4
    <3> QED
      BY <2>2, <2>4, <3>1 DEF CallMoves, WaitInv
  <2> QED
    BY <2>3, <2>4
<1>3. ASSUME NEW t \in Tab, NEW d \in Call, SendCall(t, d) PROVE CallMoves(c)
  <2>1. /\ call[d] = New /\ flight' = flight
        /\ call' = [call EXCEPT ![d] = [at |-> "sent", tab |-> t, again |-> t \in access]]
    BY <1>3 DEF SendCall
  <2>2. CASE c = d
    <3>1. call'[c] = [at |-> "sent", tab |-> t, again |-> t \in access]
      BY <2>1, <2>2 DEF CallInv
    <3>2. call'[c].at = "sent"
      BY <3>1
    <3> QED
      BY <2>1, <2>2, <3>2, Stages DEF CallMoves
  <2>3. CASE c # d
    BY <2>1, <2>3 DEF CallMoves, CallInv
  <2> QED
    BY <2>2, <2>3
<1>4. ASSUME NEW d \in Call, CallSettles(d) PROVE CallMoves(c)
  BY <1>4 DEF CallSettles, CallMoves, CallInv
<1>5. ASSUME NEW d \in Call, CallExpired(d) PROVE CallMoves(c)
  BY <1>5, ExpiredMoves
<1>6. ASSUME NEW r \in Req, Settle(r) \/ Drop(r) PROVE CallMoves(c)
  BY <1>6, AnswerMoves
<1>7. ASSUME NEW t \in Tab, SubmitLogin(t) \/ Logout(t) PROVE CallMoves(c)
  BY <1>1, <1>7 DEF SubmitLogin, Logout
<1>8. ASSUME NEW r \in Req, Arrive(r) \/ Serve(r) \/ Crash(r) PROVE CallMoves(c)
  BY <1>1, <1>8 DEF Arrive, Serve, Crash, client
<1>9. CASE UNCHANGED vars
  BY <1>1, <1>9 DEF vars, client
<1> QED
  BY <1>2, <1>3, <1>4, <1>5, <1>6, <1>7, <1>8, <1>9 DEF Next

LEMMA WaitKeeps ==
    ASSUME Inv, CallInv, FlightInv, WaitInv, [Next]_vars
    PROVE  WaitInv'
<1>1. ASSUME NEW c \in Call, call'[c].at = "waiting"
      PROVE  call'[c].tab \in Tab /\ flight'[call'[c].tab] # None
  <2>1. CallMoves(c)
    BY EveryCallMoves
  <2>2. CASE /\ call'[c] = call[c]
             /\ call[c].at = "waiting" => flight'[call[c].tab] = flight[call[c].tab]
    BY <1>1, <2>2 DEF WaitInv
  <2> QED
    BY <1>1, <2>1, <2>2, Stages DEF CallMoves
<1> QED
  BY <1>1 DEF WaitInv

\* The way of a call, stage by stage.
LEMMA CallStages ==
    ASSUME Inv, CallInv, FlightInv, WaitInv, [Next]_vars, NEW c \in Call
    PROVE  /\ First401(c) => (First401(c) \/ Awaits(c) \/ Done(c))'
           /\ Last(c) => (Last(c) \/ Done(c))'
           /\ Done(c) => Done(c)'
           /\ Awaits(c) =>
                \/ (Last(c) \/ Done(c))'
                \/ /\ Awaits(c)' /\ call'[c] = call[c]
                   /\ flight'[call[c].tab] = flight[call[c].tab]
BY EveryCallMoves, Stages DEF CallMoves, First401, Awaits, Last, Done

LEMMA SettlesCall ==
    ASSUME CallInv, NEW c \in Call, CallSettles(c)
    PROVE  Done(c)'
BY DEF CallSettles, CallInv, Done

-----------------------------------------------------------------------------
(* The refresh a call waits for.  Rotation!Left(r) bounds the steps of a   *)
(* request until it ends; then its answer is handled, which ends the wait. *)

\* The call awaits the refresh r.
AwaitsThe(c, r) == Awaits(c) /\ flight[call[c].tab] = r

LEMMA TableSteps ==
    ASSUME Inv, [Next]_vars
    PROVE  [Rotation!Next]_(Rotation!vars)
<1>1. UNCHANGED server => UNCHANGED Rotation!vars
  BY DEF server, Rotation!vars
<1>2. ASSUME NEW r \in Req, Arrive(r) \/ Serve(r) \/ Crash(r)
      PROVE  Rotation!Next
  BY <1>2, ServerSteps DEF Inv, ClientType
<1>3. ASSUME NEW t \in Tab, SubmitLogin(t) \/ Logout(t) \/ Load(t)
      PROVE  UNCHANGED server
  BY <1>3 DEF SubmitLogin, Logout, Load
<1>4. ASSUME NEW c \in Call, \/ CallSettles(c) \/ CallExpired(c)
                             \/ \E t \in Tab : SendCall(t, c)
      PROVE  UNCHANGED server
  BY <1>4 DEF CallSettles, CallExpired, SendCall
<1>5. ASSUME NEW r \in Req, Settle(r) \/ Drop(r) PROVE UNCHANGED server
  BY <1>5 DEF Settle, Succeed, Expel, Refused, Broken, Drop, GiveUp, Land
<1>6. UNCHANGED vars => UNCHANGED server
  BY DEF vars
<1> QED
  BY <1>1, <1>2, <1>3, <1>4, <1>5, <1>6 DEF Next

LEMMA LeftBounded ==
    ASSUME Inv, NEW r \in Req
    PROVE  Rotation!Left(r) \in 0..6
<1>1. pc[r] \in {"idle"} \cup Rotation!InFlight \cup Rotation!Ended
  BY DEF Inv, Rotation!Inv, Rotation!TypeOK
<1> QED
  BY <1>1 DEF Rotation!Left, Rotation!InFlight, Rotation!Unwritten,
              Rotation!Written, Rotation!Ended

\* A step of the refresh brings it nearer to its end, or ends the wait.
LEMMA ActsForward ==
    ASSUME Inv, CallInv, FlightInv, WaitInv,
           NEW c \in Call, NEW r \in Req, AwaitsThe(c, r), Act(r)
    PROVE  \/ (Last(c) \/ Done(c))'
           \/ Rotation!Left(r)' < Rotation!Left(r) /\ Rotation!Left(r)' \in Nat
<1>1. CASE Settle(r)
  BY <1>1, AnswerMoves DEF AwaitsThe
<1>2. CASE Serve(r)
  <2>1. Rotation!Proceed(r) /\ Rotation!TypeOK
    BY <1>2, ServerProceeds DEF Serve, Inv, Rotation!Inv
  <2> QED
    BY <2>1, RotationMay, Rotation!ProceedsForward
<1>3. CASE Arrive(r)
  <2>1. body[r] # None
    BY FirstIsSent DEF AwaitsThe, Awaits, WaitInv, FlightInv
  <2>2. pc[r] = "idle" /\ pc'[r] = "found"
    BY <1>3, <2>1 DEF Arrive, Server!RefreshFind, Server!Goto, Inv, Rotation!Inv,
                      Rotation!TypeOK
  <2> QED
    BY <2>2 DEF Rotation!Left, Rotation!Ended
<1> QED
  BY <1>1, <1>2, <1>3 DEF Act

\* What the wait of a call rests on.
LiveInv == Inv /\ CallInv /\ FlightInv /\ WaitInv

LEMMA WaitEnds ==
    ASSUME NEW c \in Call, NEW r \in Req
    PROVE  []LiveInv /\ [][Next]_vars /\ Answers(r)
               => (AwaitsThe(c, r) ~> (Last(c) \/ Done(c)))
<1> DEFINE Within(n) == Rotation!Left(r) <= n
           Over == Last(c) \/ Done(c)
<1> USE DEF LiveInv
<1>1. ASSUME NEW n \in 0..6
      PROVE  LiveInv /\ [Next]_vars /\ Within(n) => Within(n)'
  BY TableSteps, RotationMay, Rotation!NeverBack DEF Inv, Rotation!Inv
<1>2. ASSUME NEW n \in 1..6
      PROVE  LiveInv /\ <<Act(r)>>_vars /\ AwaitsThe(c, r) /\ Within(n)
                 => (Over \/ Within(n - 1))'
  <2> SUFFICES ASSUME LiveInv, Act(r), AwaitsThe(c, r), Within(n), ~(Last(c) \/ Done(c))'
               PROVE  Within(n - 1)'
    OBVIOUS
  <2>1. Rotation!Left(r)' < Rotation!Left(r) /\ Rotation!Left(r)' \in Nat
    BY ActsForward
  <2>2. Rotation!Left(r) \in 0..6
    BY LeftBounded
  <2> QED
    BY <2>1, <2>2
<1>3. LiveInv /\ <<Act(r)>>_vars /\ AwaitsThe(c, r) /\ Within(0) => Over'
  <2> SUFFICES ASSUME LiveInv, Act(r), AwaitsThe(c, r), Within(0), ~(Last(c) \/ Done(c))'
               PROVE  FALSE
    OBVIOUS
  <2>1. Rotation!Left(r)' < Rotation!Left(r) /\ Rotation!Left(r)' \in Nat
    BY ActsForward
  <2>2. Rotation!Left(r) \in 0..6
    BY LeftBounded
  <2> QED
    BY <2>1, <2>2
<1>4. LiveInv /\ [Next]_vars /\ AwaitsThe(c, r) => (AwaitsThe(c, r) \/ Over)'
  BY CallStages DEF AwaitsThe
<1>5. LiveInv /\ AwaitsThe(c, r) => Pending(r) /\ Within(6)
  <2>1. LiveInv /\ AwaitsThe(c, r) => Pending(r)
    BY DEF AwaitsThe, Awaits, WaitInv, FlightInv
  <2>2. LiveInv => Within(6)
    BY LeftBounded
  <2> QED
    BY <2>1, <2>2
<1>6. LiveInv /\ [Next]_vars /\ Within(0) => Within(0)'
  BY <1>1
<1>7. LiveInv /\ [Next]_vars /\ Within(1) => Within(1)'
  BY <1>1
<1>8. LiveInv /\ [Next]_vars /\ Within(2) => Within(2)'
  BY <1>1
<1>9. LiveInv /\ [Next]_vars /\ Within(3) => Within(3)'
  BY <1>1
<1>10. LiveInv /\ [Next]_vars /\ Within(4) => Within(4)'
  BY <1>1
<1>11. LiveInv /\ [Next]_vars /\ Within(5) => Within(5)'
  BY <1>1
<1>12. LiveInv /\ <<Act(r)>>_vars /\ AwaitsThe(c, r) /\ Within(1) => (Over \/ Within(0))'
  BY <1>2
<1>13. LiveInv /\ <<Act(r)>>_vars /\ AwaitsThe(c, r) /\ Within(2) => (Over \/ Within(1))'
  BY <1>2
<1>14. LiveInv /\ <<Act(r)>>_vars /\ AwaitsThe(c, r) /\ Within(3) => (Over \/ Within(2))'
  BY <1>2
<1>15. LiveInv /\ <<Act(r)>>_vars /\ AwaitsThe(c, r) /\ Within(4) => (Over \/ Within(3))'
  BY <1>2
<1>16. LiveInv /\ <<Act(r)>>_vars /\ AwaitsThe(c, r) /\ Within(5) => (Over \/ Within(4))'
  BY <1>2
<1>17. LiveInv /\ <<Act(r)>>_vars /\ AwaitsThe(c, r) /\ Within(6) => (Over \/ Within(5))'
  BY <1>2
<1> HIDE DEF Within, LiveInv
<1> QED
  BY <1>3, <1>4, <1>5, <1>6, <1>7, <1>8, <1>9, <1>10, <1>11, <1>12, <1>13,
     <1>14, <1>15, <1>16, <1>17, PTL DEF Answers

\* Whatever refresh it is, the wait of a call ends.
LEMMA EveryWaitEnds ==
    ASSUME NEW c \in Call
    PROVE  []LiveInv /\ [][Next]_vars /\ (\A r \in Req : Answers(r))
               => (Awaits(c) ~> (Last(c) \/ Done(c)))
<1> DEFINE Ends(r) == AwaitsThe(c, r) => <>(Last(c) \/ Done(c))
<1>1. ASSUME NEW r \in Req
      PROVE  []LiveInv /\ [][Next]_vars /\ Answers(r) => []Ends(r)
  BY WaitEnds, PTL
<1>2. []LiveInv /\ [][Next]_vars /\ (\A r \in Req : Answers(r)) => \A r \in Req : []Ends(r)
  BY <1>1
<1>3. (\A r \in Req : []Ends(r)) => [](\A r \in Req : Ends(r))
  OBVIOUS
<1>4. LiveInv /\ Awaits(c) => \E r \in Req : AwaitsThe(c, r)
  BY DEF LiveInv, AwaitsThe, Awaits, WaitInv, Inv, ClientType
<1>5. LiveInv /\ (\A r \in Req : Ends(r)) => (Awaits(c) => <>(Last(c) \/ Done(c)))
  BY <1>4
<1> HIDE DEF Ends
<1> QED
  BY <1>2, <1>3, <1>5, PTL

LEMMA LiveStep == LiveInv /\ [Next]_vars => LiveInv'
BY StepInv, CallKeeps, FlightKeeps, WaitKeeps DEF LiveInv

\* Every call a view made is settled, the ones that await a refresh included,
\* if the network and the service answer what is sent and the browser runs
\* the callback: a refresh that ends ends the wait of all its calls, and a
\* call is sent once more at most (createSingleFlight, request).
THEOREM CallsSettle ==
    Spec /\ (\A r \in Req : Answers(r)) /\ (\A c \in Call : Returns(c))
        => EveryCallSettles
<1> SUFFICES ASSUME NEW c \in Call
             PROVE  Spec /\ (\A r \in Req : Answers(r)) /\ (\A d \in Call : Returns(d))
                        => []<>(call[c].at \in {"new", "settled"})
  BY DEF EveryCallSettles
<1> USE DEF LiveInv
<1>1. Init => LiveInv
  <2>1. Init => FlightInv /\ WaitInv
    BY FirstIsSent DEF Init, FlightInv, WaitInv, New
  <2> QED
    BY <2>1, InitInv, CallInit
<1>2. (\A d \in Call : Returns(d)) => Returns(c)
  OBVIOUS
<1>3. LiveInv /\ [Next]_vars =>
         /\ First401(c) => (First401(c) \/ Awaits(c) \/ Done(c))'
         /\ Last(c) => (Last(c) \/ Done(c))'
         /\ Done(c) => Done(c)'
  BY CallStages
<1>4. LiveInv /\ <<CallSettles(c)>>_vars => Done(c)'
  BY SettlesCall
<1>5. LiveInv =>
         /\ First401(c) \/ Awaits(c) \/ Last(c) \/ call[c].at \in {"new", "settled"}
         /\ First401(c) \/ Last(c) => call[c].at = "sent"
         /\ Done(c) => call[c].at \in {"new", "settled"}
         /\ call[c].at # "sent" <=> ~(call[c].at = "sent")
  BY Stages DEF First401, Awaits, Last, Done, CallInv, Calls
<1> HIDE DEF LiveInv
<1> QED
  BY <1>1, <1>2, <1>3, <1>4, <1>5, LiveStep, EveryWaitEnds, PTL DEF Spec, Returns

\* Behind any number of tabs, reloads, lost answers and late ones the table
\* keeps what rotation promises of it, and no statement brings a token back:
\* every step of the browser's is one of RefreshRotation or none of the
\* table's.
THEOREM TableStaysSound ==
    Spec => /\ [](/\ Rotation!SuccessorAfterRevocation
                  /\ Rotation!SuccessorInFamily
                  /\ Rotation!FamilyOfOneAccount
                  /\ Rotation!KilledOnlyByReplay)
            /\ Rotation!NoTokenComesBack
<1> DEFINE A == \A t \in Req : Rotation!Stored(t) =>
                  /\ Rotation!Stored(t)'
                  /\ row[t].revoked => row'[t].revoked
                  /\ row[t].replacedBy # None => row'[t].replacedBy # None
                  /\ row'[t].family = row[t].family
                  /\ row'[t].account = row[t].account
                  /\ row'[t].expiresAt = row[t].expiresAt
<1>1. Inv => /\ Rotation!SuccessorAfterRevocation
             /\ Rotation!SuccessorInFamily
             /\ Rotation!FamilyOfOneAccount
             /\ Rotation!KilledOnlyByReplay
  BY DEF Inv, Rotation!Inv, Rotation!RowInv, Rotation!Stored, Rotation!Members,
         Rotation!SuccessorAfterRevocation, Rotation!SuccessorInFamily,
         Rotation!FamilyOfOneAccount, Rotation!KilledOnlyByReplay
<1>2. Inv /\ [Next]_vars => [A]_(Rotation!vars)
  <2> SUFFICES ASSUME Inv, [Next]_vars PROVE A \/ UNCHANGED Rotation!vars
    OBVIOUS
  <2>1. Rotation!Inv /\ [Rotation!Next]_(Rotation!vars)
    BY TableSteps DEF Inv
  <2>2. Rotation!RowsKept
    BY <2>1, RotationMay, Rotation!KeptByStep
  <2> QED
    BY <2>2 DEF Rotation!RowsKept, Rotation!Keeps, Rotation!Stored
<1> QED
  BY <1>1, <1>2, SessionInvHolds, PTL DEF Spec, Rotation!NoTokenComesBack

-----------------------------------------------------------------------------
(* What is left of "signed out stays out" (SignedOutStaysOut, which the    *)
(* code violates): a logout lasts if no tab awaits a refresh by then.      *)

SignedOut == stored = None /\ \A r \in Req : Pending(r) => body[r] = None

\* Where nothing is stored and no refresh is awaited, none is started, by a
\* reload or by a call that is answered 401, in any tab: the browser stays
\* signed out until an answer to the login form arrives.
THEOREM QuietLogoutLasts ==
    Spec => [][SignedOut => \/ SignedOut'
                            \/ /\ stored' \in Req /\ body[stored'] = None
                               /\ Pending(stored')]_vars
<1> DEFINE A == SignedOut => \/ SignedOut'
                             \/ /\ stored' \in Req /\ body[stored'] = None
                                /\ Pending(stored')
<1>1. Inv /\ CallInv /\ [Next]_vars => [A]_vars
  <2> SUFFICES ASSUME Inv, CallInv, Next, SignedOut,
                      ~(/\ stored' \in Req /\ body[stored'] = None
                        /\ Pending(stored'))
               PROVE  SignedOut'
    OBVIOUS
  <2> USE DEF SignedOut, Pending
  <2>1. wire \in [Req -> {"unsent", "sent", "handled", "unsaved", "lost"}]
    BY DEF Inv, ClientType
  <2>2. body \in [Req -> Req \cup {None}]
    BY DEF Inv, ClientType
  <2>3. ASSUME NEW t \in Tab, SubmitLogin(t) PROVE SignedOut'
    BY <2>1, <2>2, <2>3 DEF SubmitLogin, Send
  <2>4. ASSUME NEW t \in Tab, Logout(t) PROVE SignedOut'
    BY <2>1, <2>2, <2>4 DEF Logout, ClearSession
  <2>5. ASSUME NEW t \in Tab, Load(t) PROVE SignedOut'
    BY <2>1, <2>2, <2>5 DEF Load, Gone
  <2>6. ASSUME NEW t \in Tab, NEW c \in Call, SendCall(t, c) PROVE SignedOut'
    BY <2>6 DEF SendCall
  <2>7. ASSUME NEW c \in Call, CallSettles(c) PROVE SignedOut'
    BY <2>7 DEF CallSettles
  <2>8. ASSUME NEW c \in Call, CallExpired(c) PROVE SignedOut'
    BY <2>8 DEF CallExpired, AwaitRefresh, StartRefresh
  <2>9. ASSUME NEW r \in Req, Arrive(r) \/ Serve(r) \/ Crash(r) PROVE SignedOut'
    BY <2>9 DEF Arrive, Serve, Crash, client
  <2>10. ASSUME NEW r \in Req, Settle(r) \/ Drop(r) PROVE SignedOut'
    BY <2>1, <2>2, <2>10 DEF Settle, Drop, Succeed, TakeSession, Expel, Refused, Broken,
                             GiveUp, Land
  <2> QED
    BY <2>3, <2>4, <2>5, <2>6, <2>7, <2>8, <2>9, <2>10 DEF Next
<1>2. Spec => [](Inv /\ CallInv)
  <2>1. Init => Inv /\ CallInv
    BY InitInv, CallInit
  <2>2. Inv /\ CallInv /\ [Next]_vars => (Inv /\ CallInv)'
    BY StepInv, CallKeeps
  <2> QED
    BY <2>1, <2>2, PTL DEF Spec
<1> QED
  BY <1>1, <1>2, PTL DEF Spec
=============================================================================
