------------------------ MODULE SerialRotationProofs ------------------------
(***************************************************************************)
(* Proofs about RefreshRotation when no token is presented while another   *)
(* request of its family is unanswered (~Overlap), for every set of        *)
(* requests and accounts.  With the invariant of RefreshRotationProofs,    *)
(* SerialInv is inductive: the record a request decides on is the row      *)
(* itself, so an allowed rotation burns the one live token of its family.  *)
(* Each statement is then a step of RotationPromise, or none it can see.   *)
(***************************************************************************)
EXTENDS RefreshRotationProofs

Refreshing(r) == pc[r] \in InFlight /\ seen[r] # None

\* No token of the family works.
Spent(f) == \A t \in Req : Live(t) => row[t].family # f

OneAtATime ==
    \A r, s \in Req : /\ Refreshing(r) /\ Refreshing(s)
                      /\ seen[r].family = seen[s].family
                      => r = s

\* What the verdict was based on still holds, up to the request's own Revoke.
VerdictHolds(r) ==
    /\ pc[r] \in {"found", "allowed", "resolved"}
          => row[presented[r]] = seen[r]
    /\ pc[r] \in {"allowed", "resolved"} => ~seen[r].revoked
    /\ pc[r] = "revoked" => Spent(seen[r].family)
    /\ pc[r] \in {"revoked", "stored", "ok"} /\ presented[r] # None
          => row[presented[r]].replacedBy = r
    /\ pc[r] \in {"familyRevoked", "replay"} => Spent(seen[r].family)

\* No successor is about to be stored in a family that was revoked.
NoneRotating ==
    \A r, s \in Req : pc[r] \in {"familyRevoked", "replay"} /\ pc[s] = "revoked"
                         => seen[r].family # seen[s].family

SerialInv ==
    /\ Inv
    /\ OneAtATime
    /\ \A r \in Req : VerdictHolds(r)
    /\ NoneRotating
    /\ OneLiveToken

-----------------------------------------------------------------------------
\* Requests take their turns in a family: only RefreshFind begins one, and it
\* waits until the others are answered.
LEMMA TurnStep ==
    ASSUME ~Overlap, SerialInv, Next
    PROVE  OneAtATime'
<1>0. Inv /\ TypeOK /\ OneAtATime
  BY DEF SerialInv, Inv
<1> USE <1>0 DEF Goto, TypeOK, InFlight, Unwritten, Written
<1>1. ASSUME NEW r \in Req, NEW q \in Req, RefreshFind(r, q)
      PROVE  OneAtATime'
  <2>1. /\ pc' = [pc EXCEPT ![r] = "found"]
        /\ seen' = [seen EXCEPT ![r] = row[q]]
        /\ pc[r] = "idle"
    BY <1>1 DEF RefreshFind
  <2>2. \A s \in Req : Refreshing(s) => seen[s].family # row[q].family
    BY <1>1 DEF RefreshFind, Quiet, Refreshing
  <2>3. \A s \in Req : s # r /\ Refreshing(s)' => Refreshing(s) /\ seen'[s] = seen[s]
    BY <2>1 DEF Refreshing
  <2>4. seen'[r] = row[q]
    BY <2>1
  <2> QED
    BY <2>2, <2>3, <2>4 DEF OneAtATime
<1>2. ASSUME \A s \in Req : Refreshing(s)' => Refreshing(s) /\ seen'[s] = seen[s]
      PROVE  OneAtATime'
  BY <1>2 DEF OneAtATime
<1>3. ASSUME NEW r \in Req,
             \/ \E a \in Account : LoginVerify(r, a)
             \/ LoginReject(r) \/ RefreshUnknown(r) \/ LoginStore(r)
      PROVE  OneAtATime'
  <2>1. RequestInv(r)
    BY DEF Inv
  <2> QED
    BY <1>2, <1>3, <2>1
    DEF LoginVerify, LoginReject, RefreshUnknown, LoginStore, RequestInv, Refreshing
<1>4. ASSUME NEW r \in Req,
             \/ RefreshReject(r) \/ RefreshReplay(r) \/ RefreshAllow(r)
             \/ RevokeFamily(r) \/ EmitReplay(r) \/ ResolveRole(r)
             \/ Revoke(r) \/ StoreSuccessor(r) \/ Answer(r)
      PROVE  OneAtATime'
  BY <1>2, <1>4
  DEF RefreshReject, RefreshReplay, RefreshAllow, RevokeFamily, EmitReplay,
      ResolveRole, Revoke, StoreSuccessor, Answer, Refreshing
<1>5. ASSUME NEW r \in Req, Fail(r) PROVE OneAtATime'
  BY <1>2, <1>5 DEF Fail, Refreshing
<1>6. ASSUME Tick PROVE OneAtATime'
  BY <1>2, <1>6 DEF Tick, Refreshing
<1> QED
  BY <1>1, <1>3, <1>4, <1>5, <1>6 DEF Next, Arrive, Proceed

-----------------------------------------------------------------------------
(* What was decided still holds *)

\* A token that works after a step either was just stored or worked before,
\* in the same family.
LEMMA NoRevival ==
    ASSUME RowsKept, NEW t \in Req, row[t] # None, Live(t)'
    PROVE  Live(t) /\ row'[t].family = row[t].family
  BY DEF RowsKept, Keeps, Live, Stored

\* A spent family stays spent if no row is added to it.
LEMMA SpentKept ==
    ASSUME RowsKept, NEW f, Spent(f),
           \A t \in Req : row[t] = None /\ row'[t] # None => row'[t].family # f
    PROVE  Spent(f)'
  BY NoRevival DEF Spent, Live, Stored

\* The live token of a family in which a rotation was allowed is the one
\* presented.
LEMMA AllowedIsLive ==
    ASSUME SerialInv, NEW r \in Req, pc[r] \in {"allowed", "resolved"}
    PROVE  /\ presented[r] \in Req
           /\ Live(presented[r])
           /\ row[presented[r]].family = seen[r].family
  BY DEF SerialInv, Inv, TypeOK, RequestInv, VerdictHolds, Live, Stored

\* A request that does not move keeps its verdict if the row it was based on
\* did not change and its family did not grow.
LEMMA VerdictFrame ==
    ASSUME SerialInv, RowsKept, NEW s \in Req,
           pc'[s] = pc[s], presented'[s] = presented[s], seen'[s] = seen[s],
           pc[s] \in {"found", "allowed", "resolved"}
               => row'[presented[s]] = row[presented[s]],
           pc[s] \in {"revoked", "stored", "ok"} /\ presented[s] # None
               => row'[presented[s]].replacedBy = row[presented[s]].replacedBy,
           pc[s] \in {"revoked", "familyRevoked", "replay"}
               => \A t \in Req : row[t] = None /\ row'[t] # None
                                    => row'[t].family # seen[s].family
    PROVE  VerdictHolds(s)'
<1>1. VerdictHolds(s)
  BY DEF SerialInv
<1>2. pc[s] \in {"revoked", "familyRevoked", "replay"}
         => Spent(seen[s].family)'
  BY <1>1, SpentKept DEF VerdictHolds
<1> QED
  BY <1>1, <1>2 DEF VerdictHolds

\* A step that writes no row keeps the verdicts if the request that moves has
\* one afterwards.
LEMMA VerdictUntouched ==
    ASSUME SerialInv, RowsKept, row' = row, NEW r \in Req, OnlyMoves(r),
           VerdictHolds(r)'
    PROVE  \A s \in Req : VerdictHolds(s)'
<1> SUFFICES ASSUME NEW s \in Req, s # r PROVE VerdictHolds(s)'
  OBVIOUS
<1> QED
  BY VerdictFrame DEF OnlyMoves

\* Every step keeps the verdicts.  A store adds to no family that was spent;
\* a revocation touches one family, in which only its own request is at work.
LEMMA VerdictStep ==
    ASSUME SerialInv, RowsKept, Next
    PROVE  \A s \in Req : VerdictHolds(s)'
<1>0. Inv /\ TypeOK /\ OneAtATime /\ NoneRotating /\ OneLiveToken
  BY DEF SerialInv, Inv
<1>a. \A s \in Req : VerdictHolds(s) /\ RequestInv(s) /\ RowInv(s)
  BY DEF SerialInv, Inv
<1>1. ASSUME NEW r \in Req,
             \/ \E a \in Account : LoginVerify(r, a)
             \/ LoginReject(r) \/ \E q \in Req : RefreshFind(r, q)
             \/ RefreshUnknown(r)
      PROVE  \A s \in Req : VerdictHolds(s)'
  <2>1. OnlyMoves(r) /\ row' = row
    BY <1>0, <1>1
    DEF LoginVerify, LoginReject, RefreshFind, RefreshUnknown, Goto, OnlyMoves, TypeOK
  <2>2. VerdictHolds(r)'
    BY <1>0, <1>1
    DEF LoginVerify, LoginReject, RefreshFind, RefreshUnknown, Goto, VerdictHolds, TypeOK
  <2> QED
    BY <2>1, <2>2, VerdictUntouched
<1>2. ASSUME NEW r \in Req,
             \/ RefreshReject(r) \/ RefreshReplay(r) \/ RefreshAllow(r)
             \/ EmitReplay(r) \/ ResolveRole(r) \/ Answer(r) \/ Fail(r)
      PROVE  \A s \in Req : VerdictHolds(s)'
  <2>1. OnlyMoves(r) /\ row' = row
    BY <1>0, <1>2
    DEF RefreshReject, RefreshReplay, RefreshAllow, EmitReplay, ResolveRole,
        Answer, Fail, Goto, OnlyMoves, TypeOK
  <2>2. VerdictHolds(r)'
    BY <1>0, <1>a, <1>2
    DEF RefreshReject, RefreshReplay, RefreshAllow, EmitReplay, ResolveRole,
        Answer, Fail, Goto, VerdictHolds, TypeOK, DecideRotation, Spent, Live, Stored
  <2> QED
    BY <2>1, <2>2, VerdictUntouched
<1>3. ASSUME NEW r \in Req, LoginStore(r)
      PROVE  \A s \in Req : VerdictHolds(s)'
  <2>1. /\ row[r] = None /\ next[r].family = r /\ presented[r] = None
        /\ row' = [row EXCEPT ![r] = next[r]]
    BY <1>a, <1>3 DEF LoginStore, Goto, RequestInv, RowInv
  <2>2. OnlyMoves(r) /\ pc'[r] = "stored" /\ presented'[r] = None
    BY <1>0, <1>3, <2>1 DEF LoginStore, Goto, OnlyMoves, TypeOK
  <2>3. VerdictHolds(r)'
    BY <2>2 DEF VerdictHolds
  <2> SUFFICES ASSUME NEW s \in Req, s # r PROVE VerdictHolds(s)'
    BY <2>3
  <2>4. presented[s] # None => /\ presented[s] \in Req /\ presented[s] # r
                               /\ seen[s].family # r
    BY <1>0, <1>a, <2>1 DEF TypeOK, RequestInv, RowInv, Row
  <2>5. pc[s] \in {"found", "allowed", "resolved", "revoked",
                   "familyRevoked", "replay"} => presented[s] # None
    BY <1>a DEF RequestInv
  <2>6. \A t \in Req : t # r => row'[t] = row[t]
    BY <1>0, <2>1 DEF TypeOK
  <2>7. row'[r] = next[r]
    BY <1>0, <2>1 DEF TypeOK
  <2> QED
    BY <2>1, <2>2, <2>4, <2>5, <2>6, <2>7, VerdictFrame DEF OnlyMoves
<1>4. ASSUME NEW r \in Req, StoreSuccessor(r)
      PROVE  \A s \in Req : VerdictHolds(s)'
  <2>1. /\ row[r] = None /\ next[r].family = seen[r].family
        /\ presented[r] \in Req /\ presented[r] # r /\ Refreshing(r)
        /\ row[presented[r]].replacedBy = r
        /\ row' = [row EXCEPT ![r] = next[r]]
    BY <1>0, <1>a, <1>4
    DEF StoreSuccessor, Goto, RequestInv, RowInv, VerdictHolds, TypeOK,
        Refreshing, InFlight, Written
  <2>2. OnlyMoves(r) /\ pc'[r] = "stored" /\ presented'[r] = presented[r]
    BY <1>0, <1>4 DEF StoreSuccessor, Goto, OnlyMoves, TypeOK
  <2>3. \A t \in Req : t # r => row'[t] = row[t]
    BY <1>0, <2>1 DEF TypeOK
  <2>4. VerdictHolds(r)'
    BY <2>1, <2>2, <2>3 DEF VerdictHolds
  <2> SUFFICES ASSUME NEW s \in Req, s # r PROVE VerdictHolds(s)'
    BY <2>4
  <2>5. presented[s] # None => presented[s] \in Req /\ presented[s] # r
    BY <1>0, <1>a, <2>1 DEF TypeOK, RequestInv
  <2>6. pc[s] \in {"found", "allowed", "resolved"} => presented[s] # None
    BY <1>a DEF RequestInv
  <2>7. pc[s] = "revoked" => seen[s].family # seen[r].family
    BY <1>0, <1>a, <2>1
    DEF OneAtATime, Refreshing, RequestInv, InFlight, Written
  <2>8. pc[s] \in {"familyRevoked", "replay"} => seen[s].family # seen[r].family
    BY <1>0, <1>4 DEF NoneRotating, StoreSuccessor, Goto
  <2>9. row'[r] = next[r]
    BY <1>0, <2>1 DEF TypeOK
  <2> QED
    BY <2>1, <2>2, <2>3, <2>5, <2>6, <2>7, <2>8, <2>9, VerdictFrame
    DEF OnlyMoves
<1>5. ASSUME NEW r \in Req, RevokeFamily(r)
      PROVE  \A s \in Req : VerdictHolds(s)'
  <2>1. OnlyMoves(r) /\ pc'[r] = "familyRevoked" /\ seen'[r] = seen[r]
    BY <1>0, <1>5 DEF RevokeFamily, Goto, OnlyMoves, TypeOK
  <2>2. \A t \in Req : \/ row'[t] = row[t]
                       \/ /\ row[t] \in Row /\ row[t].family = seen[r].family
                          /\ row'[t] = [row[t] EXCEPT !.revoked = TRUE]
    BY <1>0, <1>5 DEF RevokeFamily, TypeOK
  <2>3. \A t \in Req : row[t] # None /\ row[t].family = seen[r].family
                         => row'[t] = [row[t] EXCEPT !.revoked = TRUE]
    BY <1>5 DEF RevokeFamily
  <2>4. \A t \in Req : row[t] = None => row'[t] = None
    BY <1>5 DEF RevokeFamily
  <2>5. Spent(seen[r].family)'
    <3> SUFFICES ASSUME NEW t \in Req, Live(t)', row'[t].family = seen[r].family
                 PROVE  FALSE
      BY <2>1 DEF Spent
    <3>1. row[t] # None /\ row[t] \in Row
      BY <1>0, <2>4 DEF Live, Stored, TypeOK
    <3>2. row[t].family = seen[r].family
      BY <3>1, NoRevival
    <3> QED
      BY <2>3, <3>1, <3>2, RevokedRow DEF Live
  <2>6. VerdictHolds(r)'
    BY <2>1, <2>5 DEF VerdictHolds
  <2> SUFFICES ASSUME NEW s \in Req, s # r PROVE VerdictHolds(s)'
    BY <2>6
  <2>7. \A t \in Req : row[t] # None => row'[t].replacedBy = row[t].replacedBy
    BY <2>2, RevokedRow
  <2>8. pc[s] \in {"found", "allowed", "resolved"} =>
            /\ presented[s] \in Req
            /\ row[presented[s]].family # seen[r].family
    BY <1>0, <1>a, <1>5
    DEF OneAtATime, Refreshing, RequestInv, RevokeFamily, Goto, InFlight,
        Unwritten, Written, TypeOK
  <2>9. presented[s] # None => presented[s] \in Req /\ row[presented[s]] # None
    BY <1>0, <1>a DEF RequestInv, TypeOK
  <2> QED
    BY <2>1, <2>2, <2>4, <2>7, <2>8, <2>9, VerdictFrame DEF OnlyMoves
<1>6. ASSUME NEW r \in Req, Revoke(r)
      PROVE  \A s \in Req : VerdictHolds(s)'
  <2> DEFINE p == presented[r]
  <2>1. OnlyMoves(r) /\ pc'[r] = "revoked" /\ seen'[r] = seen[r]
                     /\ presented'[r] = p
    BY <1>0, <1>6 DEF Revoke, Goto, OnlyMoves, TypeOK
  <2>2. pc[r] = "resolved" /\ p \in Req /\ Live(p)
        /\ row[p].family = seen[r].family /\ row[p] \in Row
    BY <1>0, <1>6, AllowedIsLive DEF Revoke, Goto, TypeOK, Live, Stored
  <2>3. row'[p] = [row[p] EXCEPT !.revoked = TRUE, !.replacedBy = r]
    BY <1>0, <1>6, <2>2 DEF Revoke, TypeOK
  <2>4. \A t \in Req : t # p => row'[t] = row[t]
    BY <1>0, <1>6, <2>2 DEF Revoke, TypeOK
  <2>5. row'[p].revoked /\ row'[p].replacedBy = r
    BY <2>2, <2>3, ReplacedRow, ZenonT(60)
  <2>6. Spent(seen[r].family)'
    <3> SUFFICES ASSUME NEW t \in Req, Live(t)', row'[t].family = seen[r].family
                 PROVE  FALSE
      BY <2>1 DEF Spent
    <3>1. t # p
      BY <2>5 DEF Live
    <3>2. Live(t) /\ row[t].family = seen[r].family
      BY <2>4, <3>1 DEF Live, Stored
    <3> QED
      BY <1>0, <2>2, <3>1, <3>2 DEF OneLiveToken
  <2>7. VerdictHolds(r)'
    BY <2>1, <2>5, <2>6 DEF VerdictHolds
  <2> SUFFICES ASSUME NEW s \in Req, s # r PROVE VerdictHolds(s)'
    BY <2>7
  <2>8. pc[s] \in {"found", "allowed", "resolved"}
            => presented[s] \in Req /\ presented[s] # p
    BY <1>0, <1>a, <2>2
    DEF OneAtATime, Refreshing, RequestInv, InFlight, Unwritten, Written, TypeOK
  <2>9. pc[s] \in {"revoked", "stored", "ok"} /\ presented[s] # None
            => presented[s] \in Req /\ presented[s] # p
    BY <1>0, <1>a, <2>2 DEF RequestInv, RowInv, Live, Stored, TypeOK
  <2>10. \A t \in Req : row[t] = None => row'[t] = None
    BY <2>2, <2>4 DEF Live, Stored
  <2> QED
    BY <2>1, <2>4, <2>8, <2>9, <2>10, VerdictFrame DEF OnlyMoves
<1>7. ASSUME Tick PROVE \A s \in Req : VerdictHolds(s)'
  BY <1>a, <1>7 DEF Tick, VerdictHolds, Spent, Live, Stored
<1> QED
  BY <1>1, <1>2, <1>3, <1>4, <1>5, <1>6, <1>7 DEF Next, Arrive, Proceed

-----------------------------------------------------------------------------
(* A revoked family gets no successor, and no family two live tokens *)

\* A request comes to its Revoke with a live token, which no revoked family
\* has; a replay comes to RevokeFamily alone in its family.
LEMMA NoneRotatingStep ==
    ASSUME SerialInv, Next
    PROVE  NoneRotating'
<1>0. Inv /\ TypeOK /\ OneAtATime /\ NoneRotating
  BY DEF SerialInv, Inv
<1>a. \A s \in Req : VerdictHolds(s) /\ RequestInv(s)
  BY DEF SerialInv, Inv
<1>1. ASSUME \A s \in Req :
                /\ pc'[s] \in {"familyRevoked", "replay", "revoked"}
                      => seen'[s] = seen[s]
                /\ pc'[s] \in {"familyRevoked", "replay"}
                      => pc[s] \in {"familyRevoked", "replay"}
                /\ pc'[s] = "revoked" => pc[s] = "revoked"
      PROVE  NoneRotating'
  BY <1>0, <1>1 DEF NoneRotating
<1>2. ASSUME NEW r \in Req, Arrive(r) PROVE NoneRotating'
  BY <1>0, <1>1, <1>2
  DEF Arrive, LoginVerify, LoginReject, RefreshFind, RefreshUnknown, Goto, TypeOK
<1>3. ASSUME NEW r \in Req,
             \/ LoginStore(r) \/ RefreshReject(r) \/ RefreshReplay(r)
             \/ RefreshAllow(r) \/ EmitReplay(r) \/ ResolveRole(r)
             \/ StoreSuccessor(r) \/ Answer(r) \/ Fail(r)
      PROVE  NoneRotating'
  BY <1>0, <1>1, <1>3
  DEF LoginStore, RefreshReject, RefreshReplay, RefreshAllow, EmitReplay,
      ResolveRole, StoreSuccessor, Answer, Fail, Goto, TypeOK
<1>4. ASSUME NEW r \in Req, RevokeFamily(r) PROVE NoneRotating'
  <2>1. /\ pc[r] = "replaying" /\ seen' = seen
        /\ pc' = [pc EXCEPT ![r] = "familyRevoked"]
    BY <1>4 DEF RevokeFamily, Goto
  <2>2. ASSUME NEW s \in Req, pc[s] = "revoked"
        PROVE  seen[s].family # seen[r].family
    BY <1>0, <1>a, <2>1, <2>2
    DEF OneAtATime, Refreshing, RequestInv, InFlight, Unwritten, Written
  <2> QED
    BY <1>0, <2>1, <2>2 DEF NoneRotating, TypeOK
<1>5. ASSUME NEW r \in Req, Revoke(r) PROVE NoneRotating'
  <2>1. /\ pc[r] = "resolved" /\ seen' = seen
        /\ pc' = [pc EXCEPT ![r] = "revoked"]
    BY <1>5 DEF Revoke, Goto
  <2>2. ASSUME NEW s \in Req, pc[s] \in {"familyRevoked", "replay"}
        PROVE  seen[s].family # seen[r].family
    BY <1>a, <2>1, <2>2, AllowedIsLive DEF VerdictHolds, Spent
  <2> QED
    BY <1>0, <2>1, <2>2 DEF NoneRotating, TypeOK
<1>6. ASSUME Tick PROVE NoneRotating'
  BY <1>1, <1>6 DEF Tick
<1> QED
  BY <1>2, <1>3, <1>4, <1>5, <1>6 DEF Next, Proceed

\* A login stores the first token of its family, and a successor is stored
\* when its family is spent.
LEMMA OneLiveStep ==
    ASSUME SerialInv, RowsKept, Next
    PROVE  OneLiveToken'
<1>0. Inv /\ TypeOK /\ OneLiveToken
  BY DEF SerialInv, Inv
<1>a. \A s \in Req : VerdictHolds(s) /\ RequestInv(s) /\ RowInv(s)
  BY DEF SerialInv, Inv
<1>1. ASSUME \A t \in Req : row[t] = None => row'[t] = None
      PROVE  OneLiveToken'
  BY <1>0, <1>1, NoRevival DEF OneLiveToken, Live, Stored
<1>2. ASSUME NEW r \in Req, row[r] = None, row' = [row EXCEPT ![r] = next[r]],
             Spent(next[r].family)
      PROVE  OneLiveToken'
  <2>1. row'[r] = next[r] /\ \A t \in Req : t # r => row'[t] = row[t]
    BY <1>0, <1>2 DEF TypeOK
  <2>2. \A t \in Req : t # r /\ Live(t)' => Live(t)
    BY <2>1 DEF Live, Stored
  <2>3. \A t \in Req : t # r /\ Live(t)' => row'[t].family # row'[r].family
    BY <1>2, <2>1, <2>2 DEF Spent
  <2> QED
    BY <1>0, <2>1, <2>2, <2>3 DEF OneLiveToken
<1>3. ASSUME NEW r \in Req, LoginStore(r) PROVE OneLiveToken'
  <2>1. row[r] = None /\ next[r].family = r
    BY <1>a, <1>3 DEF LoginStore, Goto, RequestInv, RowInv
  <2>2. Spent(r)
    BY <1>a, <2>1 DEF Spent, Live, Stored, RowInv
  <2> QED
    BY <1>2, <1>3, <2>1, <2>2 DEF LoginStore
<1>4. ASSUME NEW r \in Req, StoreSuccessor(r) PROVE OneLiveToken'
  <2>1. /\ row[r] = None /\ next[r].family = seen[r].family
        /\ Spent(seen[r].family)
    BY <1>a, <1>4
    DEF StoreSuccessor, Goto, RequestInv, RowInv, VerdictHolds
  <2> QED
    BY <1>2, <1>4, <2>1 DEF StoreSuccessor
<1>5. ASSUME NEW r \in Req, RevokeFamily(r) PROVE OneLiveToken'
  BY <1>1, <1>5 DEF RevokeFamily
<1>6. ASSUME NEW r \in Req, Revoke(r) PROVE OneLiveToken'
  <2>1. presented[r] \in Req /\ row[presented[r]] # None
    BY <1>6, AllowedIsLive DEF Revoke, Goto, Live, Stored
  <2> QED
    BY <1>0, <1>1, <1>6, <2>1 DEF Revoke, TypeOK
<1>7. CASE row' = row
  BY <1>1, <1>7
<1> QED
  BY <1>3, <1>4, <1>5, <1>6, <1>7
  DEF Next, Arrive, Proceed, LoginVerify, LoginReject, RefreshFind,
      RefreshUnknown, RefreshReject, RefreshReplay, RefreshAllow, EmitReplay,
      ResolveRole, Answer, Fail, Tick

-----------------------------------------------------------------------------
(* The invariant, and what follows from it *)

\* Before the first request no request refreshes and no token works.
LEMMA SerialInit == Init => SerialInv
<1> SUFFICES ASSUME Init PROVE SerialInv
  OBVIOUS
<1>1. Inv
  BY InvInit
<1>2. OneAtATime /\ NoneRotating /\ OneLiveToken
  BY DEF Init, OneAtATime, Refreshing, NoneRotating, OneLiveToken, Live, Stored
<1>3. \A r \in Req : VerdictHolds(r)
  BY DEF Init, VerdictHolds
<1> QED
  BY <1>1, <1>2, <1>3 DEF SerialInv

\* Every step, stuttering ones included, keeps the serial invariant.
LEMMA SerialStep ==
    ASSUME ~Overlap
    PROVE  SerialInv /\ [Next]_vars => SerialInv'
<1> SUFFICES ASSUME SerialInv, [Next]_vars PROVE SerialInv'
  OBVIOUS
<1>1. Inv
  BY DEF SerialInv
<1>2. CASE Next
  <2>1. Inv' /\ RowsKept
    BY <1>1, InvStep, KeptByStep
  <2> QED
    BY <1>2, <2>1, TurnStep, VerdictStep, NoneRotatingStep, OneLiveStep
    DEF SerialInv
<1>3. CASE UNCHANGED vars
  <2>1. Inv'
    BY <1>1, InvStep
  <2> QED
    BY <1>3, <2>1
    DEF vars, SerialInv, OneAtATime, Refreshing, VerdictHolds, Spent,
        NoneRotating, OneLiveToken, Live, Stored
<1> QED
  BY <1>2, <1>3

\* The serial invariant holds of every behaviour in which the clients of a
\* family wait for their answers.
THEOREM SerialInvHolds ==
    ASSUME ~Overlap
    PROVE  Spec => []SerialInv
<1>1. SerialInv /\ [Next]_vars => SerialInv'
  BY SerialStep
<1> QED
  BY <1>1, SerialInit, PTL DEF Spec

\* A family has at most one token that works, at every moment of a rotation.
THEOREM FamiliesHaveOneLiveToken ==
    ASSUME ~Overlap
    PROVE  Spec => []OneLiveToken
<1>1. SerialInv => OneLiveToken
  BY DEF SerialInv
<1>2. Spec => []SerialInv
  BY SerialInvHolds
<1> QED
  BY <1>1, <1>2, PTL

\* One-time use: no two requests rotate the same token, since the row of the
\* token remembers the one successor it got.
THEOREM TokensRotateOnce ==
    ASSUME ~Overlap
    PROVE  Spec => []OneRotationPerToken
<1>1. SerialInv => OneRotationPerToken
  BY DEF SerialInv, VerdictHolds, OneRotationPerToken
<1>2. Spec => []SerialInv
  BY SerialInvHolds
<1> QED
  BY <1>1, <1>2, PTL

\* Once a replay had its family revoked, nothing in the family works again.
THEOREM ReplayEndsFamily ==
    ASSUME ~Overlap
    PROVE  Spec => []ReplayKillsFamily
<1>1. SerialInv => ReplayKillsFamily
  BY DEF SerialInv, VerdictHolds, ReplayKillsFamily, Members, Spent
<1>2. Spec => []SerialInv
  BY SerialInvHolds
<1> QED
  BY <1>1, <1>2, PTL

-----------------------------------------------------------------------------
(***************************************************************************)
(* Requests that take turns implement RotationPromise.  LoginStore and     *)
(* StoreSuccessor are Issue, Revoke is the Spend that leaves a family      *)
(* "rotating", a RevokeFamily that finds a token alive the Spend that      *)
(* closes it, and a request cut off between its two writes is Abandon.     *)
(***************************************************************************)

\* A request of the family is between its two writes.
Pending(f) == \E r \in Req : pc[r] = "revoked" /\ seen[r].family = f

\* The three readings of the table that the promise is about, family by
\* family: a family that no row changed in looks the same.
LEMMA FamilyFrame ==
    ASSUME NEW f \in Req,
           Members(f)' = Members(f),
           \A t \in Members(f) : Live(t)' <=> Live(t),
           Pending(f)' <=> Pending(f)
    PROVE  current'[f] = current[f] /\ phase'[f] = phase[f]
<1>1. {t \in Members(f)' : Live(t)'} = {t \in Members(f) : Live(t)}
  OBVIOUS
<1>2. current'[f] = current[f]
  BY <1>1 DEF current
<1> QED
  BY <1>2 DEF phase, Pending

\* A step that writes no row and leaves the pending rotations alone is
\* invisible to the holder of a session.
LEMMA NothingSeen ==
    ASSUME row' = row, \A f \in Req : Pending(f)' <=> Pending(f)
    PROVE  UNCHANGED <<current, spent, phase>>
<1>1. spent' = spent
  BY DEF spent, Stored, Live
<1>2. \A f \in Req : current'[f] = current[f] /\ phase'[f] = phase[f]
  BY FamilyFrame DEF Members, Stored, Live
<1>3. current' = current /\ phase' = phase
  BY <1>2 DEF current, phase
<1> QED
  BY <1>1, <1>3

\* Storing a live record in a family that has none that works issues it.
LEMMA StoreIssues ==
    ASSUME TypeOK, NEW r \in Req, NEW g \in Req,
           row[r] = None, row' = [row EXCEPT ![r] = next[r]],
           next[r] \in Row, ~next[r].revoked, next[r].family = g,
           Spent(g), phase[g] \in {"unopened", "rotating"},
           \A f \in Req \ {g} : Pending(f)' <=> Pending(f)
    PROVE  Promise!Issue(g, r)
<1>1. /\ row'[r] = next[r] /\ next[r] # None
      /\ \A t \in Req : t # r => row'[t] = row[t]
  BY RotationAssumption DEF TypeOK
<1>2. Live(r)' /\ ~Stored(r) /\ ~Live(r)
  BY <1>1 DEF Live, Stored
<1>3. \A t \in Req : t # r => /\ Live(t)' <=> Live(t)
                              /\ Stored(t)' <=> Stored(t)
  BY <1>1 DEF Live, Stored
<1>4. Promise!Fresh(r)
  BY <1>2 DEF Promise!Fresh, spent, current, Members
<1>5. spent' = spent
  BY <1>2, <1>3 DEF spent, Live
<1>6. ASSUME NEW f \in Req, f # g
      PROVE  current'[f] = current[f] /\ phase'[f] = phase[f]
  <2>1. Members(f)' = Members(f)
    BY <1>1, <1>2, <1>3, <1>6 DEF Members
  <2>2. r \notin Members(f)
    BY <1>2 DEF Members
  <2> QED
    BY <1>3, <1>6, <2>1, <2>2, FamilyFrame DEF Members
<1>7. current'[g] = {r}
  <2>1. \A t \in Req : t \in Members(g)' /\ Live(t)' <=> t = r
    BY <1>1, <1>2, <1>3 DEF Members, Spent, Live
  <2> QED
    BY <2>1 DEF current, Members
<1>8. phase'[g] = "open"
  <2>1. Members(g)' # {}
    BY <1>1, <1>2 DEF Members, Live
  <2> QED
    BY <1>7, <2>1 DEF phase
<1>9. current' = [current EXCEPT ![g] = {r}]
  BY <1>6, <1>7 DEF current
<1>10. phase' = [phase EXCEPT ![g] = "open"]
  <2>1. phase = [f \in Req |-> phase[f]] /\ phase' = [f \in Req |-> phase'[f]]
    BY Zenon DEF phase
  <2> QED
    BY <1>6, <1>8, <2>1
<1> QED
  BY <1>4, <1>5, <1>9, <1>10 DEF Promise!Issue

\* Revoking every live record of an open family, and no other, spends it.
LEMMA RevocationSpends ==
    ASSUME NEW g \in Req, NEW p \in {"rotating", "closed"},
           \A t \in Req : Stored(t)' <=> Stored(t),
           \A t \in Req : Stored(t) => row'[t].family = row[t].family,
           \A t \in Req : Stored(t) /\ row[t].family # g
                             => (Live(t)' <=> Live(t)),
           \A t \in Req : Stored(t) /\ row[t].family = g => ~Live(t)',
           \A f \in Req \ {g} : Pending(f)' <=> Pending(f),
           Pending(g)' <=> p = "rotating",
           \E t \in Members(g) : Live(t)
    PROVE  Promise!Spend(g)
<1>1. \A f \in Req : Members(f)' = Members(f)
  BY DEF Members
<1>2. current[g] # {} /\ Members(g) # {}
  BY DEF current
<1>3. phase[g] = "open"
  BY <1>2 DEF phase
<1>4. \A f \in Req \ {g} : current'[f] = current[f] /\ phase'[f] = phase[f]
  BY <1>1, FamilyFrame DEF Members
<1>5. current'[g] = {}
  BY <1>1 DEF current, Members
<1>6. phase'[g] = p
  <2>1. Members(g)' # {}
    BY <1>1, <1>2
  <2> QED
    BY <1>5, <2>1 DEF phase, Pending
<1>7. spent' = spent \cup current[g]
  <2>1. ASSUME NEW t \in Req
        PROVE  Stored(t)' /\ ~Live(t)'
                   <=> (Stored(t) /\ ~Live(t)) \/ (t \in Members(g) /\ Live(t))
    BY <2>1 DEF Members, Live
  <2> QED
    BY <2>1 DEF spent, current, Members
<1>8. current' = [current EXCEPT ![g] = {}]
  BY <1>4, <1>5 DEF current
<1>9. phase' = [phase EXCEPT ![g] = p]
  <2>1. phase = [f \in Req |-> phase[f]] /\ phase' = [f \in Req |-> phase'[f]]
    BY Zenon DEF phase
  <2> QED
    BY <1>4, <1>6, <2>1
<1> QED
  BY <1>3, <1>7, <1>8, <1>9 DEF Promise!Spend

\* The steps of a request that is not between its two writes, before or
\* after, leave the pending rotations alone.
LEMMA PendingKept ==
    ASSUME NEW r \in Req, OnlyMoves(r), pc[r] # "revoked", pc'[r] # "revoked"
    PROVE  \A f \in Req : Pending(f)' <=> Pending(f)
  BY DEF OnlyMoves, Pending

\* At most one request of a family is between its two writes, and none while
\* another works on the family.
LEMMA PendingAlone ==
    ASSUME SerialInv, NEW r \in Req, Refreshing(r),
           NEW s \in Req, pc[s] = "revoked", seen[s].family = seen[r].family
    PROVE  s = r
  BY DEF SerialInv, OneAtATime, Refreshing, InFlight, Written, Inv, RequestInv

\* A login stores the first row of the family it opens.
LEMMA LoginIssues ==
    ASSUME SerialInv, NEW r \in Req, LoginStore(r)
    PROVE  Promise!Issue(r, r)
<1>1. /\ TypeOK /\ OnlyMoves(r) /\ pc[r] = "verified" /\ pc'[r] = "stored"
      /\ row' = [row EXCEPT ![r] = next[r]]
  BY DEF LoginStore, Goto, OnlyMoves, SerialInv, Inv, TypeOK
<1>2. /\ row[r] = None /\ next[r] \in Row /\ next[r].family = r
      /\ ~next[r].revoked
  BY <1>1, FreshRow DEF SerialInv, Inv, RequestInv, TypeOK
<1>3. \A t \in Req : row[t] # None => row[t].family # r
  BY <1>2 DEF SerialInv, Inv, RowInv
<1>4. Spent(r) /\ Members(r) = {}
  BY <1>3 DEF Spent, Live, Stored, Members
<1>5. phase[r] = "unopened"
  BY <1>4 DEF phase
<1> QED
  BY <1>1, <1>2, <1>4, <1>5, PendingKept, StoreIssues

\* A rotation stores its successor in the family it left pending.
LEMMA SuccessorIssues ==
    ASSUME SerialInv, NEW r \in Req, StoreSuccessor(r)
    PROVE  Promise!Issue(seen[r].family, r)
<1> DEFINE g == seen[r].family
<1>1. /\ TypeOK /\ OnlyMoves(r) /\ pc[r] = "revoked" /\ pc'[r] = "stored"
      /\ row' = [row EXCEPT ![r] = next[r]]
  BY DEF StoreSuccessor, Goto, OnlyMoves, SerialInv, Inv, TypeOK
<1>2. /\ row[r] = None /\ next[r] \in Row /\ next[r].family = g
      /\ ~next[r].revoked /\ Spent(g)
  BY <1>1, FreshRow DEF SerialInv, Inv, RequestInv, TypeOK, VerdictHolds
<1>3. /\ presented[r] \in Req /\ Stored(presented[r])
      /\ row[presented[r]].family = g /\ g \in Req
  BY <1>1 DEF SerialInv, Inv, RequestInv, TypeOK, Row, Stored
<1>4. Members(g) # {} /\ current[g] = {}
  BY <1>2, <1>3 DEF Members, current, Spent
<1>5. phase[g] = "rotating"
  BY <1>1, <1>3, <1>4 DEF phase
<1>6. \A f \in Req \ {g} : Pending(f)' <=> Pending(f)
  BY <1>1 DEF OnlyMoves, Pending
<1> QED
  BY <1>1, <1>2, <1>3, <1>5, <1>6, StoreIssues

\* The first write of a rotation revokes the one live token of the family.
LEMMA RevokeSpends ==
    ASSUME SerialInv, RowsKept, NEW r \in Req, Revoke(r)
    PROVE  Promise!Spend(seen[r].family)
<1> DEFINE g == seen[r].family
           p == presented[r]
<1>1. /\ TypeOK /\ OneLiveToken /\ OnlyMoves(r) /\ seen'[r] = seen[r]
      /\ pc[r] = "resolved" /\ pc'[r] = "revoked"
  BY DEF Revoke, Goto, OnlyMoves, SerialInv, Inv, TypeOK
<1>2. p \in Req /\ Live(p) /\ row[p].family = g /\ row[p] \in Row /\ g \in Req
  BY <1>1, AllowedIsLive DEF TypeOK, Live, Stored, Row
<1>3. row'[p].revoked /\ \A t \in Req : t # p => row'[t] = row[t]
  BY <1>1, <1>2, ReplacedRow DEF Revoke, TypeOK
<1>4. \A t \in Req : Stored(t)' <=> Stored(t)
  BY <1>2, <1>3 DEF RowsKept, Keeps, Live, Stored
<1>5. \A t \in Req : Stored(t) => row'[t].family = row[t].family
  BY DEF RowsKept, Keeps, Stored
<1>6. \A t \in Req : Stored(t) /\ row[t].family # g => (Live(t)' <=> Live(t))
  BY <1>2, <1>3, <1>4 DEF Live
<1>7. \A t \in Req : Stored(t) /\ row[t].family = g => ~Live(t)'
  BY <1>1, <1>2, <1>3, <1>4 DEF OneLiveToken, Live
<1>8. Pending(g)'
  BY <1>1 DEF Pending
<1>9. \A f \in Req \ {g} : Pending(f)' <=> Pending(f)
  BY <1>1 DEF OnlyMoves, Pending
<1>10. \E t \in Members(g) : Live(t)
  BY <1>2 DEF Members, Live
<1>11. \E q \in {"rotating", "closed"} : q = "rotating"
  OBVIOUS
<1> QED
  BY <1>2, <1>4, <1>5, <1>6, <1>7, <1>8, <1>9, <1>10, <1>11, RevocationSpends

\* A family revocation that finds a token alive spends it and closes the
\* family; one that finds none is not seen.
LEMMA FamilyRevocation ==
    ASSUME SerialInv, RowsKept, NEW r \in Req, RevokeFamily(r)
    PROVE  \/ Promise!Spend(seen[r].family)
           \/ UNCHANGED <<current, spent, phase>>
<1> DEFINE g == seen[r].family
<1>1. /\ TypeOK /\ OnlyMoves(r) /\ Refreshing(r)
      /\ pc[r] = "replaying" /\ pc'[r] = "familyRevoked"
  BY DEF RevokeFamily, Goto, OnlyMoves, SerialInv, Inv, TypeOK, RequestInv,
         Refreshing, InFlight, Unwritten
<1>2. g \in Req
  BY <1>1 DEF Refreshing, TypeOK, Row
<1>3. \A t \in Req :
         /\ row[t] = None => row'[t] = None
         /\ Stored(t) => row[t] \in Row
         /\ Stored(t) /\ row[t].family # g => row'[t] = row[t]
         /\ Stored(t) /\ row[t].family = g
               => row'[t] = [row[t] EXCEPT !.revoked = TRUE]
  BY <1>1 DEF RevokeFamily, TypeOK, Stored
<1>4. \A t \in Req : Stored(t)' <=> Stored(t)
  BY <1>3 DEF RowsKept, Keeps, Stored
<1>5. \A t \in Req : Stored(t) => row'[t].family = row[t].family
  BY DEF RowsKept, Keeps, Stored
<1>6. \A t \in Req : Stored(t) /\ row[t].family # g => (Live(t)' <=> Live(t))
  BY <1>3, <1>4 DEF Live
<1>7. \A t \in Req : Stored(t) /\ row[t].family = g => ~Live(t)'
  BY <1>3, RevokedRow DEF Live
<1>8. \A f \in Req : Pending(f)' <=> Pending(f)
  BY <1>1, PendingKept
<1>9. ~Pending(g)
  BY <1>1, PendingAlone DEF Pending
<1>10. CASE \E t \in Members(g) : Live(t)
  <2>1. \E q \in {"rotating", "closed"} : q = "closed"
    OBVIOUS
  <2> QED
    BY <1>2, <1>4, <1>5, <1>6, <1>7, <1>8, <1>9, <1>10, <2>1, RevocationSpends
<1>11. CASE ~ \E t \in Members(g) : Live(t)
  <2>1. \A t \in Req : Live(t)' <=> Live(t)
    BY <1>4, <1>6, <1>7, <1>11 DEF Live, Members
  <2>2. \A f \in Req : Members(f)' = Members(f)
    BY <1>4, <1>5 DEF Members
  <2>3. \A f \in Req : current'[f] = current[f] /\ phase'[f] = phase[f]
    BY <1>8, <2>1, <2>2, FamilyFrame DEF Members
  <2>4. current' = current
    BY <2>3 DEF current
  <2>5. phase' = phase
    <3>1. phase = [f \in Req |-> phase[f]] /\ phase' = [f \in Req |-> phase'[f]]
      BY Zenon DEF phase
    <3> QED
      BY <2>3, <3>1
  <2>6. spent' = spent
    BY <1>4, <2>1 DEF spent
  <2> QED
    BY <2>4, <2>5, <2>6
<1> QED
  BY <1>10, <1>11

\* A rotation that is cut off between its two writes closes its family; a
\* request cut off anywhere else is not seen.
LEMMA CutOff ==
    ASSUME SerialInv, NEW r \in Req, Fail(r)
    PROVE  \/ Promise!Abandon(seen[r].family)
           \/ UNCHANGED <<current, spent, phase>>
<1> DEFINE g == seen[r].family
<1>1. /\ TypeOK /\ OnlyMoves(r) /\ row' = row /\ seen' = seen
      /\ pc'[r] \in {"failed", "lost"}
  BY DEF Fail, OnlyMoves, SerialInv, Inv, TypeOK
<1>2. CASE pc[r] # "revoked"
  BY <1>1, <1>2, PendingKept, NothingSeen
<1>3. CASE pc[r] = "revoked"
  <2>1. Refreshing(r)
    BY <1>3 DEF Refreshing, InFlight, Written, SerialInv, Inv, RequestInv
  <2>2. /\ presented[r] \in Req /\ Stored(presented[r]) /\ Spent(g)
        /\ row[presented[r]].family = g /\ g \in Req
    BY <1>1, <1>3
    DEF SerialInv, Inv, RequestInv, TypeOK, Row, Stored, VerdictHolds
  <2>3. Members(g) # {} /\ current[g] = {}
    BY <2>2 DEF Members, current, Spent
  <2>4. phase[g] = "rotating"
    BY <1>3, <2>2, <2>3 DEF phase
  <2>5. ~Pending(g)'
    BY <1>1, <2>1, PendingAlone DEF Pending, OnlyMoves
  <2>6. \A f \in Req \ {g} : Pending(f)' <=> Pending(f)
    BY <1>1, <1>3 DEF OnlyMoves, Pending
  <2>7. Members(g)' # {} /\ current'[g] = {}
    BY <1>1, <2>3 DEF Members, current, Stored, Live
  <2>8. phase'[g] = "closed"
    <3>1. ~ \E s \in Req : pc'[s] = "revoked" /\ seen'[s].family = g
      BY <1>1, <2>5 DEF Pending
    <3> QED
      BY <1>1, <2>2, <2>7, <3>1 DEF phase
  <2>9. \A f \in Req \ {g} : current'[f] = current[f] /\ phase'[f] = phase[f]
    BY <1>1, <2>6, FamilyFrame DEF Members, Stored, Live
  <2>10. phase' = [phase EXCEPT ![g] = "closed"]
    <3>1. phase = [f \in Req |-> phase[f]] /\ phase' = [f \in Req |-> phase'[f]]
      BY Zenon DEF phase
    <3> QED
      BY <2>8, <2>9, <3>1
  <2>11. current' = current
    BY <2>3, <2>7, <2>9 DEF current
  <2>12. spent' = spent
    BY <1>1 DEF spent, Stored, Live
  <2> QED
    BY <2>4, <2>10, <2>11, <2>12 DEF Promise!Abandon
<1> QED
  BY <1>2, <1>3

\* Every step of the requests is a step of the promise or is not seen.
LEMMA PromiseStep ==
    ASSUME SerialInv, RowsKept, Next
    PROVE  [Promise!Next]_(Promise!vars)
<1>0. TypeOK
  BY DEF SerialInv, Inv
<1>a. \A r \in Req : pc[r] = "revoked" => seen[r].family \in Req
  BY DEF SerialInv, Inv, RequestInv, TypeOK, Row
<1>1. ASSUME NEW r \in Req,
             \/ Arrive(r) \/ RefreshReject(r) \/ RefreshReplay(r)
             \/ RefreshAllow(r) \/ EmitReplay(r) \/ ResolveRole(r) \/ Answer(r)
      PROVE  UNCHANGED <<current, spent, phase>>
  <2>1. /\ OnlyMoves(r) /\ row' = row
        /\ pc[r] # "revoked" /\ pc'[r] # "revoked"
    BY <1>0, <1>1
    DEF Arrive, LoginVerify, LoginReject, RefreshFind, RefreshUnknown,
        RefreshReject, RefreshReplay, RefreshAllow, EmitReplay, ResolveRole,
        Answer, Goto, OnlyMoves, TypeOK
  <2> QED
    BY <2>1, PendingKept, NothingSeen
<1>2. ASSUME Tick PROVE UNCHANGED <<current, spent, phase>>
  BY <1>2, NothingSeen DEF Tick, Pending
<1>3. ASSUME NEW r \in Req, LoginStore(r) PROVE Promise!Next
  BY <1>3, LoginIssues DEF Promise!Next
<1>4. ASSUME NEW r \in Req, StoreSuccessor(r) PROVE Promise!Next
  BY <1>a, <1>4, SuccessorIssues DEF Promise!Next, StoreSuccessor, Goto
<1>5. ASSUME NEW r \in Req, Revoke(r) PROVE Promise!Next
  <2>1. seen[r].family \in Req
    BY <1>0, <1>5, AllowedIsLive DEF Revoke, Goto, TypeOK, Row, Live, Stored
  <2> QED
    BY <1>5, <2>1, RevokeSpends DEF Promise!Next
<1>6. ASSUME NEW r \in Req, RevokeFamily(r)
      PROVE  Promise!Next \/ UNCHANGED <<current, spent, phase>>
  <2>1. seen[r].family \in Req
    BY <1>6 DEF RevokeFamily, Goto, SerialInv, Inv, RequestInv, TypeOK, Row
  <2> QED
    BY <1>6, <2>1, FamilyRevocation DEF Promise!Next
<1>7. ASSUME NEW r \in Req, Fail(r)
      PROVE  Promise!Next \/ UNCHANGED <<current, spent, phase>>
  <2>1. CASE pc[r] = "revoked"
    BY <1>a, <1>7, <2>1, CutOff DEF Promise!Next
  <2>2. CASE pc[r] # "revoked"
    <3>1. OnlyMoves(r) /\ row' = row /\ pc'[r] # "revoked"
      BY <1>0, <1>7 DEF Fail, OnlyMoves, TypeOK
    <3> QED
      BY <2>2, <3>1, PendingKept, NothingSeen
  <2> QED
    BY <2>1, <2>2
<1> QED
  BY <1>1, <1>2, <1>3, <1>4, <1>5, <1>6, <1>7
  DEF Next, Proceed, Promise!vars

\* No family is open before the first login.
LEMMA PromiseInit == Init => Promise!Init
<1> SUFFICES ASSUME Init PROVE Promise!Init
  OBVIOUS
<1>1. \A t \in Req : ~Stored(t)
  BY DEF Init, Stored
<1>2. \A f \in Req : Members(f) = {}
  BY <1>1 DEF Members
<1>3. current = [f \in Req |-> {}]
  BY <1>2 DEF current
<1>4. spent = {}
  BY <1>1 DEF spent
<1>5. phase = [f \in Req |-> "unopened"]
  BY <1>2 DEF phase
<1> QED
  BY <1>3, <1>4, <1>5 DEF Promise!Init

\* Requests that do not overlap implement the promise made to the holder of a
\* session: at most one token of a family works, using it up replaces it by
\* one that never worked before or ends the family, and a family that ended
\* never opens again.
THEOREM RotationKeepsPromise ==
    ASSUME ~Overlap
    PROVE  Spec => KeepsPromise
<1>1. SerialInv /\ [Next]_vars => [Promise!Next]_(Promise!vars)
  <2> SUFFICES ASSUME SerialInv, [Next]_vars
               PROVE  [Promise!Next]_(Promise!vars)
    OBVIOUS
  <2>1. CASE Next
    BY <2>1, PromiseStep, KeptByStep DEF SerialInv
  <2>2. CASE UNCHANGED vars
    BY <2>2, NothingSeen DEF vars, Pending, Promise!vars
  <2> QED
    BY <2>1, <2>2
<1>2. Spec => []SerialInv
  BY SerialInvHolds
<1> QED
  BY <1>1, <1>2, PromiseInit, PTL DEF Spec, KeepsPromise, Promise!Spec
=============================================================================
