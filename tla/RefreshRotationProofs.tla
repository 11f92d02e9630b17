------------------------ MODULE RefreshRotationProofs ------------------------
(***************************************************************************)
(* Proofs about RefreshRotation, for every set of requests and accounts,   *)
(* every TTL and every bound on the clock.  Inv is the inductive           *)
(* invariant: what a request remembers stays true of the table while other *)
(* requests write to it, because the table only moves one way (RowsKept).  *)
(* LockInv says who is to blame when the holder of a token holds no live   *)
(* one; a session that is over has nobody left to extend it; Left counts   *)
(* the statements a request has left, which no other request adds to.      *)
(***************************************************************************)
EXTENDS RefreshRotation, TLAPS

\* What is known of a request wherever it is.
RequestInv(r) ==
    /\ pc[r] \in {"idle", "verified"} => presented[r] = None /\ seen[r] = None
    /\ pc[r] \in {"found", "allowed", "resolved", "revoked",
                  "replaying", "familyRevoked", "replay"}
          => presented[r] # None
    /\ presented[r] # None =>
          LET p == row[presented[r]]
          IN /\ seen[r] # None /\ p # None
             /\ p.family = seen[r].family
             /\ p.account = seen[r].account
             /\ seen[r].revoked => p.revoked
             /\ seen[r].replacedBy # None => p.replacedBy # None
    /\ pc[r] = "verified" => /\ next[r] # None
                             /\ next[r].family = r
                             /\ ~next[r].revoked
    /\ pc[r] \in {"resolved", "revoked"} =>
          /\ next[r] # None
          /\ next[r].family = seen[r].family
          /\ next[r].account = seen[r].account
          /\ ~next[r].revoked
    /\ pc[r] = "replaying" => seen[r].revoked /\ seen[r].replacedBy # None
    /\ pc[r] = "revoked" => /\ row[presented[r]].revoked
                            /\ row[presented[r]].replacedBy # None
    /\ pc[r] \in {"stored", "ok"} => row[r] # None

\* What is known of a row of the table.
RowInv(t) ==
    row[t] # None =>
        /\ pc[t] \in {"stored", "ok", "lost"}
        /\ presented[t] # None =>
              /\ row[presented[t]].revoked
              /\ row[presented[t]].replacedBy # None
              /\ row[t].family = row[presented[t]].family
              /\ row[t].account = row[presented[t]].account
        /\ row[row[t].family] # None
        /\ row[row[t].family].family = row[t].family
        /\ row[row[t].family].account = row[t].account
        /\ row[t].revoked /\ row[t].replacedBy = None =>
              \E u \in Req : /\ row[u] # None
                             /\ row[u].family = row[t].family
                             /\ row[u].replacedBy # None

Inv ==
    /\ TypeOK
    /\ \A r \in Req : RequestInv(r)
    /\ \A t \in Req : RowInv(t)

\* The table only moves one way: what a record p may have become.
Keeps(p, q) ==
    /\ q # None
    /\ p.revoked => q.revoked
    /\ p.replacedBy # None => q.replacedBy # None
    /\ q.family = p.family
    /\ q.account = p.account
    /\ q.expiresAt = p.expiresAt

RowsKept == \A t \in Req : row[t] # None => Keeps(row[t], row'[t])

-----------------------------------------------------------------------------
(* Type correctness *)

\* What the two UPDATEs do to a record.
LEMMA RevokedRow ==
    ASSUME NEW p \in Row
    PROVE  LET q == [p EXCEPT !.revoked = TRUE]
           IN /\ q \in Row
              /\ q.revoked
              /\ q.replacedBy = p.replacedBy
              /\ q.family = p.family
              /\ Keeps(p, q)
<1>1. [p EXCEPT !.revoked = TRUE] \in Row
  BY DEF Row
<1>2. [p EXCEPT !.revoked = TRUE] # None
  BY <1>1, RotationAssumption
<1> QED
  BY <1>1, <1>2 DEF Row, Keeps

LEMMA ReplacedRow ==
    ASSUME NEW p \in Row, NEW r \in Req
    PROVE  LET q == [p EXCEPT !.revoked = TRUE, !.replacedBy = r]
           IN /\ q \in Row
              /\ q.revoked
              /\ q.replacedBy = r
              /\ q.family = p.family
              /\ Keeps(p, q)
<1>1. [p EXCEPT !.revoked = TRUE, !.replacedBy = r] \in Row
  BY DEF Row
<1>2. [p EXCEPT !.revoked = TRUE, !.replacedBy = r] # None
  BY <1>1, RotationAssumption
<1>3. r # None
  BY RotationAssumption
<1> QED
  BY <1>1, <1>2, <1>3 DEF Row, Keeps

\* A generated token is a live record of its account and family.
LEMMA FreshToken ==
    ASSUME clock \in Nat, NEW a \in Account, NEW f \in Req
    PROVE  LET q == NewRefreshToken(a, f)
           IN /\ q \in Row
              /\ q # None
              /\ q.account = a
              /\ q.family = f
              /\ ~q.revoked
<1>1. NewRefreshToken(a, f) \in Row
  BY RotationAssumption DEF NewRefreshToken, Row
<1> QED
  BY <1>1, RotationAssumption DEF NewRefreshToken

\* The table starts empty and no request has begun.
LEMMA TypeInit == Init => TypeOK
  BY RotationAssumption DEF Init, TypeOK

\* Every step keeps the types: it needs of the invariant only that a record
\* that is used is there.
LEMMA TypeStep == Inv /\ Next => TypeOK'
<1> SUFFICES ASSUME Inv, Next PROVE TypeOK'
  OBVIOUS
<1> USE RotationAssumption DEF Goto, TypeOK, InFlight, Unwritten, Written, Ended
<1>0. TypeOK
  BY DEF Inv
<1>1. ASSUME NEW r \in Req, NEW a \in Account, LoginVerify(r, a) PROVE TypeOK'
  BY <1>0, <1>1 DEF LoginVerify, NewRefreshToken, Row
<1>2. ASSUME NEW r \in Req, LoginReject(r) PROVE TypeOK'
  BY <1>0, <1>2 DEF LoginReject
<1>3. ASSUME NEW r \in Req, LoginStore(r) PROVE TypeOK'
  BY <1>0, <1>3 DEF LoginStore
<1>4. ASSUME NEW r \in Req, NEW q \in Req, RefreshFind(r, q) PROVE TypeOK'
  BY <1>0, <1>4 DEF RefreshFind
<1>5. ASSUME NEW r \in Req, RefreshUnknown(r) PROVE TypeOK'
  BY <1>0, <1>5 DEF RefreshUnknown
<1>6. ASSUME NEW r \in Req, RefreshReject(r) PROVE TypeOK'
  BY <1>0, <1>6 DEF RefreshReject
<1>7. ASSUME NEW r \in Req, RefreshReplay(r) PROVE TypeOK'
  BY <1>0, <1>7 DEF RefreshReplay
<1>8. ASSUME NEW r \in Req, RefreshAllow(r) PROVE TypeOK'
  BY <1>0, <1>8 DEF RefreshAllow
<1>9. ASSUME NEW r \in Req, RevokeFamily(r) PROVE TypeOK'
  <2>1. \A t \in Req : row[t] # None
            => [row[t] EXCEPT !.revoked = TRUE] \in Row
    BY <1>0, RevokedRow
  <2> QED
    BY <1>0, <1>9, <2>1 DEF RevokeFamily
<1>10. ASSUME NEW r \in Req, EmitReplay(r) PROVE TypeOK'
  BY <1>0, <1>10 DEF EmitReplay
<1>11. ASSUME NEW r \in Req, ResolveRole(r) PROVE TypeOK'
  <2>1. seen[r] \in Row
    BY <1>0, <1>11 DEF ResolveRole, Inv, RequestInv
  <2> QED
    BY <1>0, <1>11, <2>1 DEF ResolveRole, NewRefreshToken, Row
<1>12. ASSUME NEW r \in Req, Revoke(r) PROVE TypeOK'
  <2>1. presented[r] \in Req /\ row[presented[r]] \in Row
    BY <1>0, <1>12 DEF Revoke, Inv, RequestInv
  <2>2. [row[presented[r]] EXCEPT !.revoked = TRUE, !.replacedBy = r] \in Row
    BY <2>1, ReplacedRow
  <2> QED
    BY <1>0, <1>12, <2>1, <2>2 DEF Revoke
<1>13. ASSUME NEW r \in Req, StoreSuccessor(r) PROVE TypeOK'
  BY <1>0, <1>13 DEF StoreSuccessor
<1>14. ASSUME NEW r \in Req, Answer(r) PROVE TypeOK'
  BY <1>0, <1>14 DEF Answer
<1>15. ASSUME NEW r \in Req, Fail(r) PROVE TypeOK'
  BY <1>0, <1>15 DEF Fail
<1>16. ASSUME Tick PROVE TypeOK'
  BY <1>0, <1>16 DEF Tick
<1> QED
  BY <1>1, <1>2, <1>3, <1>4, <1>5, <1>6, <1>7, <1>8, <1>9, <1>10, <1>11,
     <1>12, <1>13, <1>14, <1>15, <1>16 DEF Next, Arrive, Proceed

-----------------------------------------------------------------------------
(* The table only moves one way *)

\* A request that is about to store has no row yet.
LEMMA FreshRow ==
    ASSUME Inv, NEW r \in Req, pc[r] \in {"verified", "revoked"}
    PROVE  row[r] = None
  BY DEF Inv, RowInv

\* Every statement moves the table one way: the two UPDATEs only set
\* revoked_at and replaced_by, the INSERT only adds a row.
LEMMA KeptByStep == Inv /\ [Next]_vars => RowsKept
<1> SUFFICES ASSUME Inv, [Next]_vars PROVE RowsKept
  OBVIOUS
<1>0. TypeOK
  BY DEF Inv
<1>1. CASE row' = row
  BY <1>1 DEF RowsKept, Keeps
<1>2. ASSUME NEW r \in Req, LoginStore(r) PROVE RowsKept
  BY <1>0, <1>2, FreshRow DEF LoginStore, Goto, RowsKept, Keeps, TypeOK
<1>3. ASSUME NEW r \in Req, StoreSuccessor(r) PROVE RowsKept
  BY <1>0, <1>3, FreshRow DEF StoreSuccessor, Goto, RowsKept, Keeps, TypeOK
<1>4. ASSUME NEW r \in Req, RevokeFamily(r) PROVE RowsKept
  <2> SUFFICES ASSUME NEW t \in Req, row[t] # None
               PROVE  Keeps(row[t], row'[t])
    BY DEF RowsKept
  <2>1. row[t] \in Row
    BY <1>0 DEF TypeOK
  <2>2. CASE row'[t] = row[t]
    BY <2>2 DEF Keeps
  <2>3. CASE row'[t] = [row[t] EXCEPT !.revoked = TRUE]
    BY <2>1, <2>3, RevokedRow
  <2> QED
    BY <1>4, <2>2, <2>3 DEF RevokeFamily
<1>5. ASSUME NEW r \in Req, Revoke(r) PROVE RowsKept
  <2> SUFFICES ASSUME NEW t \in Req, row[t] # None
               PROVE  Keeps(row[t], row'[t])
    BY DEF RowsKept
  <2>1. row[t] \in Row
    BY <1>0 DEF TypeOK
  <2>2. CASE row'[t] = row[t]
    BY <2>2 DEF Keeps
  <2>3. CASE row'[t] = [row[t] EXCEPT !.revoked = TRUE, !.replacedBy = r]
    BY <2>1, <2>3, ReplacedRow
  <2> QED
    BY <1>0, <1>5, <2>2, <2>3 DEF Revoke, TypeOK
<1> QED
  BY <1>1, <1>2, <1>3, <1>4, <1>5
  DEF Next, Arrive, Proceed, vars, LoginVerify, LoginReject, RefreshFind,
      RefreshUnknown, RefreshReject, RefreshReplay, RefreshAllow, EmitReplay,
      ResolveRole, Answer, Fail, Tick

-----------------------------------------------------------------------------
(* What is known of the requests is kept *)

\* A request that does not move keeps what is known of it, whatever the
\* others write: the records it remembers have only moved one way.
LEMMA RequestFrame ==
    ASSUME Inv, RowsKept, NEW s \in Req,
           pc'[s] = pc[s], presented'[s] = presented[s],
           seen'[s] = seen[s], next'[s] = next[s]
    PROVE  RequestInv(s)'
<1>1. RequestInv(s) /\ presented[s] \in Req \cup {None}
  BY DEF Inv, TypeOK
<1>2. presented[s] # None =>
         /\ row[presented[s]] # None
         /\ Keeps(row[presented[s]], row'[presented[s]])
  BY <1>1 DEF RowsKept, RequestInv
<1>3. row[s] # None => row'[s] # None
  BY DEF RowsKept, Keeps
<1>4. pc[s] = "revoked" => presented[s] # None
  BY <1>1 DEF RequestInv
<1> QED
  BY <1>1, <1>2, <1>3, <1>4 DEF RequestInv, Keeps

\* Only the request r moves.
OnlyMoves(r) ==
    \A s \in Req \ {r} :
        /\ pc'[s] = pc[s]
        /\ presented'[s] = presented[s]
        /\ seen'[s] = seen[s]
        /\ next'[s] = next[s]

\* Every step keeps what is known of every request: of the one that moves by
\* the definition of its step, of the others by RequestFrame.
LEMMA RequestStep == Inv /\ RowsKept /\ Next => \A s \in Req : RequestInv(s)'
<1> SUFFICES ASSUME Inv, RowsKept, Next PROVE \A s \in Req : RequestInv(s)'
  OBVIOUS
<1>0. TypeOK
  BY DEF Inv
<1>a. ASSUME NEW r \in Req, OnlyMoves(r), RequestInv(r)'
      PROVE  \A s \in Req : RequestInv(s)'
  BY <1>a, RequestFrame DEF OnlyMoves
<1>1. ASSUME NEW r \in Req, NEW a \in Account, LoginVerify(r, a)
      PROVE  \A s \in Req : RequestInv(s)'
  <2>1. OnlyMoves(r)
    BY <1>0, <1>1 DEF LoginVerify, Goto, OnlyMoves, TypeOK
  <2>2. RequestInv(r)'
    BY <1>0, <1>1, FreshToken, RotationAssumption
    DEF LoginVerify, Goto, Inv, RequestInv, TypeOK
  <2> QED
    BY <1>a, <2>1, <2>2
<1>2. ASSUME NEW r \in Req, LoginReject(r)
      PROVE  \A s \in Req : RequestInv(s)'
  <2>1. OnlyMoves(r)
    BY <1>0, <1>2 DEF LoginReject, Goto, OnlyMoves, TypeOK
  <2>2. RequestInv(r)'
    BY <1>0, <1>2, RotationAssumption
    DEF LoginReject, Goto, Inv, RequestInv, TypeOK, RowsKept, Keeps
  <2> QED
    BY <1>a, <2>1, <2>2
<1>3. ASSUME NEW r \in Req, LoginStore(r)
      PROVE  \A s \in Req : RequestInv(s)'
  <2>1. OnlyMoves(r)
    BY <1>0, <1>3 DEF LoginStore, Goto, OnlyMoves, TypeOK
  <2>2. RequestInv(r)'
    BY <1>0, <1>3, RotationAssumption
    DEF LoginStore, Goto, Inv, RequestInv, TypeOK, RowsKept, Keeps
  <2> QED
    BY <1>a, <2>1, <2>2
<1>4. ASSUME NEW r \in Req, NEW q \in Req, RefreshFind(r, q)
      PROVE  \A s \in Req : RequestInv(s)'
  <2>1. OnlyMoves(r)
    BY <1>0, <1>4 DEF RefreshFind, Goto, OnlyMoves, TypeOK
  <2>2. RequestInv(r)'
    BY <1>0, <1>4, RotationAssumption
    DEF RefreshFind, Goto, Inv, RequestInv, TypeOK, RowsKept, Keeps
  <2> QED
    BY <1>a, <2>1, <2>2
<1>5. ASSUME NEW r \in Req, RefreshUnknown(r)
      PROVE  \A s \in Req : RequestInv(s)'
  <2>1. OnlyMoves(r)
    BY <1>0, <1>5 DEF RefreshUnknown, Goto, OnlyMoves, TypeOK
  <2>2. RequestInv(r)'
    BY <1>0, <1>5, RotationAssumption
    DEF RefreshUnknown, Goto, Inv, RequestInv, TypeOK, RowsKept, Keeps
  <2> QED
    BY <1>a, <2>1, <2>2
<1>6. ASSUME NEW r \in Req, RefreshReject(r)
      PROVE  \A s \in Req : RequestInv(s)'
  <2>1. OnlyMoves(r)
    BY <1>0, <1>6 DEF RefreshReject, Goto, OnlyMoves, TypeOK
  <2>2. RequestInv(r)'
    BY <1>0, <1>6, RotationAssumption
    DEF RefreshReject, Goto, Inv, RequestInv, TypeOK, RowsKept, Keeps
  <2> QED
    BY <1>a, <2>1, <2>2
<1>7. ASSUME NEW r \in Req, RefreshReplay(r)
      PROVE  \A s \in Req : RequestInv(s)'
  <2>1. OnlyMoves(r)
    BY <1>0, <1>7 DEF RefreshReplay, Goto, OnlyMoves, TypeOK
  <2>2. RequestInv(r)'
    BY <1>0, <1>7, RotationAssumption
    DEF RefreshReplay, DecideRotation, Goto, Inv, RequestInv, TypeOK, RowsKept, Keeps
  <2> QED
    BY <1>a, <2>1, <2>2
<1>8. ASSUME NEW r \in Req, RefreshAllow(r)
      PROVE  \A s \in Req : RequestInv(s)'
  <2>1. OnlyMoves(r)
    BY <1>0, <1>8 DEF RefreshAllow, Goto, OnlyMoves, TypeOK
  <2>2. RequestInv(r)'
    BY <1>0, <1>8, RotationAssumption
    DEF RefreshAllow, Goto, Inv, RequestInv, TypeOK, RowsKept, Keeps
  <2> QED
    BY <1>a, <2>1, <2>2
<1>9. ASSUME NEW r \in Req, RevokeFamily(r)
      PROVE  \A s \in Req : RequestInv(s)'
  <2>1. OnlyMoves(r)
    BY <1>0, <1>9 DEF RevokeFamily, Goto, OnlyMoves, TypeOK
  <2>2. RequestInv(r)'
    BY <1>0, <1>9, RotationAssumption
    DEF RevokeFamily, Goto, Inv, RequestInv, TypeOK, RowsKept, Keeps
  <2> QED
    BY <1>a, <2>1, <2>2
<1>10. ASSUME NEW r \in Req, EmitReplay(r)
      PROVE  \A s \in Req : RequestInv(s)'
  <2>1. OnlyMoves(r)
    BY <1>0, <1>10 DEF EmitReplay, Goto, OnlyMoves, TypeOK
  <2>2. RequestInv(r)'
    BY <1>0, <1>10, RotationAssumption
    DEF EmitReplay, Goto, Inv, RequestInv, TypeOK, RowsKept, Keeps
  <2> QED
    BY <1>a, <2>1, <2>2
<1>11. ASSUME NEW r \in Req, ResolveRole(r)
      PROVE  \A s \in Req : RequestInv(s)'
  <2>1. OnlyMoves(r)
    BY <1>0, <1>11 DEF ResolveRole, Goto, OnlyMoves, TypeOK
  <2>2. RequestInv(r)'
    <3>1. RequestInv(r) /\ presented[r] # None /\ seen[r] \in Row
      BY <1>0, <1>11 DEF ResolveRole, Goto, Inv, RequestInv, TypeOK
    <3>2. seen[r].account \in Account /\ seen[r].family \in Req
      BY <3>1 DEF Row
    <3> QED
      BY <1>0, <1>11, <3>1, <3>2, FreshToken, RotationAssumption
      DEF ResolveRole, Goto, RequestInv, TypeOK
  <2> QED
    BY <1>a, <2>1, <2>2
<1>12. ASSUME NEW r \in Req, Revoke(r)
      PROVE  \A s \in Req : RequestInv(s)'
  <2>1. OnlyMoves(r)
    BY <1>0, <1>12 DEF Revoke, Goto, OnlyMoves, TypeOK
  <2>2. RequestInv(r)'
    <3>1. /\ RequestInv(r)
          /\ presented[r] \in Req /\ row[presented[r]] \in Row
      BY <1>0, <1>12 DEF Revoke, Goto, Inv, RequestInv, TypeOK
    <3>2. /\ Keeps(row[presented[r]], row'[presented[r]])
          /\ row'[presented[r]].revoked
          /\ row'[presented[r]].replacedBy # None
      BY <1>0, <1>12, <3>1, ReplacedRow, RotationAssumption
      DEF Revoke, TypeOK
    <3> QED
      BY <1>0, <1>12, <3>1, <3>2
      DEF Revoke, Goto, RequestInv, TypeOK, Keeps
  <2> QED
    BY <1>a, <2>1, <2>2
<1>13. ASSUME NEW r \in Req, StoreSuccessor(r)
      PROVE  \A s \in Req : RequestInv(s)'
  <2>1. OnlyMoves(r)
    BY <1>0, <1>13 DEF StoreSuccessor, Goto, OnlyMoves, TypeOK
  <2>2. RequestInv(r)'
    BY <1>0, <1>13, RotationAssumption
    DEF StoreSuccessor, Goto, Inv, RequestInv, TypeOK, RowsKept, Keeps
  <2> QED
    BY <1>a, <2>1, <2>2
<1>14. ASSUME NEW r \in Req, Answer(r)
      PROVE  \A s \in Req : RequestInv(s)'
  <2>1. OnlyMoves(r)
    BY <1>0, <1>14 DEF Answer, Goto, OnlyMoves, TypeOK
  <2>2. RequestInv(r)'
    BY <1>0, <1>14, RotationAssumption
    DEF Answer, Goto, Inv, RequestInv, TypeOK, RowsKept, Keeps
  <2> QED
    BY <1>a, <2>1, <2>2
<1>15. ASSUME NEW r \in Req, Fail(r)
      PROVE  \A s \in Req : RequestInv(s)'
  <2>1. OnlyMoves(r)
    BY <1>0, <1>15 DEF Fail, Goto, OnlyMoves, TypeOK
  <2>2. RequestInv(r)'
    BY <1>0, <1>15, RotationAssumption
    DEF Fail, InFlight, Unwritten, Written, Goto, Inv, RequestInv, TypeOK, RowsKept, Keeps
  <2> QED
    BY <1>a, <2>1, <2>2
<1>16. ASSUME Tick PROVE \A s \in Req : RequestInv(s)'
  BY <1>16, RequestFrame DEF Tick
<1> QED
  BY <1>1, <1>2, <1>3, <1>4, <1>5, <1>6, <1>7, <1>8, <1>9, <1>10, <1>11, <1>12, <1>13, <1>14, <1>15, <1>16
  DEF Next, Arrive, Proceed

-----------------------------------------------------------------------------
(* What is known of the rows is kept *)

\* A rotated token of the family of t.
RotatedIn(t, u) == /\ row[u] # None
                   /\ row[u].family = row[t].family
                   /\ row[u].replacedBy # None

\* A row that was there keeps what is known of it, if a kill has its reason.
LEMMA RowFrame ==
    ASSUME Inv, RowsKept, NEW t \in Req, row[t] # None,
           presented'[t] = presented[t],
           pc'[t] \in {"stored", "ok", "lost"},
           row'[t].revoked /\ row'[t].replacedBy = None
              => \E u \in Req : RotatedIn(t, u)
    PROVE  RowInv(t)'
<1>1. RowInv(t) /\ row[t] \in Row /\ presented[t] \in Req \cup {None}
  BY DEF Inv, TypeOK
<1>2. row[t].family \in Req
  BY <1>1 DEF Row
<1>3. Keeps(row[t], row'[t])
  BY DEF RowsKept
<1>4. Keeps(row[row[t].family], row'[row[t].family])
  BY <1>1, <1>2 DEF RowsKept, RowInv
<1>5. presented[t] # None =>
         /\ row[presented[t]] # None
         /\ Keeps(row[presented[t]], row'[presented[t]])
  BY <1>1 DEF RowsKept, Inv, RequestInv
<1>6. \A u \in Req : RotatedIn(t, u) => RotatedIn(t, u)'
  BY <1>3 DEF RotatedIn, RowsKept, Keeps
<1>7. row'[t].revoked /\ row'[t].replacedBy = None
         => \E u \in Req : RotatedIn(t, u)'
  BY <1>6
<1> QED
  BY <1>1, <1>3, <1>4, <1>5, <1>7 DEF RowInv, Keeps, RotatedIn

\* A row that did not change, in a step that moves no stored request back.
LEMMA RowUntouched ==
    ASSUME Inv, RowsKept, NEW t \in Req, row[t] # None, row'[t] = row[t],
           presented'[t] = presented[t],
           pc'[t] \in {"stored", "ok", "lost"}
    PROVE  RowInv(t)'
<1>1. row[t].revoked /\ row[t].replacedBy = None
         => \E u \in Req : RotatedIn(t, u)
  BY DEF Inv, RowInv, RotatedIn
<1> QED
  BY <1>1, RowFrame

\* The steps that write no row.
LEMMA RowsUntouched ==
    ASSUME Inv, RowsKept, row' = row,
           \A t \in Req : pc[t] \in {"stored", "ok", "lost"} =>
               /\ presented'[t] = presented[t]
               /\ pc'[t] \in {"stored", "ok", "lost"}
    PROVE  \A t \in Req : RowInv(t)'
<1> SUFFICES ASSUME NEW t \in Req PROVE RowInv(t)'
  OBVIOUS
<1>1. CASE row[t] = None
  BY <1>1 DEF RowInv
<1>2. CASE row[t] # None
  <2>1. pc[t] \in {"stored", "ok", "lost"}
    BY <1>2 DEF Inv, RowInv
  <2> QED
    BY <1>2, <2>1, RowUntouched
<1> QED
  BY <1>1, <1>2

\* Every step keeps what is known of every row: only the four statements that
\* write can disturb it.
LEMMA RowStep == Inv /\ RowsKept /\ Next => \A t \in Req : RowInv(t)'
<1> SUFFICES ASSUME Inv, RowsKept, Next PROVE \A t \in Req : RowInv(t)'
  OBVIOUS
<1>0. TypeOK
  BY DEF Inv
<1>1. ASSUME NEW r \in Req, NEW a \in Account, LoginVerify(r, a)
      PROVE  \A t \in Req : RowInv(t)'
  BY <1>0, <1>1, RowsUntouched DEF LoginVerify, Goto, TypeOK
<1>2. ASSUME NEW r \in Req, LoginReject(r)
      PROVE  \A t \in Req : RowInv(t)'
  BY <1>0, <1>2, RowsUntouched DEF LoginReject, Goto, TypeOK
<1>3. ASSUME NEW r \in Req, NEW q \in Req, RefreshFind(r, q)
      PROVE  \A t \in Req : RowInv(t)'
  BY <1>0, <1>3, RowsUntouched DEF RefreshFind, Goto, TypeOK
<1>4. ASSUME NEW r \in Req, RefreshUnknown(r)
      PROVE  \A t \in Req : RowInv(t)'
  BY <1>0, <1>4, RowsUntouched DEF RefreshUnknown, Goto, TypeOK
<1>5. ASSUME NEW r \in Req, RefreshReject(r)
      PROVE  \A t \in Req : RowInv(t)'
  BY <1>0, <1>5, RowsUntouched DEF RefreshReject, Goto, TypeOK
<1>6. ASSUME NEW r \in Req, RefreshReplay(r)
      PROVE  \A t \in Req : RowInv(t)'
  BY <1>0, <1>6, RowsUntouched DEF RefreshReplay, Goto, TypeOK
<1>7. ASSUME NEW r \in Req, RefreshAllow(r)
      PROVE  \A t \in Req : RowInv(t)'
  BY <1>0, <1>7, RowsUntouched DEF RefreshAllow, Goto, TypeOK
<1>8. ASSUME NEW r \in Req, EmitReplay(r)
      PROVE  \A t \in Req : RowInv(t)'
  BY <1>0, <1>8, RowsUntouched DEF EmitReplay, Goto, TypeOK
<1>9. ASSUME NEW r \in Req, ResolveRole(r)
      PROVE  \A t \in Req : RowInv(t)'
  BY <1>0, <1>9, RowsUntouched DEF ResolveRole, Goto, TypeOK
<1>10. ASSUME NEW r \in Req, Answer(r)
      PROVE  \A t \in Req : RowInv(t)'
  BY <1>0, <1>10, RowsUntouched DEF Answer, Goto, TypeOK
<1>11. ASSUME NEW r \in Req, Fail(r)
      PROVE  \A t \in Req : RowInv(t)'
  BY <1>0, <1>11, RowsUntouched DEF Fail, Unwritten, Written, Goto, TypeOK
<1>12. ASSUME Tick PROVE \A t \in Req : RowInv(t)'
  BY <1>12, RowsUntouched DEF Tick
\* A store adds the row of r, and leaves the others as they are.
<1>13. ASSUME NEW r \in Req, pc[r] \in {"verified", "revoked"},
              pc' = [pc EXCEPT ![r] = "stored"],
              row' = [row EXCEPT ![r] = next[r]],
              UNCHANGED presented,
              next[r] # None, ~next[r].revoked,
              RowInv(r)'
       PROVE  \A t \in Req : RowInv(t)'
  <2> SUFFICES ASSUME NEW t \in Req, t # r PROVE RowInv(t)'
    BY <1>13
  <2>1. row'[t] = row[t] /\ pc'[t] = pc[t]
    BY <1>0, <1>13 DEF TypeOK
  <2>2. CASE row[t] = None
    BY <2>1, <2>2 DEF RowInv
  <2>3. CASE row[t] # None
    BY <1>13, <2>1, <2>3, RowUntouched DEF Inv, RowInv
  <2> QED
    BY <2>2, <2>3
<1>14. ASSUME NEW r \in Req, LoginStore(r)
       PROVE  \A t \in Req : RowInv(t)'
  <2>1. /\ RequestInv(r) /\ next[r] # None /\ next[r].family = r
        /\ presented[r] = None /\ ~next[r].revoked
    BY <1>14 DEF LoginStore, Goto, Inv, RequestInv
  <2>2. row'[r] = next[r] /\ pc'[r] = "stored" /\ presented'[r] = None
    BY <1>0, <1>14, <2>1 DEF LoginStore, Goto, TypeOK
  <2>3. RowInv(r)'
    BY <2>1, <2>2 DEF RowInv
  <2> QED
    BY <1>13, <1>14, <2>1, <2>3 DEF LoginStore, Goto
<1>15. ASSUME NEW r \in Req, StoreSuccessor(r)
       PROVE  \A t \in Req : RowInv(t)'
  <2> DEFINE p == presented[r]
  <2>1. /\ RequestInv(r) /\ next[r] # None /\ ~next[r].revoked
        /\ next[r].family = seen[r].family /\ next[r].account = seen[r].account
        /\ p # None /\ p \in Req
        /\ row[p] # None /\ row[p].revoked /\ row[p].replacedBy # None
        /\ row[p].family = seen[r].family /\ row[p].account = seen[r].account
    BY <1>0, <1>15 DEF StoreSuccessor, Goto, Inv, RequestInv, TypeOK
  <2>2. row'[r] = next[r] /\ pc'[r] = "stored" /\ presented'[r] = p
    BY <1>0, <1>15, <2>1 DEF StoreSuccessor, Goto, TypeOK
  <2>3. p # r
    BY <1>15, <2>1, FreshRow DEF StoreSuccessor, Goto
  <2>4. /\ row[p].family \in Req /\ row[row[p].family] # None
        /\ row[row[p].family].family = row[p].family
        /\ row[row[p].family].account = row[p].account
    BY <1>0, <2>1 DEF Inv, RowInv, TypeOK, Row
  <2>5. row[p].family # r
    BY <1>15, <2>4, FreshRow DEF StoreSuccessor, Goto
  <2>6. row'[p] = row[p] /\ row'[row[p].family] = row[row[p].family]
    BY <1>0, <1>15, <2>1, <2>3, <2>4, <2>5 DEF StoreSuccessor, TypeOK
  <2>7. RowInv(r)'
    BY <2>1, <2>2, <2>4, <2>6 DEF RowInv
  <2> QED
    BY <1>13, <1>15, <2>1, <2>7 DEF StoreSuccessor, Goto
\* A killed row has the presented token for a reason.
<1>16. ASSUME NEW r \in Req, RevokeFamily(r)
       PROVE  \A t \in Req : RowInv(t)'
  <2> SUFFICES ASSUME NEW t \in Req PROVE RowInv(t)'
    OBVIOUS
  <2>1. /\ presented[r] \in Req /\ row[presented[r]] # None
        /\ row[presented[r]].family = seen[r].family
        /\ row[presented[r]].replacedBy # None
    BY <1>0, <1>16 DEF RevokeFamily, Goto, Inv, RequestInv, TypeOK
  <2>2. CASE row[t] = None
    BY <1>16, <2>2 DEF RevokeFamily, RowInv
  <2>3. ASSUME row[t] # None
        PROVE  /\ presented'[t] = presented[t]
               /\ pc'[t] \in {"stored", "ok", "lost"}
    BY <1>0, <1>16, <2>3 DEF RevokeFamily, Goto, Inv, RowInv, TypeOK
  <2>4. CASE row[t] # None /\ row[t].family = seen[r].family
    <3>1. RotatedIn(t, presented[r])
      BY <2>1, <2>4 DEF RotatedIn
    <3> QED
      BY <2>1, <2>3, <2>4, <3>1, RowFrame
  <2>5. CASE row[t] # None /\ row[t].family # seen[r].family
    <3>1. row'[t] = row[t]
      BY <1>16, <2>5 DEF RevokeFamily
    <3> QED
      BY <2>3, <2>5, <3>1, RowUntouched
  <2> QED
    BY <2>2, <2>4, <2>5
<1>17. ASSUME NEW r \in Req, Revoke(r)
       PROVE  \A t \in Req : RowInv(t)'
  <2> SUFFICES ASSUME NEW t \in Req PROVE RowInv(t)'
    OBVIOUS
  <2>1. presented[r] \in Req /\ row[presented[r]] \in Row
    BY <1>0, <1>17 DEF Revoke, Goto, Inv, RequestInv, TypeOK
  <2>2. CASE t # presented[r] /\ row[t] = None
    BY <1>0, <1>17, <2>2 DEF Revoke, RowInv, TypeOK
  <2>3. ASSUME row[t] # None
        PROVE  /\ presented'[t] = presented[t]
               /\ pc'[t] \in {"stored", "ok", "lost"}
    BY <1>0, <1>17, <2>3 DEF Revoke, Goto, Inv, RowInv, TypeOK
  <2>4. CASE t # presented[r] /\ row[t] # None
    <3>1. row'[t] = row[t]
      BY <1>0, <1>17, <2>4 DEF Revoke, TypeOK
    <3> QED
      BY <2>3, <2>4, <3>1, RowUntouched
  <2>5. CASE t = presented[r]
    <3>1. row[t] # None
      BY <2>1, <2>5, RotationAssumption
    <3>2. row'[t].replacedBy # None
      BY <1>0, <1>17, <2>1, <2>5, ReplacedRow, RotationAssumption
      DEF Revoke, TypeOK
    <3> QED
      BY <2>3, <3>1, <3>2, RowFrame
  <2> QED
    BY <2>2, <2>4, <2>5
<1> QED
  BY <1>1, <1>2, <1>3, <1>4, <1>5, <1>6, <1>7, <1>8, <1>9, <1>10, <1>11,
     <1>12, <1>14, <1>15, <1>16, <1>17
  DEF Next, Arrive, Proceed

-----------------------------------------------------------------------------
(* The invariant, and what follows from it *)

\* Before the first request nothing is stored and nothing is remembered.
LEMMA InvInit == Init => Inv
<1> SUFFICES ASSUME Init PROVE Inv
  OBVIOUS
<1>1. TypeOK
  BY TypeInit
<1>2. \A r \in Req : RequestInv(r)
  BY DEF Init, RequestInv
<1>3. \A t \in Req : RowInv(t)
  BY DEF Init, RowInv
<1> QED
  BY <1>1, <1>2, <1>3 DEF Inv

\* Every step, stuttering ones included, keeps the invariant.
LEMMA InvStep == Inv /\ [Next]_vars => Inv'
<1> SUFFICES ASSUME Inv, [Next]_vars PROVE Inv'
  OBVIOUS
<1>1. CASE Next
  <2>1. RowsKept
    BY KeptByStep
  <2> QED
    BY <1>1, <2>1, TypeStep, RequestStep, RowStep DEF Inv
<1>2. CASE UNCHANGED vars
  BY <1>2 DEF vars, Inv, TypeOK, RequestInv, RowInv
<1> QED
  BY <1>1, <1>2

\* The invariant holds of every behaviour.
THEOREM InvHolds == Spec => []Inv
<1> QED
  BY InvInit, InvStep, PTL DEF Spec

\* Every field of the table and of a request has its type: no statement
\* stores a record that is not there, none updates a row that is not there.
THEOREM TypeCorrect == Spec => []TypeOK
<1>1. Inv => TypeOK
  BY DEF Inv
<1> QED
  BY <1>1, InvHolds, PTL

\* Refresh revokes first and stores second, so a successor that is in the
\* table replaces a token that is spent, whatever else went on in between.
THEOREM SuccessorsReplaceSpentTokens == Spec => []SuccessorAfterRevocation
<1>1. Inv => SuccessorAfterRevocation
  BY DEF Inv, RowInv, SuccessorAfterRevocation, Stored
<1> QED
  BY <1>1, InvHolds, PTL

\* Refresh overwrites the family of the generated token, so a successor stays
\* in the family and with the account of the token it replaces.
THEOREM SuccessorsStayInFamily == Spec => []SuccessorInFamily
<1>1. Inv => SuccessorInFamily
  BY DEF Inv, RowInv, SuccessorInFamily, Stored
<1> QED
  BY <1>1, InvHolds, PTL

\* A family is opened by one login and extended only by successors, so it
\* never mixes two users or tenants: each of its rows has the account of the
\* row the login stored.
THEOREM FamiliesHaveOneAccount == Spec => []FamilyOfOneAccount
<1>1. Inv => FamilyOfOneAccount
  BY DEF Inv, RowInv, FamilyOfOneAccount, Stored
<1> QED
  BY <1>1, InvHolds, PTL

\* RevokeFamily is called only for a token that was rotated, so a token that
\* was revoked without a replacement shares its family with a rotated one.
THEOREM OnlyReplayKills == Spec => []KilledOnlyByReplay
<1>1. Inv => KilledOnlyByReplay
  BY DEF Inv, RowInv, KilledOnlyByReplay, Stored, Members
<1> QED
  BY <1>1, InvHolds, PTL

\* No statement of any request ever writes a stale record back: a revoked
\* token stays revoked, a replaced one replaced, a stored one stored.
THEOREM TokensNeverComeBack == Spec => NoTokenComesBack
<1> DEFINE A == \A t \in Req : Stored(t) =>
                  /\ Stored(t)'
                  /\ row[t].revoked => row'[t].revoked
                  /\ row[t].replacedBy # None => row'[t].replacedBy # None
                  /\ row'[t].family = row[t].family
                  /\ row'[t].account = row[t].account
                  /\ row'[t].expiresAt = row[t].expiresAt
<1>1. Inv /\ [Next]_vars => [A]_vars
  BY KeptByStep DEF RowsKept, Keeps, Stored
<1> QED
  BY <1>1, InvHolds, PTL DEF Spec, NoTokenComesBack

-----------------------------------------------------------------------------
(***************************************************************************)
(* Nobody is locked out.  NotLockedOut is not inductive: a client is given *)
(* its token at Answer, and by then a revocation of the family may have    *)
(* taken it.  LockInv adds that whoever did so is still to be seen.        *)
(***************************************************************************)

\* The family was revoked after a replay, or a request that had written to it
\* was cut off.  Nothing undoes either.
CutShort(f) == \E r \in Req : /\ pc[r] \in {"familyRevoked", "replay", "lost"}
                              /\ seen[r] # None
                              /\ seen[r].family = f

\* Only tokens that were given to a client are presented; a token that is
\* stored and not yet given works, unless its family was cut short.
GivenInv(r) ==
    /\ seen[r] # None => presented[r] # None
    /\ presented[r] # None => pc[presented[r]] = "ok"
    /\ pc[r] = "stored" => Live(r) \/ CutShort(row[r].family)

LockInv ==
    /\ Inv
    /\ \A r \in Req : GivenInv(r)
    /\ NotLockedOut

\* What was cut short stays so: a request that got there is at its end.
LEMMA CutShortStays ==
    ASSUME Inv, Next, NEW f, CutShort(f)
    PROVE  CutShort(f)'
<1> USE DEF Goto, TypeOK
<1>0. TypeOK
  BY DEF Inv
<1>1. PICK s \in Req : /\ pc[s] \in {"familyRevoked", "replay", "lost"}
                       /\ seen[s] # None /\ seen[s].family = f
  BY Zenon DEF CutShort
<1>2. pc'[s] \in {"familyRevoked", "replay", "lost"} /\ seen'[s] = seen[s]
  BY <1>0, <1>1, ZenonT(60)
  DEF Next, Arrive, Proceed, LoginVerify, LoginReject, RefreshFind,
      RefreshUnknown, LoginStore, RefreshReject, RefreshReplay, RefreshAllow,
      RevokeFamily, EmitReplay, ResolveRole, Revoke, StoreSuccessor, Answer,
      Fail, Tick, Unwritten, Written
<1> QED
  BY <1>1, <1>2 DEF CutShort

\* The steps that write no row and give no token.
LEMMA GivenUntouched ==
    ASSUME Inv, Next, \A s \in Req : GivenInv(s), row' = row,
           \A s \in Req : /\ pc[s] = "ok" => pc'[s] = "ok"
                          /\ pc'[s] = "stored" => pc[s] = "stored"
                          /\ presented'[s] = presented[s]
                          /\ seen'[s] = seen[s]
    PROVE  \A s \in Req : GivenInv(s)'
  BY CutShortStays DEF GivenInv, Live, Stored, Inv, TypeOK

\* Every step keeps it: only a family revocation takes a token that was not
\* given yet, and it leaves its mark.
LEMMA GivenStep ==
    ASSUME Inv, RowsKept, \A s \in Req : GivenInv(s), Next
    PROVE  \A s \in Req : GivenInv(s)'
<1> USE DEF Goto
<1>0. TypeOK
  BY DEF Inv
<1>1. ASSUME NEW r \in Req,
             \/ \E a \in Account : LoginVerify(r, a)
             \/ LoginReject(r) \/ RefreshUnknown(r)
             \/ RefreshReject(r) \/ RefreshReplay(r) \/ RefreshAllow(r)
             \/ EmitReplay(r) \/ ResolveRole(r) \/ Answer(r) \/ Fail(r)
      PROVE  \A s \in Req : GivenInv(s)'
  <2>1. /\ row' = row
        /\ \A s \in Req : /\ pc[s] = "ok" => pc'[s] = "ok"
                          /\ pc'[s] = "stored" => pc[s] = "stored"
                          /\ presented'[s] = presented[s]
                          /\ seen'[s] = seen[s]
    BY <1>0, <1>1
    DEF LoginVerify, LoginReject, RefreshUnknown, RefreshReject,
        RefreshReplay, RefreshAllow, EmitReplay, ResolveRole, Answer, Fail,
        Unwritten, Written, TypeOK
  <2> QED
    BY <2>1, GivenUntouched
<1>2. ASSUME Tick PROVE \A s \in Req : GivenInv(s)'
  BY <1>2, GivenUntouched DEF Tick
<1>3. ASSUME NEW r \in Req, NEW q \in Req, RefreshFind(r, q)
      PROVE  \A s \in Req : GivenInv(s)'
  <2> SUFFICES ASSUME NEW s \in Req PROVE GivenInv(s)'
    OBVIOUS
  <2>1. /\ pc[r] = "idle" /\ pc[q] = "ok" /\ pc'[r] = "found"
        /\ presented'[r] = q /\ row' = row
        /\ \A u \in Req : u # r => /\ pc'[u] = pc[u] /\ seen'[u] = seen[u]
                                   /\ presented'[u] = presented[u]
    BY <1>0, <1>3 DEF RefreshFind, TypeOK
  <2>2. CASE s = r
    BY <2>1, <2>2, RotationAssumption DEF GivenInv
  <2>3. CASE s # r
    <3>1. presented[s] # None => pc'[presented[s]] = "ok"
      BY <1>0, <2>1 DEF GivenInv, TypeOK
    <3>2. pc[s] = "stored" => Live(s)' \/ CutShort(row[s].family)'
      BY <2>1, CutShortStays DEF GivenInv, Live, Stored
    <3> QED
      BY <2>1, <2>3, <3>1, <3>2 DEF GivenInv
  <2> QED
    BY <2>2, <2>3
<1>4. ASSUME NEW r \in Req, LoginStore(r) \/ StoreSuccessor(r)
      PROVE  \A s \in Req : GivenInv(s)'
  <2> SUFFICES ASSUME NEW s \in Req PROVE GivenInv(s)'
    OBVIOUS
  <2>1. /\ pc[r] \in {"verified", "revoked"} /\ pc'[r] = "stored"
        /\ row'[r] = next[r] /\ next[r] # None /\ ~next[r].revoked
        /\ seen' = seen /\ presented' = presented
        /\ \A u \in Req : u # r => pc'[u] = pc[u] /\ row'[u] = row[u]
    BY <1>0, <1>4 DEF LoginStore, StoreSuccessor, Inv, RequestInv, TypeOK
  <2>2. presented[s] # None => presented[s] \in Req /\ pc'[presented[s]] = "ok"
    BY <1>0, <2>1 DEF GivenInv, TypeOK
  <2>3. CASE s = r
    BY <2>1, <2>2, <2>3 DEF GivenInv, Live, Stored
  <2>4. CASE s # r
    <3>1. pc[s] = "stored" => Live(s)' \/ CutShort(row[s].family)'
      BY <2>1, <2>4, CutShortStays DEF GivenInv, Live, Stored
    <3> QED
      BY <2>1, <2>2, <2>4, <3>1 DEF GivenInv
  <2> QED
    BY <2>3, <2>4
<1>5. ASSUME NEW r \in Req, RevokeFamily(r)
      PROVE  \A s \in Req : GivenInv(s)'
  <2> SUFFICES ASSUME NEW s \in Req PROVE GivenInv(s)'
    OBVIOUS
  <2>1. /\ pc[r] = "replaying" /\ pc'[r] = "familyRevoked"
        /\ seen' = seen /\ presented' = presented
        /\ \A u \in Req : u # r => pc'[u] = pc[u]
    BY <1>0, <1>5 DEF RevokeFamily, TypeOK
  <2>2. presented[s] # None => pc'[presented[s]] = "ok"
    BY <1>0, <2>1 DEF GivenInv, TypeOK
  <2>3. CutShort(seen[r].family)'
    <3>1. seen'[r] # None /\ seen'[r].family = seen[r].family
      BY <2>1 DEF Inv, RequestInv
    <3> QED
      BY <2>1, <3>1 DEF CutShort
  <2>4. ASSUME pc[s] = "stored"
        PROVE  Live(s)' \/ CutShort(row[s].family)'
    <3>1. row[s] # None /\ row'[s].family = row[s].family
      BY <2>4 DEF Inv, RequestInv, RowsKept, Keeps
    <3>2. CASE row[s].family = seen[r].family
      BY <2>1, <2>3, <3>1, <3>2
    <3>3. CASE row[s].family # seen[r].family
      BY <1>5, <2>4, <3>1, <3>3, CutShortStays
      DEF RevokeFamily, GivenInv, Live, Stored
    <3> QED
      BY <3>2, <3>3
  <2> QED
    BY <2>1, <2>2, <2>4 DEF GivenInv
<1>6. ASSUME NEW r \in Req, Revoke(r)
      PROVE  \A s \in Req : GivenInv(s)'
  <2> SUFFICES ASSUME NEW s \in Req PROVE GivenInv(s)'
    OBVIOUS
  <2>1. /\ pc[r] = "resolved" /\ pc'[r] = "revoked"
        /\ seen' = seen /\ presented' = presented
        /\ \A u \in Req : u # r => pc'[u] = pc[u]
        /\ presented[r] \in Req /\ pc[presented[r]] = "ok"
        /\ \A u \in Req : u # presented[r] => row'[u] = row[u]
    BY <1>0, <1>6 DEF Revoke, Inv, RequestInv, GivenInv, TypeOK
  <2>2. presented[s] # None => pc'[presented[s]] = "ok"
    BY <1>0, <2>1 DEF GivenInv, TypeOK
  <2>3. pc[s] = "stored" => Live(s)' \/ CutShort(row[s].family)'
    BY <2>1, CutShortStays DEF GivenInv, Live, Stored
  <2> QED
    BY <2>1, <2>2, <2>3 DEF GivenInv
<1> QED
  BY <1>1, <1>2, <1>3, <1>4, <1>5, <1>6 DEF Next, Arrive, Proceed

\* A client of the family holds a token that works.
Held(f) == \E u \in Members(f) : Live(u) /\ pc[u] = "ok"

\* A refresh of the family has written, or was cut off after it had, or found
\* a replay.
Worked(f) == \E r \in Req : /\ pc[r] \in Written \cup {"lost", "replay"}
                            /\ seen[r] # None
                            /\ seen[r].family = f

\* A refresh that has written leaves the sight of its family only by giving
\* its token to a client.
LEMMA WorkedStays ==
    ASSUME TypeOK, Next, NEW f, Worked(f)
    PROVE  \/ Worked(f)'
           \/ \E r \in Req : Answer(r) /\ seen[r] # None /\ seen[r].family = f
<1> USE DEF Goto, TypeOK
<1>1. PICK s \in Req : /\ pc[s] \in Written \cup {"lost", "replay"}
                       /\ seen[s] # None /\ seen[s].family = f
  BY DEF Worked
<1>2. CASE Answer(s)
  BY <1>1, <1>2
<1>3. CASE ~Answer(s)
  <2>1. /\ pc'[s] \in Written \cup {"lost", "replay"}
        /\ seen'[s] = seen[s]
    BY <1>1, <1>3, ZenonT(60)
    DEF Next, Arrive, Proceed, LoginVerify, LoginReject, RefreshFind,
        RefreshUnknown, LoginStore, RefreshReject, RefreshReplay, RefreshAllow,
        RevokeFamily, EmitReplay, ResolveRole, Revoke, StoreSuccessor, Answer,
        Fail, Tick, Unwritten, Written
  <2> QED
    BY <1>1, <2>1 DEF Worked
<1> QED
  BY <1>2, <1>3

\* A token that a client holds works until it is rotated or its family
\* revoked, and whoever did that has written.
LEMMA HeldStays ==
    ASSUME Inv, RowsKept, Next, NEW f \in Req, Held(f)
    PROVE  Held(f)' \/ Worked(f)'
<1> USE DEF Goto
<1>0. TypeOK
  BY DEF Inv
<1>1. PICK u \in Req : /\ Stored(u) /\ row[u].family = f
                       /\ Live(u) /\ pc[u] = "ok"
  BY DEF Held, Members
<1>2. pc'[u] = "ok" /\ Stored(u)' /\ row'[u].family = f
  BY <1>0, <1>1, ZenonT(60)
  DEF Next, Arrive, Proceed, LoginVerify, LoginReject, RefreshFind,
      RefreshUnknown, LoginStore, RefreshReject, RefreshReplay, RefreshAllow,
      RevokeFamily, EmitReplay, ResolveRole, Revoke, StoreSuccessor, Answer,
      Fail, Tick, Unwritten, Written, TypeOK, RowsKept, Keeps, Stored
<1>3. CASE row'[u] = row[u]
  BY <1>1, <1>2, <1>3 DEF Held, Members, Live, Stored
<1>4. CASE row'[u] # row[u]
  <2>1. PICK r \in Req : \/ Revoke(r) /\ presented[r] = u
                         \/ RevokeFamily(r) /\ seen[r].family = f
    BY <1>0, <1>1, <1>4, FreshRow, ZenonT(60)
    DEF Next, Arrive, Proceed, LoginVerify, LoginReject, RefreshFind,
        RefreshUnknown, LoginStore, RefreshReject, RefreshReplay, RefreshAllow,
        RevokeFamily, EmitReplay, ResolveRole, Revoke, StoreSuccessor, Answer,
        Fail, Tick, TypeOK, Stored
  <2>2. /\ pc'[r] \in {"revoked", "familyRevoked"}
        /\ seen'[r] = seen[r] /\ seen[r] # None /\ seen[r].family = f
    BY <1>0, <1>1, <2>1 DEF Revoke, RevokeFamily, Inv, RequestInv, TypeOK
  <2> QED
    BY <2>2 DEF Worked, Written
<1> QED
  BY <1>3, <1>4

\* A token given to a client works, unless its family was cut short.
LEMMA AnswerHolds ==
    ASSUME Inv, \A s \in Req : GivenInv(s), NEW r \in Req, Answer(r)
    PROVE  LET f == row[r].family IN Held(f)' \/ Worked(f)'
<1> DEFINE f == row[r].family
<1>1. /\ TypeOK /\ pc[r] = "stored" /\ pc'[r] = "ok"
      /\ row' = row /\ seen' = seen
      /\ \A s \in Req : s # r => pc'[s] = pc[s]
  BY DEF Answer, Goto, Inv, TypeOK
<1>2. Stored(r) /\ f \in Req
  BY <1>1 DEF Inv, RequestInv, TypeOK, Row, Stored
<1>3. CASE Live(r)
  BY <1>1, <1>2, <1>3 DEF Held, Members, Live, Stored
<1>4. CASE CutShort(f)
  BY <1>1, <1>4 DEF CutShort, Worked, Written
<1> QED
  BY <1>1, <1>3, <1>4 DEF GivenInv

\* Every step leaves every client that was given a token with one that works,
\* or the reason why it has none in sight.
LEMMA LockStep == LockInv /\ [Next]_vars => LockInv'
<1> SUFFICES ASSUME LockInv, [Next]_vars PROVE LockInv'
  OBVIOUS
<1>0. Inv /\ TypeOK /\ Inv' /\ RowsKept
  BY InvStep, KeptByStep DEF LockInv, Inv
<1>1. CASE UNCHANGED vars
  BY <1>0, <1>1
  DEF vars, LockInv, GivenInv, CutShort, NotLockedOut, Members, Live, Stored
<1>2. CASE Next
  <2>1. \A s \in Req : GivenInv(s)'
    BY <1>0, <1>2, GivenStep DEF LockInv
  <2>2. ASSUME NEW t \in Req, pc'[t] = "ok"
        PROVE  LET f == row[t].family IN Held(f)' \/ Worked(f)'
    <3>1. CASE Answer(t)
      BY <1>0, <3>1, AnswerHolds DEF LockInv
    <3>2. CASE ~Answer(t)
      <4>1. pc[t] = "ok"
        BY <1>0, <1>2, <2>2, <3>2, ZenonT(60)
        DEF Next, Arrive, Proceed, LoginVerify, LoginReject, RefreshFind,
            RefreshUnknown, LoginStore, RefreshReject, RefreshReplay,
            RefreshAllow, RevokeFamily, EmitReplay, ResolveRole, Revoke,
            StoreSuccessor, Answer, Fail, Tick, Goto, TypeOK
      <4>2. row[t] # None /\ row[t].family \in Req
            /\ row'[t].family = row[t].family
        BY <1>0, <4>1 DEF Inv, RequestInv, TypeOK, Row, RowsKept, Keeps
      <4>3. Held(row[t].family) \/ Worked(row[t].family)
        BY <4>1 DEF LockInv, NotLockedOut, Held, Worked
      <4>4. ASSUME NEW f \in Req, f = row[t].family
            PROVE  Held(f)' \/ Worked(f)'
        <5>1. CASE Held(f)
          BY <1>0, <1>2, <5>1, HeldStays
        <5>2. CASE Worked(f)
          <6>1. ASSUME NEW r \in Req, Answer(r), seen[r] # None,
                       seen[r].family = f
                PROVE  Held(f)' \/ Worked(f)'
            <7>1. row[r].family = f /\ row' = row
              BY <1>0, <6>1
              DEF Answer, Goto, Inv, RequestInv, RowInv, LockInv, GivenInv
            <7> QED
              BY <1>0, <6>1, <7>1, AnswerHolds DEF LockInv
          <6> QED
            BY <1>0, <1>2, <5>2, <6>1, WorkedStays
        <5> QED
          BY <4>3, <4>4, <5>1, <5>2
      <4> QED
        BY <4>2, <4>4
    <3> QED
      BY <3>1, <3>2
  <2>3. NotLockedOut'
    BY <2>2 DEF NotLockedOut, Held, Worked
  <2> QED
    BY <1>0, <2>1, <2>3 DEF LockInv
<1> QED
  BY <1>1, <1>2

\* A client that was given a token of a family still holds one that works, or
\* a refresh of the family has written and not answered, was cut off after it
\* wrote, or found a replay: a request that failed before its Revoke, in role
\* resolution above all, never costs the session.
THEOREM NobodyIsLockedOut == Spec => []NotLockedOut
<1>1. Init => LockInv
  BY InvInit DEF Init, LockInv, GivenInv, NotLockedOut
<1>2. LockInv => NotLockedOut
  BY DEF LockInv
<1> QED
  BY <1>1, <1>2, LockStep, PTL DEF Spec

-----------------------------------------------------------------------------
(* A session that is over stays over *)

\* A verdict that allows a rotation is based on a live record.
LEMMA AllowedOnLive ==
    ASSUME NEW p \in Row, clock \in Nat, DecideRotation(p, clock) = "Allow"
    PROVE  ~p.revoked /\ p.expiresAt > clock
  BY DEF DecideRotation, Row

\* A rotation is under way only if it was before: no request becomes allowed
\* on a record of a family whose records are revoked or expired.
LEMMA NoneStarts ==
    ASSUME Inv, Inv', Next, NEW f \in Req, Over(f)
    PROVE  ~Rotating(f)'
<1> USE DEF Goto
<1>0. TypeOK /\ TypeOK'
  BY DEF Inv
<1>a. \A r \in Req : pc[r] \in {"found", "allowed", "resolved", "revoked"}
                        => seen[r] \in Row
  BY <1>0 DEF Inv, RequestInv, TypeOK
<1>b. clock \in Nat /\ clock' \in Nat
  BY <1>0, RotationAssumption DEF TypeOK
<1> SUFFICES ASSUME NEW s \in Req, seen'[s].family = f,
                    \/ pc'[s] \in {"allowed", "resolved", "revoked"}
                    \/ /\ pc'[s] = "found" /\ ~seen'[s].revoked
                       /\ seen'[s].expiresAt > clock'
             PROVE  FALSE
  BY DEF Rotating
<1>1. CASE pc'[s] = pc[s] /\ seen'[s] = seen[s] /\ clock' = clock
  BY <1>1 DEF Over, Rotating
<1>2. CASE Tick
  <2>1. /\ pc'[s] = pc[s] /\ seen'[s] = seen[s] /\ clock' = clock + 1
    BY <1>2 DEF Tick
  <2>2. pc[s] = "found" => seen[s].expiresAt > clock
    BY <1>a, <1>b, <2>1 DEF Row
  <2> QED
    BY <2>1, <2>2 DEF Over, Rotating
<1>3. ASSUME NEW q \in Req, RefreshFind(s, q) PROVE FALSE
  <2>1. /\ pc'[s] = "found" /\ seen'[s] = row[q] /\ clock' = clock
        /\ row[q] # None
    BY <1>0, <1>3 DEF RefreshFind, TypeOK, Inv, RequestInv
  <2>2. row[q] \in Row /\ q \in Members(f)
    BY <1>0, <2>1 DEF TypeOK, Members, Stored
  <2> QED
    BY <1>b, <2>1, <2>2 DEF Over, Row
<1>4. CASE RefreshAllow(s)
  <2>1. /\ pc[s] = "found" /\ seen'[s] = seen[s]
        /\ DecideRotation(seen[s], clock) = "Allow"
    BY <1>4 DEF RefreshAllow
  <2> QED
    BY <1>a, <1>b, <2>1, AllowedOnLive DEF Over, Rotating
<1>5. CASE ResolveRole(s) \/ Revoke(s)
  <2>1. pc[s] \in {"allowed", "resolved"} /\ seen'[s] = seen[s]
    BY <1>5 DEF ResolveRole, Revoke
  <2> QED
    BY <2>1 DEF Over, Rotating
<1>6. ASSUME NEW r \in Req, r # s, Arrive(r) \/ Proceed(r) \/ Fail(r) PROVE FALSE
  <2>1. CASE Arrive(r)
    BY <1>0, <1>1, <1>6, <2>1
    DEF Arrive, LoginVerify, LoginReject, RefreshFind, RefreshUnknown, TypeOK
  <2>2. CASE Proceed(r)
    BY <1>0, <1>1, <1>6, <2>2
    DEF Proceed, LoginStore, RefreshReject, RefreshReplay, RefreshAllow, RevokeFamily,
        EmitReplay, ResolveRole, Revoke, StoreSuccessor, Answer, TypeOK
  <2>3. CASE Fail(r)
    BY <1>0, <1>1, <1>6, <2>3 DEF Fail, TypeOK
  <2> QED
    BY <1>6, <2>1, <2>2, <2>3
<1>7. CASE Arrive(s)
  <2>1. ~LoginReject(s) /\ ~RefreshUnknown(s)
    BY <1>0 DEF LoginReject, RefreshUnknown, TypeOK
  <2>2. ~ \E a \in Account : LoginVerify(s, a)
    BY <1>0 DEF LoginVerify, TypeOK
  <2> QED
    BY <1>3, <1>7, <2>1, <2>2 DEF Arrive
<1>8. CASE Proceed(s)
  <2>1. pc'[s] \in {"found", "allowed", "resolved", "revoked"}
    OBVIOUS
  <2>2. RefreshAllow(s) \/ ResolveRole(s) \/ Revoke(s)
    BY <1>0, <1>8, <2>1
    DEF Proceed, LoginStore, RefreshReject, RefreshReplay, RevokeFamily, EmitReplay,
        StoreSuccessor, Answer, TypeOK
  <2> QED
    BY <1>4, <1>5, <2>2
<1>9. ~Fail(s)
  BY <1>0 DEF Fail, TypeOK
<1> QED
  BY <1>2, <1>6, <1>7, <1>8, <1>9 DEF Next

\* No row joins a family that has one, except as the successor of a rotation.
LEMMA NoneJoins ==
    ASSUME Inv, RowsKept, Next, NEW f \in Req, Over(f)
    PROVE  Members(f)' = Members(f)
<1> USE DEF Goto
<1>0. TypeOK
  BY DEF Inv
<1>1. \A t \in Req : Stored(t) => Stored(t)' /\ row'[t].family = row[t].family
  BY DEF RowsKept, Keeps, Stored
<1>2. ASSUME NEW t \in Req, ~Stored(t), Stored(t)' PROVE row'[t].family # f
  <2>1. LoginStore(t) \/ StoreSuccessor(t)
    <3>1. ASSUME NEW r \in Req, RevokeFamily(r) PROVE FALSE
      BY <1>2, <3>1 DEF RevokeFamily, Stored
    <3>2. ASSUME NEW r \in Req, Revoke(r) PROVE FALSE
      BY <1>0, <1>2, <3>2 DEF Revoke, Stored, Inv, RequestInv, TypeOK
    <3> QED
      BY <1>0, <1>2, <3>1, <3>2
      DEF Next, Arrive, Proceed, LoginVerify, LoginReject, RefreshFind,
          RefreshUnknown, LoginStore, RefreshReject, RefreshReplay,
          RefreshAllow, EmitReplay, ResolveRole, StoreSuccessor, Answer,
          Fail, Tick, TypeOK, Stored
  <2>2. row'[t] = next[t]
    BY <1>0, <2>1 DEF LoginStore, StoreSuccessor, TypeOK
  <2>3. CASE LoginStore(t)
    <3>1. next[t].family = t
      BY <2>3 DEF LoginStore, Inv, RequestInv
    <3>2. \A u \in Req : Stored(u) => row[u].family # t
      BY <1>2 DEF Inv, RowInv, Stored
    <3>3. PICK u \in Req : Stored(u) /\ row[u].family = f
      BY DEF Over, Members
    <3> QED
      BY <2>2, <3>1, <3>2, <3>3
  <2>4. CASE StoreSuccessor(t)
    <3>1. pc[t] = "revoked" /\ next[t].family = seen[t].family
      BY <2>4 DEF StoreSuccessor, Inv, RequestInv
    <3> QED
      BY <2>2, <3>1 DEF Over, Rotating
  <2> QED
    BY <2>1, <2>3, <2>4
<1> QED
  BY <1>1, <1>2 DEF Members

\* Once every token of a family is revoked or past its expiry and no allowed
\* rotation is under way, nothing extends the family again, whatever stale
\* records other requests still hold.
THEOREM SessionsStayOver == Spec => SessionStaysOver
<1> DEFINE A == \A f \in Req : Over(f) => Over(f)'
<1>1. Inv /\ Inv' /\ [Next]_vars => [A]_vars
  <2> SUFFICES ASSUME Inv, Inv', Next, NEW f \in Req, Over(f) PROVE Over(f)'
    BY DEF Over
  <2>1. RowsKept /\ TypeOK /\ TypeOK'
    BY KeptByStep DEF Inv
  <2>2. ~Rotating(f)'
    BY NoneStarts
  <2>3. Members(f)' = Members(f) /\ Members(f) # {}
    BY <2>1, NoneJoins DEF Over
  <2>4. ASSUME NEW t \in Members(f)
        PROVE  row'[t].revoked \/ row'[t].expiresAt <= clock'
    <3>1. t \in Req /\ row[t] \in Row /\ Keeps(row[t], row'[t])
      BY <2>1, <2>4 DEF Members, Stored, TypeOK, RowsKept
    <3>2. clock' = clock \/ clock' = clock + 1
      BY Zenon
      DEF Next, Arrive, Proceed, LoginVerify, LoginReject, RefreshFind,
          RefreshUnknown, LoginStore, RefreshReject, RefreshReplay,
          RefreshAllow, RevokeFamily, EmitReplay, ResolveRole, Revoke,
          StoreSuccessor, Answer, Fail, Tick
    <3>3. clock \in Nat /\ clock' \in Nat /\ clock <= clock'
      BY <2>1, <3>2, RotationAssumption DEF TypeOK
    <3>4. row[t].revoked \/ row[t].expiresAt <= clock
      BY <2>4 DEF Over
    <3> QED
      BY <3>1, <3>3, <3>4 DEF Keeps, Row
  <2> QED
    BY <2>2, <2>3, <2>4 DEF Over
<1> QED
  BY <1>1, InvHolds, PTL DEF Spec, SessionStaysOver

-----------------------------------------------------------------------------
(* Liveness.  Runs(r) is the fairness of FairSpec for one request with the *)
(* condition in place of ENABLED: a request that is in flight from some    *)
(* point on takes its steps again and again.  WF_vars(Proceed(r)) gives    *)
(* Runs(r), because a request in flight always has a step: GuardHolds.     *)

Runs(r) == []<>(pc[r] \notin InFlight) \/ []<><<Proceed(r)>>_vars

\* The switch on the verdict has a branch for every record, and wherever
\* else a request is its next step has no other guard.
LEMMA GuardHolds ==
    ASSUME Inv, NEW r \in Req, pc[r] \in InFlight
    PROVE  \/ pc[r] \in {"verified", "replaying", "familyRevoked", "allowed",
                        "resolved", "revoked", "stored"}
           \/ /\ pc[r] = "found"
              /\ DecideRotation(seen[r], clock) \in
                    {"RejectExpired", "RejectInvalid", "RejectRevoked", "Allow"}
<1>1. ASSUME pc[r] = "found"
      PROVE  DecideRotation(seen[r], clock) \in
                {"RejectExpired", "RejectInvalid", "RejectRevoked", "Allow"}
  <2>1. presented[r] # None /\ seen[r] # None
    BY <1>1 DEF Inv, RequestInv
  <2>2. seen[r].revoked \in BOOLEAN
    BY <2>1 DEF Inv, TypeOK, Row
  <2> QED
    BY <2>2 DEF DecideRotation
<1> QED
  BY <1>1 DEF InFlight, Unwritten, Written

\* How many steps a request has at most before it ends.
Left(r) ==
    CASE pc[r] = "idle"                         -> 6
      [] pc[r] = "found"                        -> 5
      [] pc[r] \in {"allowed", "replaying"}     -> 4
      [] pc[r] \in {"resolved", "familyRevoked"} -> 3
      [] pc[r] \in {"revoked", "verified"}      -> 2
      [] pc[r] = "stored"                       -> 1
      [] pc[r] \in Ended                        -> 0

\* Only its own steps move a request.
LEMMA OwnStep ==
    ASSUME TypeOK, Next, NEW r \in Req
    PROVE  pc'[r] = pc[r] \/ Arrive(r) \/ Proceed(r) \/ Fail(r)
<1>1. ASSUME NEW s \in Req, s # r, Arrive(s) \/ Proceed(s) \/ Fail(s)
      PROVE  pc'[r] = pc[r]
  BY <1>1 DEF TypeOK, Goto, Arrive, Proceed, LoginVerify, LoginReject,
      RefreshFind, RefreshUnknown, LoginStore, RefreshReject, RefreshReplay,
      RefreshAllow, RevokeFamily, EmitReplay, ResolveRole, Revoke,
      StoreSuccessor, Answer, Fail
<1>2. Tick => pc' = pc
  BY DEF Tick
<1> QED
  BY <1>1, <1>2 DEF Next

\* A step of a request brings it nearer to its end.
LEMMA ProceedsForward ==
    ASSUME TypeOK, NEW r \in Req, Proceed(r)
    PROVE  Left(r)' < Left(r) /\ Left(r) <= 5 /\ Left(r)' \in Nat
<1>1. \/ pc[r] = "verified" /\ pc'[r] = "stored"
      \/ pc[r] = "found" /\ pc'[r] \in {"unauthorized", "replaying", "allowed"}
      \/ pc[r] = "replaying" /\ pc'[r] = "familyRevoked"
      \/ pc[r] = "familyRevoked" /\ pc'[r] = "replay"
      \/ pc[r] = "allowed" /\ pc'[r] = "resolved"
      \/ pc[r] = "resolved" /\ pc'[r] = "revoked"
      \/ pc[r] = "revoked" /\ pc'[r] = "stored"
      \/ pc[r] = "stored" /\ pc'[r] = "ok"
  BY DEF TypeOK, Goto, Proceed, LoginStore, RefreshReject, RefreshReplay,
      RefreshAllow, RevokeFamily, EmitReplay, ResolveRole, Revoke,
      StoreSuccessor, Answer
<1> QED
  BY <1>1 DEF Left, Ended

\* No step takes a request farther from its end.
LEMMA NeverBack ==
    ASSUME TypeOK, [Next]_vars, NEW r \in Req, NEW n \in 0..6, Left(r) <= n
    PROVE  Left(r)' <= n
<1>1. CASE pc'[r] = pc[r]
  BY <1>1 DEF Left, Ended
<1>2. CASE Arrive(r)
  <2>1. pc[r] = "idle" /\ pc'[r] \in {"verified", "unauthorized", "found"}
    BY <1>2 DEF Arrive, LoginVerify, LoginReject, RefreshFind,
        RefreshUnknown, Goto, TypeOK
  <2>2. Left(r) = 6 /\ Left(r)' \in {0, 2, 5}
    BY <2>1 DEF Left, Ended
  <2> QED
    BY <2>2
<1>3. CASE Proceed(r)
  <2>1. Left(r) \in Nat
    BY DEF TypeOK, Left, InFlight, Unwritten, Written, Ended
  <2> QED
    BY <1>3, <2>1, ProceedsForward
<1>4. CASE Fail(r)
  <2>1. pc'[r] \in Ended /\ pc[r] \in InFlight
    BY <1>4 DEF Fail, TypeOK, InFlight, Ended
  <2>2. Left(r)' = 0
    BY <2>1 DEF Left, Ended
  <2> QED
    BY <2>2
<1>5. CASE UNCHANGED vars
  BY <1>5 DEF vars, Left, Ended
<1> QED
  BY <1>1, <1>2, <1>3, <1>4, <1>5, OwnStep

\* A request in flight has between one and five steps left.
LEMMA InFlightLeft ==
    ASSUME TypeOK, NEW r \in Req
    PROVE  /\ pc[r] \in InFlight <=> Left(r) <= 5 /\ ~(Left(r) <= 0)
           /\ pc[r] \in Ended <=> Left(r) <= 0
<1>1. pc[r] \in {"idle"} \cup InFlight \cup Ended
  BY DEF TypeOK
<1>2. pc[r] = "idle" => Left(r) = 6
  BY DEF Left, Ended
<1>3. pc[r] \in InFlight => Left(r) \in 1..5
  BY DEF Left, InFlight, Unwritten, Written, Ended
<1>4. pc[r] \in Ended => Left(r) = 0
  BY DEF Left, Ended
<1>5. "idle" \notin InFlight /\ "idle" \notin Ended
      /\ InFlight \cap Ended = {}
  BY DEF InFlight, Unwritten, Written, Ended
<1> QED
  BY <1>1, <1>2, <1>3, <1>4, <1>5

LEMMA RequestEnds ==
    ASSUME NEW r \in Req
    PROVE  []TypeOK /\ [][Next]_vars /\ Runs(r)
               => (pc[r] \in InFlight ~> pc[r] \in Ended)
<1> DEFINE Within(n) == Left(r) <= n
<1>1. ASSUME NEW n \in 0..5
      PROVE  TypeOK /\ [Next]_vars /\ Within(n) => Within(n)'
  BY NeverBack
<1>2. ASSUME NEW n \in 1..5
      PROVE  TypeOK /\ <<Proceed(r)>>_vars /\ Within(n) => Within(n - 1)'
  <2> SUFFICES ASSUME TypeOK, Proceed(r), Left(r) <= n
               PROVE  Left(r)' <= n - 1
    OBVIOUS
  <2>1. Left(r)' < Left(r) /\ Left(r)' \in Nat
    BY ProceedsForward
  <2>2. Left(r) \in Nat
    BY DEF TypeOK, Left, InFlight, Unwritten, Written, Ended
  <2> QED
    BY <2>1, <2>2
<1>3. TypeOK => /\ pc[r] \in InFlight <=> Within(5) /\ ~Within(0)
                /\ pc[r] \in Ended <=> Within(0)
                /\ pc[r] \notin InFlight <=> ~(pc[r] \in InFlight)
  BY InFlightLeft
<1>4. TypeOK /\ [Next]_vars /\ Within(0) => Within(0)'
  BY <1>1
<1>5. TypeOK /\ [Next]_vars /\ Within(1) => Within(1)'
  BY <1>1
<1>6. TypeOK /\ [Next]_vars /\ Within(2) => Within(2)'
  BY <1>1
<1>7. TypeOK /\ [Next]_vars /\ Within(3) => Within(3)'
  BY <1>1
<1>8. TypeOK /\ [Next]_vars /\ Within(4) => Within(4)'
  BY <1>1
<1>9. TypeOK /\ [Next]_vars /\ Within(5) => Within(5)'
  BY <1>1
<1>10. TypeOK /\ <<Proceed(r)>>_vars /\ Within(1) => Within(0)'
  BY <1>2
<1>11. TypeOK /\ <<Proceed(r)>>_vars /\ Within(2) => Within(1)'
  BY <1>2
<1>12. TypeOK /\ <<Proceed(r)>>_vars /\ Within(3) => Within(2)'
  BY <1>2
<1>13. TypeOK /\ <<Proceed(r)>>_vars /\ Within(4) => Within(3)'
  BY <1>2
<1>14. TypeOK /\ <<Proceed(r)>>_vars /\ Within(5) => Within(4)'
  BY <1>2
<1> HIDE DEF Within
<1> QED
  BY <1>3, <1>4, <1>5, <1>6, <1>7, <1>8, <1>9, <1>10, <1>11, <1>12, <1>13,
     <1>14, PTL DEF Runs

\* Every request that reached the service is answered or cut off, if each
\* goroutine in flight keeps being run and its database calls return.
THEOREM RequestsEnd == Spec /\ (\A r \in Req : Runs(r)) => EveryRequestEnds
<1> SUFFICES ASSUME NEW r \in Req
             PROVE  Spec /\ (\A s \in Req : Runs(s))
                        => (pc[r] \in InFlight ~> pc[r] \in Ended)
  BY DEF EveryRequestEnds
<1>1. (\A s \in Req : Runs(s)) => Runs(r)
  OBVIOUS
<1> QED
  BY <1>1, TypeCorrect, RequestEnds, PTL DEF Spec
=============================================================================
