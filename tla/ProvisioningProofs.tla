-------------------------- MODULE ProvisioningProofs --------------------------
(***************************************************************************)
(* Users and roles, for any number of requests, tenants, e-mails and       *)
(* users, and any lifetime of a token.                                     *)
(*                                                                         *)
(* An update writes back what it read, so that e-mails are unique only     *)
(* because the e-mail that was read is still the user's (UpdateInv), and   *)
(* the rows are whole only because the request a row is named after has    *)
(* ended and cannot change its mind (NameInv).  What a token says of a     *)
(* role follows what the request said that resolved it: it is the role,    *)
(* or the time it was taken away is on record and not before that (Was).   *)
(***************************************************************************)
EXTENDS Provisioning, TLAPS

\* A user of a request is there from the insert on, and has at most the role
\* that request asked for, once it was assigned.
CreateInv(q) ==
    /\ user[q] # None => pc[q] \in {"inserted", "created", "error"}
    /\ pc[q] \in {"inserted", "created"} => user[q] # None /\ role[q] # None
    /\ roles[q] = {} \/ (roles[q] = {role[q]} /\ pc[q] \in {"created", "error"})
    /\ pc[q] = "created" => roles[q] = {role[q]}

\* A request under way knows its user; what an update read has its e-mail.
UpdateInv(q) ==
    /\ pc[q] \in {"found", "verified", "resolved"} => target[q] # None
    /\ pc[q] = "found" => /\ seen[q] # None
                          /\ seen[q].email = user[target[q]].email

\* r is the role of u, or was taken away at t or later.
Was(u, r, t) ==
    IsRoleOf(r, roles[u]) \/ (lost[u][r] >= 0 /\ lost[u][r] >= t)

\* The user of a request has no other role than the one it was created with.
Own(u, r) == u \in Request => r \in {None} \cup roles[u]

ResolvedInv(q) ==
    pc[q] = "resolved" =>
        /\ since[q] <= clock /\ clock <= since[q] + Stall
        /\ Was(target[q], role[q], since[q])
        /\ Own(target[q], role[q])

TokenInv(q) ==
    token[q] # None =>
        /\ user[token[q].user] # None
        /\ token[q].exp <= clock + AccessTTL
        /\ clock < token[q].exp =>
              Was(token[q].user, token[q].role, token[q].exp - AccessTTL - Stall)
        /\ Own(token[q].user, token[q].role)

RequestInv(q) == CreateInv(q) /\ UpdateInv(q) /\ ResolvedInv(q) /\ TokenInv(q)

\* The last writer of a row has ended, and wrote what it was given.
WrittenBy(u, w) ==
    IF w = u THEN user[u].active
    ELSE /\ w \in Request /\ pc[w] \in {"updated", "error"}
         /\ target[w] = u /\ user[u].active = active[w]

NameInv == \A u \in Users : WrittenBy(u, user[u].name)

\* No user is ever deleted.
SeedInv == \A s \in Seed : user[s] # None

Inv == /\ TypeOK /\ EmailsUnique /\ NameInv /\ SeedInv
       /\ \A q \in Request : RequestInv(q)

-----------------------------------------------------------------------------
(* The precedence list *)

\* The role that is resolved is held, and nothing held stands before it.
LEMMA Precedence ==
    ASSUME NEW held \in SUBSET Role
    PROVE  /\ IsRoleOf(ResolveRole(held), held)
           /\ ResolveRole(held) \in held \cup {None}
<1> DEFINE ranks == {i \in 1..Len(rolePrecedence) : rolePrecedence[i] \in held}
<1>1. /\ Len(rolePrecedence) = 5
      /\ ToSet(rolePrecedence) = {rolePrecedence[i] : i \in 1..5}
  <2>1. DOMAIN rolePrecedence = 1..5 /\ Len(rolePrecedence) = 5
    BY DEF rolePrecedence
  <2> QED
    BY <2>1, Zenon DEF ToSet
<1>2. /\ None \notin held
      /\ \A r \in held : \E i \in 1..5 : rolePrecedence[i] = r
  BY <1>1, ProvisioningAssumption
<1>3. CASE ranks = {}
  <2>1. held = {}
    <3> SUFFICES ASSUME NEW r \in held PROVE FALSE
      OBVIOUS
    <3>1. PICK i \in 1..5 : rolePrecedence[i] = r
      BY <1>2
    <3> QED
      BY <1>1, <1>3, <3>1
  <2>2. ResolveRole(held) = None
    BY <1>3 DEF ResolveRole
  <2> QED
    BY <2>1, <2>2 DEF IsRoleOf
<1>4. CASE ranks # {}
  <2>1. PICK i \in ranks : \A j \in ranks : i <= j
    BY <1>1, <1>4
  <2>2. Min(ranks) = i
    BY <1>1, <2>1 DEF Min
  <2>3. ResolveRole(held) = rolePrecedence[i] /\ rolePrecedence[i] \in held
    BY <1>4, <2>2 DEF ResolveRole
  <2>4. \A j \in 1..5 : Rank(rolePrecedence[j]) = j
    BY <1>1 DEF Rank, rolePrecedence
  <2>5. \A r \in held : i <= Rank(r)
    BY <1>1, <1>2, <2>1, <2>4
  <2> QED
    BY <1>1, <1>2, <2>1, <2>3, <2>4, <2>5 DEF IsRoleOf
<1> QED
  BY <1>3, <1>4

-----------------------------------------------------------------------------
(* The initial states *)

LEMMA InitInv == Init => Inv
<1> SUFFICES ASSUME Init PROVE Inv
  OBVIOUS
<1>1. PICK tenant \in [Seed -> Tenant], email \in [Seed -> Email] :
         /\ \A s, t \in Seed : email[s] = email[t] => s = t
         /\ user = [u \in Id |-> IF u \notin Seed THEN None
                                 ELSE [tenant |-> tenant[u], email |-> email[u],
                                       name |-> u, active |-> TRUE]]
  BY DEF Init
<1>2. \A u \in Id : /\ u \notin Seed => user[u] = None
                    /\ u \in Seed => /\ user[u] = [tenant |-> tenant[u], email |-> email[u],
                                                   name |-> u, active |-> TRUE]
                                     /\ user[u] \in Row
  BY <1>1 DEF Row, Id
<1>3. \A u \in Users : u \in Seed /\ u \in Id
  BY <1>2 DEF Users
<1>4. TypeOK
  <2>1. user \in [Id -> Row \cup {None}]
    BY <1>1, <1>2
  <2>2. \A u \in Id : roles[u] # {} => user[u] # None
    BY <1>2, RowAssumption DEF Init
  <2>3. /\ target \in [Request -> Id \cup {None}]
        /\ \A q \in Request : target[q] = None
    BY DEF Init
  <2>4. lost \in [Id -> [Role \cup {None} -> -1..MaxClock]]
    BY ProvisioningAssumption DEF Init
  <2>5. clock \in 0..MaxClock /\ since \in [Request -> 0..MaxClock]
    BY ProvisioningAssumption DEF Init
  <2> QED
    BY <2>1, <2>2, <2>3, <2>4, <2>5 DEF Init, TypeOK
<1>5. ASSUME NEW q \in Request PROVE CreateInv(q)
  <2>1. q \in Id /\ q \notin Seed
    BY ProvisioningAssumption DEF Id
  <2>2. user[q] = None
    BY <1>2, <2>1
  <2>3. roles[q] = {}
    BY <2>1 DEF Init
  <2>4. pc[q] = "idle"
    BY DEF Init
  <2> QED
    BY <2>2, <2>3, <2>4 DEF CreateInv
<1>6. ASSUME NEW q \in Request PROVE UpdateInv(q) /\ ResolvedInv(q) /\ TokenInv(q)
  BY DEF Init, UpdateInv, ResolvedInv, TokenInv
<1>7. EmailsUnique
  BY <1>1, <1>2, <1>3 DEF EmailsUnique
<1>8. NameInv
  <2>1. ASSUME NEW u \in Users PROVE user[u].name = u /\ user[u].active
    <3>1. user[u] = [tenant |-> tenant[u], email |-> email[u], name |-> u, active |-> TRUE]
      BY <1>2, <1>3
    <3> QED
      BY <3>1
  <2> QED
    BY <2>1 DEF NameInv, WrittenBy
<1>9. SeedInv
  BY <1>2, RowAssumption DEF SeedInv, Id
<1> QED
  BY <1>4, <1>5, <1>6, <1>7, <1>8, <1>9 DEF Inv, RequestInv

-----------------------------------------------------------------------------
(* The steps.  OnlyMoves(q): of what belongs to requests, only that of q   *)
(* changes.                                                                *)

OnlyMoves(q) ==
    \A p \in Request \ {q} :
        /\ pc'[p] = pc[p] /\ target'[p] = target[p] /\ seen'[p] = seen[p]
        /\ active'[p] = active[p] /\ role'[p] = role[p]
        /\ since'[p] = since[p] /\ token'[p] = token[p]

\* A step that leaves users, roles and the clock alone, of a request that has
\* not ended, keeps all of the invariant but what it says of the request.
LEMMA QuietStep ==
    ASSUME Inv, NEW q \in Request, OnlyMoves(q),
           UNCHANGED <<user, roles, clock, lost>>,
           pc[q] \notin {"updated", "error"}, RequestInv(q)', TypeOK'
    PROVE  Inv'
<1>1. ASSUME NEW p \in Request, p # q PROVE RequestInv(p)'
  <2>1. CreateInv(p)' /\ UpdateInv(p)'
    BY <1>1 DEF Inv, OnlyMoves, RequestInv, CreateInv, UpdateInv
  <2>2. ResolvedInv(p)'
    BY <1>1 DEF Inv, OnlyMoves, RequestInv, ResolvedInv, Was, Own
  <2>3. TokenInv(p)'
    BY <1>1 DEF Inv, OnlyMoves, RequestInv, TokenInv, Was, Own
  <2> QED
    BY <2>1, <2>2, <2>3 DEF RequestInv
<1>2. NameInv'
  <2>1. ASSUME NEW u \in Users PROVE WrittenBy(u, user[u].name)'
    BY DEF Inv, OnlyMoves, NameInv, WrittenBy
  <2> QED
    BY <2>1 DEF NameInv, Users
<1>3. EmailsUnique'
  BY DEF Inv, EmailsUnique, Users
<1> QED
  BY <1>1, <1>2, <1>3 DEF Inv, SeedInv

LEMMA RefuseStep ==
    ASSUME Inv, NEW q \in Request, CreateConflict(q) \/ CreateInvalid(q)
    PROVE  Inv'
<1>1. /\ pc[q] = "idle" /\ pc' = [pc EXCEPT ![q] = pc'[q]] /\ pc'[q] \in {"conflict", "rejected"}
      /\ UNCHANGED <<user, roles, target, seen, active, role, since, token, clock, lost>>
  BY DEF CreateConflict, CreateInvalid, Goto, Inv, TypeOK
<1>2. OnlyMoves(q)
  BY <1>1 DEF OnlyMoves, Inv, TypeOK
<1>3. TypeOK'
  BY <1>1, ZenonT(60) DEF Inv, TypeOK, Ended
<1>4. RequestInv(q)'
  BY <1>1 DEF Inv, RequestInv, CreateInv, UpdateInv, ResolvedInv, TokenInv, Was, Own
<1> QED
  BY <1>1, <1>2, <1>3, <1>4, QuietStep

\* What an update reads is the row as it is; the caller is not a user.
LEMMA UpdateFindStep ==
    ASSUME Inv, NEW q \in Request, UpdateFind(q)
    PROVE  Inv'
<1>1. PICK u \in Users, b \in BOOLEAN :
         /\ target' = [target EXCEPT ![q] = u]
         /\ seen' = [seen EXCEPT ![q] = user[u]]
         /\ active' = [active EXCEPT ![q] = b]
  BY DEF UpdateFind
<1>2. /\ pc[q] = "idle" /\ pc' = [pc EXCEPT ![q] = "found"]
      /\ UNCHANGED <<user, roles, role, since, token, clock, lost>>
  BY DEF UpdateFind, Goto
<1>3. OnlyMoves(q)
  BY <1>1, <1>2 DEF OnlyMoves, Inv, TypeOK
<1>4. u \in Id /\ user[u] \in Row /\ user[u] # None
  BY DEF Users, Inv, TypeOK
<1>5. TypeOK'
  BY <1>1, <1>2, <1>4 DEF Inv, TypeOK, InFlight
<1>6. u # None
  BY <1>4, ProvisioningAssumption DEF Id
<1>7. RequestInv(q)'
  <2>1. CreateInv(q)' /\ UpdateInv(q)'
    BY <1>1, <1>2, <1>4, <1>6 DEF Inv, TypeOK, RequestInv, CreateInv, UpdateInv
  <2>2. ResolvedInv(q)' /\ TokenInv(q)'
    BY <1>2 DEF Inv, TypeOK, RequestInv, ResolvedInv, TokenInv, Was, Own
  <2> QED
    BY <2>1, <2>2 DEF RequestInv
<1> QED
  BY <1>2, <1>3, <1>5, <1>7, QuietStep

\* Login and refresh know their user from here on.
LEMMA FindStep ==
    ASSUME Inv, NEW q \in Request, LoginFind(q) \/ RefreshFind(q)
    PROVE  Inv'
<1>1. /\ pc[q] = "idle" /\ pc' = [pc EXCEPT ![q] = "verified"]
      /\ UNCHANGED <<user, roles, seen, active, role, since, token, clock, lost>>
  BY DEF LoginFind, RefreshFind, Goto
<1>2. PICK u \in Users : target' = [target EXCEPT ![q] = u]
  <2>1. CASE LoginFind(q)
    BY <2>1 DEF LoginFind
  <2>2. CASE RefreshFind(q)
    <3>1. PICK p \in Request : /\ token[p] # None
                               /\ target' = [target EXCEPT ![q] = token[p].user]
      BY <2>2 DEF RefreshFind
    <3>2. token[p].user \in Users
      BY <3>1 DEF Inv, TypeOK, Claim, RequestInv, TokenInv, Users
    <3> QED
      BY <3>1, <3>2
  <2> QED
    BY <2>1, <2>2
<1>3. OnlyMoves(q)
  BY <1>1, <1>2 DEF OnlyMoves, Inv, TypeOK
<1>4. u \in Id /\ user[u] # None /\ u # None
  BY ProvisioningAssumption DEF Users, Id
<1>5. TypeOK'
  BY <1>1, <1>2, <1>4 DEF Inv, TypeOK, InFlight
<1>6. RequestInv(q)'
  <2>1. CreateInv(q)' /\ UpdateInv(q)'
    BY <1>1, <1>2, <1>4 DEF Inv, TypeOK, RequestInv, CreateInv, UpdateInv
  <2>2. ResolvedInv(q)' /\ TokenInv(q)'
    BY <1>1 DEF Inv, TypeOK, RequestInv, ResolvedInv, TokenInv, Was, Own
  <2> QED
    BY <2>1, <2>2 DEF RequestInv
<1> QED
  BY <1>1, <1>3, <1>5, <1>6, QuietStep

\* The role is the user's at the moment it is resolved.
LEMMA ResolveStep ==
    ASSUME Inv, NEW q \in Request, Resolve(q)
    PROVE  Inv'
<1> DEFINE u == target[q]
           r == ResolveRole(roles[u])
<1>1. /\ pc[q] = "verified" /\ pc' = [pc EXCEPT ![q] = "resolved"]
      /\ role' = [role EXCEPT ![q] = r]
      /\ since' = [since EXCEPT ![q] = clock]
      /\ UNCHANGED <<user, roles, target, seen, active, token, clock, lost>>
  BY DEF Resolve, Goto
<1>2. u \in Id /\ roles[u] \in SUBSET Role
  BY <1>1 DEF Inv, TypeOK, RequestInv, UpdateInv
<1>3. IsRoleOf(r, roles[u]) /\ r \in roles[u] \cup {None}
  BY <1>2, Precedence
<1> HIDE DEF r
<1>4. OnlyMoves(q)
  BY <1>1 DEF OnlyMoves, Inv, TypeOK
<1>5. TypeOK'
  BY <1>1, <1>2, <1>3 DEF Inv, TypeOK, InFlight
<1>6. RequestInv(q)'
  <2>1. CreateInv(q)' /\ UpdateInv(q)'
    BY <1>1 DEF Inv, TypeOK, RequestInv, CreateInv, UpdateInv
  <2>2. /\ since'[q] = clock /\ role'[q] = r /\ clock \in Nat /\ clock' = clock
        /\ target'[q] = u /\ roles' = roles
    BY <1>1, ProvisioningAssumption DEF Inv, TypeOK
  <2>3. ResolvedInv(q)'
    BY <1>3, <2>2, ProvisioningAssumption DEF ResolvedInv, Was, Own
  <2>4. TokenInv(q)'
    BY <1>1 DEF Inv, TypeOK, RequestInv, TokenInv, Was, Own
  <2> QED
    BY <2>1, <2>3, <2>4 DEF RequestInv
<1> QED
  BY <1>1, <1>4, <1>5, <1>6, QuietStep

\* At most Stall ticks later it goes into the token.
LEMMA IssueStep ==
    ASSUME Inv, NEW q \in Request, Issue(q)
    PROVE  Inv'
<1> DEFINE u == target[q]
           r == role[q]
<1>1. /\ pc[q] = "resolved" /\ pc' = [pc EXCEPT ![q] = "granted"]
      /\ token' = [token EXCEPT ![q] = [user |-> u, role |-> r, exp |-> clock + AccessTTL]]
      /\ role' = [role EXCEPT ![q] = None]
      /\ since' = [since EXCEPT ![q] = 0]
      /\ UNCHANGED <<user, roles, target, seen, active, clock, lost>>
  BY DEF Issue, Goto
<1>2. /\ u \in Id /\ user[u] # None /\ r \in Role \cup {None}
      /\ clock \in 0..MaxClock /\ since[q] \in 0..MaxClock /\ lost[u][r] \in Int
      /\ AccessTTL \in Nat /\ Stall \in Nat /\ MaxClock \in Nat
  BY <1>1, ProvisioningAssumption DEF Inv, TypeOK, RequestInv, UpdateInv
<1>3. /\ clock <= since[q] + Stall /\ Was(u, r, since[q]) /\ Own(u, r)
  BY <1>1 DEF Inv, RequestInv, ResolvedInv
<1>4. token'[q] = [user |-> u, role |-> r, exp |-> clock + AccessTTL]
  BY <1>1 DEF Inv, TypeOK
<1>5. token'[q] \in Claim
  BY <1>2, <1>4 DEF Claim
<1>6. OnlyMoves(q)
  BY <1>1 DEF OnlyMoves, Inv, TypeOK
<1>7. TypeOK'
  <2>1. token' \in [Request -> Claim \cup {None}]
    BY <1>1, <1>4, <1>5 DEF Inv, TypeOK
  <2>2. since' \in [Request -> 0..MaxClock]
    BY <1>1, <1>2 DEF Inv, TypeOK
  <2> QED
    BY <1>1, <2>1, <2>2 DEF Inv, TypeOK, Ended
<1>8. RequestInv(q)'
  <2>1. CreateInv(q)' /\ UpdateInv(q)' /\ ResolvedInv(q)'
    BY <1>1 DEF Inv, TypeOK, RequestInv, CreateInv, UpdateInv, ResolvedInv
  <2>2. Was(u, r, clock + AccessTTL - AccessTTL - Stall)
    BY <1>2, <1>3 DEF Was
  <2>3. TokenInv(q)'
    BY <1>1, <1>2, <1>3, <1>4, <2>2 DEF TokenInv, Was, Own
  <2> QED
    BY <2>1, <2>3 DEF RequestInv
<1> QED
  BY <1>1, <1>6, <1>7, <1>8, QuietStep

LEMMA FailStep ==
    ASSUME Inv, NEW q \in Request, Fail(q)
    PROVE  Inv'
<1>1. /\ pc[q] \in InFlight /\ pc' = [pc EXCEPT ![q] = "error"]
      /\ seen' = [seen EXCEPT ![q] = None]
      /\ since' = [since EXCEPT ![q] = 0]
      /\ UNCHANGED <<user, roles, target, active, role, token, clock, lost>>
  BY DEF Fail
<1>2. OnlyMoves(q)
  BY <1>1 DEF OnlyMoves, Inv, TypeOK
<1>3. TypeOK'
  <2>1. since' \in [Request -> 0..MaxClock]
    BY <1>1, ProvisioningAssumption DEF Inv, TypeOK
  <2> QED
    BY <1>1, <2>1 DEF Inv, TypeOK, Ended
<1>4. RequestInv(q)'
  <2>1. CreateInv(q)' /\ UpdateInv(q)' /\ ResolvedInv(q)'
    BY <1>1 DEF Inv, TypeOK, RequestInv, CreateInv, UpdateInv, ResolvedInv, InFlight
  <2>2. TokenInv(q)'
    BY <1>1 DEF Inv, TypeOK, RequestInv, TokenInv, Was, Own
  <2> QED
    BY <2>1, <2>2 DEF RequestInv
<1> QED
  BY <1>1, <1>2, <1>3, <1>4, QuietStep DEF InFlight

\* The e-mail is nobody's, and the user is new: nobody reads it, and no token
\* is of it.
LEMMA CreateInsertStep ==
    ASSUME Inv, NEW q \in Request, CreateInsert(q)
    PROVE  Inv'
<1>1. PICK t \in Tenant, e \in Email, r \in Role :
         /\ ~EmailTaken(t, e)
         /\ user' = [user EXCEPT ![q] =
                        [tenant |-> t, email |-> e, name |-> q, active |-> TRUE]]
         /\ role' = [role EXCEPT ![q] = r]
  BY DEF CreateInsert, Inserted
<1>2. /\ pc[q] = "idle" /\ pc' = [pc EXCEPT ![q] = "inserted"]
      /\ target' = [target EXCEPT ![q] = q]
      /\ UNCHANGED <<roles, seen, active, since, token, clock, lost>>
  BY DEF CreateInsert, Goto
<1>3. q \in Id /\ q # None /\ r # None
  BY ProvisioningAssumption DEF Id
<1> DEFINE row == [tenant |-> t, email |-> e, name |-> q, active |-> TRUE]
<1>4. /\ row \in Row /\ row # None
      /\ row.email = e /\ row.name = q /\ row.active
  <2>1. row \in Row
    BY <1>3 DEF Row
  <2> QED
    BY <2>1, RowAssumption
<1> HIDE DEF row
<1>5. user[q] = None
  BY <1>2 DEF Inv, RequestInv, CreateInv
<1>6. user'[q] = row /\ \A u \in Id : u # q => user'[u] = user[u]
  BY <1>1, <1>3 DEF Inv, TypeOK, row
<1>7. Users' = Users \cup {q} /\ q \notin Users
  BY <1>3, <1>4, <1>5, <1>6 DEF Users
<1>8. TypeOK'
  <2>1. user' \in [Id -> Row \cup {None}]
    BY <1>1, <1>4 DEF Inv, TypeOK, row
  <2>2. \A u \in Id : user[u] # None => user'[u] # None
    BY <1>5, <1>6
  <2>3. target' \in [Request -> Id \cup {None}]
    BY <1>2, <1>3 DEF Inv, TypeOK
  <2>4. \A p \in Request : target'[p] # None => user'[target'[p]] # None
    BY <1>2, <1>4, <1>6, <2>2 DEF Inv, TypeOK
  <2>5. role' \in [Request -> Role \cup {None}]
    BY <1>1 DEF Inv, TypeOK
  <2>6. pc' \in [Request -> {"idle"} \cup InFlight \cup Ended]
    BY <1>2 DEF Inv, TypeOK, InFlight
  <2> QED
    BY <1>2, <2>1, <2>2, <2>3, <2>4, <2>5, <2>6 DEF Inv, TypeOK
<1>9. EmailsUnique'
  BY <1>1, <1>4, <1>6, <1>7 DEF Inv, EmailsUnique, EmailTaken, Users
<1>10. NameInv'
  <2>1. ASSUME NEW u \in Users PROVE WrittenBy(u, user[u].name)'
    <3>1. user'[u] = user[u] /\ WrittenBy(u, user[u].name)
      BY <1>6, <1>7 DEF Inv, NameInv, Users
    <3> QED
      BY <1>2, <3>1 DEF WrittenBy, Inv, TypeOK
  <2>2. WrittenBy(q, user[q].name)'
    BY <1>4, <1>6 DEF WrittenBy
  <2> QED
    BY <1>7, <2>1, <2>2 DEF NameInv
<1>11. ASSUME NEW p \in Request PROVE RequestInv(p)'
  <2>1. p \in Id
    BY DEF Id
  <2>2. CreateInv(p)'
    BY <1>1, <1>2, <1>3, <1>4, <1>6, <2>1 DEF Inv, TypeOK, RequestInv, CreateInv
  <2>3. UpdateInv(p)'
    <3>1. pc'[p] = "found" => target[p] \in Id /\ target[p] # q /\ p # q
      BY <1>2, <1>5 DEF Inv, TypeOK, RequestInv, UpdateInv
    <3> QED
      BY <1>2, <1>6, <3>1 DEF Inv, TypeOK, RequestInv, UpdateInv
  <2>4. ResolvedInv(p)'
    BY <1>1, <1>2 DEF Inv, TypeOK, RequestInv, ResolvedInv, Was, Own
  <2>5. TokenInv(p)'
    <3>1. token[p] # None => token[p].user \in Id /\ token[p].user # q
      BY <1>5 DEF Inv, TypeOK, Claim, RequestInv, TokenInv
    <3> QED
      BY <1>2, <1>6, <3>1 DEF Inv, RequestInv, TokenInv, Was, Own
  <2> QED
    BY <2>2, <2>3, <2>4, <2>5 DEF RequestInv
<1> QED
  BY <1>4, <1>6, <1>8, <1>9, <1>10, <1>11 DEF Inv, SeedInv, Id

\* Every column is written as it was read, but for the name and is_active.
LEMMA UpdateWriteStep ==
    ASSUME Inv, NEW q \in Request, UpdateWrite(q)
    PROVE  Inv'
<1> DEFINE u == target[q]
           row == [seen[q] EXCEPT !.name = q, !.active = active[q]]
<1>1. /\ pc[q] = "found" /\ pc' = [pc EXCEPT ![q] = pc'[q]]
      /\ pc'[q] \in {"updated", "error"}
      /\ user' = [user EXCEPT ![u] = row]
      /\ seen' = [seen EXCEPT ![q] = None]
      /\ UNCHANGED <<roles, target, active, role, since, token, clock, lost>>
  BY DEF UpdateWrite, Goto, Inv, TypeOK
<1>2. /\ u \in Id /\ user[u] # None /\ seen[q] \in Row
      /\ seen[q].email = user[u].email /\ user[q] = None
  BY <1>1 DEF Inv, TypeOK, RequestInv, UpdateInv, CreateInv
<1>3. q \in Id /\ active[q] \in BOOLEAN /\ u # q
  BY <1>2 DEF Inv, TypeOK, Id
<1>4. /\ row \in Row /\ row # None
      /\ row.email = user[u].email /\ row.name = q /\ row.active = active[q]
  BY <1>2, <1>3, RowAssumption DEF Row
<1> HIDE DEF row
<1>5. user'[u] = row /\ \A v \in Id : v # u => user'[v] = user[v]
  BY <1>1, <1>2 DEF Inv, TypeOK
<1>6. Users' = Users
  BY <1>2, <1>4, <1>5 DEF Users
<1>7. TypeOK'
  <2>1. user' \in [Id -> Row \cup {None}]
    BY <1>1, <1>4 DEF Inv, TypeOK
  <2>2. \A v \in Id : user[v] # None => user'[v] # None
    BY <1>4, <1>5
  <2>3. \A p \in Request : target'[p] # None => user'[target'[p]] # None
    BY <1>1, <2>2 DEF Inv, TypeOK
  <2>4. pc' \in [Request -> {"idle"} \cup InFlight \cup Ended]
    BY <1>1 DEF Inv, TypeOK, Ended
  <2> QED
    BY <1>1, <2>1, <2>2, <2>3, <2>4 DEF Inv, TypeOK
<1>8. EmailsUnique'
  <2>1. \A v \in Users : user'[v].email = user[v].email
    BY <1>4, <1>5 DEF Users
  <2> QED
    BY <1>6, <2>1 DEF Inv, EmailsUnique
<1>9. NameInv'
  <2>1. ASSUME NEW v \in Users, v # u PROVE WrittenBy(v, user[v].name)'
    <3>1. user'[v] = user[v] /\ WrittenBy(v, user[v].name)
      BY <1>5, <2>1 DEF Inv, NameInv, Users
    <3> QED
      BY <1>1, <3>1 DEF WrittenBy, Inv, TypeOK
  <2>2. WrittenBy(u, user[u].name)'
    <3>1. /\ user'[u].name = q /\ user'[u].active = active'[q] /\ target'[q] = target[q]
          /\ pc'[q] \in {"updated", "error"} /\ q # target[q]
      BY <1>1, <1>3, <1>4, <1>5
    <3> QED
      BY <3>1 DEF WrittenBy
  <2> QED
    BY <1>1, <1>6, <2>1, <2>2 DEF NameInv
<1>10. ASSUME NEW p \in Request PROVE RequestInv(p)'
  <2>1. p \in Id /\ (user[p] = None <=> user'[p] = None)
    BY <1>2, <1>4, <1>5 DEF Id
  <2>2. CreateInv(p)'
    BY <1>1, <1>2, <2>1 DEF Inv, TypeOK, RequestInv, CreateInv
  <2>3. UpdateInv(p)'
    BY <1>1, <1>4, <1>5 DEF Inv, TypeOK, RequestInv, UpdateInv
  <2>4. ResolvedInv(p)'
    BY <1>1 DEF Inv, TypeOK, RequestInv, ResolvedInv, Was, Own
  <2>5. TokenInv(p)'
    <3>1. token[p] # None => token[p].user \in Id
      BY DEF Inv, TypeOK, Claim
    <3> QED
      BY <1>1, <1>4, <1>5, <3>1 DEF Inv, RequestInv, TokenInv, Was, Own
  <2> QED
    BY <2>2, <2>3, <2>4, <2>5 DEF RequestInv
<1> QED
  BY <1>4, <1>5, <1>7, <1>8, <1>9, <1>10 DEF Inv, SeedInv, Id

\* What was said of a role stays true: who loses it, loses it now.
LEMMA WasKept ==
    ASSUME TypeOK, NEW u \in Id, NEW held, Membership(u, held),
           NEW v \in Id, NEW r \in Role \cup {None}, NEW t \in Int, t <= clock,
           Was(v, r, t)
    PROVE  Was(v, r, t)'
<1>1. /\ roles' = [roles EXCEPT ![u] = held]
      /\ lost' = [lost EXCEPT ![u] = [l \in Role \cup {None} |->
                    IF IsRoleOf(l, roles[u]) /\ ~IsRoleOf(l, held) THEN clock ELSE lost[u][l]]]
  BY DEF Membership
<1>2. clock \in Nat /\ DOMAIN roles = Id /\ DOMAIN lost = Id
  BY ProvisioningAssumption DEF TypeOK
<1>3. CASE v # u
  BY <1>1, <1>2, <1>3 DEF Was
<1>4. CASE v = u
  <2>1. roles'[u] = held
    BY <1>1, <1>2
  <2>2. lost'[u][r] = IF IsRoleOf(r, roles[u]) /\ ~IsRoleOf(r, held) THEN clock ELSE lost[u][r]
    BY <1>1, <1>2
  <2> QED
    BY <1>2, <1>4, <2>1, <2>2 DEF Was
<1> QED
  BY <1>3, <1>4

\* Memberships of a user become others: what requests and tokens say of the
\* roles of this and of other users stays true.
LEMMA MembershipKeeps ==
    ASSUME Inv, NEW u \in Id, NEW held \in SUBSET Role, Membership(u, held),
           user[u] # None, u \in Request => roles[u] \subseteq held,
           UNCHANGED <<user, target, seen, active, role, since, token, clock>>
    PROVE  /\ roles' \in [Id -> SUBSET Role]
           /\ lost' \in [Id -> [Role \cup {None} -> -1..MaxClock]]
           /\ \A v \in Id : roles'[v] # {} => user'[v] # None
           /\ \A v \in Id : v # u => roles'[v] = roles[v]
           /\ roles'[u] = held
           /\ \A q \in Request : pc'[q] = pc[q] => ResolvedInv(q)'
           /\ \A q \in Request : TokenInv(q)'
<1>1. /\ roles' = [roles EXCEPT ![u] = held]
      /\ lost' = [lost EXCEPT ![u] = [l \in Role \cup {None} |->
                    IF IsRoleOf(l, roles[u]) /\ ~IsRoleOf(l, held) THEN clock ELSE lost[u][l]]]
  BY DEF Membership
<1>2. /\ roles' \in [Id -> SUBSET Role] /\ roles'[u] = held
      /\ \A v \in Id : v # u => roles'[v] = roles[v]
  BY <1>1 DEF Inv, TypeOK
<1>3. lost' \in [Id -> [Role \cup {None} -> -1..MaxClock]]
  <2>1. clock \in -1..MaxClock
    BY ProvisioningAssumption DEF Inv, TypeOK
  <2>2. lost'[u] \in [Role \cup {None} -> -1..MaxClock]
    BY <1>1, <2>1 DEF Inv, TypeOK
  <2> QED
    BY <1>1, <2>2 DEF Inv, TypeOK
<1>4. \A v \in Id : roles'[v] # {} => user'[v] # None
  BY <1>2 DEF Inv, TypeOK
<1>5. ASSUME NEW v \in Id, NEW r \in Role \cup {None}, Own(v, r) PROVE Own(v, r)'
  BY <1>2, <1>5 DEF Own
<1>6. /\ clock \in Nat /\ AccessTTL \in Nat /\ Stall \in Nat
      /\ \A q \in Request : since[q] \in Int
  BY ProvisioningAssumption DEF Inv, TypeOK
<1>7. ASSUME NEW q \in Request, pc'[q] = "resolved", pc[q] = "resolved"
      PROVE  ResolvedInv(q)'
  <2>1. PICK v \in Id : v = target[q]
    BY <1>7 DEF Inv, TypeOK, RequestInv, UpdateInv
  <2>2. PICK r \in Role \cup {None} : r = role[q]
    BY DEF Inv, TypeOK
  <2>3. PICK t \in Int : t = since[q] /\ t <= clock /\ clock <= t + Stall
    BY <1>6, <1>7 DEF Inv, RequestInv, ResolvedInv
  <2>4. Was(v, r, t) /\ Own(v, r)
    BY <1>7, <2>1, <2>2, <2>3 DEF Inv, RequestInv, ResolvedInv
  <2>5. Was(v, r, t)' /\ Own(v, r)'
    BY <1>5, <2>3, <2>4, WasKept DEF Inv
  <2> QED
    BY <2>1, <2>2, <2>3, <2>5 DEF ResolvedInv
<1>8. ASSUME NEW q \in Request, token[q] # None PROVE TokenInv(q)'
  <2>1. PICK c \in Claim : c = token[q]
    BY <1>8 DEF Inv, TypeOK
  <2>2. c.user \in Id /\ c.role \in Role \cup {None} /\ c.exp \in Nat
    BY DEF Claim
  <2>3. /\ user[c.user] # None /\ c.exp <= clock + AccessTTL /\ Own(c.user, c.role)
        /\ clock < c.exp => Was(c.user, c.role, c.exp - AccessTTL - Stall)
    BY <1>8, <2>1 DEF Inv, RequestInv, TokenInv
  <2>4. c.exp - AccessTTL - Stall \in Int /\ c.exp - AccessTTL - Stall <= clock
    BY <1>6, <2>2, <2>3
  <2>5. clock < c.exp => Was(c.user, c.role, c.exp - AccessTTL - Stall)'
    BY <2>2, <2>3, <2>4, WasKept DEF Inv
  <2>6. Own(c.user, c.role)'
    BY <1>5, <2>2, <2>3
  <2> QED
    BY <2>1, <2>3, <2>5, <2>6 DEF TokenInv
<1>9. \A q \in Request : pc'[q] = pc[q] => ResolvedInv(q)'
  BY <1>7 DEF ResolvedInv
<1>10. \A q \in Request : TokenInv(q)'
  BY <1>8 DEF TokenInv
<1> QED
  BY <1>2, <1>3, <1>4, <1>9, <1>10

\* The user that was inserted gets the role that was asked for, its only one.
LEMMA AssignStep ==
    ASSUME Inv, NEW q \in Request, Assign(q)
    PROVE  Inv'
<1>1. /\ pc[q] = "inserted"
      /\ \E end \in {"created", "error"} : pc' = [pc EXCEPT ![q] = end]
      /\ Membership(q, roles[q] \cup {role[q]})
      /\ UNCHANGED <<user, target, seen, active, role, since, token, clock>>
  BY DEF Assign, Goto
<1>2. q \in Id /\ user[q] # None /\ role[q] \in Role /\ roles[q] = {}
  BY <1>1 DEF Inv, TypeOK, RequestInv, CreateInv, Id
<1>3. /\ roles[q] \cup {role[q]} = {role[q]} /\ {role[q]} \in SUBSET Role
      /\ Membership(q, {role[q]})
  <2>1. roles[q] \cup {role[q]} = {role[q]}
    BY <1>2
  <2> QED
    BY <1>1, <1>2, <2>1
<1>4. /\ roles' \in [Id -> SUBSET Role]
      /\ lost' \in [Id -> [Role \cup {None} -> -1..MaxClock]]
      /\ \A v \in Id : roles'[v] # {} => user'[v] # None
      /\ \A v \in Id : v # q => roles'[v] = roles[v]
      /\ roles'[q] = {role[q]}
      /\ \A p \in Request : pc'[p] = pc[p] => ResolvedInv(p)'
      /\ \A p \in Request : TokenInv(p)'
  BY <1>1, <1>2, <1>3, MembershipKeeps
<1>5. TypeOK'
  BY <1>1, <1>4 DEF Inv, TypeOK, Ended
<1>6. EmailsUnique'
  BY <1>1 DEF Inv, EmailsUnique, Users
<1>7. NameInv'
  <2>1. ASSUME NEW u \in Users PROVE WrittenBy(u, user[u].name)'
    BY <1>1 DEF Inv, TypeOK, NameInv, WrittenBy
  <2> QED
    BY <1>1, <2>1 DEF NameInv, Users
<1>8. ASSUME NEW p \in Request PROVE RequestInv(p)'
  <2>1. CreateInv(p)'
    BY <1>1, <1>2, <1>4 DEF Inv, TypeOK, RequestInv, CreateInv, Id
  <2>2. UpdateInv(p)'
    BY <1>1 DEF Inv, TypeOK, RequestInv, UpdateInv
  <2>3. ResolvedInv(p)'
    BY <1>1, <1>4 DEF Inv, TypeOK, ResolvedInv
  <2> QED
    BY <1>4, <2>1, <2>2, <2>3 DEF RequestInv
<1> QED
  BY <1>1, <1>5, <1>6, <1>7, <1>8 DEF Inv, SeedInv

\* Operators change the roles of users that no request created.
LEMMA ChangeRolesStep ==
    ASSUME Inv, ChangeRoles
    PROVE  Inv'
<1>1. /\ UNCHANGED <<user, pc, target, seen, active, role, since, token, clock>>
      /\ \E u \in Seed, r \in Role :
           Membership(u, IF r \in roles[u] THEN roles[u] \ {r} ELSE roles[u] \cup {r})
  BY DEF ChangeRoles
<1>2. PICK u \in Seed, held \in SUBSET Role : Membership(u, held)
  <2>1. PICK u \in Seed, r \in Role :
          Membership(u, IF r \in roles[u] THEN roles[u] \ {r} ELSE roles[u] \cup {r})
    BY <1>1
  <2>2. (IF r \in roles[u] THEN roles[u] \ {r} ELSE roles[u] \cup {r}) \in SUBSET Role
    BY DEF Inv, TypeOK, Id
  <2> QED
    BY <2>1, <2>2
<1>3. u \in Id /\ user[u] # None /\ u \notin Request
  BY ProvisioningAssumption DEF Inv, SeedInv, Id
<1>4. /\ roles' \in [Id -> SUBSET Role]
      /\ lost' \in [Id -> [Role \cup {None} -> -1..MaxClock]]
      /\ \A v \in Id : roles'[v] # {} => user'[v] # None
      /\ \A v \in Id : v # u => roles'[v] = roles[v]
      /\ \A p \in Request : pc'[p] = pc[p] => ResolvedInv(p)'
      /\ \A p \in Request : TokenInv(p)'
  BY <1>1, <1>2, <1>3, MembershipKeeps
<1>5. TypeOK'
  BY <1>1, <1>4 DEF Inv, TypeOK
<1>6. EmailsUnique' /\ SeedInv'
  BY <1>1 DEF Inv, EmailsUnique, SeedInv, Users
<1>7. NameInv'
  <2>1. ASSUME NEW v \in Users PROVE WrittenBy(v, user[v].name)'
    BY <1>1 DEF Inv, NameInv, WrittenBy
  <2> QED
    BY <1>1, <2>1 DEF NameInv, Users
<1>8. ASSUME NEW p \in Request PROVE RequestInv(p)'
  <2>1. CreateInv(p)'
    BY <1>1, <1>3, <1>4 DEF Inv, RequestInv, CreateInv, Id
  <2>2. UpdateInv(p)'
    BY <1>1 DEF Inv, RequestInv, UpdateInv
  <2> QED
    BY <1>1, <1>4, <2>1, <2>2 DEF RequestInv
<1> QED
  BY <1>5, <1>6, <1>7, <1>8 DEF Inv

\* Time passes; what was taken away is forgotten only when no request that
\* resolved it can be under way, and no token that names it valid.
LEMMA TickStep ==
    ASSUME Inv, Tick
    PROVE  Inv'
<1>1. /\ clock' = clock + 1 /\ clock < MaxClock
      /\ \A q \in Request : pc[q] = "resolved" => clock - since[q] < Stall
      /\ lost' = [u \in Id |-> [r \in Role \cup {None} |->
                   IF clock' - lost[u][r] < AccessTTL + Stall THEN lost[u][r] ELSE -1]]
      /\ UNCHANGED <<user, roles, pc, target, seen, active, role, since, token>>
  BY DEF Tick
<1>2. /\ clock \in Nat /\ AccessTTL \in Nat \ {0} /\ Stall \in Nat /\ MaxClock \in Nat
      /\ lost \in [Id -> [Role \cup {None} -> -1..MaxClock]]
      /\ \A q \in Request : since[q] \in Int
  <2>1. clock \in 0..MaxClock /\ since \in [Request -> 0..MaxClock]
    BY DEF Inv, TypeOK
  <2>2. lost \in [Id -> [Role \cup {None} -> -1..MaxClock]]
    BY DEF Inv, TypeOK
  <2>3. /\ AccessTTL \in Nat \ {0} /\ Stall \in Nat /\ MaxClock \in Nat
    BY ProvisioningAssumption
  <2>4. clock \in Nat /\ \A q \in Request : since[q] \in Int
    BY <2>1
  <2> QED
    BY <2>2, <2>3, <2>4, Zenon
<1>3. lost' \in [Id -> [Role \cup {None} -> -1..MaxClock]]
  <2>1. \A u \in Id, r \in Role \cup {None} :
          (IF clock' - lost[u][r] < AccessTTL + Stall THEN lost[u][r] ELSE -1) \in -1..MaxClock
    BY <1>2
  <2> QED
    BY <1>1, <2>1
<1>4. TypeOK'
  <2>1. clock' \in 0..MaxClock
    BY <1>1, <1>2
  <2> QED
    BY <1>1, <1>3, <2>1 DEF Inv, TypeOK
<1>5. EmailsUnique' /\ SeedInv'
  BY <1>1 DEF Inv, EmailsUnique, SeedInv, Users
<1>6. NameInv'
  <2>1. ASSUME NEW v \in Users PROVE WrittenBy(v, user[v].name)'
    BY <1>1 DEF Inv, NameInv, WrittenBy
  <2> QED
    BY <1>1, <2>1 DEF NameInv, Users
<1>7. ASSUME NEW u \in Id, NEW r \in Role \cup {None}, NEW t \in Int,
             clock' < t + AccessTTL + Stall, Was(u, r, t)
      PROVE  Was(u, r, t)'
  <2>1. lost'[u][r] = IF clock' - lost[u][r] < AccessTTL + Stall THEN lost[u][r] ELSE -1
    BY <1>1
  <2>2. lost[u][r] \in Int /\ clock' \in Int
    BY <1>1, <1>2
  <2>3. roles' = roles
    BY <1>1
  <2> QED
    BY <1>2, <1>7, <2>1, <2>2, <2>3 DEF Was
<1>8. ASSUME NEW q \in Request PROVE RequestInv(q)'
  <2>1. CreateInv(q)' /\ UpdateInv(q)'
    BY <1>1 DEF Inv, RequestInv, CreateInv, UpdateInv
  <2>2. ASSUME pc[q] = "resolved" PROVE ResolvedInv(q)'
    <3>1. PICK u \in Id, r \in Role \cup {None}, t \in Int :
            u = target[q] /\ r = role[q] /\ t = since[q]
      BY <1>2, <2>2 DEF Inv, TypeOK, RequestInv, UpdateInv
    <3>2. t <= clock /\ Was(u, r, t) /\ Own(u, r)
      BY <2>2, <3>1 DEF Inv, RequestInv, ResolvedInv
    <3>3. clock - t < Stall
      BY <1>1, <2>2, <3>1
    <3>4. t <= clock' /\ clock' <= t + Stall /\ clock' < t + AccessTTL + Stall
      <4>1. /\ clock' = clock + 1 /\ clock \in Int /\ Stall \in Int
            /\ AccessTTL \in Int /\ AccessTTL > 0
        BY <1>1, <1>2
      <4> QED
        BY <3>2, <3>3, <4>1
    <3>5. Was(u, r, t)'
      BY <1>7, <3>2, <3>4
    <3>6. Own(u, r)'
      BY <1>1, <3>2 DEF Own
    <3> QED
      BY <1>1, <3>1, <3>4, <3>5, <3>6 DEF ResolvedInv
  <2>3. ASSUME token[q] # None PROVE TokenInv(q)'
    <3>1. PICK c \in Claim : c = token[q]
      BY <2>3 DEF Inv, TypeOK
    <3>2. c.user \in Id /\ c.role \in Role \cup {None} /\ c.exp \in Nat
      BY DEF Claim
    <3>3. /\ user[c.user] # None /\ c.exp <= clock + AccessTTL /\ Own(c.user, c.role)
          /\ clock < c.exp => Was(c.user, c.role, c.exp - AccessTTL - Stall)
      BY <2>3, <3>1 DEF Inv, RequestInv, TokenInv
    <3> DEFINE t == c.exp - AccessTTL - Stall
    <3>4. /\ t \in Int /\ c.exp <= clock' + AccessTTL
          /\ clock' < c.exp => clock < c.exp /\ clock' < t + AccessTTL + Stall
      BY <1>1, <1>2, <3>2, <3>3
    <3>5. clock' < c.exp => Was(c.user, c.role, t)'
      BY <1>7, <3>2, <3>3, <3>4
    <3>6. Own(c.user, c.role)'
      BY <1>1, <3>3 DEF Own
    <3> QED
      BY <1>1, <3>1, <3>3, <3>4, <3>5, <3>6 DEF TokenInv
  <2>4. ResolvedInv(q)' /\ TokenInv(q)'
    BY <1>1, <2>2, <2>3 DEF ResolvedInv, TokenInv
  <2> QED
    BY <2>1, <2>4 DEF RequestInv
<1> QED
  BY <1>4, <1>5, <1>6, <1>8 DEF Inv

-----------------------------------------------------------------------------
LEMMA StepInv == Inv /\ [Next]_vars => Inv'
<1> SUFFICES ASSUME Inv, [Next]_vars PROVE Inv'
  OBVIOUS
<1>1. CASE UNCHANGED vars
  <2>1. TypeOK' /\ EmailsUnique' /\ SeedInv'
    BY <1>1 DEF vars, Inv, TypeOK, EmailsUnique, SeedInv, Users
  <2>2. NameInv'
    BY <1>1 DEF vars, Inv, NameInv, WrittenBy, Users
  <2>3. ASSUME NEW q \in Request PROVE RequestInv(q)'
    BY <1>1 DEF vars, Inv, RequestInv, CreateInv, UpdateInv, ResolvedInv, TokenInv, Was, Own
  <2> QED
    BY <2>1, <2>2, <2>3 DEF Inv
<1>2. CASE ChangeRoles \/ Tick
  BY <1>2, ChangeRolesStep, TickStep
<1>3. ASSUME NEW q \in Request, \/ CreateInsert(q) \/ CreateConflict(q) \/ CreateInvalid(q)
                                \/ Assign(q) \/ UpdateFind(q) \/ UpdateWrite(q)
                                \/ LoginFind(q) \/ RefreshFind(q)
                                \/ Resolve(q) \/ Issue(q) \/ Fail(q)
      PROVE  Inv'
  BY <1>3, CreateInsertStep, RefuseStep, AssignStep, UpdateFindStep, UpdateWriteStep,
     FindStep, ResolveStep, IssueStep, FailStep
<1> QED
  BY <1>1, <1>2, <1>3 DEF Next

\* The inductive invariant holds in every behaviour.
THEOREM ProvisioningInvHolds == Spec => []Inv
<1> QED
  BY InitInv, StepInv, PTL DEF Spec

\* Two tenants that create a user with the same e-mail at the same time end
\* with one account (the unique index), and no update brings a second about,
\* though it writes back the e-mail it read (UpdateUser).
THEOREM OneAccountPerEmail == Spec => []EmailsUnique
<1>1. Inv => EmailsUnique
  BY DEF Inv
<1> QED
  BY <1>1, ProvisioningInvHolds, PTL

\* Concurrent updates of a user overwrite each other as a whole: the row is
\* what CreateUser or one UpdateUser asked for, never a mixture of two.
THEOREM RowsStayWhole == Spec => []WholeRows
<1>1. Inv => WholeRows
  BY DEF Inv, NameInv, WrittenBy, WholeRows
<1> QED
  BY <1>1, ProvisioningInvHolds, PTL

\* CreateUser answers 201 only for a user that has its role; one that failed
\* between the two statements leaves a user whose tokens name no role.
THEOREM CreatesAreWhole == Spec => []CreatedWhole
<1>1. Inv => CreatedWhole
  <2> SUFFICES ASSUME Inv, NEW q \in Request
               PROVE  /\ pc[q] = "created" => user[q] # None /\ roles[q] = {role[q]}
                      /\ pc[q] \in {"conflict", "rejected"} => user[q] = None
                      /\ \A p \in Request : token[p] # None /\ token[p].user = q =>
                            /\ token[p].role \in {None, role[q]}
                            /\ pc[q] = "error" /\ roles[q] = {} => token[p].role = None
    BY DEF CreatedWhole
  <2>1. CreateInv(q)
    BY DEF Inv, RequestInv
  <2>2. ASSUME NEW p \in Request, token[p] # None, token[p].user = q
        PROVE  token[p].role \in {None} \cup roles[q]
    BY <2>2 DEF Inv, RequestInv, TokenInv, Own
  <2> QED
    BY <2>1, <2>2 DEF CreateInv
<1> QED
  BY <1>1, ProvisioningInvHolds, PTL

\* A role that was taken away is in no valid token any more, a lifetime (and
\* the time between resolving a role and Issue) after it was: Refresh resolves
\* the role again.
THEOREM RoleLagIsBounded == Spec => []RoleLagBounded
<1>1. Inv => RoleLagBounded
  <2> SUFFICES ASSUME Inv, NEW q \in Request, token[q] # None, clock < token[q].exp
               PROVE  \/ IsRoleOf(token[q].role, roles[token[q].user])
                      \/ lost[token[q].user][token[q].role] # -1
    BY DEF RoleLagBounded
  <2>1. Was(token[q].user, token[q].role, token[q].exp - AccessTTL - Stall)
    BY DEF Inv, RequestInv, TokenInv
  <2>2. lost[token[q].user][token[q].role] \in Int
    BY DEF Inv, TypeOK, Claim
  <2> QED
    BY <2>1, <2>2 DEF Was
<1> QED
  BY <1>1, ProvisioningInvHolds, PTL
=============================================================================
