------------------------------ MODULE Provisioning ------------------------------
(***************************************************************************)
(* Users and their roles: creating and updating users, and the role that   *)
(* login and refresh put into an access token.                             *)
(*                                                                         *)
(* Every statement is a transaction of its own.  CreateUser inserts the    *)
(* user and assigns the role afterwards; UpdateUser reads the row and      *)
(* writes all of it back; a token carries the role the user had when it    *)
(* was resolved, and is believed until it expires.  Memberships are        *)
(* changed by operators in SQL: the service has no route for it.           *)
(***************************************************************************)
EXTENDS Integers, Sequences, SequencesExt

CONSTANTS
    Request,
    Seed,       \* users that are there from the start
    Tenant,
    Email,
    Role,       \* the role codes of this instance
    AccessTTL,  \* ticks an access token is valid
    Stall,      \* bound on the ticks between resolving a role and Issue
    MaxClock,   \* bound on the clock
    None        \* no row, no role, no token

\* rolePrecedence, from most to least privileged.
rolePrecedence == <<"admin", "agronomist", "producer", "auditor", "hauler">>

ASSUME ProvisioningAssumption ==
    /\ Request \cap Seed = {}
    /\ Role \subseteq ToSet(rolePrecedence)
    /\ AccessTTL \in Nat \ {0} /\ Stall \in Nat /\ MaxClock \in Nat
    /\ None \notin Request \cup Seed \cup Tenant \cup Email \cup ToSet(rolePrecedence)

VARIABLES
    user,       \* app.users, by id; a request creates at most one
    roles,      \* app.user_roles: the roles of each user
    pc,         \* where each request is, or how it ended
    target,     \* the user a request is about
    seen,       \* the row UpdateUser read
    active,     \* the is_active UpdateUser was given
    role,       \* the role to assign, or the one that was resolved
    since,      \* when it was resolved
    token,      \* the access token a request was answered with
    clock,
    lost        \* history: when each role was taken from each user, as long
                \* as a token may still name it

vars == <<user, roles, pc, target, seen, active, role, since, token, clock, lost>>

Id == Request \cup Seed

\* The full name stands for the request that wrote it; the password hash goes
\* with the e-mail.
Row == [tenant : Tenant, email : Email, name : Id, active : BOOLEAN]

Claim == [user : Id, role : Role \cup {None}, exp : Nat]

ASSUME RowAssumption == None \notin Row /\ None \notin Claim

InFlight == {"inserted", "found", "verified", "resolved"}
Ended == {"created", "conflict", "updated", "granted", "rejected", "error"}

TypeOK ==
    /\ user \in [Id -> Row \cup {None}]
    /\ roles \in [Id -> SUBSET Role]
    /\ \A u \in Id : roles[u] # {} => user[u] # None
    /\ pc \in [Request -> {"idle"} \cup InFlight \cup Ended]
    /\ target \in [Request -> Id \cup {None}]
    /\ \A q \in Request : target[q] # None => user[target[q]] # None
    /\ seen \in [Request -> Row \cup {None}]
    /\ active \in [Request -> BOOLEAN]
    /\ role \in [Request -> Role \cup {None}]
    /\ since \in [Request -> 0..MaxClock]
    /\ token \in [Request -> Claim \cup {None}]
    /\ clock \in 0..MaxClock
    /\ lost \in [Id -> [Role \cup {None} -> -1..MaxClock]]

Users == {u \in Id : user[u] # None}

Goto(q, from, to) == pc[q] = from /\ pc' = [pc EXCEPT ![q] = to]

-----------------------------------------------------------------------------
(* Role resolution *)

\* The first role of the precedence list that is held; none is legal.
ResolveRole(held) ==
    LET ranks == {i \in 1..Len(rolePrecedence) : rolePrecedence[i] \in held}
    IN IF ranks = {} THEN None ELSE rolePrecedence[Min(ranks)]

\* What it should return: a role that is held, and none that is held stands
\* before it.
Rank(r) == CHOOSE i \in 1..Len(rolePrecedence) : rolePrecedence[i] = r

IsRoleOf(r, held) ==
    IF r = None THEN held = {}
    ELSE r \in held /\ \A s \in held : Rank(r) <= Rank(s)

\* The memberships of u become held; the role u had until now is given up.
Membership(u, held) ==
    /\ roles' = [roles EXCEPT ![u] = held]
    /\ lost' = [lost EXCEPT ![u] = [r \in Role \cup {None} |->
                   IF IsRoleOf(r, roles[u]) /\ ~IsRoleOf(r, held) THEN clock ELSE @[r]]]

Init ==
    /\ \E tenant \in [Seed -> Tenant], email \in [Seed -> Email] :
          /\ \A s, t \in Seed : email[s] = email[t] => s = t
          /\ user = [u \in Id |-> IF u \notin Seed THEN None
                                  ELSE [tenant |-> tenant[u], email |-> email[u],
                                        name |-> u, active |-> TRUE]]
    /\ roles \in [Id -> SUBSET Role]
    /\ \A u \in Id : roles[u] = {} <=> u \notin Seed
    /\ pc = [q \in Request |-> "idle"]
    /\ target = [q \in Request |-> None]
    /\ seen = [q \in Request |-> None]
    /\ active = [q \in Request |-> TRUE]
    /\ role = [q \in Request |-> None]
    /\ since = [q \in Request |-> 0]
    /\ token = [q \in Request |-> None]
    /\ clock = 0
    /\ lost = [u \in Id |-> [r \in Role \cup {None} |-> -1]]

-----------------------------------------------------------------------------
(* CreateUser *)

\* A faulty check, a lookup before the insert: the policies hide the users of
\* other tenants.
EmailTakenHere(t, e) == \E u \in Users : user[u].tenant = t /\ user[u].email = e

\* The unique index on users.email, which no policy filters.
EmailTaken(t, e) == \E u \in Users : user[u].email = e

Inserted(q, t, e) ==
    user' = [user EXCEPT ![q] =
                [tenant |-> t, email |-> e, name |-> q, active |-> TRUE]]

\* The role code was validated before; the user is there without it.
CreateInsert(q) ==
    /\ Goto(q, "idle", "inserted")
    /\ \E t \in Tenant, e \in Email : ~EmailTaken(t, e) /\ Inserted(q, t, e)
    /\ \E r \in Role : role' = [role EXCEPT ![q] = r]
    /\ target' = [target EXCEPT ![q] = q]
    /\ UNCHANGED <<roles, seen, active, since, token, clock, lost>>

CreateConflict(q) ==
    /\ Goto(q, "idle", "conflict")
    /\ \E t \in Tenant, e \in Email : EmailTaken(t, e)
    /\ UNCHANGED <<user, roles, target, seen, active, role, since, token, clock, lost>>

\* A faulty order: the role code is validated after the insert.
CreateInvalidLate(q) ==
    /\ Goto(q, "idle", "rejected")
    /\ \E t \in Tenant, e \in Email : ~EmailTaken(t, e) /\ Inserted(q, t, e)
    /\ UNCHANGED <<roles, target, seen, active, role, since, token, clock, lost>>

\* An unknown role code, a missing field, a password that cannot be hashed;
\* the end, too, of any request that finds no user, or the wrong password.
CreateInvalid(q) ==
    /\ Goto(q, "idle", "rejected")
    /\ UNCHANGED <<user, roles, target, seen, active, role, since, token, clock, lost>>

\* A faulty target: memberships without the tenant and user they belong to.
AssignAnyone(q) ==
    /\ Goto(q, "inserted", "created") \/ Goto(q, "inserted", "error")
    /\ \E u \in Id : Membership(u, roles[u] \cup {role[q]})
    /\ UNCHANGED <<user, target, seen, active, role, since, token, clock>>

\* The answer to its commit may be lost: the role is there, and CreateUser
\* fails.
Assign(q) ==
    /\ Goto(q, "inserted", "created") \/ Goto(q, "inserted", "error")
    /\ Membership(q, roles[q] \cup {role[q]})
    /\ UNCHANGED <<user, target, seen, active, role, since, token, clock>>

-----------------------------------------------------------------------------
(* UpdateUser *)

\* FindByID under the tenant of the caller; the service gets a copy.
UpdateFind(q) ==
    /\ Goto(q, "idle", "found")
    /\ \E u \in Users : /\ target' = [target EXCEPT ![q] = u]
                        /\ seen' = [seen EXCEPT ![q] = user[u]]
    /\ \E b \in BOOLEAN : active' = [active EXCEPT ![q] = b]
    /\ UNCHANGED <<user, roles, role, since, token, clock, lost>>

\* A faulty write: what was read is only deactivated, never activated again.
UpdateMerges(q) ==
    /\ Goto(q, "found", "updated") \/ Goto(q, "found", "error")
    /\ user' = [user EXCEPT ![target[q]] =
                   [seen[q] EXCEPT !.name = q, !.active = @ /\ active[q]]]
    /\ seen' = [seen EXCEPT ![q] = None]
    /\ UNCHANGED <<roles, target, active, role, since, token, clock, lost>>

\* Every column is written, those that were not asked for as they were read.
\* The role is looked up for the answer, and may turn it into an error.
UpdateWrite(q) ==
    /\ Goto(q, "found", "updated") \/ Goto(q, "found", "error")
    /\ user' = [user EXCEPT ![target[q]] =
                   [seen[q] EXCEPT !.name = q, !.active = active[q]]]
    /\ seen' = [seen EXCEPT ![q] = None]
    /\ UNCHANGED <<roles, target, active, role, since, token, clock, lost>>

-----------------------------------------------------------------------------
(* Login and refresh, as far as roles go; RefreshRotation has the rest *)

LoginFind(q) ==
    /\ Goto(q, "idle", "verified")
    /\ \E u \in Users : user[u].active /\ target' = [target EXCEPT ![q] = u]
    /\ UNCHANGED <<user, roles, seen, active, role, since, token, clock, lost>>

\* Refresh knows the user from the refresh token, which another login was
\* answered with, and looks neither at the row nor at is_active.
RefreshFind(q) ==
    /\ Goto(q, "idle", "verified")
    /\ \E p \in Request : token[p] # None /\ target' = [target EXCEPT ![q] = token[p].user]
    /\ UNCHANGED <<user, roles, seen, active, role, since, token, clock, lost>>

\* A faulty refresh: the role of the token that expires is used again.
ResolveOnce(q) ==
    /\ Goto(q, "verified", "resolved")
    /\ LET earlier == {p \in Request : token[p] # None /\ token[p].user = target[q]}
       IN IF earlier = {} THEN role' = [role EXCEPT ![q] = ResolveRole(roles[target[q]])]
          ELSE \E p \in earlier : role' = [role EXCEPT ![q] = token[p].role]
    /\ since' = [since EXCEPT ![q] = clock]
    /\ UNCHANGED <<user, roles, target, seen, active, token, clock, lost>>

Resolve(q) ==
    /\ Goto(q, "verified", "resolved")
    /\ role' = [role EXCEPT ![q] = ResolveRole(roles[target[q]])]
    /\ since' = [since EXCEPT ![q] = clock]
    /\ UNCHANGED <<user, roles, target, seen, active, token, clock, lost>>

Issue(q) ==
    /\ Goto(q, "resolved", "granted")
    /\ token' = [token EXCEPT ![q] =
          [user |-> target[q], role |-> role[q], exp |-> clock + AccessTTL]]
    /\ role' = [role EXCEPT ![q] = None]
    /\ since' = [since EXCEPT ![q] = 0]
    /\ UNCHANGED <<user, roles, target, seen, active, clock, lost>>

\* An error of a statement, a cancelled context, a crash; nothing is undone.
Fail(q) ==
    /\ pc[q] \in InFlight
    /\ pc' = [pc EXCEPT ![q] = "error"]
    /\ seen' = [seen EXCEPT ![q] = None]
    /\ since' = [since EXCEPT ![q] = 0]
    /\ UNCHANGED <<user, roles, target, active, role, token, clock, lost>>

-----------------------------------------------------------------------------
(* The environment *)

\* An operator grants or revokes a role in SQL, for a user nobody is creating,
\* and does not take the role of a user twice in one tick.
ChangeRoles ==
    /\ \E u \in Seed, r \in Role :
          /\ \A l \in Role \cup {None} : lost[u][l] # clock
          /\ Membership(u, IF r \in roles[u] THEN roles[u] \ {r} ELSE roles[u] \cup {r})
    /\ UNCHANGED <<user, pc, target, seen, active, role, since, token, clock>>

Tick ==
    /\ clock < MaxClock
    /\ \A q \in Request : pc[q] = "resolved" => clock - since[q] < Stall
    /\ clock' = clock + 1
    /\ lost' = [u \in Id |-> [r \in Role \cup {None} |->
                   IF clock' - lost[u][r] < AccessTTL + Stall THEN lost[u][r] ELSE -1]]
    /\ UNCHANGED <<user, roles, pc, target, seen, active, role, since, token>>

Next ==
    \/ ChangeRoles \/ Tick
    \/ \E q \in Request :
          \/ CreateInsert(q) \/ CreateConflict(q) \/ CreateInvalid(q) \/ Assign(q)
          \/ UpdateFind(q) \/ UpdateWrite(q)
          \/ LoginFind(q) \/ RefreshFind(q) \/ Resolve(q) \/ Issue(q)
          \/ Fail(q)

Spec == Init /\ [][Next]_vars

-----------------------------------------------------------------------------
(* Properties *)

\* One account per e-mail, whatever tenants create it at the same time.
EmailsUnique ==
    \A u, v \in Users : user[u].email = user[v].email => u = v

\* Name and activity of a user are what one request asked for, of this very
\* user: concurrent updates overwrite each other as a whole, and nothing that
\* was read before a deactivation brings a user back.
WholeRows ==
    \A u \in Users :
        LET w == user[u].name
        IN IF w = u THEN user[u].active
           ELSE target[w] = u /\ user[u].active = active[w]

\* A create that was answered 201 left a user with the role it asked for, one
\* that was refused left nothing; a user whose role could not be assigned any
\* more can log in, and is nobody.
CreatedWhole ==
    \A q \in Request :
        /\ pc[q] = "created" => user[q] # None /\ roles[q] = {role[q]}
        /\ pc[q] \in {"conflict", "rejected"} => user[q] = None
        /\ \A p \in Request : token[p] # None /\ token[p].user = q =>
              /\ token[p].role \in {None, role[q]}
              /\ pc[q] = "error" /\ roles[q] = {} => token[p].role = None

\* A token that is still believed names a role that was its user's, the most
\* privileged one, less than its lifetime ago, give or take the time the
\* request spent between the two: a revoked role cannot be refreshed.
RoleLagBounded ==
    \A q \in Request : token[q] # None /\ clock < token[q].exp =>
        \/ IsRoleOf(token[q].role, roles[token[q].user])
        \/ lost[token[q].user][token[q].role] # -1
=============================================================================
