---------------------------- MODULE TenantDatabase ----------------------------
(***************************************************************************)
(* What tenant isolation promises: every tenant has a database of its own, *)
(* and every request is one atomic step of the database of one tenant.     *)
(* There are no connections, settings, transactions or locks.              *)
(***************************************************************************)
CONSTANTS
    Request,
    Tenant,
    Order,      \* what can be asked: [tenant, kind, table, id, operator]
    None

VARIABLES
    db,         \* the rows of each tenant
    order,      \* what a request asks for
    phase,      \* of a request: "open", "served", "closed"
    reply       \* what a served request will be told

vars == <<db, order, phase, reply>>

Init ==
    /\ DOMAIN db = Tenant
    /\ order = [q \in Request |-> None]
    /\ phase = [q \in Request |-> "open"]
    /\ reply = [q \in Request |-> None]

Ask(q) ==
    /\ phase[q] = "open" /\ order[q] = None
    /\ \E o \in Order : order' = [order EXCEPT ![q] = o]
    /\ UNCHANGED <<db, phase, reply>>

\* The rows q's order is about.
Hit(q) ==
    {r \in db[order[q].tenant] :
        r.table = order[q].table /\ (order[q].kind = "list" \/ r.id = order[q].id)}

\* Those rows as their tenant may read them: an operator of another tenant
\* has no name.
View(q) ==
    {[row |-> r, name |-> IF r.operator = order[q].tenant THEN r.operator ELSE None] :
        r \in Hit(q)}

\* The row that q leaves behind, under number id.
Written(q, id) ==
    [id |-> id, table |-> order[q].table, tenant |-> order[q].tenant, by |-> q,
     operator |-> order[q].operator]

Tells(q, found, rows) ==
    reply' = [reply EXCEPT ![q] = [found |-> found, rows |-> rows]]

Becomes(q, rows) == db' = [db EXCEPT ![order[q].tenant] = rows]

Serve(q) ==
    /\ phase[q] = "open" /\ order[q] # None
    /\ phase' = [phase EXCEPT ![q] = "served"]
    /\ LET kind == order[q].kind
           all  == db[order[q].tenant]
       IN \/ /\ kind \in {"list", "get"}
             /\ Tells(q, kind = "list" \/ Hit(q) # {}, View(q))
             /\ UNCHANGED db
          \/ /\ kind = "create"
             /\ Tells(q, TRUE, {})
             /\ Becomes(q, all \cup {Written(q, q)})
          \/ /\ kind = "update"
             /\ Tells(q, Hit(q) # {}, {})
             /\ Becomes(q, (all \ Hit(q)) \cup {Written(q, r.id) : r \in Hit(q)})
          \/ /\ kind = "delete"
             /\ Tells(q, Hit(q) # {}, {})
             /\ Becomes(q, all \ Hit(q))
    /\ UNCHANGED order

\* The answer, or an error, which does not say whether q was served.
Close(q) ==
    /\ phase[q] # "closed"
    /\ phase' = [phase EXCEPT ![q] = "closed"]
    /\ order' = [order EXCEPT ![q] = None]
    /\ reply' = [reply EXCEPT ![q] = None]
    /\ UNCHANGED db

Next == \E q \in Request : Ask(q) \/ Serve(q) \/ Close(q)

Spec == Init /\ [][Next]_vars
=============================================================================
