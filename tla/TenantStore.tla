------------------------------ MODULE TenantStore ------------------------------
(***************************************************************************)
(* The tenant-scoped repositories: requests about lots, campaigns and      *)
(* applications over a pool of PostgreSQL connections.                     *)
(*                                                                         *)
(* WithTenant takes a connection of the pool, opens a transaction, binds   *)
(* app.tenant_id for that transaction, runs one statement and commits or   *)
(* rolls back.  No statement on campaigns and applications names the       *)
(* tenant: which rows it sees and may write is up to the policies, which   *)
(* compare a row with the setting of the connection.  After a write the    *)
(* service records an event in the audit log, on a connection of its own.  *)
(***************************************************************************)
EXTENDS FiniteSets

CONSTANTS
    Request,
    Conn,       \* the connections of the pool
    Tenant,     \* a tenant also stands for its one user
    Table,      \* of "lots", "campaigns" and "applications"
    Seed,       \* ids of rows that are there from the start
    None        \* no tenant, no user, no connection, no order

ASSUME StoreAssumption ==
    /\ None \notin Request \cup Conn \cup Tenant
    /\ Request \cap Seed = {}
    /\ Table \subseteq {"lots", "campaigns", "applications"}
    /\ "applications" \in Table

VARIABLES
    rows,       \* the committed rows of the three tables
    session,    \* app.tenant_id of a connection, beyond its transactions
    local,      \* app.tenant_id of the transaction open on a connection
    held,       \* the connection a request holds
    pc,         \* where each request is
    order,      \* what the request asks for, from its transaction on
    change,     \* what its transaction will change
    answer      \* the rows its statement returned

vars == <<rows, session, local, held, pc, order, change, answer>>

Id == Request \cup Seed     \* a request generates at most one id

Row == [id : Id, table : Table, tenant : Tenant, by : Id,
        operator : Tenant \cup {None}]

\* What the handlers and services accept: lots have no route for one row.
Kinds(table) ==
    IF table = "lots" THEN {"list", "create"}
                      ELSE {"list", "get", "create", "update", "delete"}

Writes == {"create", "update", "delete"}

\* An order that has no use for an id or an operator has none.
Order ==
    {o \in [tenant : Tenant, kind : {"list", "get"} \cup Writes, table : Table,
            id : Id \cup {None}, operator : Tenant \cup {None}] :
        /\ o.kind \in Kinds(o.table)
        /\ o.id = None <=> o.kind \in {"list", "create"}
        /\ o.operator # None => o.table = "applications"
                                /\ o.kind \in {"create", "update"}}

ASSUME OrderAssumption == None \notin Order

Nothing == [gone |-> {}, new |-> {}]

InTransaction == {"begun", "bound", "executed", "missing"}

TypeOK ==
    /\ rows \subseteq Row
    /\ session \in [Conn -> Tenant \cup {None}]
    /\ local \in [Conn -> Tenant \cup {None}]
    /\ held \in [Request -> Conn \cup {None}]
    /\ pc \in [Request -> {"waiting", "emitting", "answering", "notFound", "ended"} \cup InTransaction]
    /\ order \in [Request -> Order \cup {None}]
    /\ change \in [Request -> [gone : SUBSET Row, new : SUBSET Row]]
    /\ \A q \in Request : \A v \in answer[q] :
          v.row \in Row /\ v.name \in Tenant \cup {None}
    /\ \A q \in Request : held[q] # None <=> pc[q] \in InTransaction
    /\ \A p, q \in Request : held[p] = held[q] /\ held[p] # None => p = q
    /\ \A r, s \in rows : r.id = s.id => r = s

Init ==
    /\ \E owner \in [Seed -> Tenant] :
          rows = {[id |-> s, table |-> "applications", tenant |-> owner[s],
                   by |-> s, operator |-> None] : s \in Seed}
    /\ session = [c \in Conn |-> None]
    /\ local = [c \in Conn |-> None]
    /\ held = [q \in Request |-> None]
    /\ pc = [q \in Request |-> "waiting"]
    /\ order = [q \in Request |-> None]
    /\ change = [q \in Request |-> Nothing]
    /\ answer = [q \in Request |-> {}]

Goto(q, from, to) == pc[q] = from /\ pc' = [pc EXCEPT ![q] = to]

Free(c) == \A q \in Request : held[q] # c

-----------------------------------------------------------------------------
(* The policies *)

\* app.current_tenant_id(): NULL when no tenant is bound.
CurrentTenant(c) == IF local[c] # None THEN local[c] ELSE session[c]

\* USING: the rows a statement on connection c sees and may work on.
Visible(c) == {r \in rows : r.tenant = CurrentTenant(c)}

\* WITH CHECK: the rows it may write.
Writable(c, r) == r.tenant = CurrentTenant(c)

\* A faulty one: the name is looked up by a role the policies do not bind.
OperatorNameOfAnyone(c, r) == r.operator

\* operator_name: a subquery on app.users, under the same setting.
OperatorName(c, r) == IF r.operator = CurrentTenant(c) THEN r.operator ELSE None

-----------------------------------------------------------------------------
(* WithTenant *)

\* Faulty steps the properties must tell from the ones below.  All requests
\* share the connections, taken or not.
BeginShared(q) ==
    /\ Goto(q, "waiting", "begun")
    /\ \E c \in Conn : held' = [held EXCEPT ![q] = c]
    /\ UNCHANGED <<rows, session, local, order, change, answer>>

\* A plain SET, which outlives the transaction.
BindSession(q) ==
    /\ Goto(q, "begun", "bound")
    /\ \E o \in Order :
          /\ o.id \in {None, q} \cup {r.id : r \in rows}
          /\ order' = [order EXCEPT ![q] = o]
          /\ session' = [session EXCEPT ![held[q]] = o.tenant]
    /\ UNCHANGED <<rows, local, held, change, answer>>

\* The setting is sent through the pool, not through the transaction.
BindOnPool(q) ==
    /\ Goto(q, "begun", "bound")
    /\ \E c \in Conn : Free(c)
    /\ \E o \in Order :
          /\ o.id \in {None, q} \cup {r.id : r \in rows}
          /\ order' = [order EXCEPT ![q] = o]
    /\ UNCHANGED <<rows, session, local, held, change, answer>>

\* pool.Begin waits until a connection is free.
Begin(q) ==
    /\ Goto(q, "waiting", "begun")
    /\ \E c \in Conn : Free(c) /\ held' = [held EXCEPT ![q] = c]
    /\ UNCHANGED <<rows, session, local, order, change, answer>>

\* Invalid input, or no connection: an error before any SQL.
Reject(q) ==
    /\ Goto(q, "waiting", "ended")
    /\ UNCHANGED <<rows, session, local, held, order, change, answer>>

\* set_config('app.tenant_id', t, true) with the tenant of the claims.  The
\* order, which nothing before depends on, is chosen here; the id it names is
\* that of some row, or its own, which stands for all that are of no row.
Bind(q) ==
    /\ Goto(q, "begun", "bound")
    /\ \E o \in Order :
          /\ o.id \in {None, q} \cup {r.id : r \in rows}
          /\ order' = [order EXCEPT ![q] = o]
          /\ local' = [local EXCEPT ![held[q]] = o.tenant]
    /\ UNCHANGED <<rows, session, held, change, answer>>

-----------------------------------------------------------------------------
(* The statements of the repositories *)

\* The rows the WHERE clause of q's statement selects among those it sees.
\* LotRepo also compares the tenant.
Selected(q) ==
    {r \in Visible(held[q]) :
        /\ r.table = order[q].table
        /\ order[q].kind # "list" => r.id = order[q].id
        /\ r.table = "lots" => r.tenant = order[q].tenant}

\* Another transaction has changed a row that q's statement selects: the
\* statement waits for its end.
Locked(q) == \E p \in Request \ {q} : change[p].gone \cap Selected(q) # {}

Payload(q, id) ==
    [id |-> id, table |-> order[q].table, tenant |-> order[q].tenant, by |-> q,
     operator |-> order[q].operator]

\* List, and FindByID of a row that is there.
Read(q) ==
    /\ Goto(q, "bound", "executed")
    /\ \/ order[q].kind = "list"
       \/ order[q].kind = "get" /\ Selected(q) # {}
    /\ answer' = [answer EXCEPT ![q] =
          {[row |-> r, name |-> OperatorName(held[q], r)] : r \in Selected(q)}]
    /\ UNCHANGED <<rows, session, local, held, order, change>>

Changes(q, gone, new) ==
    /\ change' = [change EXCEPT ![q] = [gone |-> gone, new |-> new]]
    /\ UNCHANGED <<rows, session, local, held, order, answer>>

Create(q) ==
    /\ Goto(q, "bound", "executed")
    /\ order[q].kind = "create"
    /\ Writable(held[q], Payload(q, q))
    /\ Changes(q, {}, {Payload(q, q)})

\* Every column but the id and the tenant is replaced.
Update(q) ==
    /\ Goto(q, "bound", "executed")
    /\ order[q].kind = "update"
    /\ Selected(q) # {} /\ ~Locked(q)
    /\ LET new == {[Payload(q, r.id) EXCEPT !.tenant = r.tenant] : r \in Selected(q)}
       IN /\ \A r \in new : Writable(held[q], r)
          /\ Changes(q, Selected(q), new)

Delete(q) ==
    /\ Goto(q, "bound", "executed")
    /\ order[q].kind = "delete"
    /\ Selected(q) # {} /\ ~Locked(q)
    /\ Changes(q, Selected(q), {})

\* A faulty one: RowsAffected is not looked at.
NotFoundCommitted(q) ==
    /\ Goto(q, "bound", "executed")
    /\ order[q].kind \in {"update", "delete"}
    /\ Selected(q) = {}
    /\ UNCHANGED <<rows, session, local, held, order, change, answer>>

\* No row: there is none, or the policies hide it.
NotFound(q) ==
    /\ Goto(q, "bound", "missing")
    /\ order[q].kind \in {"get", "update", "delete"}
    /\ Selected(q) = {}
    /\ UNCHANGED <<rows, session, local, held, order, change, answer>>

Execute(q) == Read(q) \/ Create(q) \/ Update(q) \/ Delete(q) \/ NotFound(q)

-----------------------------------------------------------------------------
(* The end of the transaction *)

\* The setting and the locks end with the transaction, and the connection
\* goes back to the pool.
Release(q) ==
    /\ local' = [local EXCEPT ![held[q]] = None]
    /\ held' = [held EXCEPT ![q] = None]
    /\ change' = [change EXCEPT ![q] = Nothing]
    /\ UNCHANGED <<session, order, answer>>

\* The answer to a commit may be lost: the service then returns an error and
\* emits nothing.
Commit(q) ==
    /\ \/ Goto(q, "executed", "emitting") /\ order[q].kind \in Writes
       \/ Goto(q, "executed", "answering")
    /\ rows' = (rows \ change[q].gone) \cup change[q].new
    /\ Release(q)

\* The deferred Rollback after ErrNotFound.
Rollback(q) ==
    /\ Goto(q, "missing", "notFound")
    /\ UNCHANGED rows
    /\ Release(q)

Forget(q) ==
    /\ order' = [order EXCEPT ![q] = None]
    /\ answer' = [answer EXCEPT ![q] = {}]

\* An error of a statement (an operator that does not exist, a malformed id),
\* a cancelled context, a lost connection, which the pool replaces: nothing
\* is changed, and the caller gets an error.
Abort(q) ==
    /\ pc[q] \in InTransaction
    /\ pc' = [pc EXCEPT ![q] = "ended"]
    /\ local' = [local EXCEPT ![held[q]] = None]
    /\ session' = [session EXCEPT ![held[q]] = None]
    /\ held' = [held EXCEPT ![q] = None]
    /\ change' = [change EXCEPT ![q] = Nothing]
    /\ Forget(q)
    /\ UNCHANGED rows

-----------------------------------------------------------------------------
(* After the transaction *)

\* emitEvent: Record runs transactions of its own, one after another, and so
\* needs a free connection.
Emit(q) ==
    /\ Goto(q, "emitting", "answering")
    /\ \E c \in Conn : Free(c)
    /\ UNCHANGED <<rows, session, local, held, order, change, answer>>

\* Whatever becomes of the event, the write stands and is answered.
EmitFails(q) ==
    /\ Goto(q, "emitting", "answering")
    /\ UNCHANGED <<rows, session, local, held, order, change, answer>>

Respond(q) ==
    /\ Goto(q, "answering", "ended") \/ Goto(q, "notFound", "ended")
    /\ Forget(q)
    /\ UNCHANGED <<rows, session, local, held, change>>

Proceed(q) ==
    \/ Begin(q) \/ Bind(q) \/ Execute(q) \/ Commit(q) \/ Rollback(q)
    \/ Emit(q) \/ Respond(q)

Next == \E q \in Request : Proceed(q) \/ Reject(q) \/ Abort(q) \/ EmitFails(q)

Spec == Init /\ [][Next]_vars

-----------------------------------------------------------------------------
(* Properties *)

\* A connection that no transaction holds names no tenant, whatever it was
\* used for and however that ended: a statement that forgets WithTenant sees
\* no row at all.
NoContextNoRows == \A c \in Conn : Free(c) => Visible(c) = {}

\* Nobody is given a row, or the name of a user, of another tenant: not by a
\* statement without a tenant filter, and not through an operator_id, whose
\* foreign key accepts users of any tenant.
OwnRowsOnly ==
    \A q \in Request : \A v \in answer[q] :
        /\ v.row.tenant = order[q].tenant
        /\ v.name \in {order[q].tenant, None}

\* There may be more requests than connections, and writers of one row, but
\* they never all wait for one another: as long as one is unanswered, some
\* request can take its next step.  Nobody holds a connection, or a row,
\* while waiting for another one.
NeverAllWaiting ==
    (\E q \in Request : pc[q] # "ended") => ENABLED \E q \in Request : Proceed(q)

-----------------------------------------------------------------------------
(* The abstract promise this implements: see TenantDatabase *)

db == [t \in Tenant |-> {r \in rows : r.tenant = t}]

phase ==
    [q \in Request |->
        CASE pc[q] = "ended" -> "closed"
          [] pc[q] \in {"missing", "notFound", "emitting", "answering"} -> "served"
          [] pc[q] = "executed" /\ order[q].kind \notin Writes -> "served"
          [] OTHER -> "open"]

reply ==
    [q \in Request |->
        IF phase[q] # "served" THEN None
        ELSE [found |-> pc[q] \notin {"missing", "notFound"},
              rows  |-> answer[q]]]

Promise == INSTANCE TenantDatabase

KeepsPromise == Promise!Spec
=============================================================================
