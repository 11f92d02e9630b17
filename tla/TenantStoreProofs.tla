--------------------------- MODULE TenantStoreProofs ---------------------------
(***************************************************************************)
(* Tenant isolation, for any number of requests, connections, tenants and  *)
(* rows.                                                                   *)
(*                                                                         *)
(* The settings are not part of any row or answer, so isolation by itself  *)
(* is not inductive: Inv adds that a connection belongs to one request at  *)
(* a time, that it has a setting only while a transaction is open on it,   *)
(* and that this is the tenant of the request, from Bind on.               *)
(* For the promise StoreInv adds that numbers are unique and that an open  *)
(* transaction still does what its order asks for when it commits, as no   *)
(* two of them change one row; and that is also why a request that waits   *)
(* for a row waits for one that waits for nothing.                         *)
(***************************************************************************)
EXTENDS TenantStore, TLAPS

\* One request per connection, and none outside its transaction.
HeldInv ==
    /\ held \in [Request -> Conn \cup {None}]
    /\ pc \in [Request -> {"waiting", "emitting", "answering", "notFound", "ended"}
                              \cup InTransaction]
    /\ \A q \in Request : pc[q] \in InTransaction <=> held[q] # None
    /\ \A p, q \in Request : held[p] = held[q] /\ held[p] # None => p = q

\* What a connection names is the tenant of the request that holds it.
SettingInv ==
    /\ local \in [Conn -> Tenant \cup {None}]
    /\ session = [c \in Conn |-> None]
    /\ order \in [Request -> Order \cup {None}]
    /\ \A q \in Request : pc[q] \in {"bound", "executed", "missing"} =>
          order[q] # None /\ local[held[q]] = order[q].tenant
    /\ \A c \in Conn : Free(c) => local[c] = None

\* Rows have an owner, and an answer is of the order it was given for.
RowsInv ==
    /\ \A r \in rows : r.tenant \in Tenant
    /\ DOMAIN change = Request
    /\ \A q \in Request : \A r \in change[q].new : r.tenant \in Tenant
    /\ DOMAIN answer = Request
    /\ \A q \in Request : pc[q] \in {"waiting", "begun", "bound"} => answer[q] = {}

Inv == HeldInv /\ SettingInv /\ RowsInv /\ OwnRowsOnly

-----------------------------------------------------------------------------
LEMMA InitInv == Init => Inv
<1> SUFFICES ASSUME Init PROVE Inv
  OBVIOUS
<1>1. HeldInv
  BY DEF Init, HeldInv, InTransaction
<1>2. SettingInv
  BY DEF Init, SettingInv
<1>3. RowsInv
  <2>1. PICK owner \in [Seed -> Tenant] :
          rows = {[id |-> s, table |-> "applications", tenant |-> owner[s],
                   by |-> s, operator |-> None] : s \in Seed}
    BY DEF Init
  <2>2. \A r \in rows : r.tenant \in Tenant
    BY <2>1
  <2> QED
    BY <2>2 DEF Init, RowsInv, Nothing
<1>4. OwnRowsOnly
  BY DEF Init, OwnRowsOnly
<1> QED
  BY <1>1, <1>2, <1>3, <1>4 DEF Inv

\* A connection is taken when it is free, and given back.
LEMMA HeldStep == ASSUME HeldInv, Next PROVE HeldInv'
<1> USE DEF HeldInv, InTransaction, Goto
<1>1. ASSUME NEW q \in Request, Begin(q) PROVE HeldInv'
  <2>1. PICK c \in Conn : Free(c) /\ held' = [held EXCEPT ![q] = c]
    BY <1>1 DEF Begin
  <2>2. c # None
    BY StoreAssumption
  <2> QED
    BY <1>1, <2>1, <2>2 DEF Begin, Free
<1>2. ASSUME NEW q \in Request, Bind(q) \/ Execute(q) PROVE HeldInv'
  BY <1>2 DEF Bind, Execute, Read, Create, Update, Delete, NotFound, Changes
<1>3. ASSUME NEW q \in Request, Commit(q) \/ Rollback(q) \/ Abort(q) PROVE HeldInv'
  BY <1>3 DEF Commit, Rollback, Abort, Release
<1>4. ASSUME NEW q \in Request,
             Reject(q) \/ Emit(q) \/ EmitFails(q) \/ Respond(q)
      PROVE  HeldInv'
  BY <1>4 DEF Reject, Emit, EmitFails, Respond
<1> QED
  BY <1>1, <1>2, <1>3, <1>4 DEF Next, Proceed

\* Only Bind writes a setting, that of its own transaction, and the end of the
\* transaction takes it back.
LEMMA SettingStep == ASSUME HeldInv, SettingInv, Next PROVE SettingInv'
<1> USE DEF SettingInv, HeldInv, InTransaction, Goto
<1>1. ASSUME NEW q \in Request, Begin(q) PROVE SettingInv'
  <2>1. PICK c \in Conn : Free(c) /\ held' = [held EXCEPT ![q] = c]
    BY <1>1 DEF Begin
  <2>2. pc' = [pc EXCEPT ![q] = "begun"] /\ pc[q] = "waiting"
    BY <1>1 DEF Begin
  <2>3. UNCHANGED <<local, session, order>>
    BY <1>1 DEF Begin
  <2>4. \A p \in Request : pc'[p] \in {"bound", "executed", "missing"} =>
          order'[p] # None /\ local'[held'[p]] = order'[p].tenant
    BY <2>1, <2>2, <2>3
  <2>5. ASSUME NEW d \in Conn, Free(d)' PROVE local'[d] = None
    <3>1. held[q] = None
      BY <2>2 DEF HeldInv
    <3>2. d # None
      BY StoreAssumption
    <3>3. Free(d)
      BY <2>1, <2>5, <3>1, <3>2 DEF Free
    <3> QED
      BY <3>3, <2>3
  <2> QED
    BY <2>3, <2>4, <2>5
<1>2. ASSUME NEW q \in Request, Bind(q) PROVE SettingInv'
  <2>1. PICK o \in Order : /\ order' = [order EXCEPT ![q] = o]
                           /\ local' = [local EXCEPT ![held[q]] = o.tenant]
    BY <1>2 DEF Bind
  <2>2. o # None /\ o.tenant \in Tenant
    BY OrderAssumption DEF Order
  <2> QED
    BY <1>2, <2>1, <2>2 DEF Bind, Free
<1>3. ASSUME NEW q \in Request, Execute(q) PROVE SettingInv'
  BY <1>3 DEF Execute, Read, Create, Update, Delete, NotFound, Changes, Free
<1>4. ASSUME NEW q \in Request, Commit(q) \/ Rollback(q) PROVE SettingInv'
  BY <1>4 DEF Commit, Rollback, Release, Free
<1>5. ASSUME NEW q \in Request, Abort(q) PROVE SettingInv'
  BY <1>5 DEF Abort, Forget, Free
<1>6. ASSUME NEW q \in Request,
             Reject(q) \/ Emit(q) \/ EmitFails(q) \/ Respond(q)
      PROVE  SettingInv'
  BY <1>6 DEF Reject, Emit, EmitFails, Respond, Forget, Free
<1> QED
  BY <1>1, <1>2, <1>3, <1>4, <1>5, <1>6 DEF Next, Proceed

\* Rows come from Create and Update only, which the policies check.
LEMMA RowsStep == ASSUME HeldInv, SettingInv, RowsInv, Next PROVE RowsInv'
<1> USE DEF RowsInv, HeldInv, InTransaction, Goto, Nothing
<1>1. ASSUME NEW q \in Request, Begin(q) \/ Bind(q) PROVE RowsInv'
  BY <1>1 DEF Begin, Bind
<1>2. ASSUME NEW q \in Request, Read(q) \/ NotFound(q) PROVE RowsInv'
  BY <1>2 DEF Read, NotFound
<1>3. ASSUME NEW q \in Request, Create(q) \/ Update(q) \/ Delete(q) PROVE RowsInv'
  <2>1. \A r \in change'[q].new : r.tenant \in Tenant
    <3>1. order[q].tenant \in Tenant
      BY <1>3 DEF Create, Update, Delete, SettingInv, Order
    <3>2. CASE Create(q)
      <4>1. change'[q].new = {Payload(q, q)}
        BY <3>2 DEF Create, Changes
      <4> QED
        BY <3>1, <4>1 DEF Payload
    <3>3. CASE Update(q)
      <4>1. change'[q].new =
              {[Payload(q, r.id) EXCEPT !.tenant = r.tenant] : r \in Selected(q)}
        BY <3>3 DEF Update, Changes
      <4>2. \A r \in Selected(q) : r.tenant \in Tenant
        BY DEF Selected, Visible
      <4> QED
        BY <4>1, <4>2 DEF Payload
    <3>4. CASE Delete(q)
      BY <3>4 DEF Delete, Changes
    <3> QED
      BY <1>3, <3>2, <3>3, <3>4
  <2>2. \A p \in Request \ {q} : change'[p] = change[p]
    BY <1>3 DEF Create, Update, Delete, Changes
  <2>3. DOMAIN change' = Request /\ UNCHANGED <<rows, answer>>
    BY <1>3 DEF Create, Update, Delete, Changes
  <2> QED
    BY <1>3, <2>1, <2>2, <2>3 DEF Create, Update, Delete
<1>4. ASSUME NEW q \in Request, Commit(q) PROVE RowsInv'
  BY <1>4 DEF Commit, Release
<1>5. ASSUME NEW q \in Request, Rollback(q) \/ Abort(q) PROVE RowsInv'
  BY <1>5 DEF Rollback, Release, Abort, Forget
<1>6. ASSUME NEW q \in Request,
             Reject(q) \/ Emit(q) \/ EmitFails(q) \/ Respond(q)
      PROVE  RowsInv'
  BY <1>6 DEF Reject, Emit, EmitFails, Respond, Forget
<1> QED
  BY <1>1, <1>2, <1>3, <1>4, <1>5, <1>6 DEF Next, Proceed, Execute

\* Only Read answers with rows, under the setting of its request.
LEMMA OwnRowsStep ==
  ASSUME HeldInv, SettingInv, RowsInv, OwnRowsOnly, Next PROVE OwnRowsOnly'
<1> USE DEF OwnRowsOnly, RowsInv, Goto
<1>1. ASSUME NEW q \in Request, Read(q) PROVE OwnRowsOnly'
  <2>1. local[held[q]] = order[q].tenant /\ order[q].tenant # None
    BY <1>1, StoreAssumption DEF Read, SettingInv, Order
  <2>2. CurrentTenant(held[q]) = order[q].tenant
    BY <2>1 DEF CurrentTenant
  <2>3. \A v \in answer'[q] : /\ v.row.tenant = order[q].tenant
                              /\ v.name \in {order[q].tenant, None}
    BY <1>1, <2>2 DEF Read, Selected, Visible, OperatorName
  <2>4. UNCHANGED order /\ \A p \in Request \ {q} : answer'[p] = answer[p]
    BY <1>1 DEF Read
  <2> QED
    BY <2>3, <2>4
<1>2. ASSUME NEW q \in Request, Bind(q) PROVE OwnRowsOnly'
  <2>1. PICK o \in Order : order' = [order EXCEPT ![q] = o]
    BY <1>2 DEF Bind
  <2>2. answer[q] = {} /\ UNCHANGED answer
    BY <1>2 DEF Bind
  <2>3. \A p \in Request \ {q} : order'[p] = order[p]
    BY <2>1 DEF SettingInv
  <2> QED
    BY <2>2, <2>3
<1>3. ASSUME NEW q \in Request, Abort(q) \/ Respond(q) PROVE OwnRowsOnly'
  <2>1. answer'[q] = {}
    BY <1>3 DEF Abort, Respond, Forget
  <2>2. \A p \in Request \ {q} : order'[p] = order[p] /\ answer'[p] = answer[p]
    BY <1>3 DEF Abort, Respond, Forget, SettingInv
  <2> QED
    BY <2>1, <2>2
<1>4. ASSUME UNCHANGED <<order, answer>> PROVE OwnRowsOnly'
  BY <1>4
<1> QED
  BY <1>1, <1>2, <1>3, <1>4
  DEF Next, Proceed, Execute, Begin, Create, Update, Delete, Changes, NotFound,
      Commit, Rollback, Release, Reject, Emit, EmitFails

LEMMA StepInv == Inv /\ [Next]_vars => Inv'
<1> SUFFICES ASSUME Inv, [Next]_vars PROVE Inv'
  OBVIOUS
<1>1. CASE Next
  BY <1>1, HeldStep, SettingStep, RowsStep, OwnRowsStep DEF Inv
<1>2. CASE UNCHANGED vars
  BY <1>2 DEF Inv, HeldInv, SettingInv, RowsInv, OwnRowsOnly, Free, vars
<1> QED
  BY <1>1, <1>2

\* The inductive invariant of the tenant store.
THEOREM InvHolds == Spec => []Inv
  BY InitInv, StepInv, PTL DEF Spec

-----------------------------------------------------------------------------
\* WithTenant and the policies: no request is ever given a row or the name of
\* a user of another tenant.
THEOREM TenantsAreIsolated == Spec => []OwnRowsOnly
<1>1. Inv => OwnRowsOnly
  BY DEF Inv
<1> QED
  BY <1>1, InvHolds, PTL

\* The third argument of set_config: between transactions a pooled connection
\* sees no row of any tenant.
THEOREM FreeConnectionsSeeNothing == Spec => []NoContextNoRows
<1>1. Inv => NoContextNoRows
  <2> SUFFICES ASSUME Inv, NEW c \in Conn, Free(c) PROVE Visible(c) = {}
    BY DEF NoContextNoRows
  <2>1. CurrentTenant(c) = None
    BY DEF Inv, SettingInv, CurrentTenant
  <2>2. \A r \in rows : r.tenant # None
    BY StoreAssumption DEF Inv, RowsInv
  <2> QED
    BY <2>1, <2>2 DEF Visible
<1> QED
  BY <1>1, InvHolds, PTL

-----------------------------------------------------------------------------
(***************************************************************************)
(* Every request is one atomic step of a database of its tenant.  What a   *)
(* transaction will change was computed when its statement ran and takes   *)
(* effect when it commits; StoreInv adds what makes the two moments one:   *)
(* numbers are unique and taken by requests that committed only, and what  *)
(* an open transaction changes is still what its order asks for, since no  *)
(* two of them change the same row.                                        *)
(***************************************************************************)

\* Each row has a number of its own; the number of a request is taken when it
\* committed.
NumberInv ==
    /\ rows \subseteq Row
    /\ \A r, s \in rows : r.id = s.id => r = s
    /\ \A r \in rows : r.id \in Request
          => pc[r.id] \in {"emitting", "answering", "ended"}

\* The rows that q's order names, as they are committed now.
About(q) ==
    {r \in rows : /\ r.tenant = order[q].tenant
                  /\ r.table = order[q].table
                  /\ r.id = order[q].id}

\* What q's transaction changes is what its order asks of the rows as they are.
DoesAsAsked(q) ==
    LET kind == order[q].kind
    IN /\ kind \in {"list", "get"} => change[q] = Nothing
       /\ kind = "create" => change[q] = [gone |-> {}, new |-> {Payload(q, q)}]
       /\ kind = "update" =>
             /\ About(q) # {}
             /\ change[q] = [gone |-> About(q),
                             new |-> {Payload(q, r.id) : r \in About(q)}]
       /\ kind = "delete" =>
             /\ About(q) # {}
             /\ change[q] = [gone |-> About(q), new |-> {}]

\* Open transactions do as asked, and lock what they do it to.
ChangeInv ==
    /\ \A q \in Request : pc[q] # "executed" => change[q] = Nothing
    /\ \A q \in Request : pc[q] = "executed" => DoesAsAsked(q)
    /\ \A p, q \in Request : p # q => change[p].gone \cap change[q].gone = {}

\* A request asks for nothing before it has a transaction, and a write is not
\* answered with rows.
AnswerInv ==
    /\ \A q \in Request : pc[q] \in {"waiting", "begun"} => order[q] = None
    /\ \A q \in Request : pc[q] = "executed" /\ order[q].kind \in Writes
          => answer[q] = {}
    /\ \A q \in Request : \A v \in answer[q] :
          v.row \in Row /\ v.name \in Tenant \cup {None}

ChangeType == change \in [Request -> [gone : SUBSET Row, new : SUBSET Row]]

StoreInv == Inv /\ NumberInv /\ ChangeType /\ ChangeInv /\ AnswerInv

LEMMA InitStoreInv == Init => StoreInv
<1> SUFFICES ASSUME Init PROVE StoreInv
  OBVIOUS
<1>1. Inv
  BY InitInv
<1>2. NumberInv
  <2>1. PICK owner \in [Seed -> Tenant] :
          rows = {[id |-> s, table |-> "applications", tenant |-> owner[s],
                   by |-> s, operator |-> None] : s \in Seed}
    BY DEF Init
  <2> QED
    BY <2>1, StoreAssumption DEF NumberInv, Row, Id
<1>3. ChangeInv
  BY DEF Init, ChangeInv, Nothing
<1>4. AnswerInv
  BY DEF Init, AnswerInv
<1>5. ChangeType
  BY DEF Init, ChangeType, Nothing
<1> QED
  BY <1>1, <1>2, <1>3, <1>4, <1>5 DEF StoreInv

\* What an order may say.
LEMMA OrderType ==
  ASSUME NEW o \in Order
  PROVE  /\ o # None
         /\ o.tenant \in Tenant /\ o.table \in Table
         /\ o.kind \in {"list", "get", "create", "update", "delete"}
         /\ o.id \in Id \cup {None}
         /\ o.operator \in Tenant \cup {None}
  BY OrderAssumption DEF Order, Writes

\* The row a request leaves behind is a row.
LEMMA PayloadRow ==
  ASSUME NEW q \in Request, order[q] \in Order, NEW id \in Id
  PROVE  Payload(q, id) \in Row
  BY OrderType DEF Payload, Row, Id

\* A statement on one row selects, under the setting of its request, the rows
\* its order names.
LEMMA SelectedIsAbout ==
  ASSUME Inv, NEW q \in Request, pc[q] = "bound"
  PROVE  /\ order[q] \in Order
         /\ CurrentTenant(held[q]) = order[q].tenant
         /\ order[q].kind # "list" => Selected(q) = About(q)
<1>1. order[q] \in Order /\ local[held[q]] = order[q].tenant
  BY DEF Inv, SettingInv
<1>2. CurrentTenant(held[q]) = order[q].tenant
  BY <1>1, OrderType, StoreAssumption DEF CurrentTenant
<1> QED
  BY <1>1, <1>2 DEF Selected, Visible, About

-----------------------------------------------------------------------------
(* Numbers *)

\* Only Commit writes rows: that of its request, under its own number, or those
\* it takes out, under the number they had.
LEMMA NumberStep == ASSUME StoreInv, Next PROVE NumberInv'
<1>0. NumberInv /\ Inv /\ ChangeInv
  BY DEF StoreInv
<1> USE DEF NumberInv, Goto
<1>1. ASSUME NEW q \in Request, Begin(q) \/ Bind(q) \/ Execute(q) PROVE NumberInv'
  BY <1>0, <1>1
  DEF Begin, Bind, Execute, Read, Create, Update, Delete, NotFound, Changes,
      Inv, HeldInv, InTransaction
<1>2. ASSUME NEW q \in Request, Rollback(q) \/ Abort(q) PROVE NumberInv'
  BY <1>0, <1>2 DEF Rollback, Abort, Inv, HeldInv, InTransaction
<1>3. ASSUME NEW q \in Request,
             Reject(q) \/ Emit(q) \/ EmitFails(q) \/ Respond(q)
      PROVE  NumberInv'
  BY <1>0, <1>3 DEF Reject, Emit, EmitFails, Respond, Inv, HeldInv, InTransaction
<1>4. ASSUME NEW q \in Request, Commit(q) PROVE NumberInv'
  <2>1. /\ pc[q] = "executed" /\ order[q] \in Order /\ DoesAsAsked(q)
        /\ rows' = (rows \ change[q].gone) \cup change[q].new
    BY <1>0, <1>4 DEF Commit, ChangeInv, Inv, SettingInv
  <2>2. /\ pc' = [pc EXCEPT ![q] = pc'[q]]
        /\ pc'[q] \in {"emitting", "answering", "ended"}
        /\ pc \in [Request -> {"waiting", "emitting", "answering", "notFound", "ended"}
                              \cup InTransaction]
    BY <1>0, <1>4 DEF Commit, Inv, HeldInv
  <2>3. order[q].kind \in {"list", "get", "create", "update", "delete"}
    BY <2>1, OrderType
  <2>4. CASE order[q].kind \in {"list", "get"}
    BY <1>0, <2>1, <2>2, <2>4 DEF DoesAsAsked, Nothing
  <2>5. CASE order[q].kind = "create"
    <3>1. rows' = rows \cup {Payload(q, q)}
      BY <2>1, <2>5 DEF DoesAsAsked
    <3>2. Payload(q, q) \in Row /\ Payload(q, q).id = q
      BY <2>1, PayloadRow DEF Id, Payload
    <3>3. \A r \in rows : r.id # q
      BY <1>0, <2>1
    <3> QED
      BY <1>0, <2>2, <3>1, <3>2, <3>3
  <2>6. CASE order[q].kind = "update"
    <3>1. PICK s \in rows : About(q) = {s}
      BY <1>0, <2>1, <2>6 DEF DoesAsAsked, About
    <3>2. rows' = (rows \ {s}) \cup {Payload(q, s.id)}
      BY <2>1, <2>6, <3>1 DEF DoesAsAsked
    <3>3. Payload(q, s.id) \in Row /\ Payload(q, s.id).id = s.id
      BY <1>0, <2>1, PayloadRow DEF Row, Payload
    <3> QED
      BY <1>0, <2>2, <3>2, <3>3
  <2>7. CASE order[q].kind = "delete"
    BY <1>0, <2>1, <2>2, <2>7 DEF DoesAsAsked
  <2> QED
    BY <2>3, <2>4, <2>5, <2>6, <2>7
<1> QED
  BY <1>1, <1>2, <1>3, <1>4 DEF Next, Proceed

-----------------------------------------------------------------------------
(* Open transactions *)

\* A transaction whose request and rows do not move still does as asked.
LEMMA AskedFrame ==
  ASSUME NEW q \in Request, DoesAsAsked(q),
         order'[q] = order[q], change'[q] = change[q], About(q)' = About(q)
  PROVE  DoesAsAsked(q)'
  BY DEF DoesAsAsked, Payload, Nothing

\* What a commit of another request does to the rows an open transaction of q
\* is about: nothing, as q has locked them.
LEMMA AboutKept ==
  ASSUME StoreInv, NEW p \in Request, NEW q \in Request, p # q, Commit(p),
         pc[q] = "executed", order[q].kind \in {"update", "delete"}
  PROVE  About(q)' = About(q)
<1>0. NumberInv /\ Inv /\ ChangeInv
  BY DEF StoreInv
<1>1. /\ pc[p] = "executed" /\ order[p] \in Order /\ DoesAsAsked(p)
      /\ rows' = (rows \ change[p].gone) \cup change[p].new
      /\ order'[q] = order[q]
  BY <1>0 DEF Commit, Release, Goto, ChangeInv, Inv, SettingInv
<1>2. PICK s \in rows : About(q) = {s} /\ change[q].gone = {s}
  <2>1. About(q) # {} /\ change[q].gone = About(q)
    <3>1. DoesAsAsked(q)
      BY <1>0 DEF ChangeInv
    <3>2. CASE order[q].kind = "update"
      BY <3>1, <3>2 DEF DoesAsAsked
    <3>3. CASE order[q].kind = "delete"
      BY <3>1, <3>3 DEF DoesAsAsked
    <3> QED
      BY <3>2, <3>3
  <2>2. PICK s \in rows : About(q) = {s}
    BY <1>0, <2>1 DEF About, NumberInv
  <2> QED
    BY <2>1, <2>2
<1>3. s \notin change[p].gone
  BY <1>0, <1>2 DEF ChangeInv
<1>4. s.id = order[q].id /\ s \in About(q)
  BY <1>2 DEF About
<1>5. ASSUME NEW n \in change[p].new PROVE n.id # s.id
  <2>1. order[p].kind \in {"list", "get", "create", "update", "delete"}
    BY <1>1, OrderType
  <2>2. CASE order[p].kind = "create"
    <3>1. n.id = p
      BY <1>1, <1>5, <2>2 DEF DoesAsAsked, Payload
    <3>2. s.id # p
      BY <1>0, <1>1, <1>2 DEF NumberInv
    <3> QED
      BY <3>1, <3>2
  <2>3. CASE order[p].kind = "update"
    <3>1. PICK r \in About(p) : n = Payload(p, r.id)
      BY <1>1, <1>5, <2>3 DEF DoesAsAsked
    <3>2. r \in change[p].gone /\ r \in rows
      BY <1>1, <2>3, <3>1 DEF DoesAsAsked, About
    <3>3. r # s
      BY <1>3, <3>2
    <3> QED
      BY <1>0, <1>2, <3>1, <3>2, <3>3 DEF NumberInv, Payload
  <2>4. CASE order[p].kind \in {"list", "get", "delete"}
    BY <1>1, <1>5, <2>4 DEF DoesAsAsked, Nothing
  <2> QED
    BY <2>1, <2>2, <2>3, <2>4
<1> QED
  BY <1>1, <1>2, <1>3, <1>4, <1>5 DEF About

\* A statement runs on rows that no open transaction has changed, and its
\* transaction keeps them until it ends.
LEMMA ChangeStep == ASSUME StoreInv, Next PROVE ChangeInv'
<1>0. NumberInv /\ Inv /\ ChangeInv
  BY DEF StoreInv
<1>a. /\ pc \in [Request -> {"waiting", "emitting", "answering", "notFound", "ended"}
                              \cup InTransaction]
      /\ DOMAIN change = Request
      /\ order \in [Request -> Order \cup {None}]
  BY <1>0 DEF Inv, HeldInv, RowsInv, SettingInv
<1> USE DEF Goto
<1>1. ASSUME UNCHANGED <<rows, change>>,
             \A p \in Request : pc'[p] = "executed" =>
                 pc[p] = "executed" /\ order'[p] = order[p],
             \A p \in Request : pc[p] = "executed" => pc'[p] = "executed"
      PROVE  ChangeInv'
  <2>1. \A p \in Request : pc'[p] = "executed" => About(p)' = About(p)
    BY <1>1 DEF About
  <2> QED
    BY <1>0, <1>1, <2>1, AskedFrame DEF ChangeInv, Nothing
<1>2. ASSUME NEW q \in Request,
             \/ Begin(q) \/ Bind(q) \/ NotFound(q) \/ Reject(q)
             \/ Emit(q) \/ EmitFails(q) \/ Respond(q)
      PROVE  ChangeInv'
  BY <1>1, <1>2, <1>a
  DEF Begin, Bind, NotFound, Reject, Emit, EmitFails, Respond, Forget, InTransaction
<1>3. ASSUME NEW q \in Request, pc[q] = "bound", pc' = [pc EXCEPT ![q] = "executed"],
             UNCHANGED <<rows, order>>,
             \A p \in Request \ {q} : change'[p] = change[p],
             DoesAsAsked(q)',
             \A p \in Request \ {q} : change[p].gone \cap change'[q].gone = {}
      PROVE  ChangeInv'
  <2>1. \A p \in Request : About(p)' = About(p)
    BY <1>3 DEF About
  <2>2. \A p \in Request \ {q} : pc'[p] = pc[p] /\ order'[p] = order[p]
    BY <1>3, <1>a
  <2>3. ASSUME NEW p \in Request, pc'[p] = "executed" PROVE DoesAsAsked(p)'
    BY <1>0, <1>3, <2>1, <2>2, <2>3, AskedFrame DEF ChangeInv
  <2>4. ASSUME NEW p \in Request, pc'[p] # "executed" PROVE change'[p] = Nothing'
    BY <1>0, <1>3, <1>a, <2>2, <2>4 DEF ChangeInv, Nothing
  <2>5. ASSUME NEW p \in Request, NEW r \in Request, p # r
        PROVE  change'[p].gone \cap change'[r].gone = {}
    BY <1>0, <1>3, <2>5 DEF ChangeInv
  <2> QED
    BY <2>3, <2>4, <2>5 DEF ChangeInv
<1>4. ASSUME NEW q \in Request, Read(q) PROVE ChangeInv'
  <2>1. order[q].kind \in {"list", "get"} /\ change[q] = Nothing
    BY <1>0, <1>4 DEF Read, ChangeInv
  <2>2. DoesAsAsked(q)'
    BY <1>4, <2>1 DEF Read, DoesAsAsked, Nothing
  <2>3. UNCHANGED <<rows, order, change>>
        /\ pc[q] = "bound" /\ pc' = [pc EXCEPT ![q] = "executed"]
    BY <1>4 DEF Read
  <2>4. change'[q].gone = {}
    BY <2>1, <2>3 DEF Nothing
  <2> QED
    BY <1>3, <2>2, <2>3, <2>4
<1>5. ASSUME NEW q \in Request, Create(q) PROVE ChangeInv'
  <2>1. /\ change' = [change EXCEPT ![q] = [gone |-> {}, new |-> {Payload(q, q)}]]
        /\ order[q].kind = "create" /\ UNCHANGED <<rows, order>>
    BY <1>5 DEF Create, Changes
  <2>2. DoesAsAsked(q)'
    BY <1>a, <2>1 DEF DoesAsAsked, Payload
  <2> QED
    BY <1>3, <1>5, <1>a, <2>1, <2>2 DEF Create
<1>6. ASSUME NEW q \in Request, Update(q) \/ Delete(q) PROVE ChangeInv'
  <2>1. /\ pc[q] = "bound" /\ order[q].kind \in {"update", "delete"}
        /\ Selected(q) # {} /\ ~Locked(q) /\ UNCHANGED <<rows, order>>
    BY <1>6 DEF Update, Delete, Changes
  <2>2. Selected(q) = About(q)
    BY <1>0, <2>1, SelectedIsAbout
  <2>3. About(q)' = About(q) /\ change'[q].gone = About(q)
    BY <1>6, <1>a, <2>1, <2>2 DEF Update, Delete, Changes, About
  <2>4. ASSUME Update(q)
        PROVE  change'[q].new = {Payload(q, r.id) : r \in About(q)}
    <3>1. change'[q].new = {[Payload(q, r.id) EXCEPT !.tenant = r.tenant] : r \in About(q)}
      BY <1>a, <2>2, <2>4 DEF Update, Changes
    <3>2. \A r \in About(q) : [Payload(q, r.id) EXCEPT !.tenant = r.tenant] = Payload(q, r.id)
      BY DEF About, Payload
    <3> QED
      BY <3>1, <3>2
  <2>5. DoesAsAsked(q)'
    <3>1. CASE Update(q)
      <4>1. change'[q] = [gone |-> About(q), new |-> {Payload(q, r.id) : r \in About(q)}]
        BY <1>a, <2>2, <2>3, <2>4, <3>1 DEF Update, Changes
      <4> QED
        BY <2>1, <2>2, <2>3, <3>1, <4>1 DEF Update, DoesAsAsked, Payload
    <3>2. CASE Delete(q)
      BY <1>a, <2>1, <2>2, <2>3, <3>2 DEF Delete, Changes, DoesAsAsked
    <3> QED
      BY <1>6, <3>1, <3>2
  <2>6. \A p \in Request \ {q} : change[p].gone \cap About(q) = {}
    BY <2>1, <2>2 DEF Locked
  <2>7. \A p \in Request \ {q} : change'[p] = change[p]
    <3> SUFFICES ASSUME NEW p \in Request, p # q PROVE change'[p] = change[p]
      OBVIOUS
    <3>1. CASE Update(q)
      BY <1>a, <3>1, Zenon DEF Update, Changes
    <3>2. CASE Delete(q)
      BY <1>a, <3>2 DEF Delete, Changes
    <3> QED
      BY <1>6, <3>1, <3>2
  <2> QED
    BY <1>3, <1>6, <2>1, <2>3, <2>5, <2>6, <2>7 DEF Update, Delete
<1>7. ASSUME NEW q \in Request, Commit(q) \/ Rollback(q) \/ Abort(q) PROVE ChangeInv'
  <2>1. /\ change' = [change EXCEPT ![q] = Nothing]
        /\ pc'[q] # "executed"
        /\ \A p \in Request \ {q} : pc'[p] = pc[p] /\ order'[p] = order[p]
    BY <1>7, <1>a DEF Commit, Rollback, Release, Abort, Forget
  <2>2. ASSUME NEW p \in Request, p # q, pc[p] = "executed"
        PROVE  DoesAsAsked(p)'
    <3>1. DoesAsAsked(p) /\ change'[p] = change[p]
      BY <1>0, <2>1, <2>2 DEF ChangeInv
    <3>2. CASE UNCHANGED rows
      BY <2>1, <2>2, <3>1, <3>2, AskedFrame DEF About
    <3>3. CASE Commit(q) /\ order[p].kind \in {"update", "delete"}
      BY <2>1, <2>2, <3>1, <3>3, AskedFrame, AboutKept
    <3>4. CASE Commit(q) /\ order[p].kind \notin {"update", "delete"}
      BY <2>1, <2>2, <3>1, <3>4 DEF DoesAsAsked, Payload, Nothing
    <3> QED
      BY <1>7, <3>2, <3>3, <3>4 DEF Rollback, Abort
  <2>3. \A p \in Request : pc'[p] # "executed" => change'[p] = Nothing
    BY <1>0, <1>a, <2>1 DEF ChangeInv
  <2>4. \A p, r \in Request : p # r => change'[p].gone \cap change'[r].gone = {}
    BY <1>0, <1>a, <2>1 DEF ChangeInv, Nothing
  <2> QED
    BY <2>1, <2>2, <2>3, <2>4 DEF ChangeInv, Nothing
<1> QED
  BY <1>2, <1>4, <1>5, <1>6, <1>7 DEF Next, Proceed, Execute

\* What a transaction changes are rows.
LEMMA ChangeTypeStep == ASSUME StoreInv, Next PROVE ChangeType'
<1>0. NumberInv /\ Inv /\ ChangeType
  BY DEF StoreInv
<1> USE DEF ChangeType
<1>1. ASSUME NEW q \in Request, Create(q) PROVE ChangeType'
  <2>1. order[q] \in Order
    BY <1>0, <1>1, SelectedIsAbout DEF Create, Goto
  <2>2. Payload(q, q) \in Row
    BY <2>1, PayloadRow DEF Id
  <2> QED
    BY <1>0, <1>1, <2>2 DEF Create, Changes
<1>2. ASSUME NEW q \in Request, Update(q) PROVE ChangeType'
  <2>1. order[q] \in Order /\ Selected(q) \subseteq Row
    BY <1>0, <1>2, SelectedIsAbout DEF Update, Goto, Selected, Visible, NumberInv
  <2>2. \A r \in Selected(q) : [Payload(q, r.id) EXCEPT !.tenant = r.tenant] \in Row
    <3> SUFFICES ASSUME NEW r \in Selected(q)
                 PROVE  [Payload(q, r.id) EXCEPT !.tenant = r.tenant] \in Row
      OBVIOUS
    <3>1. r.id \in Id /\ r.tenant \in Tenant
      BY <2>1 DEF Row
    <3>2. Payload(q, r.id) \in Row
      BY <2>1, <3>1, PayloadRow
    <3> QED
      BY <3>1, <3>2 DEF Row
  <2> DEFINE new == {[Payload(q, r.id) EXCEPT !.tenant = r.tenant] : r \in Selected(q)}
  <2>3. new \subseteq Row
    BY <2>2
  <2>4. change' = [change EXCEPT ![q] = [gone |-> Selected(q), new |-> new]]
    BY <1>2, Zenon DEF Update, Changes
  <2> HIDE DEF new
  <2> QED
    BY <1>0, <2>1, <2>3, <2>4
<1>3. ASSUME NEW q \in Request, Delete(q) PROVE ChangeType'
  BY <1>0, <1>3 DEF Delete, Changes, Selected, Visible, NumberInv
<1>4. ASSUME NEW q \in Request, Commit(q) \/ Rollback(q) \/ Abort(q) PROVE ChangeType'
  BY <1>0, <1>4 DEF Commit, Rollback, Release, Abort, Nothing
<1>5. CASE UNCHANGED change
  BY <1>0, <1>5
<1> QED
  BY <1>1, <1>2, <1>3, <1>4, <1>5
  DEF Next, Proceed, Execute, Begin, Bind, Read, NotFound, Reject, Emit,
      EmitFails, Respond

-----------------------------------------------------------------------------
(* Answers *)

\* Bind gives an order its transaction, the end of the request takes it back,
\* and only Read answers with rows, which are rows of the table.
LEMMA AnswerStep == ASSUME StoreInv, Next PROVE AnswerInv'
<1>0. NumberInv /\ Inv /\ AnswerInv
  BY DEF StoreInv
<1>a. /\ pc \in [Request -> {"waiting", "emitting", "answering", "notFound", "ended"}
                              \cup InTransaction]
      /\ DOMAIN answer = Request
      /\ order \in [Request -> Order \cup {None}]
      /\ \A q \in Request : pc[q] \in {"waiting", "begun", "bound"} => answer[q] = {}
  BY <1>0 DEF Inv, HeldInv, RowsInv, SettingInv
<1> USE DEF AnswerInv, Goto
<1>1. ASSUME NEW q \in Request, Bind(q) PROVE AnswerInv'
  BY <1>0, <1>a, <1>1 DEF Bind
<1>2. ASSUME NEW q \in Request, Read(q) PROVE AnswerInv'
  <2>1. Selected(q) \subseteq Row
    BY <1>0 DEF Selected, Visible, NumberInv
  <2>2. \A r \in Selected(q) : OperatorName(held[q], r) \in Tenant \cup {None}
    BY <2>1 DEF OperatorName, Row
  <2>3. \A v \in answer'[q] : v.row \in Row /\ v.name \in Tenant \cup {None}
    BY <1>a, <1>2, <2>1, <2>2 DEF Read
  <2>4. order[q].kind \notin Writes
    BY <1>2 DEF Read, Writes
  <2>5. \A p \in Request \ {q} : answer'[p] = answer[p] /\ pc'[p] = pc[p]
    BY <1>2, <1>a DEF Read
  <2>6. UNCHANGED order /\ pc'[q] = "executed"
    BY <1>2, <1>a DEF Read
  <2> QED
    BY <1>0, <2>3, <2>4, <2>5, <2>6
<1>3. ASSUME NEW q \in Request, Create(q) \/ Update(q) \/ Delete(q) PROVE AnswerInv'
  BY <1>0, <1>a, <1>3 DEF Create, Update, Delete, Changes
<1>4. ASSUME NEW q \in Request, Abort(q) \/ Respond(q) PROVE AnswerInv'
  BY <1>0, <1>a, <1>4 DEF Abort, Respond, Forget
<1>5. ASSUME NEW q \in Request,
             \/ Begin(q) \/ NotFound(q) \/ Commit(q) \/ Rollback(q)
             \/ Reject(q) \/ Emit(q) \/ EmitFails(q)
      PROVE  AnswerInv'
  BY <1>0, <1>a, <1>5
  DEF Begin, NotFound, Commit, Rollback, Release, Reject, Emit, EmitFails
<1> QED
  BY <1>1, <1>2, <1>3, <1>4, <1>5 DEF Next, Proceed, Execute

LEMMA StepStoreInv == StoreInv /\ [Next]_vars => StoreInv'
<1> SUFFICES ASSUME StoreInv, [Next]_vars PROVE StoreInv'
  OBVIOUS
<1>1. Inv'
  BY StepInv DEF StoreInv
<1>2. CASE Next
  BY <1>1, <1>2, NumberStep, ChangeTypeStep, ChangeStep, AnswerStep DEF StoreInv
<1>3. CASE UNCHANGED vars
  BY <1>1, <1>3
  DEF StoreInv, NumberInv, ChangeType, ChangeInv, AnswerInv, DoesAsAsked, About,
      Payload, Nothing, vars
<1> QED
  BY <1>2, <1>3

\* The inductive invariant of the whole store.
THEOREM StoreInvHolds == Spec => []StoreInv
  BY InitStoreInv, StepStoreInv, PTL DEF Spec

\* The shape of every table, setting, transaction and answer; and a number is
\* given to one row, a connection to one request.
THEOREM StoreTypeCorrect == Spec => []TypeOK
<1>1. StoreInv => TypeOK
  BY DEF StoreInv, Inv, HeldInv, SettingInv, NumberInv, ChangeType, AnswerInv, TypeOK
<1> QED
  BY <1>1, StoreInvHolds, PTL

-----------------------------------------------------------------------------
(* Nobody waits in a circle *)

\* The guards of Proceed(q), written out: what NeverAllWaiting says by ENABLED.
MayProceed(q) ==
    \/ pc[q] \in {"waiting", "emitting"} /\ \E c \in Conn : Free(c)
    \/ pc[q] = "begun" /\ \E o \in Order : o.id \in {None, q} \cup {r.id : r \in rows}
    \/ /\ pc[q] = "bound"
       /\ \/ order[q].kind \in {"list", "get"}
          \/ order[q].kind = "create" /\ Writable(held[q], Payload(q, q))
          \/ /\ order[q].kind \in {"update", "delete"}
             /\ Selected(q) = {} \/ ~Locked(q)
             /\ \A r \in Selected(q) : Writable(held[q], r)
    \/ pc[q] \in {"executed", "missing", "answering", "notFound"}

SomebodyMayProceed ==
    (\E q \in Request : pc[q] # "ended") => \E q \in Request : MayProceed(q)

\* There is always something to ask for: a list.
LEMMA SomeOrder == ASSUME NEW t \in Tenant PROVE \E o \in Order : o.id = None
<1> DEFINE o == [tenant |-> t, kind |-> "list", table |-> "applications",
                 id |-> None, operator |-> None]
<1>1. "applications" \in Table
  BY StoreAssumption
<1>2. o \in [tenant : Tenant, kind : {"list", "get"} \cup Writes, table : Table,
             id : Id \cup {None}, operator : Tenant \cup {None}]
  BY <1>1
<1>3. o.kind \in Kinds(o.table)
  BY DEF Kinds
<1>4. o \in Order
  BY <1>2, <1>3 DEF Order
<1> QED
  BY <1>4

\* Who has bound its tenant waits for a row only, and for one that another
\* transaction, ready to commit, has changed.
LEMMA BoundWaitsForExecuted ==
  ASSUME StoreInv, NEW q \in Request, pc[q] = "bound", ~MayProceed(q)
  PROVE  \E p \in Request : pc[p] = "executed"
<1>1. order[q] \in Order /\ local[held[q]] = order[q].tenant /\ order[q].tenant \in Tenant
  <2>1. order[q] \in Order /\ local[held[q]] = order[q].tenant
    BY DEF StoreInv, Inv, SettingInv
  <2> QED
    BY <2>1 DEF Order
<1>2. CurrentTenant(held[q]) = order[q].tenant
  BY <1>1, StoreAssumption DEF CurrentTenant
<1>3. Writable(held[q], Payload(q, q))
  BY <1>2 DEF Writable, Payload
<1>4. \A r \in Selected(q) : Writable(held[q], r)
  BY DEF Selected, Visible, Writable
<1>5. order[q].kind \in {"list", "get", "create", "update", "delete"}
  BY <1>1 DEF Order, Writes
<1>6. Locked(q)
  BY <1>3, <1>4, <1>5 DEF MayProceed
<1>7. PICK p \in Request : change[p].gone # {}
  BY <1>6 DEF Locked
<1>8. change[p] # Nothing
  BY <1>7 DEF Nothing
<1> QED
  BY <1>8 DEF StoreInv, ChangeInv

\* As long as a request of the service is unanswered, one can take its next
\* step: WithTenant waits for a connection before it has one, emitEvent after
\* it gave its own back, and a statement for rows of a transaction that waits
\* for nothing.
THEOREM RequestsNeverAllWait ==
  ASSUME Conn # {}, Tenant # {}
  PROVE  Spec => []SomebodyMayProceed
<1>1. ASSUME StoreInv PROVE SomebodyMayProceed
  <2> SUFFICES ASSUME NEW q \in Request, pc[q] # "ended",
                      \A p \in Request : ~MayProceed(p)
               PROVE  FALSE
    BY DEF SomebodyMayProceed
  <2>1. \A p \in Request : pc[p] \notin {"executed", "missing", "answering", "notFound"}
    BY DEF MayProceed
  <2>2. \A p \in Request : pc[p] # "begun"
    BY SomeOrder DEF MayProceed
  <2>3. \A p \in Request : pc[p] # "bound"
    BY <1>1, <2>1, BoundWaitsForExecuted
  <2>4. \A p \in Request : held[p] = None
    BY <1>1, <2>1, <2>2, <2>3 DEF StoreInv, Inv, HeldInv, InTransaction
  <2>5. \E c \in Conn : Free(c)
    BY <2>4, StoreAssumption DEF Free
  <2>6. pc[q] \in {"waiting", "emitting"}
    BY <1>1, <2>1, <2>2, <2>3 DEF StoreInv, Inv, HeldInv, InTransaction
  <2> QED
    BY <2>5, <2>6 DEF MayProceed
<1> QED
  BY <1>1, StoreInvHolds, PTL

-----------------------------------------------------------------------------
(* The promise of TenantDatabase is kept *)

\* Only the request that moves changes its phase and its reply.
LEMMA PhaseFrame ==
  ASSUME NEW q \in Request,
         \A p \in Request \ {q} :
            pc'[p] = pc[p] /\ order'[p] = order[p] /\ answer'[p] = answer[p]
  PROVE  /\ phase' = [phase EXCEPT ![q] = phase'[q]]
         /\ reply' = [reply EXCEPT ![q] = reply'[q]]
<1>1. \A p \in Request \ {q} : phase'[p] = phase[p] /\ reply'[p] = reply[p]
  BY DEF phase, reply
<1>2. /\ phase' = [p \in Request |-> phase'[p]] /\ phase = [p \in Request |-> phase[p]]
      /\ reply' = [p \in Request |-> reply'[p]] /\ reply = [p \in Request |-> reply[p]]
  BY DEF phase, reply
<1> QED
  BY <1>1, <1>2

\* The tables before the first request are databases of the tenants.
LEMMA PromiseInit == Init => Promise!Init
  BY DEF Init, Promise!Init, db, phase, reply

\* A request that neither changes rows nor reaches or leaves "served".
LEMMA Invisible ==
  ASSUME NEW q \in Request, phase'[q] = phase[q], reply'[q] = reply[q],
         UNCHANGED <<rows, order>>,
         \A p \in Request \ {q} : pc'[p] = pc[p] /\ answer'[p] = answer[p]
  PROVE  UNCHANGED Promise!vars
<1>1. /\ phase' = [phase EXCEPT ![q] = phase'[q]]
      /\ reply' = [reply EXCEPT ![q] = reply'[q]]
  BY PhaseFrame
<1>2. /\ phase = [p \in Request |-> phase[p]]
      /\ reply = [p \in Request |-> reply[p]]
  BY DEF phase, reply
<1>3. phase' = phase /\ reply' = reply
  BY <1>1, <1>2
<1>4. db' = db
  BY DEF db
<1> QED
  BY <1>3, <1>4 DEF Promise!vars

\* The end of a request, whatever it is told.
LEMMA Closes ==
  ASSUME NEW q \in Request, pc[q] # "ended", pc'[q] = "ended",
         order' = [order EXCEPT ![q] = None], UNCHANGED rows,
         \A p \in Request \ {q} : pc'[p] = pc[p] /\ order'[p] = order[p]
                                    /\ answer'[p] = answer[p]
  PROVE  Promise!Close(q)
<1>1. /\ phase' = [phase EXCEPT ![q] = phase'[q]]
      /\ reply' = [reply EXCEPT ![q] = reply'[q]]
  BY PhaseFrame
<1>2. phase[q] # "closed" /\ phase'[q] = "closed" /\ reply'[q] = None
  BY DEF phase, reply
<1>3. db' = db
  BY DEF db
<1> QED
  BY <1>1, <1>2, <1>3 DEF Promise!Close

\* A statement that only reads serves its request when it runs.
LEMMA ReadServes ==
  ASSUME StoreInv, NEW q \in Request, Read(q)
  PROVE  Promise!Serve(q)
<1>0. /\ Inv
      /\ pc \in [Request -> {"waiting", "emitting", "answering", "notFound", "ended"}
                              \cup InTransaction]
      /\ DOMAIN answer = Request
  BY DEF StoreInv, Inv, HeldInv, RowsInv
<1>1. /\ pc[q] = "bound" /\ pc' = [pc EXCEPT ![q] = "executed"]
      /\ order[q].kind \in {"list", "get"}
      /\ order[q].kind = "list" \/ Selected(q) # {}
      /\ UNCHANGED <<rows, order>>
  BY DEF Read, Goto
<1>2. /\ order[q] \in Order /\ order[q] # None /\ order[q].tenant \in Tenant
      /\ CurrentTenant(held[q]) = order[q].tenant
  BY <1>0, <1>1, SelectedIsAbout, OrderType
<1>3. Selected(q) = Promise!Hit(q)
  BY <1>2 DEF Selected, Visible, Promise!Hit, db
<1>4. answer'[q] = Promise!View(q)
  <2>1. answer'[q] = {[row |-> r, name |-> OperatorName(held[q], r)] : r \in Promise!Hit(q)}
    BY <1>0, <1>3 DEF Read
  <2> QED
    BY <1>2, <2>1 DEF OperatorName, Promise!View
<1>5. \A p \in Request \ {q} : pc'[p] = pc[p] /\ answer'[p] = answer[p]
  BY <1>0, <1>1 DEF Read
<1>6. /\ phase' = [phase EXCEPT ![q] = phase'[q]]
      /\ reply' = [reply EXCEPT ![q] = reply'[q]]
  BY <1>1, <1>5, PhaseFrame
<1>7. /\ phase[q] = "open" /\ phase'[q] = "served"
      /\ reply'[q] = [found |-> TRUE, rows |-> Promise!View(q)]
  BY <1>0, <1>1, <1>4 DEF phase, reply, Writes
<1>8. db' = db
  BY <1>1 DEF db
<1>9. Promise!Tells(q, order[q].kind = "list" \/ Promise!Hit(q) # {}, Promise!View(q))
  <2>1. (order[q].kind = "list" \/ Promise!Hit(q) # {}) = TRUE
    BY <1>1, <1>3
  <2> QED
    BY <1>6, <1>7, <2>1 DEF Promise!Tells
<1> QED
  BY <1>1, <1>2, <1>6, <1>7, <1>8, <1>9 DEF Promise!Serve

\* So does one that finds no row.
LEMMA NotFoundServes ==
  ASSUME StoreInv, NEW q \in Request, NotFound(q)
  PROVE  Promise!Serve(q)
<1>0. /\ Inv
      /\ pc \in [Request -> {"waiting", "emitting", "answering", "notFound", "ended"}
                              \cup InTransaction]
      /\ answer[q] = {} /\ \A r \in rows : r.tenant \in Tenant
  BY DEF StoreInv, Inv, HeldInv, RowsInv, NotFound, Goto
<1>1. /\ pc[q] = "bound" /\ pc' = [pc EXCEPT ![q] = "missing"]
      /\ order[q].kind \in {"get", "update", "delete"}
      /\ Selected(q) = {}
      /\ UNCHANGED <<rows, order, answer>>
  BY DEF NotFound, Goto
<1>2. /\ order[q] \in Order /\ order[q] # None /\ order[q].tenant \in Tenant
      /\ CurrentTenant(held[q]) = order[q].tenant
  BY <1>0, <1>1, SelectedIsAbout, OrderType
<1>3. Promise!Hit(q) = {} /\ Promise!View(q) = {}
  BY <1>1, <1>2, ZenonT(60) DEF Selected, Visible, Promise!Hit, Promise!View, db
<1>4. \A p \in Request \ {q} : pc'[p] = pc[p]
  BY <1>0, <1>1
<1>5. /\ phase' = [phase EXCEPT ![q] = phase'[q]]
      /\ reply' = [reply EXCEPT ![q] = reply'[q]]
  BY <1>1, <1>4, PhaseFrame
<1>6. /\ phase[q] = "open" /\ phase'[q] = "served"
      /\ reply'[q] = [found |-> FALSE, rows |-> {}]
  BY <1>0, <1>1 DEF phase, reply
<1>7. db' = db /\ db = [t \in Tenant |-> db[t]]
  BY <1>1 DEF db
<1>8. Promise!Tells(q, Promise!Hit(q) # {}, {})
  BY <1>3, <1>5, <1>6 DEF Promise!Tells
<1>9. CASE order[q].kind = "get"
  BY <1>1, <1>2, <1>3, <1>5, <1>6, <1>7, <1>8, <1>9 DEF Promise!Serve
<1>10. CASE order[q].kind \in {"update", "delete"}
  <2>1. Promise!Becomes(q, db[order[q].tenant])
    BY <1>2, <1>7 DEF Promise!Becomes
  <2>2. /\ (db[order[q].tenant] \ Promise!Hit(q)) \cup {Promise!Written(q, r.id) : r \in Promise!Hit(q)}
              = db[order[q].tenant]
        /\ db[order[q].tenant] \ Promise!Hit(q) = db[order[q].tenant]
    BY <1>3
  <2> QED
    BY <1>1, <1>2, <1>5, <1>6, <1>8, <1>10, <2>1, <2>2 DEF Promise!Serve
<1> QED
  BY <1>1, <1>9, <1>10

\* A commit adds rows to and takes rows from the database of one tenant.
LEMMA CommitBecomes ==
  ASSUME NEW q \in Request, order[q].tenant \in Tenant,
         NEW gone, NEW new,
         \A r \in gone \cup new : r.tenant = order[q].tenant,
         rows' = (rows \ gone) \cup new
  PROVE  Promise!Becomes(q, (db[order[q].tenant] \ gone) \cup new)
<1>1. ASSUME NEW t \in Tenant, t # order[q].tenant PROVE db'[t] = db[t]
  BY <1>1 DEF db
<1>2. db'[order[q].tenant] = (db[order[q].tenant] \ gone) \cup new
  BY DEF db
<1>3. db = [t \in Tenant |-> db[t]] /\ db' = [t \in Tenant |-> db'[t]]
  BY DEF db
<1> QED
  BY <1>1, <1>2, <1>3 DEF Promise!Becomes

\* A write serves its request when its transaction commits: what it changes is
\* what the order asks for at that moment.
LEMMA WriteServes ==
  ASSUME StoreInv, NEW q \in Request, Commit(q), order[q].kind \in Writes
  PROVE  Promise!Serve(q)
<1>0. /\ Inv
      /\ pc \in [Request -> {"waiting", "emitting", "answering", "notFound", "ended"}
                              \cup InTransaction]
  BY DEF StoreInv, Inv, HeldInv
<1>1. /\ pc[q] = "executed"
      /\ pc' = [pc EXCEPT ![q] = pc'[q]] /\ pc'[q] \in {"emitting", "answering"}
      /\ rows' = (rows \ change[q].gone) \cup change[q].new
      /\ UNCHANGED <<order, answer>>
  BY <1>0 DEF Commit, Goto, Release
<1>2. /\ order[q] \in Order /\ order[q] # None /\ order[q].tenant \in Tenant
      /\ answer[q] = {} /\ DoesAsAsked(q)
  BY <1>0, <1>1, OrderType DEF Inv, SettingInv, StoreInv, AnswerInv, ChangeInv
<1>3. \A p \in Request \ {q} : pc'[p] = pc[p]
  BY <1>0, <1>1
<1>4. /\ phase' = [phase EXCEPT ![q] = phase'[q]]
      /\ reply' = [reply EXCEPT ![q] = reply'[q]]
  BY <1>1, <1>3, PhaseFrame
<1>5. /\ phase[q] = "open" /\ phase'[q] = "served"
      /\ reply'[q] = [found |-> TRUE, rows |-> {}]
  BY <1>0, <1>1, <1>2 DEF phase, reply
<1>6. \A r \in About(q) : r.tenant = order[q].tenant
  BY DEF About
<1>7. CASE order[q].kind = "create"
  <2>1. change[q].gone = {} /\ change[q].new = {Promise!Written(q, q)}
    BY <1>2, <1>7 DEF DoesAsAsked, Payload, Promise!Written
  <2>2. \A r \in change[q].gone \cup change[q].new : r.tenant = order[q].tenant
    BY <2>1 DEF Promise!Written
  <2>3. Promise!Becomes(q, (db[order[q].tenant] \ change[q].gone) \cup change[q].new)
    BY <1>1, <1>2, <2>2, CommitBecomes
  <2>4. (db[order[q].tenant] \ change[q].gone) \cup change[q].new
            = db[order[q].tenant] \cup {Promise!Written(q, q)}
    BY <2>1
  <2>5. Promise!Becomes(q, db[order[q].tenant] \cup {Promise!Written(q, q)})
    BY <2>3, <2>4
  <2>6. Promise!Tells(q, TRUE, {})
    BY <1>4, <1>5 DEF Promise!Tells
  <2> QED
    BY <1>1, <1>2, <1>4, <1>5, <1>7, <2>5, <2>6 DEF Promise!Serve
<1>8. CASE order[q].kind \in {"update", "delete"}
  <2>1. About(q) = Promise!Hit(q)
    BY <1>2, <1>8 DEF About, Promise!Hit, db
  <2>2. change[q].gone = About(q) /\ About(q) # {}
    <3>1. CASE order[q].kind = "update"
      BY <1>2, <3>1 DEF DoesAsAsked
    <3>2. CASE order[q].kind = "delete"
      BY <1>2, <3>2 DEF DoesAsAsked
    <3> QED
      BY <1>8, <3>1, <3>2
  <2>3. Promise!Tells(q, Promise!Hit(q) # {}, {})
    <3>1. (Promise!Hit(q) # {}) = TRUE
      BY <2>1, <2>2
    <3> QED
      BY <1>4, <1>5, <3>1 DEF Promise!Tells
  <2>4. CASE order[q].kind = "update"
    <3> DEFINE new == {Promise!Written(q, r.id) : r \in Promise!Hit(q)}
    <3>1. change[q].new = {Payload(q, r.id) : r \in About(q)}
      BY <1>2, <2>4 DEF DoesAsAsked
    <3>2. change[q].new = new
      BY <2>1, <3>1 DEF Payload, Promise!Written
    <3>3. \A r \in new : r.tenant = order[q].tenant
      BY DEF Promise!Written
    <3>4. Promise!Becomes(q, (db[order[q].tenant] \ change[q].gone) \cup change[q].new)
      BY <1>1, <1>2, <1>6, <2>2, <3>2, <3>3, CommitBecomes
    <3>5. Promise!Becomes(q, (db[order[q].tenant] \ Promise!Hit(q)) \cup new)
      BY <2>1, <2>2, <3>2, <3>4
    <3> QED
      BY <1>1, <1>2, <1>4, <1>5, <2>3, <2>4, <3>5 DEF Promise!Serve
  <2>5. CASE order[q].kind = "delete"
    <3>1. change[q].new = {}
      BY <1>2, <2>5 DEF DoesAsAsked
    <3>2. Promise!Becomes(q, (db[order[q].tenant] \ change[q].gone) \cup change[q].new)
      BY <1>1, <1>2, <1>6, <2>2, <3>1, CommitBecomes
    <3>3. (db[order[q].tenant] \ change[q].gone) \cup change[q].new
              = db[order[q].tenant] \ Promise!Hit(q)
      BY <2>1, <2>2, <3>1
    <3>4. Promise!Becomes(q, db[order[q].tenant] \ Promise!Hit(q))
      BY <3>2, <3>3
    <3> QED
      BY <1>1, <1>2, <1>4, <1>5, <2>3, <2>5, <3>4 DEF Promise!Serve
  <2> QED
    BY <1>8, <2>4, <2>5
<1> QED
  BY <1>7, <1>8 DEF Writes

\* Every step of the store is a step of its promise, or invisible to it.
LEMMA PromiseStep == StoreInv /\ [Next]_vars => [Promise!Next]_Promise!vars
<1> SUFFICES ASSUME StoreInv, [Next]_vars PROVE [Promise!Next]_Promise!vars
  OBVIOUS
<1>0. /\ Inv /\ ChangeInv /\ AnswerInv
      /\ pc \in [Request -> {"waiting", "emitting", "answering", "notFound", "ended"}
                              \cup InTransaction]
      /\ DOMAIN answer = Request
      /\ order \in [Request -> Order \cup {None}]
  BY DEF StoreInv, Inv, HeldInv, RowsInv, SettingInv
<1> USE DEF Goto
<1>1. ASSUME NEW q \in Request, Begin(q) PROVE UNCHANGED Promise!vars
  <2>1. phase'[q] = phase[q] /\ reply'[q] = reply[q]
    BY <1>0, <1>1 DEF Begin, phase, reply
  <2> QED
    BY <1>0, <1>1, <2>1, Invisible DEF Begin
<1>2. ASSUME NEW q \in Request, Bind(q) PROVE Promise!Ask(q)
  <2>1. PICK o \in Order : order' = [order EXCEPT ![q] = o]
    BY <1>2 DEF Bind
  <2>2. /\ pc[q] = "begun" /\ pc' = [pc EXCEPT ![q] = "bound"]
        /\ UNCHANGED <<rows, answer>> /\ order[q] = None
    BY <1>0, <1>2 DEF Bind, AnswerInv
  <2>3. /\ phase' = [phase EXCEPT ![q] = phase'[q]]
        /\ reply' = [reply EXCEPT ![q] = reply'[q]]
    BY <1>0, <2>1, <2>2, PhaseFrame
  <2>4. phase[q] = "open" /\ phase'[q] = "open" /\ reply[q] = None /\ reply'[q] = None
    BY <1>0, <2>2 DEF phase, reply
  <2>5. /\ phase = [p \in Request |-> phase[p]]
        /\ reply = [p \in Request |-> reply[p]]
    BY DEF phase, reply
  <2>6. phase' = phase /\ reply' = reply
    BY <2>3, <2>4, <2>5
  <2>7. db' = db
    BY <2>2 DEF db
  <2> QED
    BY <2>1, <2>2, <2>4, <2>6, <2>7 DEF Promise!Ask
<1>3. ASSUME NEW q \in Request, Create(q) \/ Update(q) \/ Delete(q)
      PROVE  UNCHANGED Promise!vars
  <2>1. /\ pc[q] = "bound" /\ pc' = [pc EXCEPT ![q] = "executed"]
        /\ order[q].kind \in Writes /\ UNCHANGED <<rows, order, answer>>
    BY <1>3 DEF Create, Update, Delete, Changes, Writes
  <2>2. phase'[q] = phase[q] /\ reply'[q] = reply[q]
    BY <1>0, <2>1 DEF phase, reply
  <2> QED
    BY <1>0, <2>1, <2>2, Invisible
<1>4. ASSUME NEW q \in Request, Commit(q), order[q].kind \notin Writes
      PROVE  UNCHANGED Promise!vars
  <2>1. /\ pc[q] = "executed" /\ pc' = [pc EXCEPT ![q] = "answering"]
        /\ UNCHANGED <<order, answer>>
        /\ rows' = (rows \ change[q].gone) \cup change[q].new
    BY <1>4 DEF Commit, Release
  <2>2. order[q] \in Order
    BY <1>0, <2>1 DEF Inv, SettingInv
  <2>3. change[q] = Nothing
    BY <1>0, <1>4, <2>1, <2>2, OrderType DEF ChangeInv, DoesAsAsked, Writes
  <2>4. rows' = rows
    BY <2>1, <2>3 DEF Nothing
  <2>5. phase'[q] = phase[q] /\ reply'[q] = reply[q]
    BY <1>0, <1>4, <2>1 DEF phase, reply
  <2> QED
    BY <1>0, <2>1, <2>4, <2>5, Invisible
<1>5. ASSUME NEW q \in Request, Rollback(q) \/ Emit(q) \/ EmitFails(q)
      PROVE  UNCHANGED Promise!vars
  <2>1. /\ UNCHANGED <<rows, order, answer>>
        /\ \/ pc[q] = "missing" /\ pc' = [pc EXCEPT ![q] = "notFound"]
           \/ pc[q] = "emitting" /\ pc' = [pc EXCEPT ![q] = "answering"]
    BY <1>5 DEF Rollback, Release, Emit, EmitFails
  <2>2. phase'[q] = phase[q] /\ reply'[q] = reply[q]
    BY <1>0, <2>1 DEF phase, reply
  <2> QED
    BY <1>0, <2>1, <2>2, Invisible
<1>6. ASSUME NEW q \in Request, Reject(q) PROVE Promise!Close(q)
  <2>1. order' = [order EXCEPT ![q] = None]
    BY <1>0, <1>6 DEF Reject, AnswerInv
  <2> QED
    BY <1>0, <1>6, <2>1, Closes DEF Reject
<1>7. ASSUME NEW q \in Request, Abort(q) \/ Respond(q) PROVE Promise!Close(q)
  <2>1. pc[q] # "ended" /\ pc' = [pc EXCEPT ![q] = "ended"]
    BY <1>7 DEF Abort, Respond, InTransaction
  <2>2. /\ order' = [order EXCEPT ![q] = None] /\ UNCHANGED rows
        /\ answer' = [answer EXCEPT ![q] = {}]
    BY <1>7 DEF Abort, Respond, Forget
  <2> QED
    BY <1>0, <2>1, <2>2, Closes
<1>8. ASSUME NEW q \in Request,
             \/ Bind(q) \/ Read(q) \/ NotFound(q) \/ Reject(q) \/ Abort(q) \/ Respond(q)
             \/ Commit(q) /\ order[q].kind \in Writes
      PROVE  Promise!Next
  BY <1>2, <1>6, <1>7, <1>8, ReadServes, NotFoundServes, WriteServes DEF Promise!Next
<1>9. CASE UNCHANGED vars
  BY <1>9 DEF vars, Promise!vars, db, phase, reply
<1> QED
  BY <1>1, <1>3, <1>4, <1>5, <1>8, <1>9 DEF Next, Proceed, Execute

\* Tenant isolation as a whole: over shared tables, a shared pool and
\* concurrent transactions, each request is one atomic step of a database
\* that its tenant has for itself, or an error.
THEOREM StoreKeepsPromise == Spec => KeepsPromise
<1>1. StoreInv /\ [Next]_vars => [Promise!Next]_Promise!vars
  BY PromiseStep
<1> QED
  BY <1>1, PromiseInit, StoreInvHolds, PTL DEF Spec, KeepsPromise, Promise!Spec
=============================================================================
