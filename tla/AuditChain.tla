------------------------------ MODULE AuditChain ------------------------------
(***************************************************************************)
(* The tamper-evident audit log: auditService.Record called by requests    *)
(* that run at the same time, over app.audit_log.                          *)
(*                                                                         *)
(* Record reads the tenant's newest row in one transaction and inserts the *)
(* row linked to it in another; UNIQUE (tenant_id, seq) refuses the second *)
(* of two rows that were linked to the same tail, and Record tries once    *)
(* more.  SHA-256 is taken to be free of collisions: the hash of a text is *)
(* the text, and what the text does not tell apart the hash does not.      *)
(***************************************************************************)
EXTENDS Naturals, FiniteSets

CONSTANTS
    Call,       \* calls of Record; a call also stands for the fields and for
                \* the payload value it records
    Tenant,
    None,       \* no row, no tenant
    Fields,     \* what actor, action, entity and time may hold together
    Joined,     \* fields -> their text with | between them, not escaped
    Value,      \* what a payload may denote
    Decoded,    \* value -> what decoding leaves: numbers become float64
    Severity,
    SeverityOf  \* the severity a call records

ASSUME AuditAssumption ==
    /\ None \notin Tenant
    /\ Call \subseteq Fields /\ Call \subseteq Value
    /\ DOMAIN Joined = Fields /\ DOMAIN Decoded = Value
    /\ SeverityOf \in [Call -> Severity]

VARIABLES
    log,        \* app.audit_log: a set of rows
    pc,         \* where each call is, or how it ended
    tenant,     \* the tenant the call records for
    entry,      \* the row the call is about to insert, in this iteration
    attempt,    \* the iteration of the retry loop
    since       \* history: the rows there were when the call first read the tail

vars == <<log, pc, tenant, entry, attempt, since>>

\* A faulty bound the properties must tell from MaxAttempts: no retry.
SingleAttempt == 1

MaxAttempts == 2

Genesis == <<>>     \* genesisPrevHash, which no row hashes to

(***************************************************************************)
(* A payload is JSON text: the form it was submitted in, the form jsonb    *)
(* gives back, or the canonical one.                                       *)
(***************************************************************************)
Form == {"submitted", "jsonb", "canonical"}
Payload == [value : Value, form : Form]

\* CanonicalizeEntry: decode and re-marshal; the form it came in is gone, and
\* so is what decoding does not tell apart.
CanonicalizeEntry(p) == [value |-> Decoded[p.value], form |-> "canonical"]

\* What a payload reads back as (a NULL one as the JSON null).
ReadBack(p) == [p EXCEPT !.form = "jsonb"]

\* A faulty hash: the payload is not part of it.
HashWithoutPayload(prev, seq, t, fields, canon) == <<prev, seq, t, Joined[fields]>>

\* The severity of a row is not hashed.  No | is in prev, seq or tenant, and a
\* payload is one JSON text: they keep their place in what is joined.
HashChainEntry(prev, seq, t, fields, canon) ==
    <<prev, seq, t, Joined[fields], canon>>

IsRow(e) ==
    /\ DOMAIN e = {"tenant", "seq", "fields", "payload", "severity", "prev", "hash"}
    /\ e.tenant \in Tenant
    /\ e.seq \in Nat \ {0}
    /\ e.fields \in Fields
    /\ e.payload \in Payload
    /\ e.severity \in Severity

Rows(L, t) == {e \in L : e.tenant = t}

InFlight == {"tail", "append"}
Ended    == {"recorded", "conflict", "error"}

TypeOK ==
    /\ \A e \in log : IsRow(e)
    /\ pc \in [Call -> {"idle"} \cup InFlight \cup Ended]
    /\ tenant \in [Call -> Tenant \cup {None}]
    /\ \A c \in Call : entry[c] # None => IsRow(entry[c])
    /\ attempt \in [Call -> 0..MaxAttempts]
    /\ since \in [Call -> Nat]

Init ==
    /\ log = {}
    /\ pc = [c \in Call |-> "idle"]
    /\ tenant = [c \in Call |-> None]
    /\ entry = [c \in Call |-> None]
    /\ attempt = [c \in Call |-> 0]
    /\ since = [c \in Call |-> 0]

Goto(c, from, to) == pc[c] = from /\ pc' = [pc EXCEPT ![c] = to]

-----------------------------------------------------------------------------
(* Faulty steps the properties must tell from the ones below *)

\* The first row of a tenant is number 0.
ReadTailFromZero(c) ==
    /\ Goto(c, "tail", "append")
    /\ LET seq == Cardinality(Rows(log, tenant[c]))
       IN entry' = [entry EXCEPT ![c] =
            [tenant |-> tenant[c], seq |-> seq, prev |-> Genesis, fields |-> c,
             payload |-> [value |-> c, form |-> "submitted"],
             severity |-> SeverityOf[c], hash |-> Genesis]]
    /\ UNCHANGED <<log, tenant, attempt, since>>

\* The hash is taken over the text as submitted.
LinkSubmitted(c, seq, prev) ==
    LET p == [value |-> c, form |-> "submitted"]
    IN [tenant |-> tenant[c], seq |-> seq, prev |-> prev,
        fields |-> c, payload |-> p, severity |-> SeverityOf[c],
        hash   |-> HashChainEntry(prev, seq, tenant[c], c, p)]

\* A commit whose answer was lost is tried again.
AppendRetried(c) ==
    /\ \/ Goto(c, "append", "recorded")
       \/ Goto(c, "append", "tail")
    /\ \A e \in Rows(log, tenant[c]) : e.seq # entry[c].seq
    /\ log' = log \cup {[entry[c] EXCEPT !.payload = ReadBack(@)]}
    /\ entry' = [entry EXCEPT ![c] = None]
    /\ UNCHANGED <<tenant, attempt, since>>

\* The insert overwrites the row that has its number.
AppendOverwrites(c) ==
    /\ Goto(c, "append", "recorded")
    /\ log' = {e \in log : e.tenant # tenant[c] \/ e.seq # entry[c].seq}
                 \cup {[entry[c] EXCEPT !.payload = ReadBack(@)]}
    /\ entry' = [entry EXCEPT ![c] = None]
    /\ UNCHANGED <<tenant, attempt, since>>

\* The retry inserts the same row again and does not count.
RetryStale(c) ==
    /\ Goto(c, "append", "append")
    /\ \E e \in Rows(log, tenant[c]) : e.seq = entry[c].seq
    /\ UNCHANGED <<log, tenant, entry, attempt, since>>

-----------------------------------------------------------------------------
(* Record *)

Start(c) ==
    /\ Goto(c, "idle", "tail")
    /\ \E t \in Tenant : tenant' = [tenant EXCEPT ![c] = t]
    /\ attempt' = [attempt EXCEPT ![c] = 1]
    /\ UNCHANGED <<log, entry, since>>

\* ErrTenantRequired.
StartTenantless(c) ==
    /\ Goto(c, "idle", "error")
    /\ UNCHANGED <<log, tenant, entry, attempt, since>>

\* The row of seq and prev that Append will write.
Link(c, seq, prev) ==
    LET p == [value |-> c, form |-> "submitted"]
    IN [tenant |-> tenant[c], seq |-> seq, prev |-> prev,
        fields |-> c, payload |-> p, severity |-> SeverityOf[c],
        hash   |-> HashChainEntry(prev, seq, tenant[c], c, CanonicalizeEntry(p))]

\* Tail: the newest row under the tenant's row-level security; its lock is
\* gone when the transaction commits.  The new row is linked to it.
ReadTail(c) ==
    /\ Goto(c, "tail", "append")
    /\ \/ /\ Rows(log, tenant[c]) = {}
          /\ entry' = [entry EXCEPT ![c] = Link(c, 1, Genesis)]
       \/ \E e \in Rows(log, tenant[c]) :
             /\ \A d \in Rows(log, tenant[c]) : d.seq <= e.seq
             /\ entry' = [entry EXCEPT ![c] = Link(c, e.seq + 1, e.hash)]
    /\ since' = [since EXCEPT ![c] =
          IF attempt[c] = 1 THEN Cardinality(Rows(log, tenant[c])) ELSE @]
    /\ UNCHANGED <<log, tenant, attempt>>

\* The call returns: its variables are gone.
Return(c) ==
    /\ entry' = [entry EXCEPT ![c] = None]
    /\ attempt' = [attempt EXCEPT ![c] = 0]
    /\ since' = [since EXCEPT ![c] = 0]

SeqTaken(c) == \E e \in Rows(log, tenant[c]) : e.seq = entry[c].seq

\* Append commits; its answer may be lost with the connection, which Record
\* returns as an error and does not retry.
Append(c) ==
    /\ \/ Goto(c, "append", "recorded")
       \/ Goto(c, "append", "error")
    /\ ~SeqTaken(c)
    /\ log' = log \cup {[entry[c] EXCEPT !.payload = ReadBack(@)]}
    /\ Return(c)
    /\ UNCHANGED tenant

\* 23505 on (tenant_id, seq): the loop goes on while attempts are left.
AppendConflict(c) ==
    /\ \/ /\ Goto(c, "append", "tail")
          /\ attempt[c] < MaxAttempts
          /\ attempt' = [attempt EXCEPT ![c] = @ + 1]
       \/ /\ Goto(c, "append", "conflict")
          /\ attempt[c] = MaxAttempts
          /\ UNCHANGED attempt
    /\ SeqTaken(c)
    /\ entry' = [entry EXCEPT ![c] = None]
    /\ UNCHANGED <<log, tenant, since>>

\* Any other error of Tail or Append, a cancelled context, a crash: no row.
Fail(c) ==
    /\ pc[c] \in InFlight
    /\ pc' = [pc EXCEPT ![c] = "error"]
    /\ Return(c)
    /\ UNCHANGED <<log, tenant>>

Proceed(c) == ReadTail(c) \/ Append(c) \/ AppendConflict(c)

Next ==
    \E c \in Call : Start(c) \/ StartTenantless(c) \/ Proceed(c) \/ Fail(c)

Spec == Init /\ [][Next]_vars

\* A goroutine that can run runs, and a database call returns.
FairSpec == Spec /\ \A c \in Call : WF_vars(Proceed(c))

-----------------------------------------------------------------------------
(* VerifyChain *)

\* A faulty verifier: it looks at each row alone.
BrokenAlone(L, t) ==
    {e \in Rows(L, t) :
        e.hash # HashChainEntry(e.prev, e.seq, e.tenant, e.fields,
                                CanonicalizeEntry(e.payload))}

\* The rows verifyChainEntries stops at: seq is not the position in seq
\* order, prev_hash is not the chain_hash of the row before, or chain_hash is
\* not the hash of the stored row.
Broken(L, t) ==
    LET rows == Rows(L, t)
    IN {e \in rows :
        LET before == {d \in rows : d.seq < e.seq}
        IN \/ e.seq # Cardinality(before) + 1
           \/ before = {} /\ e.prev # Genesis
           \/ \E d \in before : d.seq + 1 = e.seq /\ e.prev # d.hash
           \/ e.hash # HashChainEntry(e.prev, e.seq, e.tenant, e.fields,
                                      CanonicalizeEntry(e.payload))}

\* The seq of the first broken row, 0 when there is none.
VerifyChain(L, t) ==
    LET broken == {e.seq : e \in Broken(L, t)}
    IN IF broken = {} THEN 0
       ELSE CHOOSE s \in broken : \A u \in broken : s <= u

-----------------------------------------------------------------------------
(* Properties *)

\* Whatever the calls did at the same time, every chain verifies: no fork, no
\* gap, no row hashed over anything but what reads back.
ChainsVerify == \A t \in Tenant : VerifyChain(log, t) = 0

\* VerifyChain shows the edits that change what is hashed, and no others: a
\* stored row given other fields, another payload value and another severity,
\* its chain_hash left alone, breaks its chain at that very row, unless its
\* fields join to the same text and its value decodes alike.
EditShows ==
    \A e \in log, f \in Fields, v \in Value, s \in Severity :
        LET edited == [e EXCEPT !.fields = f, !.payload.value = v, !.severity = s]
        IN VerifyChain((log \ {e}) \cup {edited}, e.tenant)
               = IF Joined[f] = Joined[e.fields]
                       /\ Decoded[v] = Decoded[e.payload.value]
                 THEN 0 ELSE e.seq

\* Taking out any row but the newest breaks the chain at the row that
\* followed it.
RemovalShows ==
    \A e \in log : (\E d \in Rows(log, e.tenant) : d.seq > e.seq) =>
        VerifyChain(log \ {e}, e.tenant) = e.seq + 1

\* A call writes at most one row, and one that reports success exactly one,
\* for its own tenant: the retry follows a conflict only, never a commit
\* whose answer was lost.
OneRowPerCall ==
    \A c \in Call :
        /\ \A d, e \in log :
              d.payload.value = c /\ e.payload.value = c => d = e
        /\ pc[c] = "recorded" =>
              \E e \in Rows(log, tenant[c]) : e.payload.value = c

\* Record drops an event for conflicts only when two other events entered
\* the tenant's log after it first read the tail: two concurrent writers never
\* do.
DroppedOnlyIfBeatenTwice ==
    \A c \in Call : pc[c] = "conflict" =>
        /\ Cardinality(Rows(log, tenant[c])) >= since[c] + 2
        /\ \A e \in log : e.payload.value # c

\* Every call of Record returns: the retry loop ends.
EveryRecordReturns ==
    \A c \in Call : pc[c] \in InFlight ~> pc[c] \in Ended

-----------------------------------------------------------------------------
(* The abstract promise this implements: see AuditTrail *)

trail ==
    [t \in Tenant |->
        [i \in 1..Cardinality(Rows(log, t)) |->
            (CHOOSE e \in Rows(log, t) : e.seq = i).payload.value]]

Trail == INSTANCE AuditTrail WITH Event <- Call

KeepsTrail == Trail!Spec
=============================================================================
