------------------------------ MODULE AuditTrail ------------------------------
(***************************************************************************)
(* What the audit log promises its readers, without hashes, transactions   *)
(* or retries: each tenant has one sequence of events; an event enters it  *)
(* at the end, at most once and in one tenant's sequence only; and no      *)
(* event is moved, changed or taken out.                                   *)
(***************************************************************************)
EXTENDS Naturals, Sequences

CONSTANTS Tenant, Event

VARIABLE trail      \* for each tenant its events, oldest first

TypeOK == trail \in [Tenant -> Seq(Event)]

Init == trail = [t \in Tenant |-> <<>>]

Unrecorded(v) == \A t \in Tenant : \A i \in 1..Len(trail[t]) : trail[t][i] # v

Record(t, v) ==
    /\ Unrecorded(v)
    /\ trail' = [trail EXCEPT ![t] = Append(@, v)]

Next == \E t \in Tenant, v \in Event : Record(t, v)

Spec == Init /\ [][Next]_trail
=============================================================================
