----------------------------- MODULE MCAuditChain -----------------------------
(* Instances of AuditChain for TLC.  The fields of c1 and c2 join to one     *)
(* text; the values of c2 and c3 are numbers that decode to one float64.     *)
(* Tenants are interchangeable, but the run has a liveness property, so      *)
(* symmetry is not used.                                                     *)
EXTENDS AuditChain

CONSTANTS c1, c2, c3, info, warning

MCJoined  == [f \in Fields |-> IF f = c2 THEN c1 ELSE f]
MCDecoded == [v \in Value |-> IF v = c3 THEN c2 ELSE v]

MCSeverityOf == [c \in Call |-> IF c = c1 THEN warning ELSE info]
=============================================================================
