--------------------------- MODULE RotationPromise ---------------------------
(***************************************************************************)
(* What rotation promises the holder of a session, without the table, the  *)
(* requests or the clock: a family of refresh tokens has at most one token *)
(* that works; using it up replaces it by one that never worked before, or *)
(* ends the family; a family that ended never opens again.                 *)
(***************************************************************************)
CONSTANTS Token, Family

VARIABLES
    current,    \* for each family the tokens of it that work: at most one
    spent,      \* tokens that worked once
    phase       \* "unopened", "open", "rotating" or "closed"

vars == <<current, spent, phase>>

TypeOK ==
    /\ current \in [Family -> SUBSET Token]
    /\ spent \in SUBSET Token
    /\ phase \in [Family -> {"unopened", "open", "rotating", "closed"}]

Init ==
    /\ current = [f \in Family |-> {}]
    /\ spent = {}
    /\ phase = [f \in Family |-> "unopened"]

Fresh(t) == t \notin spent /\ \A f \in Family : t \notin current[f]

\* A login opens a family; the second write of a rotation reopens it.
Issue(f, t) ==
    /\ phase[f] \in {"unopened", "rotating"}
    /\ Fresh(t)
    /\ current' = [current EXCEPT ![f] = {t}]
    /\ phase' = [phase EXCEPT ![f] = "open"]
    /\ UNCHANGED spent

\* The token is used up: by a rotation, or by a replay that ends the family.
Spend(f) ==
    /\ phase[f] = "open"
    /\ spent' = spent \cup current[f]
    /\ current' = [current EXCEPT ![f] = {}]
    /\ \E p \in {"rotating", "closed"} : phase' = [phase EXCEPT ![f] = p]

\* A rotation is cut off between its writes: the successor never comes.
Abandon(f) ==
    /\ phase[f] = "rotating"
    /\ phase' = [phase EXCEPT ![f] = "closed"]
    /\ UNCHANGED <<current, spent>>

Next ==
    \E f \in Family : Spend(f) \/ Abandon(f) \/ \E t \in Token : Issue(f, t)

Spec == Init /\ [][Next]_vars
=============================================================================
