--------------------------- MODULE AuditChainProofs ---------------------------
(***************************************************************************)
(* Proofs about AuditChain, for every set of calls and tenants.  ChainInv  *)
(* is the inductive invariant: the rows of a tenant are numbered from 1    *)
(* without a gap, each is linked to the one before and hashed over what    *)
(* reads back, and a row about to be inserted is linked to one that is     *)
(* still there.  Left bounds the steps a call of Record has left.          *)
(***************************************************************************)
EXTENDS AuditChain, FiniteSetTheorems, FunctionTheorems, TLAPS

\* The row that a call v leaves in the log of t.
StoredRow(t, seq, v, prev) ==
    [tenant  |-> t,
     seq     |-> seq,
     fields  |-> v,
     payload |-> [value |-> v, form |-> "jsonb"],
     severity |-> SeverityOf[v],
     prev    |-> prev,
     hash    |-> HashChainEntry(prev, seq, t, v,
                                [value |-> Decoded[v], form |-> "canonical"])]

IsStored(e) ==
    /\ e.tenant \in Tenant
    /\ e.seq \in Nat \ {0}
    /\ e.payload.value \in Call
    /\ e = StoredRow(e.tenant, e.seq, e.payload.value, e.prev)

\* The rows of S are numbered from 1 to n.
Numbers(S, n) ==
    /\ \A e \in S : e.seq \in 1..n
    /\ \A d, e \in S : d.seq = e.seq => d = e
    /\ \A i \in 1..n : \E e \in S : e.seq = i

\* A row of t numbered seq may follow what is in the log.
Follows(L, t, seq, prev) ==
    \/ seq = 1 /\ prev = Genesis
    \/ \E d \in Rows(L, t) : d.seq + 1 = seq /\ d.hash = prev

\* The entry of a call is a row of its tenant for the call itself.
Linked(c) ==
    /\ entry[c] = Link(c, entry[c].seq, entry[c].prev)
    /\ entry[c].seq \in Nat \ {0}
    /\ tenant[c] \in Tenant

\* What is known of a call wherever it is.
CallInv(c) ==
    /\ pc[c] = "idle" => entry[c] = None
    /\ pc[c] \in InFlight \cup {"recorded", "conflict"} => tenant[c] \in Tenant
    /\ pc[c] \in InFlight => attempt[c] > 0
    /\ entry[c] # None => Linked(c)
    /\ pc[c] = "append" =>
          /\ Linked(c)
          /\ Follows(log, tenant[c], entry[c].seq, entry[c].prev)
    /\ pc[c] = "tail" /\ attempt[c] > 1
          => \E e \in Rows(log, tenant[c]) : e.seq > since[c]
    /\ pc[c] = "append" => entry[c].seq > since[c]
    /\ pc[c] = "append" /\ attempt[c] > 1 => entry[c].seq > since[c] + 1
    /\ pc[c] = "conflict" => \E e \in Rows(log, tenant[c]) : e.seq > since[c] + 1
    /\ pc[c] \in {"idle", "tail", "append", "conflict"}
          => \A e \in log : e.payload.value # c
    /\ pc[c] = "recorded"
          => \E e \in Rows(log, tenant[c]) : e.payload.value = c

ChainInv ==
    /\ pc \in [Call -> {"idle"} \cup InFlight \cup Ended]
    /\ tenant \in [Call -> Tenant \cup {None}]
    /\ attempt \in [Call -> 0..MaxAttempts]
    /\ since \in [Call -> Nat]
    /\ entry = [c \in Call |-> entry[c]]
    /\ \A e \in log : IsStored(e) /\ Follows(log, e.tenant, e.seq, e.prev)
    /\ \A t \in Tenant : \E n \in Nat : Numbers(Rows(log, t), n)
    /\ \A d, e \in log : d.payload.value = e.payload.value => d = e
    /\ \A c \in Call : CallInv(c)

-----------------------------------------------------------------------------
(* Rows *)

\* The row that Append inserts is the entry the call was about to insert,
\* with the payload that jsonb gives back.
LEMMA AppendedRow ==
    ASSUME NEW c \in Call, NEW seq, NEW prev, entry[c] = Link(c, seq, prev)
    PROVE  [entry[c] EXCEPT !.payload = ReadBack(@)]
               = StoredRow(tenant[c], seq, c, prev)
<1>1. entry[c].payload = [value |-> c, form |-> "submitted"]
  BY DEF Link
<1>2. ReadBack(entry[c].payload) = [value |-> c, form |-> "jsonb"]
  BY <1>1 DEF ReadBack
<1>3. CanonicalizeEntry([value |-> c, form |-> "submitted"])
          = [value |-> Decoded[c], form |-> "canonical"]
  BY DEF CanonicalizeEntry
<1>4. entry[c] = [tenant |-> tenant[c], seq |-> seq, prev |-> prev,
                  fields |-> c,
                  payload |-> [value |-> c, form |-> "submitted"],
                  severity |-> SeverityOf[c],
                  hash |-> HashChainEntry(prev, seq, tenant[c], c,
                              [value |-> Decoded[c], form |-> "canonical"])]
  BY <1>3 DEF Link
<1>5. [entry[c] EXCEPT !.payload = ReadBack(@)]
          = [entry[c] EXCEPT !.payload = [value |-> c, form |-> "jsonb"]]
  BY <1>2
<1> QED
  BY <1>4, <1>5 DEF StoredRow

\* The numbers of a set of rows determine how many there are.
LEMMA NumbersCount ==
    ASSUME NEW S, NEW n \in Nat, Numbers(S, n)
    PROVE  IsFiniteSet(S) /\ Cardinality(S) = n
<1> DEFINE f == [i \in 1..n |-> CHOOSE e \in S : e.seq = i]
<1>1. \A i \in 1..n : f[i] \in S /\ f[i].seq = i
  BY DEF Numbers
<1>2. f \in [1..n -> S]
  BY <1>1
<1>3. \A i, j \in 1..n : f[i] = f[j] => i = j
  BY <1>1
<1>4. \A e \in S : \E i \in 1..n : f[i] = e
  BY <1>1 DEF Numbers
<1>5. f \in Bijection(1..n, S)
  BY <1>2, <1>3, <1>4, Fun_IsBij
<1>6. ExistsBijection(1..n, S)
  BY <1>5 DEF ExistsBijection
<1>7. IsFiniteSet(1..n) /\ Cardinality(1..n) = n
  BY FS_Interval
<1> QED
  BY <1>6, <1>7, FS_Bijection

\* The rows before one of them, and the next row.
LEMMA NumbersBefore ==
    ASSUME NEW S, NEW n \in Nat, Numbers(S, n), NEW m \in 0..n
    PROVE  Numbers({e \in S : e.seq <= m}, m)
<1>1. \A i \in 1..m : i \in 1..n
  OBVIOUS
<1> QED
  BY <1>1 DEF Numbers

LEMMA NumbersNext ==
    ASSUME NEW S, NEW n \in Nat, Numbers(S, n), NEW e, e.seq = n + 1
    PROVE  Numbers(S \cup {e}, n + 1)
<1>1. \A i \in 1..(n+1) : i \in 1..n \/ i = n + 1
  OBVIOUS
<1>2. \A i \in 1..n : i \in 1..(n+1) /\ i # n + 1
  OBVIOUS
<1>3. n + 1 \in 1..(n+1)
  OBVIOUS
<1> QED
  BY <1>1, <1>2, <1>3 DEF Numbers

-----------------------------------------------------------------------------
(* The invariant *)

LEMMA ChainInit == Init => ChainInv
<1> SUFFICES ASSUME Init PROVE ChainInv
  OBVIOUS
<1>1. \A t \in Tenant : Numbers(Rows(log, t), 0)
  BY DEF Init, Rows, Numbers
<1>2. \A c \in Call : CallInv(c)
  BY DEF Init, CallInv, InFlight
<1>3. /\ pc \in [Call -> {"idle"} \cup InFlight \cup Ended]
      /\ tenant \in [Call -> Tenant \cup {None}]
      /\ attempt \in [Call -> 0..MaxAttempts]
      /\ since \in [Call -> Nat]
      /\ entry = [c \in Call |-> entry[c]]
  BY DEF Init, MaxAttempts
<1> QED
  BY <1>1, <1>2, <1>3 DEF Init, ChainInv

\* The log only grows, by rows of calls that have none.
Grows(r) == log' = log \/ \E e : log' = log \cup {e} /\ e.payload.value = r

\* Only the call r moves.
OnlyMoves(r) ==
    \A c \in Call \ {r} :
        /\ pc'[c] = pc[c]
        /\ tenant'[c] = tenant[c]
        /\ entry'[c] = entry[c]
        /\ attempt'[c] = attempt[c]
        /\ since'[c] = since[c]

\* A call that does not move keeps what is known of it: the row its entry is
\* linked to is still there.
LEMMA CallFrame ==
    ASSUME NEW r \in Call, OnlyMoves(r), Grows(r),
           NEW c \in Call \ {r}, CallInv(c)
    PROVE  CallInv(c)'
<1>1. /\ pc'[c] = pc[c] /\ tenant'[c] = tenant[c]
      /\ entry'[c] = entry[c] /\ attempt'[c] = attempt[c]
      /\ since'[c] = since[c]
  BY DEF OnlyMoves
<1>2. \A e \in log : e \in log'
  BY DEF Grows
<1>3. \A t : \A e \in Rows(log, t) : e \in Rows(log', t)
  BY <1>2 DEF Rows
<1>4. \A e \in log' : e \in log \/ e.payload.value # c
  BY DEF Grows
<1>5. Follows(log, tenant[c], entry[c].seq, entry[c].prev)
         => Follows(log', tenant[c], entry[c].seq, entry[c].prev)
  BY <1>3 DEF Follows
<1>6. Linked(c) => Linked(c)'
  BY <1>1 DEF Linked, Link
<1>7. pc[c] = "tail" /\ attempt[c] > 1
         => \E e \in Rows(log', tenant[c]) : e.seq > since[c]
  BY <1>3 DEF CallInv
<1>8. pc[c] = "conflict"
         => \E e \in Rows(log', tenant[c]) : e.seq > since[c] + 1
  BY <1>3 DEF CallInv
<1>9. pc[c] = "recorded"
          => \E e \in Rows(log', tenant[c]) : e.payload.value = c
  BY <1>3 DEF CallInv
<1> QED
  BY <1>1, <1>4, <1>5, <1>6, <1>7, <1>8, <1>9 DEF CallInv

\* The steps that write no row keep the invariant if they keep it of the call
\* that moves.
LEMMA NoRowStep ==
    ASSUME ChainInv, NEW r \in Call, OnlyMoves(r), log' = log,
           pc' \in [Call -> {"idle"} \cup InFlight \cup Ended],
           tenant' \in [Call -> Tenant \cup {None}],
           attempt' \in [Call -> 0..MaxAttempts],
           since' \in [Call -> Nat],
           entry' = [c \in Call |-> entry'[c]],
           CallInv(r)'
    PROVE  ChainInv'
<1>1. \A c \in Call : CallInv(c)'
  BY CallFrame DEF ChainInv, Grows
<1>2. \A t : Rows(log', t) = Rows(log, t)
  BY DEF Rows
<1>3. \A e \in log' : IsStored(e) /\ Follows(log', e.tenant, e.seq, e.prev)
  BY DEF ChainInv
<1>4. \A t \in Tenant : \E n \in Nat : Numbers(Rows(log', t), n)
  BY <1>2 DEF ChainInv
<1>5. \A d, e \in log' : d.payload.value = e.payload.value => d = e
  BY DEF ChainInv
<1> QED
  BY <1>1, <1>3, <1>4, <1>5 DEF ChainInv

\* Every step of Record other than Append.
LEMMA StartStep ==
    ASSUME ChainInv, NEW r \in Call, Start(r) \/ StartTenantless(r)
    PROVE  ChainInv'
<1> USE DEF Goto, InFlight, Ended, MaxAttempts
<1>1. OnlyMoves(r) /\ log' = log /\ entry' = entry
  BY DEF Start, StartTenantless, OnlyMoves, ChainInv
<1>2. /\ pc' \in [Call -> {"idle"} \cup InFlight \cup Ended]
      /\ tenant' \in [Call -> Tenant \cup {None}]
      /\ attempt' \in [Call -> 0..MaxAttempts]
      /\ since' \in [Call -> Nat]
      /\ entry' = [c \in Call |-> entry'[c]]
  BY <1>1 DEF Start, StartTenantless, ChainInv
<1>3. CallInv(r)'
  <2>1. CallInv(r) /\ entry[r] = None /\ \A e \in log : e.payload.value # r
    BY DEF ChainInv, CallInv, Start, StartTenantless
  <2>2. CASE Start(r)
    <3>1. pc'[r] = "tail" /\ attempt'[r] = 1 /\ tenant'[r] \in Tenant
      BY <2>2 DEF Start, ChainInv
    <3> QED
      BY <1>1, <2>1, <3>1 DEF CallInv
  <2>3. CASE StartTenantless(r)
    <3>1. pc'[r] = "error"
      BY <2>3 DEF StartTenantless, ChainInv
    <3> QED
      BY <1>1, <2>1, <3>1 DEF CallInv
  <2> QED
    BY <2>2, <2>3
<1> QED
  BY <1>1, <1>2, <1>3, NoRowStep

LEMMA FailStep ==
    ASSUME ChainInv, NEW r \in Call, Fail(r)
    PROVE  ChainInv'
<1> USE DEF InFlight, Ended
<1>1. /\ OnlyMoves(r) /\ log' = log /\ entry'[r] = None
      /\ tenant' = tenant /\ pc'[r] = "error"
  BY DEF Fail, Return, OnlyMoves, ChainInv
<1>2. /\ pc' \in [Call -> {"idle"} \cup InFlight \cup Ended]
      /\ tenant' \in [Call -> Tenant \cup {None}]
      /\ attempt' \in [Call -> 0..MaxAttempts]
      /\ since' \in [Call -> Nat]
      /\ entry' = [c \in Call |-> entry'[c]]
  BY <1>1 DEF Fail, Return, MaxAttempts, ChainInv
<1>3. CallInv(r)'
  BY <1>1 DEF ChainInv, CallInv
<1> QED
  BY <1>1, <1>2, <1>3, NoRowStep

\* The new entry is linked to the newest row, or is the first.
LEMMA TailStep ==
    ASSUME ChainInv, NEW r \in Call, ReadTail(r)
    PROVE  ChainInv'
<1> USE DEF Goto, InFlight, Ended
<1> DEFINE S == Rows(log, tenant[r])
<1>1. /\ OnlyMoves(r) /\ log' = log /\ tenant' = tenant /\ attempt' = attempt
      /\ pc[r] = "tail" /\ pc'[r] = "append"
      /\ since'[r] = IF attempt[r] = 1 THEN Cardinality(S) ELSE since[r]
  BY DEF ReadTail, OnlyMoves, ChainInv
<1>2. CallInv(r) /\ tenant[r] \in Tenant
  BY <1>1 DEF ChainInv, CallInv
<1>3. PICK n \in Nat : Numbers(S, n)
  BY <1>2 DEF ChainInv
<1>4. Cardinality(S) = n
  BY <1>3, NumbersCount
<1>5. /\ pc' \in [Call -> {"idle"} \cup InFlight \cup Ended]
      /\ tenant' \in [Call -> Tenant \cup {None}]
      /\ attempt' \in [Call -> 0..MaxAttempts]
      /\ since' \in [Call -> Nat]
      /\ entry' = [c \in Call |-> entry'[c]]
  BY <1>1, <1>4 DEF ReadTail, ChainInv
<1>6. PICK seq, prev :
         /\ seq \in Nat \ {0}
         /\ entry'[r] = Link(r, seq, prev)
         /\ Follows(log, tenant[r], seq, prev)
         /\ \A d \in S : d.seq \in Nat /\ d.seq < seq
  <2>1. CASE /\ S = {}
             /\ entry' = [entry EXCEPT ![r] = Link(r, 1, Genesis)]
    <3>1. entry'[r] = Link(r, 1, Genesis)
      BY <2>1 DEF ChainInv
    <3> QED
      BY <2>1, <3>1 DEF Follows
  <2>2. ASSUME NEW e \in S, \A d \in S : d.seq <= e.seq,
               entry' = [entry EXCEPT ![r] = Link(r, e.seq + 1, e.hash)]
        PROVE  \E seq, prev :
                  /\ seq \in Nat \ {0}
                  /\ entry'[r] = Link(r, seq, prev)
                  /\ Follows(log, tenant[r], seq, prev)
                  /\ \A d \in S : d.seq \in Nat /\ d.seq < seq
    <3>1. entry'[r] = Link(r, e.seq + 1, e.hash)
      BY <2>2 DEF ChainInv
    <3>2. \A d \in S : d.seq \in Nat \ {0}
      BY DEF ChainInv, IsStored, Rows
    <3>3. e.seq + 1 \in Nat \ {0} /\ \A d \in S : d.seq < e.seq + 1
      BY <2>2, <3>2
    <3>4. Follows(log, tenant[r], e.seq + 1, e.hash)
      BY DEF Follows
    <3> QED
      BY <3>1, <3>2, <3>3, <3>4
  <2> QED
    BY <2>1, <2>2 DEF ReadTail
<1>7. entry'[r].seq = seq /\ entry'[r].prev = prev
  BY <1>6 DEF Link
<1>8. Linked(r)'
  BY <1>1, <1>2, <1>6, <1>7 DEF Linked, Link
<1>9. seq > since'[r] /\ (attempt[r] > 1 => seq > since'[r] + 1)
  <2>1. CASE attempt[r] = 1
    <3>1. seq > n
      <4>1. CASE n = 0
        BY <1>6, <4>1
      <4>2. CASE n > 0
        <5>1. PICK d \in S : d.seq = n
          BY <1>3, <4>2 DEF Numbers
        <5> QED
          BY <1>6, <5>1
      <4> QED
        BY <4>1, <4>2
    <3> QED
      BY <1>1, <1>4, <2>1, <3>1
  <2>2. CASE attempt[r] # 1
    <3>1. attempt[r] > 1 /\ since'[r] = since[r] /\ since[r] \in Nat
      BY <1>1, <1>2, <2>2 DEF ChainInv, CallInv, MaxAttempts
    <3>2. PICK d \in S : d.seq > since[r]
      BY <1>1, <1>2, <3>1 DEF CallInv
    <3> QED
      BY <1>6, <3>1, <3>2
  <2> QED
    BY <2>1, <2>2
<1>10. CallInv(r)'
  <2>1. Follows(log', tenant'[r], entry'[r].seq, entry'[r].prev)
    BY <1>1, <1>6, <1>7
  <2>2. attempt'[r] > 0 /\ tenant'[r] \in Tenant
    BY <1>1, <1>2 DEF CallInv
  <2>3. \A e \in log' : e.payload.value # r
    BY <1>1, <1>2 DEF CallInv
  <2>4. /\ entry'[r].seq > since'[r]
        /\ attempt'[r] > 1 => entry'[r].seq > since'[r] + 1
    BY <1>1, <1>7, <1>9
  <2> QED
    BY <1>1, <1>8, <2>1, <2>2, <2>3, <2>4 DEF CallInv
<1> QED
  BY <1>1, <1>5, <1>10, NoRowStep

\* A conflict means that the number is taken: one more row entered the log
\* since the tail was read.
LEMMA ConflictStep ==
    ASSUME ChainInv, NEW r \in Call, AppendConflict(r)
    PROVE  ChainInv'
<1> USE DEF Goto, InFlight, Ended, MaxAttempts
<1>1. /\ OnlyMoves(r) /\ log' = log /\ tenant' = tenant /\ since' = since
      /\ entry'[r] = None /\ pc[r] = "append"
      /\ \/ pc'[r] = "tail" /\ attempt'[r] = attempt[r] + 1 /\ attempt[r] < 2
         \/ pc'[r] = "conflict" /\ attempt' = attempt /\ attempt[r] = 2
  BY DEF AppendConflict, OnlyMoves, ChainInv
<1>2. /\ pc' \in [Call -> {"idle"} \cup InFlight \cup Ended]
      /\ tenant' \in [Call -> Tenant \cup {None}]
      /\ attempt' \in [Call -> 0..MaxAttempts]
      /\ since' \in [Call -> Nat]
      /\ entry' = [c \in Call |-> entry'[c]]
  <2>1. /\ tenant' \in [Call -> Tenant \cup {None}]
        /\ since' \in [Call -> Nat]
    BY <1>1 DEF ChainInv
  <2>2. entry' = [c \in Call |-> entry'[c]]
    BY DEF AppendConflict, ChainInv
  <2>3. /\ pc' \in [Call -> {"idle"} \cup InFlight \cup Ended]
        /\ attempt' \in [Call -> 0..MaxAttempts]
    <3>1. /\ pc \in [Call -> {"idle"} \cup InFlight \cup Ended]
          /\ attempt \in [Call -> 0..MaxAttempts]
      BY DEF ChainInv
    <3> QED
      BY <3>1 DEF AppendConflict
  <2> QED
    BY <2>1, <2>2, <2>3
<1>3. PICK e \in Rows(log, tenant[r]) : e.seq = entry[r].seq
  BY DEF AppendConflict, SeqTaken
<1>4. CallInv(r) /\ attempt[r] \in Nat
  BY DEF ChainInv
<1>5. CallInv(r)'
  <2>1. CASE pc'[r] = "tail" /\ attempt'[r] = attempt[r] + 1
    BY <1>1, <1>3, <1>4, <2>1 DEF CallInv
  <2>2. CASE pc'[r] = "conflict" /\ attempt[r] = 2
    BY <1>1, <1>3, <1>4, <2>2 DEF CallInv
  <2> QED
    BY <1>1, <2>1, <2>2
<1> QED
  BY <1>1, <1>2, <1>5, NoRowStep

\* The number of an entry that is free is the next one of its tenant: the
\* number before it is taken.
LEMMA FreeIsNext ==
    ASSUME ChainInv, NEW r \in Call, pc[r] = "append", ~SeqTaken(r),
           NEW n \in Nat, Numbers(Rows(log, tenant[r]), n)
    PROVE  entry[r].seq = n + 1
<1> DEFINE S == Rows(log, tenant[r])
           seq == entry[r].seq
<1>1. seq \in Nat \ {0} /\ Follows(log, tenant[r], seq, entry[r].prev)
  BY DEF ChainInv, CallInv, Linked
<1>2. ~(seq \in 1..n)
  BY DEF Numbers, SeqTaken
<1>3. seq > n
  BY <1>1, <1>2
<1>4. seq = 1 \/ \E d \in S : d.seq + 1 = seq /\ d.seq \in 1..n
  BY <1>1 DEF Follows, Numbers
<1> QED
  BY <1>1, <1>3, <1>4

\* What Append does to the log.
LEMMA Appended ==
    ASSUME ChainInv, NEW r \in Call, Append(r),
           NEW n \in Nat, Numbers(Rows(log, tenant[r]), n)
    PROVE  LET t == tenant[r]
               e == StoredRow(t, n + 1, r, entry[r].prev)
           IN /\ t \in Tenant
              /\ entry[r].seq = n + 1
              /\ log' = log \cup {e}
              /\ IsStored(e)
              /\ Follows(log, t, n + 1, entry[r].prev)
              /\ \A d \in log : d.payload.value # r
              /\ Rows(log', t) = Rows(log, t) \cup {e}
              /\ \A u \in Tenant \ {t} : Rows(log', u) = Rows(log, u)
<1> DEFINE t == tenant[r]
           prev == entry[r].prev
           e == StoredRow(t, n + 1, r, prev)
<1>1. pc[r] = "append" /\ ~SeqTaken(r)
  BY DEF Append, Goto
<1>2. entry[r].seq = n + 1
  BY <1>1, FreeIsNext
<1>3. /\ t \in Tenant /\ entry[r] = Link(r, n + 1, prev)
      /\ Follows(log, t, n + 1, prev)
      /\ \A d \in log : d.payload.value # r
  BY <1>1, <1>2 DEF ChainInv, CallInv, Linked, InFlight
<1>4. log' = log \cup {e}
  BY <1>3, AppendedRow DEF Append
<1>5. e.tenant = t /\ e.seq = n + 1 /\ e.payload.value = r /\ e.prev = prev
  BY DEF StoredRow
<1>6. IsStored(e)
  BY <1>3, <1>5 DEF IsStored
<1> HIDE DEF e
<1>7. /\ Rows(log', t) = Rows(log, t) \cup {e}
      /\ \A u \in Tenant \ {t} : Rows(log', u) = Rows(log, u)
  BY <1>4, <1>5 DEF Rows
<1> QED
  BY <1>2, <1>3, <1>4, <1>6, <1>7 DEF e

LEMMA AppendStep ==
    ASSUME ChainInv, NEW r \in Call, Append(r)
    PROVE  ChainInv'
<1> USE DEF Goto, InFlight, Ended
<1> DEFINE t == tenant[r]
<1>1. /\ OnlyMoves(r) /\ tenant' = tenant /\ entry'[r] = None
      /\ pc[r] = "append" /\ pc'[r] \in {"recorded", "error"}
  BY DEF Append, Return, OnlyMoves, ChainInv
<1>2. t \in Tenant
  BY <1>1 DEF ChainInv, CallInv
<1>3. PICK n \in Nat : Numbers(Rows(log, t), n)
  BY <1>2 DEF ChainInv
<1>4. PICK e : e = StoredRow(t, n + 1, r, entry[r].prev)
  OBVIOUS
<1>5. /\ log' = log \cup {e} /\ IsStored(e)
      /\ Follows(log, t, n + 1, entry[r].prev)
      /\ \A d \in log : d.payload.value # r
      /\ Rows(log', t) = Rows(log, t) \cup {e}
      /\ \A u \in Tenant \ {t} : Rows(log', u) = Rows(log, u)
  BY <1>3, <1>4, Appended
<1>6. /\ e.tenant = t /\ e.seq = n + 1 /\ e.payload.value = r
      /\ e.prev = entry[r].prev
  BY <1>4 DEF StoredRow
<1>7. e \in Rows(log', t)
  BY <1>5
<1>8. CallInv(r)'
  BY <1>1, <1>2, <1>6, <1>7 DEF CallInv
<1>9. \A c \in Call : CallInv(c)'
  BY <1>1, <1>5, <1>6, <1>8, CallFrame DEF Grows, ChainInv
<1>10. \A u \in Tenant : \E m \in Nat : Numbers(Rows(log', u), m)
  <2>1. Numbers(Rows(log, t) \cup {e}, n + 1)
    BY <1>3, <1>6, NumbersNext
  <2>2. Numbers(Rows(log', t), n + 1)
    BY <1>5, <2>1, Zenon
  <2>3. ASSUME NEW u \in Tenant, u # t
        PROVE  \E m \in Nat : Numbers(Rows(log', u), m)
    <3>1. Rows(log', u) = Rows(log, u)
      BY <1>5, <2>3
    <3> QED
      BY <3>1 DEF ChainInv
  <2>4. n + 1 \in Nat
    OBVIOUS
  <2> QED
    BY <2>2, <2>3, <2>4
<1>11. \A u, seq, prev : Follows(log, u, seq, prev) => Follows(log', u, seq, prev)
  BY <1>5 DEF Follows, Rows
<1>12. \A d \in log' : IsStored(d) /\ Follows(log', d.tenant, d.seq, d.prev)
  <2>1. Follows(log', e.tenant, e.seq, e.prev)
    BY <1>5, <1>6, <1>11
  <2> QED
    BY <1>5, <1>11, <2>1 DEF ChainInv
<1>13. \A d, f \in log' : d.payload.value = f.payload.value => d = f
  BY <1>5, <1>6 DEF ChainInv
<1>14. /\ pc' \in [Call -> {"idle"} \cup InFlight \cup Ended]
       /\ tenant' \in [Call -> Tenant \cup {None}]
       /\ attempt' \in [Call -> 0..MaxAttempts]
       /\ since' \in [Call -> Nat]
       /\ entry' = [c \in Call |-> entry'[c]]
  <2>1. /\ attempt' = [attempt EXCEPT ![r] = 0]
        /\ since' = [since EXCEPT ![r] = 0]
        /\ entry' = [entry EXCEPT ![r] = None]
    BY DEF Append, Return
  <2>2. /\ pc' = [pc EXCEPT ![r] = pc'[r]]
        /\ tenant' = tenant
    BY DEF Append, ChainInv
  <2> QED
    BY <1>1, <2>1, <2>2 DEF ChainInv, MaxAttempts
<1> QED
  BY <1>9, <1>10, <1>12, <1>13, <1>14 DEF ChainInv

\* The invariant holds of every behaviour: whatever the calls do at the same
\* time, the rows of a tenant stay one chain.
THEOREM ChainInvHolds == Spec => []ChainInv
<1>1. ChainInv /\ [Next]_vars => ChainInv'
  <2> SUFFICES ASSUME ChainInv, [Next]_vars PROVE ChainInv'
    OBVIOUS
  <2>1. CASE Next
    BY <2>1, StartStep, FailStep, TailStep, ConflictStep, AppendStep
    DEF Next, Proceed
  <2>2. CASE UNCHANGED vars
    <3>1. \A c \in Call : CallInv(c)'
      BY <2>2, ZenonT(60) DEF vars, ChainInv, CallInv, Linked, Link
    <3>2. \A e \in log' : IsStored(e) /\ Follows(log', e.tenant, e.seq, e.prev)
      BY <2>2 DEF vars, ChainInv
    <3> QED
      BY <2>2, <3>1, <3>2 DEF vars, ChainInv
  <2> QED
    BY <2>1, <2>2
<1> QED
  BY <1>1, ChainInit, PTL DEF Spec

\* Every row, every entry and every field of a call has its type.
THEOREM AuditTypeCorrect == Spec => []TypeOK
<1>1. ChainInv => TypeOK
  <2> SUFFICES ASSUME ChainInv PROVE TypeOK
    OBVIOUS
  <2>1. ASSUME NEW e \in log PROVE IsRow(e)
    <3>1. IsStored(e)
      BY DEF ChainInv
    <3>2. /\ DOMAIN e = {"tenant", "seq", "fields", "payload", "severity",
                         "prev", "hash"}
          /\ e.payload = [value |-> e.payload.value, form |-> "jsonb"]
          /\ e.fields = e.payload.value
          /\ e.severity = SeverityOf[e.payload.value]
      BY <3>1 DEF IsStored, StoredRow
    <3> QED
      BY <3>1, <3>2, AuditAssumption DEF IsRow, IsStored, Payload, Form
  <2>2. ASSUME NEW c \in Call, entry[c] # None PROVE IsRow(entry[c])
    <3>1. Linked(c)
      BY <2>2 DEF ChainInv, CallInv
    <3>2. /\ DOMAIN entry[c] = {"tenant", "seq", "fields", "payload",
                                "severity", "prev", "hash"}
          /\ entry[c].tenant = tenant[c]
          /\ entry[c].fields = c
          /\ entry[c].payload = [value |-> c, form |-> "submitted"]
          /\ entry[c].severity = SeverityOf[c]
      BY <3>1 DEF Linked, Link
    <3> QED
      BY <3>1, <3>2, AuditAssumption DEF Linked, IsRow, Payload, Form
  <2> QED
    BY <2>1, <2>2 DEF ChainInv, TypeOK
<1> QED
  BY <1>1, ChainInvHolds, PTL

-----------------------------------------------------------------------------
(* Verification *)

\* What decoding leaves of the payload of a stored row is what was hashed.
LEMMA StoredRowParts ==
    ASSUME NEW e, IsStored(e)
    PROVE  /\ e.payload = [value |-> e.payload.value, form |-> "jsonb"]
           /\ e.hash = HashChainEntry(e.prev, e.seq, e.tenant, e.fields,
                                      CanonicalizeEntry(e.payload))
<1>1. /\ e.payload = [value |-> e.payload.value, form |-> "jsonb"]
      /\ e.fields = e.payload.value
      /\ e.hash = HashChainEntry(e.prev, e.seq, e.tenant, e.payload.value,
                        [value |-> Decoded[e.payload.value], form |-> "canonical"])
  BY DEF IsStored, StoredRow
<1> QED
  BY <1>1 DEF CanonicalizeEntry

\* A row passes wherever the rows before it are numbered from 1, the last of
\* them is the one it is linked to, and its hash is that of what it holds.
LEMMA Passes ==
    ASSUME NEW L, NEW t, \A d \in Rows(L, t) : d.seq \in Nat,
           NEW e \in Rows(L, t), e.seq \in Nat \ {0},
           Numbers({d \in Rows(L, t) : d.seq < e.seq}, e.seq - 1),
           \/ e.seq = 1 /\ e.prev = Genesis
           \/ \E d \in Rows(L, t) : d.seq + 1 = e.seq /\ d.hash = e.prev,
           e.hash = HashChainEntry(e.prev, e.seq, e.tenant, e.fields,
                                   CanonicalizeEntry(e.payload))
    PROVE  e \notin Broken(L, t)
<1> DEFINE before == {d \in Rows(L, t) : d.seq < e.seq}
<1>1. Cardinality(before) = e.seq - 1
  BY NumbersCount
<1>2. e.seq = Cardinality(before) + 1
  BY <1>1
<1>3. before = {} => e.seq = 1
  BY DEF Numbers
<1>4. e.seq = 1 => \A d \in before : FALSE
  BY DEF Numbers
<1>5. before = {} => e.prev = Genesis
  <2>1. ASSUME NEW d \in Rows(L, t), d.seq + 1 = e.seq PROVE d \in before
    BY <2>1
  <2> HIDE DEF before
  <2> QED
    BY <2>1
<1>6. ASSUME NEW d \in before, d.seq + 1 = e.seq
      PROVE  e.prev = d.hash
  <2>1. PICK b \in Rows(L, t) : b.seq + 1 = e.seq /\ b.hash = e.prev
    BY <1>4
  <2>2. b \in before /\ b.seq = d.seq
    BY <1>6, <2>1
  <2> HIDE DEF before
  <2>3. Numbers(before, e.seq - 1)
    BY DEF before
  <2>4. b = d
    BY <2>2, <2>3 DEF Numbers
  <2> QED
    BY <2>1, <2>4
<1> HIDE DEF before
<1> QED
  BY <1>2, <1>5, <1>6 DEF Broken, before

\* A row of the log passes wherever the rows before it are the ones it was
\* linked to.
LEMMA IntactBefore ==
    ASSUME ChainInv, NEW t \in Tenant, NEW e \in Rows(log, t), NEW L,
           e \in Rows(L, t), \A d \in Rows(L, t) : d.seq \in Nat,
           {d \in Rows(L, t) : d.seq < e.seq}
               = {d \in Rows(log, t) : d.seq < e.seq}
    PROVE  e \notin Broken(L, t)
<1> DEFINE S == Rows(log, t)
           before == {d \in S : d.seq < e.seq}
<1>1. /\ IsStored(e) /\ e.tenant = t /\ e.seq \in Nat \ {0}
      /\ Follows(log, t, e.seq, e.prev)
  BY DEF ChainInv, Rows, IsStored
<1>2. PICK n \in Nat : Numbers(S, n)
  BY DEF ChainInv
<1>3. \A d \in S : d.seq \in 1..n
  BY <1>2 DEF Numbers
<1>4. before = {d \in S : d.seq <= e.seq - 1}
  BY <1>1, <1>3
<1>5. Numbers(before, e.seq - 1)
  BY <1>1, <1>2, <1>3, <1>4, NumbersBefore
<1>6. \/ e.seq = 1 /\ e.prev = Genesis
      \/ \E d \in Rows(L, t) : d.seq + 1 = e.seq /\ d.hash = e.prev
  <2>1. ASSUME NEW d \in S, d.seq + 1 = e.seq, d.hash = e.prev
        PROVE  d \in Rows(L, t)
    <3>1. d.seq < e.seq
      BY <1>3, <2>1
    <3> QED
      BY <2>1, <3>1
  <2> QED
    BY <1>1, <2>1 DEF Follows
<1>7. e.hash = HashChainEntry(e.prev, e.seq, e.tenant, e.fields,
                              CanonicalizeEntry(e.payload))
  BY <1>1, StoredRowParts
<1> QED
  BY <1>1, <1>5, <1>6, <1>7, Passes

\* VerifyChain reports the first broken row.
LEMMA FirstBroken ==
    ASSUME NEW L, NEW t, NEW b \in Broken(L, t), b.seq \in Nat,
           \A d \in Broken(L, t) : d.seq \in Nat /\ b.seq <= d.seq
    PROVE  VerifyChain(L, t) = b.seq
<1> DEFINE B == {d.seq : d \in Broken(L, t)}
           Q(s) == \A u \in B : s <= u
<1>1. \A s \in B : Q(s) => s = b.seq
  OBVIOUS
<1>2. b.seq \in B /\ Q(b.seq)
  OBVIOUS
<1>3. (CHOOSE s \in B : Q(s)) = b.seq
  BY <1>1, <1>2
<1> QED
  BY <1>2, <1>3 DEF VerifyChain

\* Whatever the calls did at the same time, every chain verifies: the rows of
\* a tenant are numbered from 1 without a gap, each is linked to the one
\* before and hashed over what reads back.
THEOREM EveryChainVerifies == Spec => []ChainsVerify
<1>1. ChainInv => ChainsVerify
  <2> SUFFICES ASSUME ChainInv, NEW t \in Tenant PROVE VerifyChain(log, t) = 0
    BY DEF ChainsVerify
  <2>1. \A e \in Rows(log, t) : e.seq \in Nat
    BY DEF ChainInv, IsStored, Rows
  <2>2. \A e \in Rows(log, t) : e \notin Broken(log, t)
    BY <2>1, IntactBefore
  <2>3. Broken(log, t) = {}
    BY <2>2 DEF Broken
  <2> QED
    BY <2>3 DEF VerifyChain
<1> QED
  BY <1>1, ChainInvHolds, PTL

\* A stored row that was edited keeps its place and its chain_hash, which is
\* still that of what it holds only if the text that is hashed is the same.
Edited(e, f, v, s) == [e EXCEPT !.fields = f, !.payload.value = v, !.severity = s]

Unseen(e, f, v) ==
    /\ Joined[f] = Joined[e.fields]
    /\ Decoded[v] = Decoded[e.payload.value]

LEMMA EditedRow ==
    ASSUME NEW e, IsStored(e), NEW f, NEW v, NEW s
    PROVE  LET g == Edited(e, f, v, s)
           IN /\ g.tenant = e.tenant /\ g.seq = e.seq
              /\ g.prev = e.prev /\ g.hash = e.hash
              /\ Unseen(e, f, v) <=>
                    g.hash = HashChainEntry(g.prev, g.seq, g.tenant, g.fields,
                                            CanonicalizeEntry(g.payload))
<1> DEFINE p == [value |-> v, form |-> "jsonb"]
           w == e.payload.value
           g == [e EXCEPT !.fields = f, !.payload = p, !.severity = s]
           canon(x) == [value |-> Decoded[x], form |-> "canonical"]
<1>1. /\ e = StoredRow(e.tenant, e.seq, w, e.prev)
      /\ e.payload = [value |-> w, form |-> "jsonb"]
  BY StoredRowParts DEF IsStored
<1>2. [e.payload EXCEPT !.value = v] = p
  BY <1>1
<1>3. Edited(e, f, v, s) = g
  BY <1>2, Zenon DEF Edited
<1>4. /\ g.tenant = e.tenant /\ g.seq = e.seq /\ g.prev = e.prev
      /\ g.fields = f /\ g.payload = p /\ g.hash = e.hash
  BY <1>1 DEF StoredRow
<1>5. /\ e.hash = HashChainEntry(e.prev, e.seq, e.tenant, w, canon(w))
      /\ e.fields = w
  BY <1>1 DEF StoredRow
<1>6. CanonicalizeEntry(p) = canon(v)
  BY DEF CanonicalizeEntry
<1>7. canon(v) = canon(w) <=> Decoded[v] = Decoded[w]
  BY Zenon
<1> HIDE DEF canon
<1>8. HashChainEntry(e.prev, e.seq, e.tenant, f, canon(v))
          = HashChainEntry(e.prev, e.seq, e.tenant, w, canon(w))
        <=> Joined[f] = Joined[w] /\ canon(v) = canon(w)
  BY DEF HashChainEntry
<1>9. Unseen(e, f, v) <=>
        g.hash = HashChainEntry(g.prev, g.seq, g.tenant, g.fields,
                                CanonicalizeEntry(g.payload))
  BY <1>4, <1>5, <1>6, <1>7, <1>8, Zenon DEF Unseen
<1> QED
  BY <1>3, <1>4, <1>9, Zenon

\* A row of the same number in the place of e.
LEMMA NumbersSwap ==
    ASSUME NEW S, NEW n \in Nat, Numbers(S, n), NEW e \in S,
           NEW g, g.seq = e.seq
    PROVE  Numbers((S \ {e}) \cup {g}, n)
<1>1. e.seq \in 1..n /\ \A d \in S \ {e} : d.seq \in 1..n /\ d.seq # e.seq
  BY DEF Numbers
<1>2. \A d, b \in S \ {e} : d.seq = b.seq => d = b
  BY DEF Numbers
<1>3. \A i \in 1..n : i = e.seq \/ \E d \in S \ {e} : d.seq = i
  BY DEF Numbers
<1> QED
  BY <1>1, <1>2, <1>3 DEF Numbers

\* With another row in the place of e, all but that row still pass.
LEMMA OthersPass ==
    ASSUME ChainInv, NEW t \in Tenant, NEW e \in Rows(log, t),
           NEW g, g.tenant = t, g.seq = e.seq, g.hash = e.hash,
           NEW d \in Rows((log \ {e}) \cup {g}, t), d # g
    PROVE  d \notin Broken((log \ {e}) \cup {g}, t)
<1> DEFINE L == (log \ {e}) \cup {g}
           S == Rows(log, t)
           R == Rows(L, t)
<1>1. R = (S \ {e}) \cup {g} /\ d \in S /\ d # e
  BY DEF Rows
<1>2. PICK n \in Nat : Numbers(S, n)
  BY DEF ChainInv
<1>3. Numbers(R, n)
  <2>1. Numbers((S \ {e}) \cup {g}, n)
    BY <1>2, NumbersSwap
  <2> QED
    BY <1>1, <2>1, Zenon
<1>4. /\ IsStored(d) /\ d.tenant = t /\ d.seq \in Nat \ {0}
      /\ Follows(log, t, d.seq, d.prev)
  BY <1>1 DEF ChainInv, Rows, IsStored
<1> HIDE DEF R
<1>5. \A b \in R : b.seq \in 1..n
  BY <1>3 DEF Numbers
<1>6. {b \in R : b.seq < d.seq} = {b \in R : b.seq <= d.seq - 1}
  BY <1>4, <1>5
<1>7. Numbers({b \in R : b.seq < d.seq}, d.seq - 1)
  <2>1. d.seq - 1 \in 0..n
    BY <1>1, <1>4, <1>5
  <2> QED
    BY <1>3, <1>6, <2>1, NumbersBefore
<1>8. \/ d.seq = 1 /\ d.prev = Genesis
      \/ \E b \in R : b.seq + 1 = d.seq /\ b.hash = d.prev
  BY <1>1, <1>4 DEF Follows
<1>9. d.hash = HashChainEntry(d.prev, d.seq, d.tenant, d.fields,
                              CanonicalizeEntry(d.payload))
  BY <1>4, StoredRowParts
<1>10. d \in R /\ \A b \in R : b.seq \in Nat
  BY <1>1, <1>5
<1> QED
  BY <1>4, <1>7, <1>8, <1>9, <1>10, Passes DEF R

\* An edited row passes if its hash is that of what it holds.
LEMMA EditedPasses ==
    ASSUME ChainInv, NEW t \in Tenant, NEW e \in Rows(log, t),
           NEW g, g.tenant = t, g.seq = e.seq, g.prev = e.prev,
           g.hash = HashChainEntry(g.prev, g.seq, g.tenant, g.fields,
                                   CanonicalizeEntry(g.payload))
    PROVE  g \notin Broken((log \ {e}) \cup {g}, t)
<1> DEFINE L == (log \ {e}) \cup {g}
           S == Rows(log, t)
           R == Rows(L, t)
<1>1. R = (S \ {e}) \cup {g}
  BY DEF Rows
<1>2. PICK n \in Nat : Numbers(S, n)
  BY DEF ChainInv
<1>3. Numbers(R, n)
  <2>1. Numbers((S \ {e}) \cup {g}, n)
    BY <1>2, NumbersSwap
  <2> QED
    BY <1>1, <2>1, Zenon
<1>4. g.seq \in Nat \ {0} /\ Follows(log, t, g.seq, g.prev)
  BY DEF ChainInv, Rows, IsStored
<1> HIDE DEF R
<1>5. \A b \in R : b.seq \in 1..n
  BY <1>3 DEF Numbers
<1>6. {b \in R : b.seq < g.seq} = {b \in R : b.seq <= g.seq - 1}
  BY <1>4, <1>5
<1>7. Numbers({b \in R : b.seq < g.seq}, g.seq - 1)
  <2>1. g.seq - 1 \in 0..n
    BY <1>1, <1>4, <1>5
  <2> QED
    BY <1>3, <1>6, <2>1, NumbersBefore
<1>8. \/ g.seq = 1 /\ g.prev = Genesis
      \/ \E b \in R : b.seq + 1 = g.seq /\ b.hash = g.prev
  <2>1. ASSUME NEW b \in S, b.seq + 1 = g.seq PROVE b # e
    BY <1>4, <2>1
  <2> QED
    BY <1>1, <1>4, <2>1 DEF Follows
<1>9. g \in R /\ \A b \in R : b.seq \in Nat
  BY <1>1, <1>5
<1> QED
  BY <1>4, <1>7, <1>8, <1>9, Passes DEF R

\* An edit of a stored row that keeps its chain_hash shows at that very row if
\* it changes the text that is hashed, and nowhere if it does not: the
\* severity, fields that join alike and numbers that decode alike.
THEOREM EditsShow == Spec => []EditShows
<1>1. ChainInv => EditShows
  <2> SUFFICES ASSUME ChainInv, NEW e \in log, NEW f \in Fields,
                      NEW v \in Value, NEW s \in Severity
               PROVE  VerifyChain((log \ {e}) \cup {Edited(e, f, v, s)}, e.tenant)
                        = IF Unseen(e, f, v) THEN 0 ELSE e.seq
    BY DEF EditShows, Edited, Unseen
  <2> DEFINE t == e.tenant
  <2>1. PICK g : g = Edited(e, f, v, s)
    OBVIOUS
  <2>2. IsStored(e) /\ t \in Tenant /\ e.seq \in Nat /\ e \in Rows(log, t)
    BY DEF ChainInv, IsStored, Rows
  <2>3. /\ g.tenant = t /\ g.seq = e.seq /\ g.prev = e.prev /\ g.hash = e.hash
        /\ Unseen(e, f, v) <=>
              g.hash = HashChainEntry(g.prev, g.seq, g.tenant, g.fields,
                                      CanonicalizeEntry(g.payload))
    BY <2>1, <2>2, EditedRow
  <2> DEFINE L == (log \ {e}) \cup {g}
  <2>4. \A d \in Broken(L, t) : d = g
    <3>1. \A d \in Broken(L, t) : d \in Rows(L, t)
      BY DEF Broken
    <3> QED
      BY <2>2, <2>3, <3>1, OthersPass
  <2>5. VerifyChain(L, t) = IF Unseen(e, f, v) THEN 0 ELSE e.seq
    <3>1. CASE Unseen(e, f, v)
      <4>1. g \notin Broken(L, t)
        BY <2>2, <2>3, <3>1, EditedPasses
      <4>2. Broken(L, t) = {}
        BY <2>4, <4>1
      <4> QED
        BY <3>1, <4>2 DEF VerifyChain
    <3>2. CASE ~Unseen(e, f, v)
      <4>1. g \in Broken(L, t)
        BY <2>3, <3>2 DEF Broken, Rows
      <4>2. g.seq \in Nat /\ g.seq <= g.seq
        BY <2>2, <2>3
      <4>3. VerifyChain(L, t) = g.seq
        BY <2>4, <4>1, <4>2, FirstBroken
      <4> QED
        BY <2>3, <3>2, <4>3
    <3> QED
      BY <3>1, <3>2
  <2> QED
    BY <2>1, <2>5, Zenon
<1> QED
  BY <1>1, ChainInvHolds, PTL

\* Taking out a row that is not the newest shows at the row that followed it,
\* by its position.
THEOREM RemovalsShow == Spec => []RemovalShows
<1>1. ChainInv => RemovalShows
  <2> SUFFICES ASSUME ChainInv, NEW e \in log,
                      NEW g \in Rows(log, e.tenant), g.seq > e.seq
               PROVE  VerifyChain(log \ {e}, e.tenant) = e.seq + 1
    BY DEF RemovalShows
  <2> DEFINE t == e.tenant
             S == Rows(log, t)
             L == log \ {e}
  <2>1. t \in Tenant /\ e.seq \in Nat \ {0} /\ e \in S
    BY DEF ChainInv, IsStored, Rows
  <2>2. PICK n \in Nat : Numbers(S, n)
    BY <2>1 DEF ChainInv
  <2>3. \A d \in S : d.seq \in 1..n
    BY <2>2 DEF Numbers
  <2>4. e.seq + 1 \in 1..n
    BY <2>1, <2>3
  <2>5. PICK h \in S : h.seq = e.seq + 1
    BY <2>2, <2>4 DEF Numbers
  <2>6. h # e
    BY <2>1, <2>5
  <2>7. h \in Broken(L, t)
    <3> DEFINE before == {d \in Rows(L, t) : d.seq < h.seq}
    <3>1. before = {d \in S : d.seq <= e.seq - 1}
      <4>1. ASSUME NEW d \in S
            PROVE  d # e /\ d.seq < h.seq <=> d.seq <= e.seq - 1
        <5>1. d # e => d.seq # e.seq
          BY <2>1, <2>2 DEF Numbers
        <5> QED
          BY <2>1, <2>3, <2>5, <5>1
      <4>2. Rows(L, t) = S \ {e}
        BY DEF Rows
      <4> QED
        BY <4>1, <4>2
    <3>2. e.seq - 1 \in 0..n
      BY <2>1, <2>3
    <3>3. Numbers(before, e.seq - 1)
      BY <2>2, <3>1, <3>2, NumbersBefore
    <3>4. Cardinality(before) = e.seq - 1
      BY <3>2, <3>3, NumbersCount
    <3>5. h.seq # Cardinality(before) + 1
      BY <2>1, <2>5, <3>4
    <3>6. h \in Rows(L, t)
      BY <2>6 DEF Rows
    <3> HIDE DEF before
    <3> QED
      BY <3>5, <3>6 DEF Broken, before
  <2>8. ASSUME NEW d \in Broken(L, t) PROVE d.seq \in Nat /\ h.seq <= d.seq
    <3>1. d \in S /\ d # e
      BY DEF Broken, Rows
    <3>2. d.seq \in Nat /\ d.seq # e.seq
      BY <2>1, <2>2, <2>3, <3>1 DEF Numbers
    <3>3. ASSUME d.seq < e.seq PROVE FALSE
      <4>1. {b \in Rows(L, t) : b.seq < d.seq} = {b \in S : b.seq < d.seq}
        <5>1. ~(e.seq < d.seq)
          BY <2>1, <3>2, <3>3
        <5> QED
          BY <5>1 DEF Rows
      <4>2. d \in Rows(L, t) /\ \A b \in Rows(L, t) : b.seq \in Nat
        BY <2>3, <3>1 DEF Rows
      <4> QED
        BY <2>1, <3>1, <4>1, <4>2, IntactBefore
    <3> QED
      BY <2>1, <2>5, <3>2, <3>3
  <2>9. h.seq \in Nat
    BY <2>1, <2>5
  <2>10. VerifyChain(L, t) = h.seq
    BY <2>7, <2>8, <2>9, FirstBroken
  <2> QED
    BY <2>5, <2>10
<1> QED
  BY <1>1, ChainInvHolds, PTL

-----------------------------------------------------------------------------
(* Calls *)

\* A call writes at most one row, and one that reports success exactly one,
\* for its own tenant: the retry follows a conflict only.
THEOREM CallsWriteOnce == Spec => []OneRowPerCall
<1>1. ChainInv => OneRowPerCall
  BY DEF ChainInv, CallInv, OneRowPerCall
<1> QED
  BY <1>1, ChainInvHolds, PTL

\* Record gives an event up for conflicts only when two rows of other calls
\* entered its tenant's log after it first read the tail: each conflict is about
\* a number later than the tail the call had read.
THEOREM DroppedWhenBeatenTwice == Spec => []DroppedOnlyIfBeatenTwice
<1>1. ChainInv => DroppedOnlyIfBeatenTwice
  <2> SUFFICES ASSUME ChainInv, NEW c \in Call, pc[c] = "conflict"
               PROVE  /\ Cardinality(Rows(log, tenant[c])) >= since[c] + 2
                      /\ \A e \in log : e.payload.value # c
    BY DEF DroppedOnlyIfBeatenTwice
  <2>1. CallInv(c) /\ tenant[c] \in Tenant
    BY DEF ChainInv, CallInv
  <2>2. PICK n \in Nat : Numbers(Rows(log, tenant[c]), n)
    BY <2>1 DEF ChainInv
  <2>3. n >= since[c] + 2
    <3>1. PICK e \in Rows(log, tenant[c]) : e.seq > since[c] + 1
      BY <2>1 DEF CallInv
    <3>2. e.seq \in 1..n /\ since[c] \in Nat
      BY <2>2 DEF Numbers, ChainInv
    <3> QED
      BY <3>1, <3>2
  <2>4. Cardinality(Rows(log, tenant[c])) = n
    BY <2>2, NumbersCount
  <2> QED
    BY <2>1, <2>3, <2>4 DEF CallInv
<1> QED
  BY <1>1, ChainInvHolds, PTL

-----------------------------------------------------------------------------
(***************************************************************************)
(* The log implements AuditTrail: Append is Record, every other step is    *)
(* not seen.                                                               *)
(***************************************************************************)

\* The sequence of a tenant, from the rows and how many there are.
Read(S, n) == [i \in 1..n |-> (CHOOSE e \in S : e.seq = i).payload.value]

LEMMA TrailRead ==
    ASSUME ChainInv, NEW t \in Tenant,
           NEW n \in Nat, Numbers(Rows(log, t), n)
    PROVE  trail[t] = Read(Rows(log, t), n)
<1>1. Cardinality(Rows(log, t)) = n
  BY NumbersCount
<1> QED
  BY <1>1, Zenon DEF trail, Read

\* An element of the sequence is the value of a row.
LEMMA ReadRow ==
    ASSUME NEW S, NEW n \in Nat, Numbers(S, n), NEW i \in 1..n
    PROVE  \E e \in S : e.seq = i /\ Read(S, n)[i] = e.payload.value
<1>1. \E e \in S : e.seq = i
  BY DEF Numbers
<1> QED
  BY <1>1 DEF Read

\* The next row adds its value at the end and moves nothing.
LEMMA ReadNext ==
    ASSUME NEW S, NEW n \in Nat, Numbers(S, n), NEW e, e.seq = n + 1,
           NEW T, T = S \cup {e}, NEW v, v = e.payload.value
    PROVE  Read(T, n + 1)
               = [i \in 1..(n+1) |-> IF i <= n THEN Read(S, n)[i] ELSE v]
<1>1. ASSUME NEW i \in 1..n
      PROVE  (CHOOSE d \in S \cup {e} : d.seq = i) = (CHOOSE d \in S : d.seq = i)
  <2>1. PICK d \in S : d.seq = i
    BY DEF Numbers
  <2>2. \A b \in S \cup {e} : b.seq = i => b = d
    BY <2>1 DEF Numbers
  <2>3. (CHOOSE b \in S \cup {e} : b.seq = i) = d
    BY <2>1, <2>2
  <2>4. (CHOOSE b \in S : b.seq = i) = d
    BY <2>1, <2>2
  <2> QED
    BY <2>3, <2>4
<1>2. (CHOOSE d \in S \cup {e} : d.seq = n + 1) = e
  BY DEF Numbers
<1>3. ASSUME NEW i \in 1..(n+1)
      PROVE  (CHOOSE d \in S \cup {e} : d.seq = i).payload.value
                 = IF i <= n THEN Read(S, n)[i] ELSE e.payload.value
  <2>1. CASE i \in 1..n
    <3>1. Read(S, n)[i] = (CHOOSE d \in S : d.seq = i).payload.value
      BY <2>1 DEF Read
    <3>2. (CHOOSE d \in S \cup {e} : d.seq = i).payload.value = Read(S, n)[i]
      BY <1>1, <2>1, <3>1, Zenon
    <3>3. i <= n
      BY <2>1
    <3> QED
      BY <3>2, <3>3, Zenon
  <2>2. CASE i = n + 1
    <3>1. (CHOOSE d \in S \cup {e} : d.seq = i) = e
      BY <1>2, <2>2, Zenon
    <3>2. (CHOOSE d \in S \cup {e} : d.seq = i).payload.value = e.payload.value
      BY <3>1, Zenon
    <3>3. ~(i <= n)
      BY <2>2
    <3> QED
      BY <3>2, <3>3
  <2> QED
    BY <2>1, <2>2
<1>4. Read(S \cup {e}, n + 1)
          = [i \in 1..(n+1) |-> IF i <= n THEN Read(S, n)[i] ELSE e.payload.value]
  BY <1>3 DEF Read
<1> QED
  BY <1>4, Zenon

\* Sequences under another name: Append is an action here.
Sq == INSTANCE SequenceTheorems

\* A function on 1..n+1 that ends in v is its beginning followed by v.
LEMMA AtTheEnd ==
    ASSUME NEW v \in Call, NEW n \in Nat, NEW s \in [1..n -> Call]
    PROVE  Sq!Append(s, v) = [i \in 1..(n+1) |-> IF i <= n THEN s[i] ELSE v]
<1>1. s \in Sq!Seq(Call) /\ Sq!Len(s) = n
  OBVIOUS
<1>2. Sq!Append(s, v) \in Sq!Seq(Call) /\ Sq!Len(Sq!Append(s, v)) = n + 1
  BY <1>1
<1>3. \A i \in 1..n : Sq!Append(s, v)[i] = s[i]
  BY <1>1
<1>4. Sq!Append(s, v)[n+1] = v
  BY <1>1
<1>5. PICK q : q = Sq!Append(s, v)
  OBVIOUS
<1>6. q \in [1..(n+1) -> Call]
  BY <1>2, <1>5, Sq!LenProperties
<1>7. \A i \in 1..(n+1) : q[i] = IF i <= n THEN s[i] ELSE v
  BY <1>3, <1>4, <1>5
<1> QED
  BY <1>5, <1>6, <1>7

\* Append records the value of its call at the end of its tenant's sequence.
LEMMA AppendRecords ==
    ASSUME ChainInv, ChainInv', NEW r \in Call, Append(r)
    PROVE  Trail!Record(tenant[r], r)
<1>1. tenant[r] \in Tenant
  BY DEF Append, Goto, ChainInv, CallInv, InFlight
<1>2. PICK t \in Tenant : t = tenant[r]
  BY <1>1
<1>3. PICK n \in Nat : Numbers(Rows(log, t), n)
  BY DEF ChainInv
<1>4. PICK e : e = StoredRow(t, n + 1, r, entry[r].prev)
  OBVIOUS
<1>5. /\ \A d \in log : d.payload.value # r
      /\ Rows(log', t) = Rows(log, t) \cup {e}
      /\ \A u \in Tenant \ {t} : Rows(log', u) = Rows(log, u)
  BY <1>2, <1>3, <1>4, Appended
<1>6. e.seq = n + 1 /\ e.payload.value = r
  BY <1>4 DEF StoredRow
<1> DEFINE s == Read(Rows(log, t), n)
<1>7. trail[t] = s
  BY <1>3, TrailRead
<1>8. s \in [1..n -> Call]
  <2>1. \A i \in 1..n : s[i] \in Call
    BY <1>3, ReadRow DEF ChainInv, IsStored, Rows
  <2> QED
    BY <2>1 DEF Read
<1>9. trail'[t] = Sq!Append(s, r)
  <2>1. Numbers(Rows(log, t) \cup {e}, n + 1)
    BY <1>3, <1>6, NumbersNext
  <2>2. Cardinality(Rows(log', t)) = n + 1
    <3>1. n + 1 \in Nat
      OBVIOUS
    <3>2. Cardinality(Rows(log, t) \cup {e}) = n + 1
      BY <2>1, <3>1, NumbersCount
    <3> QED
      BY <1>5, <3>2, Zenon
  <2>3. trail'[t] = Read(Rows(log', t), n + 1)
    BY <2>2, Zenon DEF trail, Read
  <2>4. Read(Rows(log', t), n + 1)
            = [i \in 1..(n+1) |-> IF i <= n THEN s[i] ELSE r]
    <3>1. PICK S, T : S = Rows(log, t) /\ T = Rows(log', t)
      OBVIOUS
    <3>2. Numbers(S, n) /\ T = S \cup {e} /\ e.seq = n + 1
          /\ r = e.payload.value
      BY <1>3, <1>5, <1>6, <3>1, Zenon
    <3>3. Read(T, n + 1) = [i \in 1..(n+1) |-> IF i <= n THEN Read(S, n)[i] ELSE r]
      BY <3>2, ReadNext
    <3> QED
      BY <3>1, <3>3, Zenon
  <2>5. trail'[t] = [i \in 1..(n+1) |-> IF i <= n THEN s[i] ELSE r]
    BY <2>3, <2>4, Zenon
  <2> QED
    BY <1>8, <2>5, AtTheEnd, Zenon
<1>10. \A u \in Tenant \ {t} : trail'[u] = trail[u]
  <2>1. \A u \in Tenant :
            /\ trail[u] = Read(Rows(log, u), Cardinality(Rows(log, u)))
            /\ trail'[u] = Read(Rows(log', u), Cardinality(Rows(log', u)))
    BY Zenon DEF trail, Read
  <2> QED
    BY <1>5, <2>1, Zenon
<1>11. Trail!Unrecorded(r)
  <2> SUFFICES ASSUME NEW u \in Tenant, NEW i \in 1..Sq!Len(trail[u])
               PROVE  trail[u][i] # r
    BY DEF Trail!Unrecorded
  <2>1. PICK m \in Nat : Numbers(Rows(log, u), m)
    BY DEF ChainInv
  <2>2. trail[u] = Read(Rows(log, u), m)
    BY <2>1, TrailRead
  <2>3. Sq!Len(trail[u]) = m
    BY <2>2 DEF Read
  <2> QED
    BY <1>5, <2>1, <2>2, <2>3, ReadRow DEF Rows
<1>12. /\ trail = [u \in Tenant |-> trail[u]]
       /\ trail' = [u \in Tenant |-> trail'[u]]
  BY Zenon DEF trail
<1>13. trail' = [trail EXCEPT ![t] = Sq!Append(@, r)]
  BY <1>7, <1>9, <1>10, <1>12
<1> QED
  BY <1>2, <1>11, <1>13 DEF Trail!Record

\* The audit log implements the trail it promises its readers: an event
\* enters its tenant's sequence at the end, at most once, and none is moved,
\* changed or taken out.
THEOREM LogKeepsTrail == Spec => KeepsTrail
<1>1. Init => Trail!Init
  <2> SUFFICES ASSUME Init PROVE Trail!Init
    OBVIOUS
  <2>1. \A t \in Tenant : Numbers(Rows(log, t), 0)
    BY DEF Init, Rows, Numbers
  <2>2. \A t \in Tenant : trail[t] = Read(Rows(log, t), 0)
    BY <2>1, ChainInit, TrailRead
  <2>3. \A t \in Tenant : trail[t] = << >>
    BY <2>2 DEF Read
  <2>4. trail = [t \in Tenant |-> trail[t]]
    BY Zenon DEF trail
  <2> QED
    BY <2>3, <2>4 DEF Trail!Init
<1>2. ChainInv /\ ChainInv' /\ [Next]_vars => [Trail!Next]_trail
  <2> SUFFICES ASSUME ChainInv, ChainInv', [Next]_vars
               PROVE  Trail!Next \/ UNCHANGED trail
    OBVIOUS
  <2>1. ASSUME NEW r \in Call, Append(r) PROVE Trail!Next
    <3>1. tenant[r] \in Tenant
      BY <2>1 DEF Append, Goto, ChainInv, CallInv, InFlight
    <3> QED
      BY <2>1, <3>1, AppendRecords DEF Trail!Next
  <2>2. CASE log' = log
    BY <2>2 DEF trail
  <2> QED
    BY <2>1, <2>2
    DEF Next, Proceed, Start, StartTenantless, ReadTail, AppendConflict, Fail, vars
<1> QED
  BY <1>1, <1>2, ChainInvHolds, PTL DEF Spec, KeepsTrail, Trail!Spec

-----------------------------------------------------------------------------
(* Liveness.  Runs(c) is the fairness of FairSpec for one call with the    *)
(* condition in place of ENABLED.  WF_vars(Proceed(c)) gives Runs(c),      *)
(* because a call in flight always has a step: GuardHolds.                 *)

Runs(c) == []<>(pc[c] \notin InFlight) \/ []<><<Proceed(c)>>_vars

\* The guards of ReadTail, Append and AppendConflict leave no call waiting:
\* a log that has rows has a newest one, and a number that is taken ends the
\* loop or leaves an attempt.
LEMMA GuardHolds ==
    ASSUME ChainInv, NEW c \in Call, pc[c] \in InFlight
    PROVE  /\ pc[c] = "tail" =>
                \/ Rows(log, tenant[c]) = {}
                \/ \E e \in Rows(log, tenant[c]) :
                      \A d \in Rows(log, tenant[c]) : d.seq <= e.seq
           /\ pc[c] = "append" =>
                \/ ~SeqTaken(c)
                \/ attempt[c] < MaxAttempts
                \/ attempt[c] = MaxAttempts
<1> DEFINE S == Rows(log, tenant[c])
<1>1. PICK n \in Nat : Numbers(S, n)
  BY DEF ChainInv, CallInv
<1>2. CASE n = 0
  <2>1. S = {}
    BY <1>1, <1>2 DEF Numbers
  <2> QED
    BY <2>1 DEF ChainInv, MaxAttempts
<1>3. CASE n > 0
  <2>1. PICK e \in S : e.seq = n
    BY <1>1, <1>3 DEF Numbers
  <2>2. \A d \in S : d.seq <= e.seq
    BY <1>1, <2>1 DEF Numbers
  <2> QED
    BY <2>2 DEF ChainInv, MaxAttempts
<1> QED
  BY <1>1, <1>2, <1>3

\* How many statements a call has left at most, the retry included.
Left(c) ==
    IF pc[c] = "idle" THEN 2 * MaxAttempts + 1
    ELSE IF pc[c] \in Ended THEN 0
    ELSE 2 * (MaxAttempts - attempt[c]) + (IF pc[c] = "tail" THEN 2 ELSE 1)

LEMMA LeftBounded ==
    ASSUME ChainInv, NEW c \in Call
    PROVE  /\ Left(c) \in Nat
           /\ pc[c] \in InFlight <=> Left(c) <= 4 /\ ~(Left(c) <= 0)
           /\ pc[c] \in Ended <=> Left(c) <= 0
<1>1. pc[c] \in {"idle"} \cup InFlight \cup Ended /\ attempt[c] \in 0..2
  BY DEF ChainInv, MaxAttempts
<1>2. pc[c] \in InFlight => attempt[c] > 0
  BY DEF ChainInv, CallInv
<1> QED
  BY <1>1, <1>2 DEF Left, InFlight, Ended, MaxAttempts

\* A step of a call brings it nearer to its end: a retry uses up an attempt.
LEMMA ProceedsForward ==
    ASSUME ChainInv, NEW c \in Call, Proceed(c)
    PROVE  Left(c)' < Left(c) /\ Left(c)' \in Nat
<1>1. /\ pc \in [Call -> {"idle"} \cup InFlight \cup Ended]
      /\ attempt \in [Call -> 0..2]
  BY DEF ChainInv, MaxAttempts
<1>2. pc[c] \in InFlight => attempt[c] > 0
  BY DEF ChainInv, CallInv
<1>3. CASE ReadTail(c)
  <2>1. pc[c] = "tail" /\ pc'[c] = "append" /\ attempt' = attempt
    BY <1>1, <1>3 DEF ReadTail, Goto
  <2> QED
    BY <1>1, <2>1 DEF Left, Ended, MaxAttempts
<1>4. CASE Append(c)
  <2>1. pc[c] = "append" /\ pc'[c] \in Ended
    BY <1>1, <1>4 DEF Append, Goto, Ended
  <2> QED
    BY <1>1, <2>1 DEF Left, Ended, MaxAttempts
<1>5. CASE AppendConflict(c)
  <2>1. \/ /\ pc[c] = "append" /\ pc'[c] = "tail"
           /\ attempt[c] < 2 /\ attempt'[c] = attempt[c] + 1
        \/ pc[c] = "append" /\ pc'[c] = "conflict"
    BY <1>1, <1>5 DEF AppendConflict, Goto, MaxAttempts
  <2> QED
    BY <1>1, <2>1 DEF Left, Ended, MaxAttempts
<1> QED
  BY <1>3, <1>4, <1>5 DEF Proceed

\* No step takes a call that has started farther from its end.
LEMMA NeverBack ==
    ASSUME ChainInv, [Next]_vars, NEW c \in Call,
           NEW n \in 0..4, Left(c) <= n
    PROVE  Left(c)' <= n
<1>1. CASE pc'[c] = pc[c] /\ attempt'[c] = attempt[c]
  BY <1>1 DEF Left
<1>2. CASE Start(c) \/ StartTenantless(c)
  <2>1. pc[c] = "idle"
    BY <1>2 DEF Start, StartTenantless, Goto
  <2> QED
    BY <2>1 DEF Left, MaxAttempts
<1>3. CASE Proceed(c)
  <2>1. Left(c) \in Nat
    BY LeftBounded
  <2>2. Left(c)' < Left(c) /\ Left(c)' \in Nat
    BY <1>3, ProceedsForward
  <2> QED
    BY <2>1, <2>2
<1>4. CASE Fail(c)
  <2>1. pc'[c] = "error"
    BY <1>4 DEF Fail, ChainInv
  <2> QED
    BY <2>1 DEF Left, Ended
<1>5. CASE UNCHANGED vars
  BY <1>1, <1>5 DEF vars
<1>6. ASSUME NEW d \in Call, d # c,
             Start(d) \/ StartTenantless(d) \/ Proceed(d) \/ Fail(d)
      PROVE  pc'[c] = pc[c] /\ attempt'[c] = attempt[c]
  BY <1>6 DEF ChainInv, Start, StartTenantless, Proceed, ReadTail, Append,
      AppendConflict, Fail, Return, Goto
<1> QED
  BY <1>1, <1>2, <1>3, <1>4, <1>5, <1>6 DEF Next

LEMMA CallReturns ==
    ASSUME NEW c \in Call
    PROVE  []ChainInv /\ [][Next]_vars /\ Runs(c)
               => (pc[c] \in InFlight ~> pc[c] \in Ended)
<1> DEFINE Within(n) == Left(c) <= n
<1>1. ASSUME NEW n \in 0..4
      PROVE  ChainInv /\ [Next]_vars /\ Within(n) => Within(n)'
  BY NeverBack
<1>2. ASSUME NEW n \in 1..4
      PROVE  ChainInv /\ <<Proceed(c)>>_vars /\ Within(n) => Within(n - 1)'
  <2> SUFFICES ASSUME ChainInv, Proceed(c), Left(c) <= n
               PROVE  Left(c)' <= n - 1
    OBVIOUS
  <2>1. Left(c) \in Nat
    BY LeftBounded
  <2>2. Left(c)' < Left(c) /\ Left(c)' \in Nat
    BY ProceedsForward
  <2> QED
    BY <2>1, <2>2
<1>3. ChainInv => /\ pc[c] \in InFlight <=> Within(4) /\ ~Within(0)
                  /\ pc[c] \in Ended <=> Within(0)
                  /\ pc[c] \notin InFlight <=> ~(pc[c] \in InFlight)
  BY LeftBounded
<1>4. ChainInv /\ [Next]_vars /\ Within(0) => Within(0)'
  BY <1>1
<1>5. ChainInv /\ [Next]_vars /\ Within(1) => Within(1)'
  BY <1>1
<1>6. ChainInv /\ [Next]_vars /\ Within(2) => Within(2)'
  BY <1>1
<1>7. ChainInv /\ [Next]_vars /\ Within(3) => Within(3)'
  BY <1>1
<1>8. ChainInv /\ [Next]_vars /\ Within(4) => Within(4)'
  BY <1>1
<1>9. ChainInv /\ <<Proceed(c)>>_vars /\ Within(1) => Within(0)'
  BY <1>2
<1>10. ChainInv /\ <<Proceed(c)>>_vars /\ Within(2) => Within(1)'
  BY <1>2
<1>11. ChainInv /\ <<Proceed(c)>>_vars /\ Within(3) => Within(2)'
  BY <1>2
<1>12. ChainInv /\ <<Proceed(c)>>_vars /\ Within(4) => Within(3)'
  BY <1>2
<1> HIDE DEF Within
<1> QED
  BY <1>3, <1>4, <1>5, <1>6, <1>7, <1>8, <1>9, <1>10, <1>11, <1>12,
     PTL DEF Runs

\* The retry loop ends: every call of Record that has started returns, if
\* each goroutine in flight keeps being run and its statements return.
THEOREM RecordsReturn == Spec /\ (\A c \in Call : Runs(c)) => EveryRecordReturns
<1> SUFFICES ASSUME NEW c \in Call
             PROVE  Spec /\ (\A d \in Call : Runs(d))
                        => (pc[c] \in InFlight ~> pc[c] \in Ended)
  BY DEF EveryRecordReturns
<1>1. (\A d \in Call : Runs(d)) => Runs(c)
  OBVIOUS
<1> QED
  BY <1>1, ChainInvHolds, CallReturns, PTL DEF Spec
=============================================================================
