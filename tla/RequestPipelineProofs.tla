------------------------- MODULE RequestPipelineProofs -------------------------
(***************************************************************************)
(* The quota and the sinks, for any requests, users, limits and routes of  *)
(* the service.                                                            *)
(*                                                                         *)
(* A count is the number of requests counted for its key (QuotaInv), and   *)
(* a request that was counted has passed the rest of its chain, so that it *)
(* is refused neither for its token nor for its role (ChainInv): the order *)
(* of the middleware.  An event stays with its request until both sinks    *)
(* had it (SinkInv).  Left bounds the steps a request has left.            *)
(***************************************************************************)
EXTENDS RequestPipeline, FiniteSetTheorems, SequenceTheorems, TLAPS

Counted(k) == {s \in Req : spent[s] = k}

QuotaInv ==
    /\ quota \in [Key -> Nat]
    /\ spent \in [Req -> Key \cup {None}]
    /\ \A k \in Key : quota[k] = Cardinality(Counted(k))

TypesInv ==
    /\ DOMAIN request = Req /\ DOMAIN todo = Req /\ DOMAIN event = Req /\ DOMAIN turn = Req
    /\ pc \in [Req -> {"new", "chain", "handler", "sinks", "answered"}]
    /\ who \in [Req -> Claims \cup {None}]
    /\ status \in [Req -> Status \cup {None}]

\* What is left of a chain ends in the limit, and where the identity is
\* needed it is known.
OnItsWay(r) ==
    \/ todo[r] \in {<<"auth", "role", "limit">>, <<"auth", "limit">>}
    \/ /\ todo[r] \in {<<"role", "limit">>, <<"limit">>}
       /\ who[r] # None \/ request[r].route \in {"login", "refresh"}

ChainInv(r) ==
    /\ pc[r] # "new" => /\ request[r].route \in Route
                        /\ request[r].claims \in Claims \cup {None}
    /\ pc[r] = "chain" => OnItsWay(r)
    /\ pc[r] \in {"new", "chain"} => spent[r] = None
    /\ pc[r] \in {"new", "chain", "handler"} => status[r] = None
    /\ status[r] \in {"unauthorized", "forbidden"} => spent[r] = None
    /\ status[r] = "limited" /\ spent[r] # None =>
          quota[spent[r]] > Limit[request[r].route]

\* The event of a request, the sinks that had it and those still to come.
SinkInv(r) ==
    /\ event[r] # None => pc[r] \in {"sinks", "answered"}
    /\ event[r] = None => <<"audit", r>> \notin delivered
    /\ pc[r] = "sinks" =>
          /\ event[r] # None
          /\ turn[r] \in {<<"slog", "audit">>, <<"audit">>}
          /\ turn[r] = <<"audit">> => <<"slog", r>> \in delivered \cup failed
    /\ event[r] # None =>
          /\ event[r].anonymous \in BOOLEAN
          /\ event[r].anonymous <=> Anonymous(r)
          /\ Anonymous(r) => <<"audit", r>> \notin delivered
          /\ pc[r] = "answered" =>
                /\ <<"slog", r>> \in delivered \cup failed
                /\ ~Anonymous(r) => <<"audit", r>> \in delivered \cup failed

Inv == TypesInv /\ QuotaInv /\ \A r \in Req : ChainInv(r) /\ SinkInv(r)

-----------------------------------------------------------------------------
LEMMA InitInv == Init => Inv
<1> SUFFICES ASSUME Init PROVE Inv
  OBVIOUS
<1>1. TypesInv
  BY DEF Init, TypesInv
<1>2. QuotaInv
  <2>1. ASSUME NEW k \in Key PROVE quota[k] = Cardinality(Counted(k))
    <3>1. Counted(k) = {}
      BY PipelineAssumption DEF Init, Counted
    <3> QED
      BY <3>1, FS_EmptySet DEF Init
  <2> QED
    BY <2>1 DEF Init, QuotaInv
<1>3. ASSUME NEW r \in Req PROVE ChainInv(r) /\ SinkInv(r)
  BY PipelineAssumption DEF Init, ChainInv, SinkInv
<1> QED
  BY <1>1, <1>2, <1>3 DEF Inv

-----------------------------------------------------------------------------
(* The steps.  OnlyMoves(r): what belongs to other requests stays.         *)

OnlyMoves(r) ==
    \A s \in Req \ {r} :
        /\ pc'[s] = pc[s] /\ request'[s] = request[s] /\ todo'[s] = todo[s]
        /\ who'[s] = who[s] /\ status'[s] = status[s] /\ event'[s] = event[s]
        /\ turn'[s] = turn[s] /\ spent'[s] = spent[s]
        /\ \A k \in {"slog", "audit"} :
              /\ <<k, s>> \in delivered' <=> <<k, s>> \in delivered
              /\ <<k, s>> \in failed' <=> <<k, s>> \in failed

LEMMA OthersKept ==
    ASSUME Inv, NEW r \in Req, OnlyMoves(r), NEW s \in Req, s # r,
           \A k \in Key : quota[k] \in Nat /\ quota'[k] \in Nat /\ quota'[k] >= quota[k]
    PROVE  ChainInv(s)' /\ SinkInv(s)'
<1>1. ChainInv(s)'
  <2>1. /\ pc'[s] = pc[s] /\ request'[s] = request[s] /\ todo'[s] = todo[s]
        /\ who'[s] = who[s] /\ status'[s] = status[s] /\ spent'[s] = spent[s]
    BY DEF OnlyMoves
  <2>2. ChainInv(s) /\ spent[s] \in Key \cup {None}
    BY DEF Inv, QuotaInv
  <2>3. ASSUME status[s] = "limited", spent[s] # None
        PROVE  quota'[spent[s]] > Limit[request[s].route]
    <3>1. /\ quota[spent[s]] > Limit[request[s].route] /\ spent[s] \in Key
          /\ pc[s] # "new" /\ request[s].route \in Route
      BY <2>2, <2>3 DEF ChainInv, Inv, TypesInv
    <3>2. Limit[request[s].route] \in Nat
      BY <3>1, PipelineAssumption
    <3> QED
      BY <3>1, <3>2
  <2> QED
    BY <2>1, <2>2, <2>3 DEF ChainInv, OnItsWay
<1>2. SinkInv(s)'
  BY DEF Inv, OnlyMoves, SinkInv, Anonymous
<1> QED
  BY <1>1, <1>2

\* A step of r that counts nothing.
LEMMA UncountedStep ==
    ASSUME Inv, NEW r \in Req, OnlyMoves(r), UNCHANGED <<quota, spent>>,
           TypesInv', ChainInv(r)', SinkInv(r)'
    PROVE  Inv'
<1>1. QuotaInv'
  BY DEF Inv, QuotaInv, Counted
<1>2. \A k \in Key : quota[k] \in Nat /\ quota'[k] \in Nat /\ quota'[k] >= quota[k]
  BY DEF Inv, QuotaInv
<1>3. ASSUME NEW s \in Req PROVE ChainInv(s)' /\ SinkInv(s)'
  BY <1>2, OthersKept
<1> QED
  BY <1>1, <1>3 DEF Inv

\* The chain of every route, as far as the proofs need it.
LEMMA Chains ==
    ASSUME NEW o \in Route
    PROVE  \/ Chain(o) = <<>>
           \/ Chain(o) = <<"limit">> /\ o \in {"login", "refresh"}
           \/ Chain(o) \in {<<"auth", "role", "limit">>, <<"auth", "limit">>}
BY PipelineAssumption DEF Chain

LEMMA ArriveStep ==
    ASSUME Inv, NEW r \in Req, NEW o \in Route, NEW c \in Claims \cup {None}, Arrive(r, o, c)
    PROVE  Inv'
<1>1. /\ pc[r] = "new"
      /\ request' = [request EXCEPT ![r] = [route |-> o, claims |-> c]]
      /\ todo' = [todo EXCEPT ![r] = Chain(o)]
      /\ pc' = [pc EXCEPT ![r] = IF Chain(o) = <<>> THEN "handler" ELSE "chain"]
      /\ UNCHANGED <<who, status, event, turn, quota, spent, delivered, failed>>
  BY DEF Arrive
<1>2. OnlyMoves(r)
  BY <1>1 DEF OnlyMoves, Inv, TypesInv
<1>3. TypesInv'
  BY <1>1 DEF Inv, TypesInv
<1>4. ChainInv(r)'
  <2>1. request'[r].route = o /\ request'[r].claims = c /\ todo'[r] = Chain(o)
    BY <1>1 DEF Inv, TypesInv
  <2>2. pc'[r] = IF Chain(o) = <<>> THEN "handler" ELSE "chain"
    BY <1>1 DEF Inv, TypesInv
  <2>3. pc'[r] = "chain" => OnItsWay(r)'
    BY <2>1, <2>2, Chains DEF OnItsWay
  <2> QED
    BY <1>1, <2>1, <2>2, <2>3 DEF Inv, ChainInv
<1>5. SinkInv(r)'
  BY <1>1 DEF Inv, TypesInv, SinkInv, Anonymous
<1> QED
  BY <1>1, <1>2, <1>3, <1>4, <1>5, UncountedStep

\* Refused on the way: no event, and not counted.
LEMMA RefusedStep ==
    ASSUME Inv, NEW r \in Req, pc[r] \in {"chain", "handler"},
           NEW code \in {"unauthorized", "forbidden", "ok", "error"}, Answer(r, code),
           code \in {"unauthorized", "forbidden"} => pc[r] = "chain",
           UNCHANGED <<request, todo, who, event, turn, quota, spent, delivered, failed>>
    PROVE  Inv'
<1>1. /\ pc' = [pc EXCEPT ![r] = "answered"]
      /\ status' = [status EXCEPT ![r] = code]
  BY DEF Answer
<1>2. OnlyMoves(r)
  BY <1>1 DEF OnlyMoves, Inv, TypesInv
<1>3. TypesInv'
  BY <1>1 DEF Inv, TypesInv, Status
<1>4. ChainInv(r)'
  BY <1>1 DEF Inv, TypesInv, ChainInv
<1>5. SinkInv(r)'
  BY <1>1 DEF Inv, TypesInv, SinkInv, Anonymous
<1> QED
  BY <1>2, <1>3, <1>4, <1>5, UncountedStep

\* What follows the head of a chain.
LEMMA Rest ==
    /\ Head(<<"auth", "role", "limit">>) = "auth" /\ Tail(<<"auth", "role", "limit">>) = <<"role", "limit">>
    /\ Head(<<"auth", "limit">>) = "auth" /\ Tail(<<"auth", "limit">>) = <<"limit">>
    /\ Head(<<"role", "limit">>) = "role" /\ Tail(<<"role", "limit">>) = <<"limit">>
    /\ Head(<<"limit">>) = "limit" /\ Len(<<"limit">>) = 1
    /\ Len(<<"auth", "role", "limit">>) = 3 /\ Len(<<"auth", "limit">>) = 2
    /\ Len(<<"role", "limit">>) = 2
    /\ Head(<<"slog", "audit">>) = "slog" /\ Tail(<<"slog", "audit">>) = <<"audit">>
    /\ Head(<<"audit">>) = "audit" /\ Len(<<"audit">>) = 1
    /\ Len(<<"slog", "audit">>) = 2
OBVIOUS

\* RequireAuth leaves the role and the limit, or the limit, and an identity.
LEMMA RequireAuthStep ==
    ASSUME Inv, NEW r \in Req, RequireAuth(r)
    PROVE  Inv'
<1>1. /\ pc[r] = "chain" /\ Head(todo[r]) = "auth"
      /\ UNCHANGED <<request, event, turn, quota, spent, delivered, failed>>
  BY DEF RequireAuth, At
<1>2. CASE Answer(r, "unauthorized") /\ UNCHANGED <<todo, who>>
  BY <1>1, <1>2, RefusedStep
<1>3. CASE /\ request[r].claims # None
           /\ who' = [who EXCEPT ![r] = request[r].claims]
           /\ Pass(r)
           /\ UNCHANGED status
  <2>1. todo[r] \in {<<"auth", "role", "limit">>, <<"auth", "limit">>}
    BY <1>1, Rest DEF Inv, ChainInv, OnItsWay
  <2>2. /\ todo' = [todo EXCEPT ![r] = Tail(todo[r])]
        /\ pc' = [pc EXCEPT ![r] = "chain"]
    <3>1. Len(todo[r]) # 1
      BY <2>1, Rest
    <3> QED
      BY <1>3, <3>1 DEF Pass, Inv, TypesInv
  <2>3. Tail(todo[r]) \in {<<"role", "limit">>, <<"limit">>}
    BY <2>1, Rest
  <2>4. OnlyMoves(r)
    BY <1>1, <1>3, <2>2 DEF OnlyMoves, Inv, TypesInv
  <2>5. /\ todo'[r] \in {<<"role", "limit">>, <<"limit">>} /\ pc'[r] = "chain"
        /\ who'[r] # None
    BY <1>3, <2>2, <2>3 DEF Inv, TypesInv
  <2>6. request[r].claims \in Claims \cup {None}
    BY <1>1 DEF Inv, ChainInv
  <2>7. TypesInv'
    BY <1>1, <1>3, <2>2, <2>6 DEF Inv, TypesInv
  <2>8. ChainInv(r)'
    BY <1>1, <1>3, <2>5 DEF Inv, ChainInv, OnItsWay
  <2>9. SinkInv(r)'
    BY <1>1, <1>3, <2>5 DEF Inv, SinkInv, Anonymous
  <2> QED
    BY <1>1, <2>4, <2>7, <2>8, <2>9, UncountedStep
<1> QED
  BY <1>2, <1>3 DEF RequireAuth

\* RequireRole leaves the limit.
LEMMA RequireRoleStep ==
    ASSUME Inv, NEW r \in Req, RequireRole(r)
    PROVE  Inv'
<1>1. /\ pc[r] = "chain" /\ Head(todo[r]) = "role"
      /\ UNCHANGED <<request, who, event, turn, quota, spent, delivered, failed>>
  BY DEF RequireRole, At
<1>2. CASE Answer(r, "forbidden") /\ UNCHANGED todo
  BY <1>1, <1>2, RefusedStep
<1>3. CASE Pass(r) /\ UNCHANGED status
  <2>1. /\ todo[r] = <<"role", "limit">>
        /\ who[r] # None \/ request[r].route \in {"login", "refresh"}
    BY <1>1, Rest DEF Inv, ChainInv, OnItsWay
  <2>2. /\ todo' = [todo EXCEPT ![r] = <<"limit">>]
        /\ pc' = [pc EXCEPT ![r] = "chain"]
    BY <1>3, <2>1, Rest DEF Pass
  <2>3. OnlyMoves(r)
    BY <1>1, <1>3, <2>2 DEF OnlyMoves, Inv, TypesInv
  <2>4. todo'[r] = <<"limit">> /\ pc'[r] = "chain"
    BY <2>2 DEF Inv, TypesInv
  <2>5. TypesInv'
    BY <1>1, <1>3, <2>2 DEF Inv, TypesInv
  <2>6. ChainInv(r)'
    BY <1>1, <1>3, <2>1, <2>4 DEF Inv, ChainInv, OnItsWay
  <2>7. SinkInv(r)'
    BY <1>1, <1>3, <2>4 DEF Inv, SinkInv, Anonymous
  <2> QED
    BY <1>1, <2>3, <2>5, <2>6, <2>7, UncountedStep
<1> QED
  BY <1>2, <1>3 DEF RequireRole

\* The event that is emitted is anonymous exactly if nobody is known.
LEMMA EmittedSink ==
    ASSUME Inv, NEW r \in Req, NEW signal \in Signal, NEW anonymous \in BOOLEAN,
           pc[r] \in {"chain", "handler"}, Emit(r, signal, anonymous),
           anonymous <=> signal = "rate_limit_exceeded" /\ who[r] = None,
           UNCHANGED <<who, delivered, failed>>
    PROVE  SinkInv(r)'
<1> DEFINE e == [signal |-> signal, anonymous |-> anonymous]
<1>1. event[r] = None
  BY DEF Inv, SinkInv
<1>2. /\ event'[r] = e /\ pc'[r] = "sinks" /\ turn'[r] = <<"slog", "audit">>
  BY DEF Emit, Inv, TypesInv
<1>3. e \in Event /\ e.signal = signal /\ e.anonymous = anonymous
  BY DEF Event
<1>4. e # None
  BY <1>3, PipelineAssumption
<1>5. <<"audit", r>> \notin delivered
  BY <1>1 DEF Inv, SinkInv
<1>6. <<"slog", "audit">> # <<"audit">>
  BY Rest
<1> HIDE DEF e
<1>7. Anonymous(r)' <=> anonymous
  BY <1>2, <1>3 DEF Anonymous
<1>8. event'[r].anonymous = anonymous
  BY <1>2, <1>3
<1> QED
  BY <1>2, <1>4, <1>5, <1>6, <1>7, <1>8 DEF SinkInv

\* A handler answers after the chain: its refusals are none of the middleware's.
LEMMA HandleStep ==
    ASSUME Inv, NEW r \in Req, Handle(r)
    PROVE  Inv'
<1>1. /\ pc[r] = "handler"
      /\ UNCHANGED <<request, todo, who, quota, spent, delivered, failed>>
  BY DEF Handle
<1>2. request[r].route \in Route
  BY <1>1 DEF Inv, ChainInv
<1>3. PICK out \in Outcome(request[r].route) \cup {<<"error", None>>} :
         \/ out[2] = None /\ Answer(r, out[1]) /\ UNCHANGED <<event, turn>>
         \/ /\ out[2] # None
            /\ status' = [status EXCEPT ![r] = out[1]]
            /\ Emit(r, out[2], FALSE)
  BY DEF Handle
<1>4. /\ out[1] \in {"ok", "error"}
      /\ out[2] \in {"login_success", "refresh_success", "refresh_replay", "lot.create", None}
  <2>1. Outcome(request[r].route) \subseteq
           {<<"ok", "login_success">>, <<"ok", "refresh_success">>,
            <<"error", "refresh_replay">>, <<"ok", None>>, <<"ok", "lot.create">>}
    BY <1>2, PipelineAssumption DEF Outcome
  <2> QED
    BY <2>1
<1>5. CASE out[2] = None /\ Answer(r, out[1]) /\ UNCHANGED <<event, turn>>
  BY <1>1, <1>4, <1>5, RefusedStep
<1>6. CASE /\ out[2] # None
           /\ status' = [status EXCEPT ![r] = out[1]]
           /\ Emit(r, out[2], FALSE)
  <2>1. /\ event' = [event EXCEPT ![r] = event'[r]] /\ turn' = [turn EXCEPT ![r] = turn'[r]]
        /\ pc' = [pc EXCEPT ![r] = "sinks"]
    BY <1>6 DEF Emit, Inv, TypesInv
  <2>2. OnlyMoves(r)
    BY <1>1, <1>6, <2>1 DEF OnlyMoves, Inv, TypesInv
  <2>3. TypesInv'
    BY <1>1, <1>4, <1>6, <2>1 DEF Inv, TypesInv, Status
  <2>4. ChainInv(r)'
    BY <1>1, <1>4, <1>6, <2>1 DEF Inv, TypesInv, ChainInv
  <2>5. SinkInv(r)'
    <3>1. out[2] \in Signal /\ out[2] # "rate_limit_exceeded"
      BY <1>4, <1>6 DEF Signal
    <3> QED
      BY <1>1, <1>6, <3>1, EmittedSink
  <2> QED
    BY <1>1, <2>2, <2>3, <2>4, <2>5, UncountedStep
<1> QED
  BY <1>3, <1>5, <1>6

LEMMA PanicStep ==
    ASSUME Inv, NEW r \in Req, Panic(r)
    PROVE  Inv'
BY RefusedStep DEF Panic

-----------------------------------------------------------------------------
(* The limit *)

\* One more request is counted for k.
LEMMA CountOne ==
    ASSUME QuotaInv, NEW r \in Req, NEW k \in Key, spent[r] = None,
           quota' = [quota EXCEPT ![k] = quota[k] + 1],
           spent' = [spent EXCEPT ![r] = k]
    PROVE  /\ QuotaInv'
           /\ \A l \in Key : quota[l] \in Nat /\ quota'[l] \in Nat /\ quota'[l] >= quota[l]
           /\ quota'[k] = quota[k] + 1
<1>1. k # None
  BY PipelineAssumption
<1>2. /\ quota' \in [Key -> Nat] /\ quota'[k] = quota[k] + 1
      /\ \A l \in Key : l # k => quota'[l] = quota[l]
  BY DEF QuotaInv
<1>3. spent' \in [Req -> Key \cup {None}]
  BY DEF QuotaInv
<1>4. ASSUME NEW l \in Key PROVE quota'[l] = Cardinality(Counted(l)')
  <2>1. CASE l # k
    <3>1. Counted(l)' = Counted(l)
      BY <1>1, <2>1, PipelineAssumption DEF QuotaInv, Counted
    <3> QED
      BY <1>2, <2>1, <3>1 DEF QuotaInv
  <2>2. CASE l = k
    <3>1. Counted(k)' = Counted(k) \cup {r} /\ r \notin Counted(k)
      BY <1>1 DEF QuotaInv, Counted
    <3>2. IsFiniteSet(Counted(k))
      BY PipelineAssumption, FS_Subset DEF Counted
    <3>3. Cardinality(Counted(k)') = Cardinality(Counted(k)) + 1
      BY <3>1, <3>2, FS_AddElement
    <3> QED
      BY <1>2, <2>2, <3>3 DEF QuotaInv
  <2> QED
    BY <2>1, <2>2
<1> QED
  BY <1>2, <1>3, <1>4 DEF QuotaInv

\* The limit is the last of the middleware: who is counted gets to the
\* handler, or a 429.
LEMMA RateLimitStep ==
    ASSUME Inv, NEW r \in Req, RateLimit(r)
    PROVE  Inv'
<1> DEFINE k == KeyOf(r)
           n == quota[k] + 1
<1>1. /\ pc[r] = "chain" /\ Head(todo[r]) = "limit"
      /\ quota' = [quota EXCEPT ![k] = n]
      /\ spent' = [spent EXCEPT ![r] = k]
      /\ UNCHANGED <<request, who, delivered, failed>>
  BY DEF RateLimit, At
<1>2. /\ todo[r] = <<"limit">>
      /\ who[r] # None \/ request[r].route \in {"login", "refresh"}
  BY <1>1, Rest DEF Inv, ChainInv, OnItsWay
<1>3. k \in Key /\ k # None
  BY <1>2, PipelineAssumption DEF Inv, TypesInv, KeyOf, Key, Claims
<1> HIDE DEF k
<1>4. /\ QuotaInv' /\ quota'[k] = n
      /\ \A l \in Key : quota[l] \in Nat /\ quota'[l] \in Nat /\ quota'[l] >= quota[l]
  <2>1. spent[r] = None
    BY <1>1 DEF Inv, ChainInv
  <2> QED
    BY <1>1, <1>3, <2>1, CountOne DEF Inv
<1>5. spent'[r] = k
  BY <1>1 DEF Inv, QuotaInv
<1>6. OnlyMoves(r) /\ TypesInv' /\ ChainInv(r)' /\ SinkInv(r)'
  <2>1. CASE n <= Limit[request[r].route] /\ Pass(r) /\ UNCHANGED <<status, event, turn>>
    <3>1. /\ todo' = [todo EXCEPT ![r] = todo'[r]]
          /\ pc' = [pc EXCEPT ![r] = "handler"]
      BY <1>2, <2>1, Rest DEF Pass, Inv, TypesInv
    <3>2. OnlyMoves(r)
      BY <1>1, <2>1, <3>1 DEF OnlyMoves, Inv, TypesInv, QuotaInv
    <3>3. TypesInv'
      BY <1>1, <2>1, <3>1 DEF Inv, TypesInv
    <3>4. ChainInv(r)'
      <4>1. None \notin {"limited", "unauthorized", "forbidden"}
        BY PipelineAssumption DEF Status
      <4>2. pc'[r] = "handler" /\ status'[r] = None
        BY <1>1, <2>1, <3>1 DEF Inv, TypesInv, ChainInv
      <4>3. /\ request' = request
            /\ request[r].route \in Route /\ request[r].claims \in Claims \cup {None}
        BY <1>1 DEF Inv, ChainInv
      <4> QED
        BY <4>1, <4>2, <4>3 DEF ChainInv
    <3>5. SinkInv(r)'
      BY <1>1, <2>1, <3>1 DEF Inv, TypesInv, SinkInv, Anonymous
    <3> QED
      BY <3>2, <3>3, <3>4, <3>5
  <2>2. CASE /\ n > Limit[request[r].route]
             /\ status' = [status EXCEPT ![r] = "limited"]
             /\ Emit(r, "rate_limit_exceeded", who[r] = None)
             /\ UNCHANGED todo
    <3>1. /\ event' = [event EXCEPT ![r] = event'[r]] /\ turn' = [turn EXCEPT ![r] = turn'[r]]
          /\ pc' = [pc EXCEPT ![r] = "sinks"]
      BY <2>2 DEF Emit, Inv, TypesInv
    <3>2. OnlyMoves(r)
      BY <1>1, <2>2, <3>1 DEF OnlyMoves, Inv, TypesInv, QuotaInv
    <3>3. TypesInv'
      BY <1>1, <2>2, <3>1 DEF Inv, TypesInv, Status
    <3>4. ChainInv(r)'
      <4>1. /\ request'[r] = request[r] /\ pc'[r] = "sinks" /\ status'[r] = "limited"
            /\ request[r].route \in Route /\ request[r].claims \in Claims \cup {None}
        BY <1>1, <2>2, <3>1 DEF Inv, TypesInv, ChainInv
      <4>2. quota'[spent'[r]] > Limit[request'[r].route]
        BY <1>4, <1>5, <2>2, <4>1
      <4> QED
        BY <4>1, <4>2 DEF ChainInv
    <3>5. SinkInv(r)'
      <4>1. PICK anonymous \in BOOLEAN : anonymous <=> who[r] = None
        OBVIOUS
      <4>2. (who[r] = None) = anonymous
        BY <4>1
      <4>3. Emit(r, "rate_limit_exceeded", anonymous)
        BY <2>2, <4>2
      <4> QED
        BY <1>1, <4>1, <4>3, EmittedSink DEF Signal
    <3> QED
      BY <3>2, <3>3, <3>4, <3>5
  <2> QED
    BY <2>1, <2>2 DEF RateLimit, k
<1>7. ASSUME NEW s \in Req PROVE ChainInv(s)' /\ SinkInv(s)'
  BY <1>4, <1>6, OthersKept
<1> QED
  BY <1>4, <1>6, <1>7 DEF Inv

\* With a window its counts go, and who spent them.
LEMMA WindowEndsStep ==
    ASSUME Inv, NEW k \in Key, WindowEnds(k)
    PROVE  Inv'
<1>1. /\ quota' = [quota EXCEPT ![k] = 0]
      /\ spent' = [r \in Req |-> IF spent[r] = k THEN None ELSE spent[r]]
      /\ UNCHANGED <<request, pc, todo, who, status, event, turn, delivered, failed>>
  BY DEF WindowEnds
<1>2. QuotaInv'
  <2>1. /\ quota' \in [Key -> Nat] /\ quota'[k] = 0
        /\ \A l \in Key : l # k => quota'[l] = quota[l]
    BY <1>1 DEF Inv, QuotaInv
  <2>2. spent' \in [Req -> Key \cup {None}]
    BY <1>1 DEF Inv, QuotaInv
  <2>3. ASSUME NEW l \in Key PROVE quota'[l] = Cardinality(Counted(l)')
    <3>1. l # None
      BY PipelineAssumption
    <3>2. CASE l # k
      <4>1. Counted(l)' = Counted(l)
        BY <1>1, <3>1, <3>2 DEF Counted
      <4> QED
        BY <2>1, <3>2, <4>1 DEF Inv, QuotaInv
    <3>3. CASE l = k
      <4>1. Counted(k)' = {}
        BY <1>1, <3>1, <3>3 DEF Counted
      <4> QED
        BY <2>1, <3>3, <4>1, FS_EmptySet
    <3> QED
      BY <3>2, <3>3
  <2> QED
    BY <2>1, <2>2, <2>3 DEF QuotaInv
<1>3. TypesInv'
  BY <1>1 DEF Inv, TypesInv
<1>4. ASSUME NEW r \in Req PROVE ChainInv(r)' /\ SinkInv(r)'
  <2>1. SinkInv(r)'
    BY <1>1 DEF Inv, SinkInv, Anonymous
  <2>2. spent'[r] = None \/ (spent'[r] = spent[r] /\ spent[r] # k)
    BY <1>1
  <2>3. spent'[r] # None => quota'[spent'[r]] = quota[spent[r]] /\ spent'[r] = spent[r]
    BY <1>1, <2>2 DEF Inv, QuotaInv
  <2>4. ChainInv(r)'
    BY <1>1, <2>2, <2>3 DEF Inv, ChainInv, OnItsWay
  <2> QED
    BY <2>1, <2>4
<1> QED
  BY <1>2, <1>3, <1>4 DEF Inv

-----------------------------------------------------------------------------
(* The sinks *)

\* One sink took the event, or failed; the other has its turn, or had it.
LEMMA SinkStep ==
    ASSUME Inv, NEW r \in Req, SinkTakes(r) \/ SinkFails(r)
    PROVE  Inv'
<1> DEFINE sink == Head(turn[r])
<1>1. /\ pc[r] = "sinks" /\ event[r] # None
      /\ turn[r] \in {<<"slog", "audit">>, <<"audit">>}
  BY DEF SinkTakes, SinkFails, Inv, SinkInv
<1>2. /\ sink \in {"slog", "audit"}
      /\ sink = "slog" <=> turn[r] = <<"slog", "audit">>
      /\ sink = "audit" <=> turn[r] = <<"audit">>
  BY <1>1, Rest
<1>3. /\ turn' = [turn EXCEPT ![r] = Tail(turn[r])]
      /\ pc' = [pc EXCEPT ![r] = IF Len(turn[r]) = 1 THEN "answered" ELSE "sinks"]
      /\ UNCHANGED <<request, todo, who, status, event, quota, spent>>
  BY DEF SinkTakes, SinkFails, NextSink
<1>4. /\ sink = "slog" => pc'[r] = "sinks" /\ turn'[r] = <<"audit">>
      /\ sink = "audit" => pc'[r] = "answered"
  <2>1. /\ pc'[r] = IF Len(turn[r]) = 1 THEN "answered" ELSE "sinks"
        /\ turn'[r] = Tail(turn[r])
    BY <1>3 DEF Inv, TypesInv
  <2>2. sink = "slog" => Len(turn[r]) = 2 /\ Tail(turn[r]) = <<"audit">>
    BY <1>2, Rest
  <2>3. sink = "audit" => Len(turn[r]) = 1
    BY <1>2, Rest
  <2> QED
    BY <2>1, <2>2, <2>3
<1>5. /\ delivered \subseteq delivered' /\ failed \subseteq failed'
      /\ delivered' \subseteq delivered \cup {<<sink, r>>}
      /\ failed' \subseteq failed \cup {<<sink, r>>}
      /\ Takes(sink, event[r]) => <<sink, r>> \in delivered' \cup failed'
      /\ ~Takes(sink, event[r]) => delivered' = delivered
  BY DEF SinkTakes, SinkFails
<1> HIDE DEF sink
<1>6. OnlyMoves(r)
  <2>1. ASSUME NEW s \in Req, s # r, NEW k \in {"slog", "audit"}
        PROVE  /\ <<k, s>> \in delivered' <=> <<k, s>> \in delivered
               /\ <<k, s>> \in failed' <=> <<k, s>> \in failed
    <3>1. <<k, s>> # <<sink, r>>
      BY <2>1
    <3> QED
      BY <1>5, <3>1
  <2> QED
    BY <1>3, <2>1 DEF OnlyMoves, Inv, TypesInv
<1>7. TypesInv'
  BY <1>1, <1>3 DEF Inv, TypesInv
<1>8. ChainInv(r)'
  BY <1>1, <1>2, <1>3, <1>4 DEF Inv, ChainInv
<1>9. SinkInv(r)'
  <2>1. /\ event' = event /\ who' = who
        /\ event[r].anonymous \in BOOLEAN
        /\ event[r].anonymous <=> Anonymous(r)
        /\ Anonymous(r) => <<"audit", r>> \notin delivered
    BY <1>1, <1>3 DEF Inv, SinkInv
  <2>2. Anonymous(r)' <=> Anonymous(r)
    BY <2>1 DEF Anonymous
  <2>3. Takes(sink, event[r]) <=> sink = "slog" \/ ~Anonymous(r)
    BY <2>1 DEF Takes, Row
  <2>4. CASE sink = "slog"
    <3>1. <<"slog", r>> \in delivered' \cup failed'
      BY <1>5, <2>3, <2>4
    <3>2. Anonymous(r) => <<"audit", r>> \notin delivered'
      <4>1. <<"audit", r>> # <<sink, r>>
        BY <2>4
      <4> QED
        BY <1>5, <2>1, <4>1
    <3>3. pc'[r] = "sinks" /\ turn'[r] = <<"audit">>
      BY <1>4, <2>4
    <3> QED
      BY <1>1, <2>1, <2>2, <3>1, <3>2, <3>3 DEF SinkInv
  <2>5. CASE sink = "audit"
    <3>1. <<"slog", r>> \in delivered \cup failed
      BY <1>1, <1>2, <2>5 DEF Inv, SinkInv
    <3>2. <<"slog", r>> \in delivered' \cup failed'
      BY <1>5, <3>1
    <3>3. Anonymous(r) => <<"audit", r>> \notin delivered'
      BY <1>5, <2>1, <2>3, <2>5
    <3>4. ~Anonymous(r) => <<"audit", r>> \in delivered' \cup failed'
      BY <1>5, <2>3, <2>5
    <3>5. pc'[r] = "answered"
      BY <1>4, <2>5
    <3> QED
      BY <1>1, <2>1, <2>2, <3>2, <3>3, <3>4, <3>5 DEF SinkInv
  <2> QED
    BY <1>2, <2>4, <2>5
<1> QED
  BY <1>3, <1>6, <1>7, <1>8, <1>9, UncountedStep

-----------------------------------------------------------------------------
LEMMA StepInv == Inv /\ [Next]_vars => Inv'
<1> SUFFICES ASSUME Inv, [Next]_vars PROVE Inv'
  OBVIOUS
<1>1. CASE UNCHANGED vars
  <2>1. TypesInv' /\ QuotaInv'
    BY <1>1 DEF vars, Inv, TypesInv, QuotaInv, Counted
  <2>2. ASSUME NEW r \in Req PROVE ChainInv(r)' /\ SinkInv(r)'
    BY <1>1 DEF vars, Inv, ChainInv, OnItsWay, SinkInv, Anonymous
  <2> QED
    BY <2>1, <2>2 DEF Inv
<1>2. ASSUME NEW r \in Req, NEW o \in Route, NEW c \in Claims \cup {None}, Arrive(r, o, c)
      PROVE  Inv'
  BY <1>2, ArriveStep
<1>3. ASSUME NEW r \in Req, Advance(r) \/ Panic(r) PROVE Inv'
  BY <1>3, RequireAuthStep, RequireRoleStep, RateLimitStep, HandleStep, SinkStep,
     PanicStep DEF Advance
<1>4. ASSUME NEW k \in Key, WindowEnds(k) PROVE Inv'
  BY <1>4, WindowEndsStep
<1> QED
  BY <1>1, <1>2, <1>3, <1>4 DEF Next

\* The inductive invariant holds in every behaviour.
THEOREM PipelineInvHolds == Spec => []Inv
<1> QED
  BY InitInv, StepInv, PTL DEF Spec

\* A 429 is paid for by as many requests as the route admits, none of them
\* refused by RequireAuth or RequireRole: the limit is the innermost wrapper
\* of every route that has one.
THEOREM QuotaSpentByTheEntitled == Spec => []SpentByTheEntitled
<1>1. Inv => SpentByTheEntitled
  <2> SUFFICES ASSUME Inv, NEW r \in Req, status[r] = "limited", spent[r] # None
               PROVE  Cardinality({s \in Req \ {r} :
                          /\ spent[s] = spent[r]
                          /\ status[s] \notin {"unauthorized", "forbidden"}})
                        >= Limit[request[r].route]
    BY DEF SpentByTheEntitled
  <2> DEFINE paid == {s \in Req \ {r} :
                          /\ spent[s] = spent[r]
                          /\ status[s] \notin {"unauthorized", "forbidden"}}
  <2>1. PICK k \in Key : k = spent[r]
    BY DEF Inv, QuotaInv
  <2>2. paid = Counted(k) \ {r}
    BY <2>1 DEF Inv, ChainInv, Counted
  <2>3. r \in Counted(k) /\ IsFiniteSet(Counted(k))
    BY <2>1, PipelineAssumption, FS_Subset DEF Counted
  <2>4. Cardinality(Counted(k) \ {r}) = Cardinality(Counted(k)) - 1
    BY <2>3, FS_RemoveElement
  <2>5. /\ Cardinality(Counted(k)) = quota[k] /\ quota[k] \in Nat
        /\ quota[k] > Limit[request[r].route]
    BY <2>1 DEF Inv, QuotaInv, ChainInv
  <2>6. Limit[request[r].route] \in Nat
    <3>1. pc[r] # "new" /\ "limited" # None
      BY PipelineAssumption DEF Inv, ChainInv, Status
    <3> QED
      BY <3>1, PipelineAssumption DEF Inv, ChainInv
  <2>7. quota[k] - 1 >= Limit[request[r].route]
    BY <2>5, <2>6
  <2>8. Cardinality(paid) = quota[k] - 1
    BY <2>2, <2>4, <2>5, Zenon
  <2> QED
    BY <2>7, <2>8, Zenon
<1> QED
  BY <1>1, PipelineInvHolds, PTL

\* fanOut.Emit hands an event to every sink, whatever the others do, before
\* the request is answered; the audit chain gets none that nobody caused.
THEOREM NoEventIsLost == Spec => []EventsReachTheirSinks
<1>1. Inv => EventsReachTheirSinks
  BY DEF Inv, SinkInv, EventsReachTheirSinks
<1> QED
  BY <1>1, PipelineInvHolds, PTL

-----------------------------------------------------------------------------
(* Types.  Only the counters need more than the step: they count requests. *)

LEMMA QuotaType ==
    ASSUME QuotaInv
    PROVE  quota \in [Key -> 0..Cardinality(Req)]
<1>1. ASSUME NEW k \in Key PROVE quota[k] \in 0..Cardinality(Req)
  <2>1. Counted(k) \subseteq Req
    BY DEF Counted
  <2>2. Cardinality(Counted(k)) <= Cardinality(Req) /\ Cardinality(Req) \in Nat
    BY <2>1, PipelineAssumption, FS_Subset, FS_CardinalityType
  <2> QED
    BY <2>2 DEF QuotaInv
<1> QED
  BY <1>1 DEF QuotaInv

LEMMA ChainType ==
    ASSUME NEW o \in Route
    PROVE  Chain(o) \in Seq({"auth", "role", "limit"})
<1>1. /\ <<>> \in Seq({"auth", "role", "limit"})
      /\ <<"limit">> \in Seq({"auth", "role", "limit"})
      /\ <<"auth", "limit">> \in Seq({"auth", "role", "limit"})
      /\ <<"auth", "role", "limit">> \in Seq({"auth", "role", "limit"})
  OBVIOUS
<1> QED
  BY <1>1, Chains

\* The types of all but the counters.
Shape ==
    /\ request \in [Req -> [route : Route, claims : Claims \cup {None}] \cup {None}]
    /\ todo \in [Req -> Seq({"auth", "role", "limit"})]
    /\ event \in [Req -> Event \cup {None}]
    /\ turn \in [Req -> Seq({"slog", "audit"})]
    /\ delivered \subseteq {"slog", "audit"} \X Req
    /\ failed \subseteq {"slog", "audit"} \X Req

LEMMA MiddlewareShape ==
    ASSUME Inv, Shape, NEW r \in Req,
           RequireAuth(r) \/ RequireRole(r) \/ RateLimit(r)
    PROVE  Shape'
<1>1. Tail(todo[r]) \in Seq({"auth", "role", "limit"})
  <2>1. OnItsWay(r)
    BY DEF Inv, ChainInv, RequireAuth, RequireRole, RateLimit, At
  <2>2. /\ todo[r] # <<>>
        /\ todo[r] \in Seq({"auth", "role", "limit"})
    BY <2>1, Rest DEF OnItsWay, Shape
  <2> QED
    BY <2>2, HeadTailProperties
<1>2. todo' \in [Req -> Seq({"auth", "role", "limit"})]
  BY <1>1 DEF Shape, RequireAuth, RequireRole, RateLimit, Pass
<1>3. event' \in [Req -> Event \cup {None}] /\ turn' \in [Req -> Seq({"slog", "audit"})]
  <2>1. CASE UNCHANGED <<event, turn>>
    BY <2>1 DEF Shape
  <2>2. CASE Emit(r, "rate_limit_exceeded", who[r] = None)
    <3>1. [signal |-> "rate_limit_exceeded", anonymous |-> (who[r] = None)] \in Event
      BY DEF Event, Signal
    <3> QED
      BY <2>2, <3>1 DEF Emit, Shape
  <2> QED
    BY <2>1, <2>2 DEF RequireAuth, RequireRole, RateLimit
<1> QED
  BY <1>2, <1>3 DEF Shape, RequireAuth, RequireRole, RateLimit

LEMMA HandlerShape ==
    ASSUME Inv, Shape, NEW r \in Req, Handle(r) \/ Panic(r)
    PROVE  Shape'
<1>1. event' \in [Req -> Event \cup {None}] /\ turn' \in [Req -> Seq({"slog", "audit"})]
  <2>1. CASE UNCHANGED <<event, turn>>
    BY <2>1 DEF Shape
  <2>2. ASSUME Handle(r), ~UNCHANGED <<event, turn>>
        PROVE  /\ event' \in [Req -> Event \cup {None}]
               /\ turn' \in [Req -> Seq({"slog", "audit"})]
    <3>1. PICK out \in Outcome(request[r].route) \cup {<<"error", None>>} :
              out[2] # None /\ Emit(r, out[2], FALSE)
      BY <2>2 DEF Handle
    <3>2. request[r].route \in Route
      BY <2>2 DEF Inv, ChainInv, Handle
    <3>3. out[2] \in Signal
      BY <3>1, <3>2, PipelineAssumption DEF Outcome, Signal
    <3>4. [signal |-> out[2], anonymous |-> FALSE] \in Event
      BY <3>3 DEF Event
    <3> QED
      BY <3>1, <3>4 DEF Emit, Shape
  <2> QED
    BY <2>1, <2>2 DEF Panic
<1> QED
  BY <1>1 DEF Shape, Handle, Panic

LEMMA SinkShape ==
    ASSUME Inv, Shape, NEW r \in Req, SinkTakes(r) \/ SinkFails(r)
    PROVE  Shape'
<1>1. turn[r] \in {<<"slog", "audit">>, <<"audit">>}
  BY DEF Inv, SinkInv, SinkTakes, SinkFails
<1>2. turn[r] # <<>> /\ turn[r] \in Seq({"slog", "audit"})
  BY <1>1, Rest DEF Shape
<1>3. Tail(turn[r]) \in Seq({"slog", "audit"}) /\ Head(turn[r]) \in {"slog", "audit"}
  BY <1>2, HeadTailProperties
<1>4. turn' \in [Req -> Seq({"slog", "audit"})]
  <2>1. turn' = [turn EXCEPT ![r] = Tail(turn[r])] /\ turn \in [Req -> Seq({"slog", "audit"})]
    BY DEF Shape, SinkTakes, SinkFails, NextSink
  <2> QED
    BY <2>1, <1>3
<1>5. <<Head(turn[r]), r>> \in {"slog", "audit"} \X Req
  BY <1>3
<1>6. delivered' \subseteq {"slog", "audit"} \X Req /\ failed' \subseteq {"slog", "audit"} \X Req
  BY <1>5 DEF Shape, SinkTakes, SinkFails
<1> QED
  BY <1>4, <1>6 DEF Shape, SinkTakes, SinkFails, NextSink

LEMMA ShapeKept == Inv /\ Shape /\ [Next]_vars => Shape'
<1> SUFFICES ASSUME Inv, Shape, [Next]_vars
             PROVE  Shape'
  OBVIOUS
<1>1. ASSUME NEW r \in Req, NEW o \in Route, NEW c \in Claims \cup {None}, Arrive(r, o, c)
      PROVE  Shape'
  BY <1>1, ChainType DEF Arrive, Shape
<1>2. ASSUME NEW k \in Key, WindowEnds(k)
      PROVE  Shape'
  BY <1>2 DEF WindowEnds, Shape
<1>3. CASE UNCHANGED vars
  BY <1>3 DEF vars, Shape
<1> QED
  BY <1>1, <1>2, <1>3, MiddlewareShape, HandlerShape, SinkShape DEF Next, Advance

\* Every variable has its type, and a counter never counts more than the
\* requests there are.
THEOREM PipelineTypeCorrect == Spec => []TypeOK
<1>1. Init => Shape
  BY DEF Init, Shape
<1>2. Inv /\ Shape => TypeOK
  BY QuotaType DEF Inv, TypesInv, QuotaInv, Shape, TypeOK
<1> QED
  BY <1>1, <1>2, ShapeKept, PipelineInvHolds, PTL DEF Spec

-----------------------------------------------------------------------------
(* Liveness.  Runs(r) is the fairness of FairSpec for one request with the *)
(* condition in place of ENABLED.  WF_vars(Advance(r)) gives Runs(r),      *)
(* because a request under way always has a step: GuardHolds.              *)

UnderWay(r) == pc[r] \notin {"new", "answered"}

Runs(r) == []<>(~UnderWay(r)) \/ []<><<Advance(r)>>_vars

\* The head of a chain that is not passed is one of the three wrappers, and
\* what the wrapper reads is there; a sink whose turn it is has an event.
LEMMA GuardHolds ==
    ASSUME Inv, NEW r \in Req, UnderWay(r)
    PROVE  \/ At(r, "auth")
           \/ At(r, "role") /\ (who[r] \in Claims \/ request[r].route \in {"login", "refresh"})
           \/ At(r, "limit") /\ KeyOf(r) \in Key
           \/ pc[r] = "handler" /\ request[r].route \in Route
           \/ pc[r] = "sinks" /\ event[r] # None /\ Len(turn[r]) > 0
<1>1. CASE pc[r] = "chain"
  <2>1. OnItsWay(r)
    BY <1>1 DEF Inv, ChainInv
  <2>2. CASE todo[r] \in {<<"auth", "role", "limit">>, <<"auth", "limit">>}
    BY <1>1, <2>2, Rest DEF At
  <2>3. CASE todo[r] = <<"role", "limit">>
    BY <1>1, <2>1, <2>3, Rest DEF At, OnItsWay, Inv, TypesInv
  <2>4. CASE todo[r] = <<"limit">>
    <3>1. who[r] \in Claims \/ request[r].route \in {"login", "refresh"}
      BY <2>1, <2>4, Rest DEF OnItsWay, Inv, TypesInv
    <3>2. KeyOf(r) \in Key
      BY <3>1 DEF KeyOf, Key, Claims
    <3> QED
      BY <1>1, <2>4, <3>2, Rest DEF At
  <2> QED
    BY <2>1, <2>2, <2>3, <2>4 DEF OnItsWay
<1>2. CASE pc[r] = "sinks"
  <2>1. event[r] # None /\ turn[r] \in {<<"slog", "audit">>, <<"audit">>}
    BY <1>2 DEF Inv, SinkInv
  <2>2. Len(turn[r]) > 0
    BY <2>1, Rest
  <2> QED
    BY <1>2, <2>1, <2>2
<1>3. CASE pc[r] = "handler"
  BY <1>3 DEF Inv, ChainInv
<1> QED
  BY <1>1, <1>2, <1>3 DEF UnderWay, Inv, TypesInv

\* How many steps a request has at most: what is left of its chain, its
\* handler and its sinks.
Left(r) ==
    CASE pc[r] = "new"      -> 7
      [] pc[r] = "chain"    -> 3 + Len(todo[r])
      [] pc[r] = "handler"  -> 3
      [] pc[r] = "sinks"    -> Len(turn[r])
      [] pc[r] = "answered" -> 0

LEMMA LeftBounded ==
    ASSUME Inv, NEW r \in Req
    PROVE  /\ Left(r) \in Nat
           /\ UnderWay(r) <=> Left(r) <= 6 /\ ~(Left(r) <= 0)
           /\ pc[r] = "answered" <=> Left(r) <= 0
           /\ pc[r] = "chain" => Left(r) = 3 + Len(todo[r]) /\ Len(todo[r]) \in 1..3
           /\ pc[r] = "sinks" => Left(r) = Len(turn[r]) /\ Len(turn[r]) \in 1..2
<1>1. pc[r] \in {"new", "chain", "handler", "sinks", "answered"}
  BY DEF Inv, TypesInv
<1>2. pc[r] = "chain" => Len(todo[r]) \in 1..3
  BY Rest DEF Inv, ChainInv, OnItsWay
<1>3. ASSUME pc[r] = "sinks" PROVE Len(turn[r]) \in 1..2
  <2>1. turn[r] \in {<<"slog", "audit">>, <<"audit">>}
    BY <1>3 DEF Inv, SinkInv
  <2> QED
    BY <2>1, Rest
<1>4. /\ pc[r] = "new" => Left(r) = 7
      /\ pc[r] = "chain" => Left(r) = 3 + Len(todo[r])
      /\ pc[r] = "handler" => Left(r) = 3
      /\ pc[r] = "sinks" => Left(r) = Len(turn[r])
      /\ pc[r] = "answered" => Left(r) = 0
  BY DEF Left
<1>5. CASE pc[r] = "chain"
  <2>1. PICK n \in 1..3 : Len(todo[r]) = n
    BY <1>2, <1>5
  <2>2. Left(r) = 3 + n
    BY <1>4, <1>5, <2>1
  <2>3. Left(r) \in 4..6
    BY <2>2
  <2> QED
    BY <1>2, <1>4, <1>5, <2>3 DEF UnderWay
<1>6. CASE pc[r] = "sinks"
  <2>1. PICK n \in 1..2 : Len(turn[r]) = n
    BY <1>3, <1>6
  <2>2. Left(r) \in 1..2
    BY <1>4, <1>6, <2>1
  <2> QED
    BY <1>3, <1>4, <1>6, <2>2 DEF UnderWay
<1>7. CASE pc[r] \in {"new", "handler", "answered"}
  BY <1>4, <1>7 DEF UnderWay
<1> QED
  BY <1>1, <1>5, <1>6, <1>7

\* A step of a request brings it nearer to its answer.
LEMMA AdvancesForward ==
    ASSUME Inv, NEW r \in Req, Advance(r) \/ Panic(r)
    PROVE  Left(r)' < Left(r) /\ Left(r)' \in Nat
<1>1. /\ Left(r) \in Nat
      /\ pc[r] = "chain" => Left(r) = 3 + Len(todo[r]) /\ Len(todo[r]) \in 1..3
      /\ pc[r] = "sinks" => Left(r) = Len(turn[r]) /\ Len(turn[r]) \in 1..2
      /\ pc[r] = "handler" => Left(r) = 3
      /\ pc \in [Req -> {"new", "chain", "handler", "sinks", "answered"}]
      /\ DOMAIN turn = Req /\ DOMAIN todo = Req
  BY LeftBounded DEF Left, Inv, TypesInv
<1>2. /\ pc'[r] = "answered" => Left(r)' = 0
      /\ pc'[r] = "handler" => Left(r)' = 3
      /\ pc'[r] = "sinks" => Left(r)' = Len(turn'[r])
      /\ pc'[r] = "chain" => Left(r)' = 3 + Len(todo'[r])
  BY DEF Left
<1>3. ASSUME NEW code, Answer(r, code) PROVE pc'[r] = "answered"
  BY <1>1, <1>3 DEF Answer
<1>4. ASSUME NEW signal, NEW anonymous, Emit(r, signal, anonymous)
      PROVE  Left(r)' = 2
  <2>1. pc'[r] = "sinks" /\ turn'[r] = <<"slog", "audit">>
    BY <1>1, <1>4 DEF Emit
  <2> QED
    BY <1>2, <2>1, Rest
<1>5. ASSUME pc[r] = "chain", Pass(r)
      PROVE  Left(r)' < Left(r) /\ Left(r)' \in Nat
  <2>1. todo[r] \in {<<"auth", "role", "limit">>, <<"auth", "limit">>,
                    <<"role", "limit">>, <<"limit">>}
    BY <1>5 DEF Inv, ChainInv, OnItsWay
  <2>2. /\ todo'[r] = Tail(todo[r])
        /\ pc'[r] = IF Len(todo[r]) = 1 THEN "handler" ELSE "chain"
    BY <1>1, <1>5 DEF Pass
  <2>3. CASE Len(todo[r]) = 1
    BY <1>1, <1>2, <1>5, <2>2, <2>3
  <2>4. CASE Len(todo[r]) # 1
    <3>1. Len(todo'[r]) = Len(todo[r]) - 1
      BY <2>1, <2>2, <2>4, Rest
    <3> QED
      BY <1>1, <1>2, <1>5, <2>2, <2>4, <3>1
  <2> QED
    BY <2>3, <2>4
<1>6. CASE RequireAuth(r)
  BY <1>1, <1>2, <1>3, <1>5, <1>6 DEF RequireAuth, At
<1>7. CASE RequireRole(r)
  BY <1>1, <1>2, <1>3, <1>5, <1>7 DEF RequireRole, At
<1>8. CASE RateLimit(r)
  <2>1. pc[r] = "chain" /\ (Pass(r) \/ Emit(r, "rate_limit_exceeded", who[r] = None))
    BY <1>8 DEF RateLimit, At
  <2> QED
    BY <1>1, <1>4, <1>5, <2>1
<1>9. CASE Handle(r) \/ Panic(r)
  <2>1. pc[r] = "handler"
    BY <1>9 DEF Handle, Panic
  <2>2. \/ \E code : Answer(r, code)
        \/ \E signal, anonymous : Emit(r, signal, anonymous)
    BY <1>9 DEF Handle, Panic
  <2> QED
    BY <1>1, <1>2, <1>3, <1>4, <2>1, <2>2
<1>10. CASE SinkTakes(r) \/ SinkFails(r)
  <2>1. pc[r] = "sinks" /\ turn[r] \in {<<"slog", "audit">>, <<"audit">>}
    BY <1>10 DEF SinkTakes, SinkFails, Inv, SinkInv
  <2>2. /\ turn'[r] = Tail(turn[r])
        /\ pc'[r] = IF Len(turn[r]) = 1 THEN "answered" ELSE "sinks"
    BY <1>1, <1>10 DEF SinkTakes, SinkFails, NextSink
  <2>3. CASE turn[r] = <<"audit">>
    BY <1>1, <1>2, <2>1, <2>2, <2>3, Rest
  <2>4. CASE turn[r] = <<"slog", "audit">>
    BY <1>1, <1>2, <2>1, <2>2, <2>4, Rest
  <2> QED
    BY <2>1, <2>3, <2>4
<1> QED
  BY <1>6, <1>7, <1>8, <1>9, <1>10 DEF Advance

\* No step takes a request that has arrived farther from its answer.
LEMMA NeverBack ==
    ASSUME Inv, [Next]_vars, NEW r \in Req, NEW n \in 0..6, Left(r) <= n
    PROVE  Left(r)' <= n
<1>1. CASE pc'[r] = pc[r] /\ todo'[r] = todo[r] /\ turn'[r] = turn[r]
  BY <1>1 DEF Left
<1>2. CASE Advance(r) \/ Panic(r)
  BY <1>2, LeftBounded, AdvancesForward
<1>3. pc[r] # "new"
  BY DEF Left
<1>4. ASSUME NEW s \in Req, NEW o \in Route, NEW c \in Claims \cup {None}, Arrive(s, o, c)
      PROVE  pc'[r] = pc[r] /\ todo'[r] = todo[r] /\ turn'[r] = turn[r]
  BY <1>3, <1>4 DEF Arrive, Inv, TypesInv
<1>5. ASSUME NEW s \in Req, s # r, Advance(s) \/ Panic(s)
      PROVE  pc'[r] = pc[r] /\ todo'[r] = todo[r] /\ turn'[r] = turn[r]
  BY <1>5 DEF Advance, Panic, RequireAuth, RequireRole, RateLimit, Handle,
      SinkTakes, SinkFails, NextSink, Answer, Emit, Pass, Inv, TypesInv
<1>6. ASSUME NEW k \in Key, WindowEnds(k)
      PROVE  pc'[r] = pc[r] /\ todo'[r] = todo[r] /\ turn'[r] = turn[r]
  BY <1>6 DEF WindowEnds
<1>7. CASE UNCHANGED vars
  BY <1>1, <1>7 DEF vars
<1> QED
  BY <1>1, <1>2, <1>4, <1>5, <1>6, <1>7 DEF Next

LEMMA RequestAnswered ==
    ASSUME NEW r \in Req
    PROVE  []Inv /\ [][Next]_vars /\ Runs(r)
               => (UnderWay(r) ~> pc[r] = "answered")
<1> DEFINE Within(n) == Left(r) <= n
<1>1. ASSUME NEW n \in 0..6
      PROVE  Inv /\ [Next]_vars /\ Within(n) => Within(n)'
  BY NeverBack
<1>2. ASSUME NEW n \in 1..6
      PROVE  Inv /\ <<Advance(r)>>_vars /\ Within(n) => Within(n - 1)'
  <2> SUFFICES ASSUME Inv, Advance(r), Left(r) <= n
               PROVE  Left(r)' <= n - 1
    OBVIOUS
  <2>1. Left(r) \in Nat /\ Left(r)' < Left(r) /\ Left(r)' \in Nat
    BY LeftBounded, AdvancesForward
  <2> QED
    BY <2>1
<1>3. Inv => /\ UnderWay(r) <=> Within(6) /\ ~Within(0)
             /\ pc[r] = "answered" <=> Within(0)
  BY LeftBounded
<1>4. Inv /\ [Next]_vars /\ Within(0) => Within(0)'
  BY <1>1
<1>5. Inv /\ [Next]_vars /\ Within(1) => Within(1)'
  BY <1>1
<1>6. Inv /\ [Next]_vars /\ Within(2) => Within(2)'
  BY <1>1
<1>7. Inv /\ [Next]_vars /\ Within(3) => Within(3)'
  BY <1>1
<1>8. Inv /\ [Next]_vars /\ Within(4) => Within(4)'
  BY <1>1
<1>9. Inv /\ [Next]_vars /\ Within(5) => Within(5)'
  BY <1>1
<1>10. Inv /\ [Next]_vars /\ Within(6) => Within(6)'
  BY <1>1
<1>11. Inv /\ <<Advance(r)>>_vars /\ Within(1) => Within(0)'
  BY <1>2
<1>12. Inv /\ <<Advance(r)>>_vars /\ Within(2) => Within(1)'
  BY <1>2
<1>13. Inv /\ <<Advance(r)>>_vars /\ Within(3) => Within(2)'
  BY <1>2
<1>14. Inv /\ <<Advance(r)>>_vars /\ Within(4) => Within(3)'
  BY <1>2
<1>15. Inv /\ <<Advance(r)>>_vars /\ Within(5) => Within(4)'
  BY <1>2
<1>16. Inv /\ <<Advance(r)>>_vars /\ Within(6) => Within(5)'
  BY <1>2
<1> HIDE DEF Within
<1> QED
  BY <1>3, <1>4, <1>5, <1>6, <1>7, <1>8, <1>9, <1>10, <1>11, <1>12, <1>13,
     <1>14, <1>15, <1>16, PTL DEF Runs

\* Every request that reached the server is answered, refused on the way, by
\* its handler or by recovery and whatever its sinks do, if each goroutine
\* under way keeps being run and none of its calls hangs.
THEOREM RequestsAreAnswered ==
    Spec /\ (\A r \in Req : Runs(r)) => EveryRequestIsAnswered
<1> SUFFICES ASSUME NEW r \in Req
             PROVE  Spec /\ (\A s \in Req : Runs(s))
                        => (pc[r] \notin {"new", "answered"} ~> pc[r] = "answered")
  BY DEF EveryRequestIsAnswered
<1>1. (\A s \in Req : Runs(s)) => Runs(r)
  OBVIOUS
<1>2. UnderWay(r) <=> pc[r] \notin {"new", "answered"}
  BY DEF UnderWay
<1> QED
  BY <1>1, <1>2, PipelineInvHolds, RequestAnswered, PTL DEF Spec
=============================================================================
