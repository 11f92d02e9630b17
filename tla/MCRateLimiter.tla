---------------------------- MODULE MCRateLimiter ----------------------------
(* Instances of RateLimiter for TLC: two routes share keys, as login and    *)
(* refresh do, and the second admits more.                                  *)
EXTENDS RateLimiter, TLC

CONSTANTS login, refresh

LoginLimit  == [o \in {login} |-> 1]
RouteLimits == (login :> 1) @@ (refresh :> 2)

Symmetry == Permutations(Req) \cup Permutations(Key)
=============================================================================
