-------------------------- MODULE MCRequestPipeline --------------------------
(* Instances of RequestPipeline for TLC: the second auth route admits more. *)
EXTENDS RequestPipeline

Limits == [o \in Route |-> IF o = "refresh" THEN 2 ELSE 1]
=============================================================================
