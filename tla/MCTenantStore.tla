---------------------------- MODULE MCTenantStore ----------------------------
(* An instance of TenantStore for TLC. *)
EXTENDS TenantStore, TLC

Symmetry == Permutations(Request) \cup Permutations(Conn) \cup Permutations(Tenant)
=============================================================================
