---------------------------- MODULE MCProvisioning ----------------------------
(* An instance of Provisioning for TLC: requests and tenants are              *)
(* interchangeable, and so are e-mails.                                       *)
EXTENDS Provisioning, TLC

Symmetry == Permutations(Request) \cup Permutations(Tenant) \cup Permutations(Email)
=============================================================================
