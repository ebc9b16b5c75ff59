------------------------------ MODULE MCTenants ------------------------------
(* Small instances of Tenants for TLC.                                      *)
EXTENDS Tenants, TLC

CONSTANTS ann, bob
Interchangeable == Permutations(TenantRequests)
=============================================================================
