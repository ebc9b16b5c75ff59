---------------------------- MODULE MCRegistration ----------------------------
(* Small instances of Registration for TLC: d1 and d2 discover overlapping  *)
(* subnets, r1 registers an address of both.                                *)
EXTENDS Registration

CONSTANTS d1, d2, r1

Subnets ==
  [r \in Requests |-> CASE r = d1 -> {1, 2, 3} [] r = d2 -> {2, 3, 4} [] OTHER -> {3}]
=============================================================================
