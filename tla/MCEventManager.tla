---------------------------- MODULE MCEventManager ----------------------------
(* Small instances of EventManager for TLC. Clients are interchangeable, so *)
(* are producers, and no liveness property is checked.                      *)
EXTENDS EventManager

Symmetry == Permutations(Clients) \cup Permutations(Producers)
=============================================================================
