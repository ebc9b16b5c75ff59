------------------------------ MODULE MCFirmware ------------------------------
(* Small instances of Firmware for TLC.                                     *)
EXTENDS Firmware, TLC

CONSTANTS h1, h2, h3, b1, b2

(* Versions 1 and 2 match every machine, 3 does not match h2: between two   *)
(* others, maybe. Version 4 has no rules.                                   *)
MostApply == {h1, h2, h3} \X {1, 2, 4} \cup {h1, h3} \X {3}

Symmetry == Permutations({h1, h3}) \cup Permutations({b1, b2})
=============================================================================
