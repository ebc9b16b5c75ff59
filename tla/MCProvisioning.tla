---------------------------- MODULE MCProvisioning ----------------------------
(* Small instances of Provisioning for TLC.                                 *)
EXTENDS Provisioning

CONSTANTS m1, j1, j2, h1

(* j1 and j2 provision the same machine one after the other.                *)
OneMachine == [j \in Workflows |-> m1]
OneName == [j \in Workflows |-> h1]
Tools == [j \in Workflows |-> IF j = j2 THEN "vcenter" ELSE "mecm"]
NoSteps == << >>
=============================================================================
