---------------------------- MODULE MCDirectCalls ----------------------------
(* Small instances of CustomRun and DirectCalls for TLC.                    *)
EXTENDS DirectCalls

CONSTANTS r1, r2, r3, q1, q2

(* A composite BMC action, a step whose record is not its name, a playbook. *)
MountWaitDeploy ==
  <<[name |-> "mount", type |-> "redfish", action |-> "mount_iso"],
    [name |-> "settle", type |-> "wait", action |-> "none"],
    [name |-> "deploy", type |-> "ansible", action |-> "none"]>>

(* The type of the second step is one that the engine does not know.        *)
ThenUnknown ==
  <<[name |-> "cool", type |-> "redfish", action |-> "get_gpu_health"],
    [name |-> "verify", type |-> "other", action |-> "none"]>>

Lists == {MountWaitDeploy, ThenUnknown}
OneList == {MountWaitDeploy}
OnlyWait == {<<MountWaitDeploy[2]>>}
=============================================================================
