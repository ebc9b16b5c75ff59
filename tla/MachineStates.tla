---------------------------- MODULE MachineStates ----------------------------
(***************************************************************************)
(* The lifecycle of a machine (app/models/machine.py, MachineState) and the *)
(* transition table that every explicit state change is validated against   *)
(* (app/engine/state_machine.py, VALID_TRANSITIONS).                        *)
(***************************************************************************)

MachineStates ==
  {"discovered", "enrolling", "enrolled", "provisioning", "ready", "in_use",
   "maintenance", "decommissioning", "decommissioned", "error"}

(* NoState stands for Python's None: no target, no final state, no row.     *)
NoState == "none"

(* The states a built-in workflow passes through while it drives the BMC.   *)
TransientStates == {"enrolling", "provisioning", "decommissioning"}

ValidTransitions ==
  [discovered      |-> {"enrolling", "error"},
   enrolling       |-> {"enrolled", "error"},
   enrolled        |-> {"provisioning", "decommissioning", "error"},
   provisioning    |-> {"ready", "error"},
   ready           |-> {"in_use", "maintenance", "provisioning",
                        "decommissioning", "error"},
   in_use          |-> {"ready", "maintenance", "decommissioning", "error"},
   maintenance     |-> {"ready", "provisioning", "decommissioning", "error"},
   decommissioning |-> {"decommissioned", "error"},
   decommissioned  |-> {"discovered"},
   error           |-> {"discovered", "enrolled", "maintenance",
                        "decommissioning"}]

(* validate_transition: raises InvalidTransition when this is FALSE.        *)
CanMove(from, to) == to \in ValidTransitions[from]

(* What a commit can show of legal moves: one move, or two through a        *)
(* transient state that was never committed.                                *)
CanMoveAcross(from, to) ==
  \/ CanMove(from, to)
  \/ \E mid \in TransientStates : CanMove(from, mid) /\ CanMove(mid, to)
=============================================================================
