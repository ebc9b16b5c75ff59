---------------------------- MODULE WorkflowTypes ----------------------------
(***************************************************************************)
(* What the five workflow types of app/engine/workflows.py have in common:  *)
(* the state a run moves the machine to first, the steps it takes, the      *)
(* state it leaves the machine in, and what a failure does to the machine.  *)
(* The runners run_enroll, run_provision, run_decommission,                 *)
(* run_health_check and run_custom differ in these tables only.             *)
(***************************************************************************)
EXTENDS MachineStates, Sequences, Naturals

CONSTANTS
  Machines,          \* rows of the machines table
  Workflows,         \* rows of the workflows table
  MachineOf,         \* workflows.machine_id, which never changes
  OfferedTypes,      \* the workflow types that requests ask for
  InitialStates,     \* states of the machines when the server starts
  MaxRetries,        \* workflows.max_retries
  ProvisionOptions,  \* optional steps that params of a provision ask for
  CustomTarget,      \* params.target_state of a custom workflow, or NoState
  CustomFinal,       \* params.final_state of a custom workflow, or NoState
  CustomSteps        \* params.steps of a custom workflow

WorkflowTypes ==
  {"enroll", "provision", "decommission", "health_check", "custom"}

Statuses == {"pending", "running", "resuming", "completed", "failed"}

ASSUME MachineOfAssumption == MachineOf \in [Workflows -> Machines]
ASSUME OfferedTypesAssumption == OfferedTypes \subseteq WorkflowTypes
ASSUME InitialStatesAssumption ==
  InitialStates \subseteq (MachineStates \ (TransientStates \cup {"error"}))
                           \cup {NoState}
ASSUME MaxRetriesAssumption == MaxRetries \in Nat
ASSUME CustomAssumption ==
  /\ CustomTarget \in MachineStates \cup {NoState}
  /\ CustomFinal \in MachineStates \cup {NoState}
  /\ CustomSteps \in Seq(STRING)

(* The first transition of a run, before it touches the BMC (lines 119,     *)
(* 166, 252 and 443-447 of workflows.py).                                   *)
TargetState(t) ==
  CASE t = "enroll"       -> "enrolling"
    [] t = "provision"    -> "provisioning"
    [] t = "decommission" -> "decommissioning"
    [] t = "custom"       -> CustomTarget
    [] OTHER              -> NoState

(* The last transition of a run, after its steps (lines 146, 232, 273 and   *)
(* 507-511).                                                                *)
FinalState(t) ==
  CASE t = "enroll"       -> "enrolled"
    [] t = "provision"    -> "ready"
    [] t = "decommission" -> "decommissioned"
    [] t = "custom"       -> CustomFinal
    [] OTHER              -> NoState

(* The state a run that completes leaves in its row, NoState for untouched. *)
Outcome(t) == IF FinalState(t) # NoState THEN FinalState(t) ELSE TargetState(t)

(* The except clauses of the runners: all but the health check set ERROR.   *)
FailureSetsError(t) == t # "health_check"

(* The names passed to _update_workflow, in order; "complete" is the commit *)
(* of the run and not a step here.                                          *)
EnrollSteps == <<"connect_bmc", "collect_inventory">>

Optional(step) == IF step \in ProvisionOptions THEN <<step>> ELSE << >>

ProvisionSteps ==
  Optional("configure_bios") \o Optional("configure_storage")
    \o <<"set_pxe_boot">> \o Optional("mount_iso")
    \o <<"power_on", "wait_for_os", "refresh_inventory">>

DecommissionSteps == <<"power_off", "clear_boot_override", "clear_logs">>

HealthCheckSteps ==
  <<"check_power", "check_system", "check_thermal", "check_firmware",
    "check_gpus", "check_tpm">>

Steps(t) ==
  CASE t = "enroll"       -> EnrollSteps
    [] t = "provision"    -> ProvisionSteps
    [] t = "decommission" -> DecommissionSteps
    [] t = "health_check" -> HealthCheckSteps
    [] OTHER              -> CustomSteps

(* Steps whose own work cannot fail the run: a sleep, plain assignments, or *)
(* BMC calls inside a try / except Exception: pass.                         *)
SafeSteps == {"collect_inventory", "wait_for_os", "clear_logs", "check_thermal"}
=============================================================================
