---------------------------- MODULE ExternalTools ----------------------------
(***************************************************************************)
(* The calls by which the orchestrator has an operating system installed    *)
(* (app/provisioning/orchestrator.py, satellite.py, mecm.py, vcenter.py,    *)
(* ignition.py), in their order. Logging in, and the retry of a vCenter     *)
(* call whose session has expired, are part of the call.                    *)
(***************************************************************************)
EXTENDS Sequences

(* provision_host: the host is created in build mode.                       *)
SatelliteCalls == <<"create_host">>

(* provision_device.                                                        *)
MecmCalls ==
  <<"import_device", "add_to_collection", "create_deployment", "set_pxe_variables">>

(* provision_esxi_host. The lookups of add_host raise like a POST without   *)
(* effect, get_host at the end like one that has taken it; no license key   *)
(* is passed.                                                               *)
VCenterCalls == <<"add_host", "enter_maintenance_mode", "exit_maintenance_mode">>

(* render_ignition_json and the file it is saved in.                        *)
IgnitionCalls == <<"save_ignition_config">>

ToolMethods == {"satellite", "mecm", "vcenter", "ignition", "manual"}

(* start_provision, the cases of its match.                                 *)
ToolCalls(method) ==
  CASE method = "satellite" -> SatelliteCalls
    [] method = "mecm" -> MecmCalls
    [] method = "vcenter" -> VCenterCalls
    [] method = "ignition" -> IgnitionCalls
    [] method = "manual" -> << >>

(* _move_host_to_cluster passes over an error of the call.                  *)
PassedOver == {"enter_maintenance_mode"}

(* From this call on the machine installs when it next boots.               *)
OrdersInstall == {"create_host", "save_ignition_config"}
=============================================================================
