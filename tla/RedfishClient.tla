---------------------------- MODULE RedfishClient ----------------------------
(***************************************************************************)
(* The calls that reach a BMC: the methods of RedfishClient                 *)
(* (app/redfish/client.py) and IPMIClient (app/ipmi/client.py), and in      *)
(* which order the endpoints of a machine and the actions of a custom step  *)
(* make them. A method is a "read", a "write", or "tolerant": it catches    *)
(* the RedfishError of a BMC that refuses and returns nothing instead. A    *)
(* read of a collection asks for each member in turn and fails with the     *)
(* first that fails: nothing has changed, so one exchange stands for it.    *)
(***************************************************************************)
EXTENDS Sequences, Naturals, TLC

SystemMethods ==
  [get_service_root |-> "read", get_systems |-> "read", get_system |-> "read",
   get_processors |-> "read", get_memory |-> "read",
   get_network_interfaces |-> "read"]

PowerMethods == [get_power_state |-> "read", set_power_state |-> "write"]

BiosMethods ==
  [get_bios_attributes |-> "read", set_bios_attributes |-> "write",
   get_boot_order |-> "read", set_boot_override |-> "write"]

StorageMethods ==
  [get_storage_controllers |-> "read", get_drives |-> "read",
   get_volumes |-> "read", create_volume |-> "write", delete_volume |-> "write"]

(* get_gpus asks tolerant methods, then get_processors in a try of its own. *)
GpuMethods ==
  [get_pcie_devices |-> "tolerant", get_pcie_functions |-> "tolerant",
   get_gpus |-> "tolerant", get_gpu_thermal |-> "tolerant"]

TpmMethods == [get_trusted_modules |-> "tolerant", get_tpm_policy |-> "tolerant"]

FirmwareMethods == [get_firmware_inventory |-> "read", update_firmware |-> "write"]

ChassisMethods ==
  [get_chassis |-> "read", get_thermal |-> "read", get_power |-> "read"]

ManagerMethods ==
  [get_managers |-> "read", get_manager_network |-> "read",
   reset_bmc |-> "write", get_system_logs |-> "read",
   clear_system_logs |-> "write"]

SubscriptionMethods ==
  [get_event_subscriptions |-> "read", create_event_subscription |-> "write"]

MediaMethods ==
  [get_virtual_media |-> "read", mount_virtual_media |-> "write",
   unmount_virtual_media |-> "write"]

SecureBootMethods == [get_secure_boot |-> "read", set_secure_boot |-> "write"]

RawMethods == [raw_get |-> "read", raw_post |-> "write", raw_patch |-> "write"]

(* A fresh connection in a thread per call, with a logout in any case; what *)
(* goes wrong is an IPMIError, which the endpoints answer like a refusal.   *)
IpmiMethods ==
  [ipmi_get_power_state |-> "ipmi", ipmi_set_power_state |-> "ipmi",
   ipmi_get_sensor_data |-> "ipmi", ipmi_get_inventory |-> "ipmi",
   ipmi_get_boot_device |-> "ipmi", ipmi_get_system_event_log |-> "ipmi"]

(* check_ipmi_available catches the error.                                  *)
IpmiCheck == [check_ipmi_available |-> "caught"]

Kind ==
  SystemMethods @@ PowerMethods @@ BiosMethods @@ StorageMethods @@ GpuMethods
    @@ TpmMethods @@ FirmwareMethods @@ ChassisMethods @@ ManagerMethods
    @@ SubscriptionMethods @@ MediaMethods @@ SecureBootMethods @@ RawMethods
    @@ IpmiMethods @@ IpmiCheck

Methods == DOMAIN Kind

(* What becomes of an exchange: a status below 400; 400 or above; or none   *)
(* within the timeout, when a write may have been carried out.              *)
Replies == {"answered", "refused", "unreachable"}

(* What the caller of a method gets: _get, _post and _patch raise           *)
(* RedfishError for a refusal, and httpx raises errors of its own.          *)
Result(method, reply) ==
  CASE reply = "answered" \/ Kind[method] = "caught"   -> "ok"
    [] reply = "refused" /\ Kind[method] = "tolerant"  -> "ok"
    [] reply = "refused" \/ Kind[method] = "ipmi"      -> "bmc_error"
    [] OTHER                                           -> "other_error"

-----------------------------------------------------------------------------
(* The actions of a custom workflow's redfish step (_execute_redfish_action)*)

StepCalls ==
  [power_on |-> <<"set_power_state">>,   power_off |-> <<"set_power_state">>,
   restart |-> <<"set_power_state">>,    force_off |-> <<"set_power_state">>,
   set_bios |-> <<"set_bios_attributes">>,
   set_boot_pxe |-> <<"set_boot_override">>,
   set_boot_disk |-> <<"set_boot_override">>,
   set_boot_cd |-> <<"set_boot_override">>,
   mount_iso |-> <<"get_virtual_media", "get_managers", "mount_virtual_media">>,
   health_check |-> <<"get_system">>,
   get_inventory |-> <<"get_system", "get_processors", "get_memory",
                       "get_network_interfaces", "get_gpus">>,
   get_gpus |-> <<"get_gpus">>,
   get_gpu_health |-> <<"get_gpus", "get_chassis", "get_gpu_thermal">>,
   get_pcie_devices |-> <<"get_pcie_devices">>,
   get_tpm |-> <<"get_trusted_modules", "get_tpm_policy">>,
   firmware_update |-> <<"update_firmware">>,
   enable_secure_boot |-> <<"set_secure_boot">>,
   disable_secure_boot |-> <<"set_secure_boot">>,
   reset_bmc |-> <<"reset_bmc">>,        clear_logs |-> <<"clear_system_logs">>,
   raw |-> <<"raw_get">>]

(* mount_iso ends after its first call when there is no CD slot, and        *)
(* get_gpu_health after its second when there is no chassis.                *)
MayEndAfter == {<<"mount_iso", 1>>, <<"get_gpu_health", 2>>}
=============================================================================
