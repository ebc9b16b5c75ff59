----------------------------- MODULE DirectCalls -----------------------------
(***************************************************************************)
(* The endpoints that talk to the BMC of a machine within one request       *)
(* (app/api/machines.py, gpu.py, tpm.py, ipmi.py), beside a custom workflow *)
(* that drives the same BMC. A request loads the machine's row, makes its   *)
(* calls one after the other, writes what they told it and answers. It asks *)
(* nobody whether a workflow is at work: the two meet in the BMC and in the *)
(* machine's row.                                                           *)
(***************************************************************************)
EXTENDS CustomRun

CONSTANTS
  Requests,   \* requests to these endpoints, each made once
  Offered     \* the endpoints that the requests go to

(* The columns that an endpoint may write beside last_seen and updated_at;  *)
(* "attributes" stands for those of MachineUpdate.                          *)
Columns == {"attributes", "power_state", "health_status", "gpu_info", "tpm_info"}

(* A call of an endpoint: it must succeed, or the endpoint goes on without  *)
(* it when the BMC refuses ("refused") or whatever happens ("any").         *)
Must(method) == [method |-> method, forgives |-> "none"]
TryBmc(method) == [method |-> method, forgives |-> "refused"]
Try(method) == [method |-> method, forgives |-> "any"]

Endpoint(calls, writes, stamps) ==
  [calls |-> calls, writes |-> writes, stamps |-> stamps]
Single(method) == Endpoint(<<Must(method)>>, {}, FALSE)

(* PATCH and GET of the machine itself: no call.                            *)
RowEndpoints ==
  [get_machine |-> Endpoint(<< >>, {}, FALSE),
   update_machine |-> Endpoint(<< >>, {"attributes"}, TRUE)]

PowerEndpoints ==
  [power_action |-> Endpoint(<<Must("set_power_state")>>, {"power_state"}, TRUE),
   get_power |-> Endpoint(<<Must("get_power_state")>>, {"power_state"}, TRUE)]

BiosEndpoints ==
  [get_bios |-> Single("get_bios_attributes"),
   update_bios |-> Single("set_bios_attributes")]

BootEndpoints ==
  [get_boot |-> Single("get_boot_order"), set_boot |-> Single("set_boot_override")]

StorageEndpoints ==
  [get_storage |->
     Endpoint(<<Must("get_storage_controllers"), Must("get_drives")>>, {}, FALSE)]

FirmwareEndpoints ==
  [get_firmware |-> Single("get_firmware_inventory"),
   update_firmware |-> Single("update_firmware")]

(* Without a chassis the last two calls are not made, as if forgiven.       *)
HealthEndpoints ==
  [get_health |->
     Endpoint(<<Must("get_system"), Must("get_chassis"), Try("get_thermal"),
                Try("get_power")>>,
              {"health_status", "power_state"}, TRUE)]

OtherEndpoints ==
  [get_logs |-> Single("get_system_logs"),
   get_secure_boot |-> Single("get_secure_boot"),
   set_secure_boot |-> Single("set_secure_boot"),
   get_virtual_media |-> Single("get_virtual_media"),
   raw_redfish_get |-> Single("raw_get")]

(* The refresh of the inventory writes a row only when something is new.    *)
GpuEndpoints ==
  [get_gpus |-> Endpoint(<<Must("get_gpus")>>, {"gpu_info"}, FALSE),
   get_gpu_health |->
     Endpoint(<<Must("get_gpus"), Must("get_chassis"), Must("get_gpu_thermal")>>,
              {}, FALSE),
   get_pcie_devices |-> Single("get_pcie_devices")]

TpmEndpoints ==
  [get_tpm_status |->
     Endpoint(<<Must("get_trusted_modules"), Must("get_tpm_policy"),
                TryBmc("get_secure_boot")>>,
              {"tpm_info"}, FALSE)]

(* Power changed over IPMI is not written to the row.                       *)
IpmiEndpoints ==
  [ipmi_get_power |-> Single("ipmi_get_power_state"),
   ipmi_set_power |-> Single("ipmi_set_power_state"),
   ipmi_get_sensors |-> Single("ipmi_get_sensor_data"),
   ipmi_get_inventory |-> Single("ipmi_get_inventory"),
   ipmi_get_boot |-> Single("ipmi_get_boot_device"),
   ipmi_get_events |-> Single("ipmi_get_system_event_log"),
   ipmi_check_availability |-> Single("check_ipmi_available")]

Endpoints ==
  RowEndpoints @@ PowerEndpoints @@ BiosEndpoints @@ BootEndpoints
    @@ StorageEndpoints @@ FirmwareEndpoints @@ HealthEndpoints
    @@ OtherEndpoints @@ GpuEndpoints @@ TpmEndpoints @@ IpmiEndpoints

ASSUME OfferedAssumption == Offered \subseteq DOMAIN Endpoints

VARIABLES
  column,   \* the machine's row: the request that wrote a column last, or
            \* the value of power_state
  request   \* the requests: program counter, calls made, copies of the row

directVars == <<customVars, column, request>>

Power == {"On", "Off"}
Fresh == "registered"

NoRequest ==
  [pc |-> "none", at |-> "none", made |-> 0, seen |-> << >>, sees |-> NoState,
   copy |-> << >>]

DirectInit ==
  /\ CustomInit
  /\ column = [c \in Columns |-> IF c = "power_state" THEN "Off" ELSE Fresh]
  /\ request = [q \in Requests |-> NoRequest]

InRequest(q, pc) == request[q].pc = pc
SetRequest(q, r) == request' = [request EXCEPT ![q] = r]
RunsUnchanged == UNCHANGED customVars
Ep(q) == Endpoints[request[q].at]

(* The request arrives and loads the row; a machine that exists is there    *)
(* for good, because a machine with a workflow cannot be deleted.           *)
Arrive(q, e) ==
  /\ InRequest(q, "none")
  /\ SetRequest(q, [pc |-> "call", at |-> e, made |-> 0, seen |-> column,
                    sees |-> state, copy |-> column])
  /\ RunsUnchanged /\ UNCHANGED column

Passes(call, reply) ==
  LET result == Result(call.method, reply) IN
  \/ result = "ok"
  \/ result = "bmc_error" /\ call.forgives = "refused"
  \/ call.forgives = "any"

NextCall(q) == Ep(q).calls[request[q].made + 1]

CallReturns(q, reply) ==
  /\ InRequest(q, "call")
  /\ request[q].made < Len(Ep(q).calls)
  /\ Passes(NextCall(q), reply)
  /\ SetRequest(q, [request[q] EXCEPT !.made = request[q].made + 1])
  /\ RunsUnchanged /\ UNCHANGED column

(* 502 for an error the client knows, 500 for any other; the session is     *)
(* closed, and nothing has been written.                                    *)
CallRaises(q, reply) ==
  /\ InRequest(q, "call")
  /\ request[q].made < Len(Ep(q).calls)
  /\ ~Passes(NextCall(q), reply)
  /\ SetRequest(q, [NoRequest EXCEPT !.pc =
       IF Result(NextCall(q).method, reply) = "bmc_error" THEN "502" ELSE "500"])
  /\ RunsUnchanged /\ UNCHANGED column

(* Mutant: the columns are assigned when the last call is still to come.    *)
AssignEarly(q) ==
  /\ InRequest(q, "call")
  /\ request[q].made + 1 >= Len(Ep(q).calls)
  /\ SetRequest(q, [request[q] EXCEPT !.pc = "write"])
  /\ RunsUnchanged /\ UNCHANGED column

(* What the request assigns to the columns of its endpoint: a power state,  *)
(* or what it was told, in which some columns may differ from the copy.     *)
Assign(q) ==
  /\ InRequest(q, "call")
  /\ request[q].made = Len(Ep(q).calls)
  /\ \E power \in Power, news \in SUBSET Ep(q).writes :
       SetRequest(q, [request[q] EXCEPT !.pc = "write", !.copy =
         [c \in Columns |-> IF c = "power_state" /\ c \in Ep(q).writes THEN power
                            ELSE IF c \in news THEN q ELSE request[q].seen[c]]])
  /\ RunsUnchanged /\ UNCHANGED column

Changed(q) == {c \in Columns : request[q].copy[c] # request[q].seen[c]}

(* Mutant: the row is written as the request has loaded it.                 *)
WriteWholeRow(q) ==
  /\ InRequest(q, "write")
  /\ Changed(q) # {} \/ Ep(q).stamps => mlock = NoRun
  /\ column' = IF Changed(q) # {} \/ Ep(q).stamps THEN request[q].copy ELSE column
  /\ state' = IF Changed(q) # {} \/ Ep(q).stamps THEN request[q].sees ELSE state
  /\ SetRequest(q, [NoRequest EXCEPT !.pc = "200"])
  /\ UNCHANGED <<steps, status, retries, ckpt, mlock, wlock, run, executed,
                 waitRaised, crashes>>

(* The UPDATE waits for a run that holds the row, writes the columns that   *)
(* differ from the copy and commits at once; the request is answered. No    *)
(* UPDATE is sent when nothing differs.                                     *)
Write(q) ==
  /\ InRequest(q, "write")
  /\ Changed(q) # {} \/ Ep(q).stamps => mlock = NoRun
  /\ column' = [c \in Columns |-> IF c \in Changed(q) THEN request[q].copy[c]
                                  ELSE column[c]]
  /\ SetRequest(q, [NoRequest EXCEPT !.pc = "200"])
  /\ RunsUnchanged

Serve(q) ==
  \/ \E reply \in Replies : CallReturns(q, reply) \/ CallRaises(q, reply)
  \/ Assign(q)
  \/ Write(q)

RunWork(r) == Work(r) /\ UNCHANGED <<column, request>>

(* The requests die with the server, unanswered.                            *)
ServerCrash ==
  /\ Crash
  /\ request' = [q \in Requests |->
       IF request[q].pc \in {"call", "write"} THEN [NoRequest EXCEPT !.pc = "lost"]
       ELSE request[q]]
  /\ UNCHANGED column

DirectNext ==
  \/ \E q \in Requests : (\E e \in Offered : Arrive(q, e)) \/ Serve(q)
  \/ \E r \in Runs :
       \/ RunWork(r)
       \/ (CreateWorkflow(r) \/ ResumeLoad(r)) /\ UNCHANGED <<column, request>>
  \/ ServerCrash

DirectSpec == DirectInit /\ [][DirectNext]_directVars

(* asyncio runs every ready task, each call returns or times out, and       *)
(* PostgreSQL serves the waiters of a row lock in order: whoever can go on  *)
(* again and again does.                                                    *)
FairDirectSpec ==
  /\ DirectSpec
  /\ \A q \in Requests : SF_directVars(Serve(q))
  /\ \A r \in Runs : SF_directVars(RunWork(r))

-----------------------------------------------------------------------------
(* Properties                                                               *)

(* Beside the rows and runs of the workflow, requests have their types, and *)
(* one that writes has made all its calls.                                  *)
DirectTypeOK ==
  /\ CustomTypeOK
  /\ column \in [Columns -> Requests \cup Power \cup {Fresh}]
  /\ \A q \in Requests :
       /\ request[q].pc \in {"none", "call", "write", "200", "502", "500", "lost"}
       /\ InRequest(q, "write") => request[q].made = Len(Ep(q).calls)

(* Every request is answered, although it may have to wait for the row      *)
(* that one run after another holds across its own calls.                   *)
EveryRequestAnswered ==
  \A q \in Requests :
    InRequest(q, "call") ~> request[q].pc \in {"200", "502", "500", "lost"}
=============================================================================
