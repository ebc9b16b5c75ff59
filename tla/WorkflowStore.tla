---------------------------- MODULE WorkflowStore ----------------------------
(***************************************************************************)
(* What the database promises its readers about machines and workflows (the *)
(* REST API, the dashboard, the provisioning task that polls a workflow):   *)
(* a run of a workflow is one atomic change of the two rows. No reader ever *)
(* sees a run in progress, because a runner of app/engine/workflows.py      *)
(* flushes its changes as it goes but commits only when it ends.            *)
(* WorkflowEngine, with its sessions and row locks, implements this.        *)
(***************************************************************************)
EXTENDS WorkflowTypes

VARIABLES
  mstate,   \* machines.state, NoState while the row does not exist
  wtype,    \* workflows.workflow_type, NoState while the row does not exist
  wstatus,  \* workflows.status, NoState while the row does not exist
  wretry    \* workflows.retry_count

storeVars == <<mstate, wtype, wstatus, wretry>>

StoreInit ==
  /\ mstate \in [Machines -> InitialStates]
  /\ wtype = [w \in Workflows |-> NoState]
  /\ wstatus = [w \in Workflows |-> NoState]
  /\ wretry = [w \in Workflows |-> 0]

(* A new pending row, for a machine that exists once the step is done.      *)
NewWorkflow(w, t) ==
  /\ wstatus[w] = NoState
  /\ wtype' = [wtype EXCEPT ![w] = t]
  /\ wstatus' = [wstatus EXCEPT ![w] = "pending"]
  /\ UNCHANGED wretry

Register(w) ==
  /\ mstate[MachineOf[w]] = NoState
  /\ mstate' = [mstate EXCEPT ![MachineOf[w]] = "discovered"]
  /\ NewWorkflow(w, "enroll")

Create(w, t) ==
  /\ mstate[MachineOf[w]] # NoState
  /\ NewWorkflow(w, t)
  /\ UNCHANGED mstate

(* A retry is booked: never more than MaxRetries on the row.                *)
Claim(w) ==
  /\ wstatus[w] \in Statuses
  /\ wstatus' = [wstatus EXCEPT ![w] = "resuming"]
  /\ \E n \in 1..MaxRetries : wretry' = [wretry EXCEPT ![w] = n]
  /\ UNCHANGED <<mstate, wtype>>

(* A run that succeeds: the status and the machine's final state together.  *)
Complete(w) ==
  /\ wstatus[w] \in Statuses
  /\ wstatus' = [wstatus EXCEPT ![w] = "completed"]
  /\ mstate' = IF Outcome(wtype[w]) = NoState THEN mstate
               ELSE [mstate EXCEPT ![MachineOf[w]] = Outcome(wtype[w])]
  /\ UNCHANGED <<wtype, wretry>>

(* A run that fails. The row of a machine that the run had read as ERROR    *)
(* already is not written again, nor a status it had read as failed.        *)
Fail(w) ==
  /\ wstatus[w] \in Statuses
  /\ wstatus' \in {wstatus, [wstatus EXCEPT ![w] = "failed"]}
  /\ \/ UNCHANGED mstate
     \/ /\ FailureSetsError(wtype[w])
        /\ mstate' = [mstate EXCEPT ![MachineOf[w]] = "error"]
  /\ UNCHANGED <<wtype, wretry>>

StoreNext ==
  \E w \in Workflows :
    \/ Register(w)
    \/ \E t \in OfferedTypes : Create(w, t)
    \/ Claim(w)
    \/ Complete(w)
    \/ Fail(w)

StoreSpec == StoreInit /\ [][StoreNext]_storeVars
=============================================================================
