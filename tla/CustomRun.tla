------------------------------ MODULE CustomRun ------------------------------
(***************************************************************************)
(* A custom workflow and its resumption (app/engine/workflows.py,           *)
(* run_custom and resume_workflow): which steps have been executed, which   *)
(* checkpoint the row carries, and where a resumed run takes up the work.   *)
(* One workflow of one machine, and the tasks that run it; sessions, copies *)
(* and row locks are those of WorkflowEngine, which treats the steps of a   *)
(* run as a number. The run implements WorkflowStore.                       *)
(***************************************************************************)
EXTENDS RedfishClient, MachineStates, FiniteSets

CONSTANTS
  Runs,          \* slots for tasks that resume or run the workflow
  NoRun,         \* holder of a free row lock
  StepLists,     \* the params.steps that requests ask for
  Target,        \* params.target_state, or NoState
  Final,         \* params.final_state, or NoState
  InitialState,  \* the machine's state when the workflow is requested
  MaxRetries,    \* workflows.max_retries
  MaxCrashes     \* bound on crashes of the server

(* A step's type is checked when its turn comes: "other" stands for a type  *)
(* that run_custom does not know.                                           *)
Step == [name : STRING, type : {"redfish", "ansible", "wait", "other"},
         action : STRING]

ASSUME NoRunAssumption == NoRun \notin Runs
ASSUME StepListsAssumption == StepLists \subseteq Seq(Step)
ASSUME StatesAssumption ==
  /\ Target \in MachineStates \cup {NoState}
  /\ Final \in MachineStates \cup {NoState}
  /\ InitialState \in MachineStates \ (TransientStates \cup {"error"})
ASSUME BoundsAssumption == MaxRetries \in Nat /\ MaxCrashes \in Nat

VARIABLES
  steps,      \* params.steps of the workflow, which never change
  state,      \* machines.state
  status,     \* workflows.status, NoState while the row does not exist
  retries,    \* workflows.retry_count
  ckpt,       \* workflows.last_checkpoint, NoState for NULL
  mlock,      \* run whose uncommitted UPDATE locks the machine's row
  wlock,      \* run whose uncommitted UPDATE locks the workflow's row
  run,        \* the tasks: program counter, position, copies of the rows
  executed,   \* positions of the steps that have been carried out
  waitRaised, \* a wait step has failed (history)
  crashes

rowVars == <<steps, state, status, retries, ckpt>>
customVars == <<steps, state, status, retries, ckpt, mlock, wlock, run,
                executed, waitRaised, crashes>>

N == Len(steps)

Idle ==
  [pc |-> "idle", pos |-> 1, call |-> 0, mseen |-> NoState, mdirty |-> FALSE,
   wseen |-> NoState, wdirty |-> FALSE, cseen |-> NoState, cdirty |-> FALSE,
   rseen |-> 0]

CustomInit ==
  /\ steps \in StepLists
  /\ state = InitialState
  /\ status = NoState
  /\ retries = 0
  /\ ckpt = NoState
  /\ mlock = NoRun
  /\ wlock = NoRun
  /\ run = [r \in Runs |-> Idle]
  /\ executed = {}
  /\ waitRaised = FALSE
  /\ crashes = 0

At(r, pc) == run[r].pc = pc
Set(r, c) == run' = [run EXCEPT ![r] = c]
Goto(r, pc) == Set(r, [run[r] EXCEPT !.pc = pc])

(* Assigning an attribute marks it to be written when its value differs     *)
(* from the copy's.                                                         *)
SeeState(c, v) == [c EXCEPT !.mseen = v, !.mdirty = c.mdirty \/ v # c.mseen]
SeeStatus(c, v) == [c EXCEPT !.wseen = v, !.wdirty = c.wdirty \/ v # c.wseen]
SeeCkpt(c, v) == [c EXCEPT !.cseen = v, !.cdirty = c.cdirty \/ v # c.cseen]

LockMachine(r) == mlock \in {r, NoRun} /\ mlock' = r
LockWorkflow(r) == wlock \in {r, NoRun} /\ wlock' = r

Unlocked(lock, r) == IF lock = r THEN NoRun ELSE lock

(* Mutant: the locks outlive the transaction.                               *)
CommitCopyKeepsLocks(r, c) ==
  /\ state' = IF c.mdirty THEN c.mseen ELSE state
  /\ status' = IF c.wdirty THEN c.wseen ELSE status
  /\ ckpt' = IF c.cdirty THEN c.cseen ELSE ckpt
  /\ Set(r, Idle)
  /\ UNCHANGED <<steps, retries, mlock, wlock, executed, waitRaised, crashes>>

(* The transaction of r ends with the copy c: changed columns are written,  *)
(* the locks released, the session closed.                                  *)
CommitCopy(r, c) ==
  /\ state' = IF c.mdirty THEN c.mseen ELSE state
  /\ status' = IF c.wdirty THEN c.wseen ELSE status
  /\ ckpt' = IF c.cdirty THEN c.cseen ELSE ckpt
  /\ mlock' = Unlocked(mlock, r)
  /\ wlock' = Unlocked(wlock, r)
  /\ Set(r, Idle)
  /\ UNCHANGED <<steps, retries, executed, waitRaised, crashes>>

OnlyRuns == UNCHANGED <<rowVars, mlock, wlock, executed, waitRaised, crashes>>

-----------------------------------------------------------------------------
(* Requests, and resume_workflow                                            *)

CreateWorkflow(r) ==
  /\ status = NoState
  /\ status' = "pending"
  /\ At(r, "idle")
  /\ Goto(r, "load")
  /\ UNCHANGED <<steps, state, retries, ckpt, mlock, wlock, executed,
                 waitRaised, crashes>>

(* The checks of the endpoint and, on the copy that is written back, those  *)
(* of resume_workflow, which a request has to pass again.                   *)
ResumeLoad(r) ==
  /\ At(r, "idle")
  /\ status = "failed"
  /\ retries < MaxRetries
  /\ Set(r, [Idle EXCEPT !.pc = "claim", !.rseen = retries])
  /\ OnlyRuns

ResumeClaim(r) ==
  /\ At(r, "claim")
  /\ wlock = NoRun
  /\ status' = "resuming"
  /\ retries' = run[r].rseen + 1
  /\ Goto(r, "claimed")
  /\ UNCHANGED <<steps, state, ckpt, mlock, wlock, executed, waitRaised,
                 crashes>>

(* A machine in ERROR has its error_message cleared, unless another resume  *)
(* has done so: then no UPDATE is sent that would wait for the row.         *)
ResumeReads(r) ==
  /\ At(r, "claimed")
  /\ \E pc \in {"load", "clear"} :
       /\ pc = "clear" => state = "error"
       /\ Set(r, [Idle EXCEPT !.pc = pc])
  /\ OnlyRuns

ResumeClears(r) ==
  /\ At(r, "clear")
  /\ mlock = NoRun
  /\ Set(r, [Idle EXCEPT !.pc = "load"])
  /\ OnlyRuns

-----------------------------------------------------------------------------
(* run_custom                                                               *)

LoadMachine(r) ==
  /\ At(r, "load")
  /\ Set(r, [run[r] EXCEPT !.pc = "load_wf", !.mseen = state])
  /\ OnlyRuns

(* A resumed run skips to the first step of the checkpoint's name, which it *)
(* executes again; it skips every step when none has that name.             *)
ResumeAt(name) ==
  LET found == {i \in 1..N : steps[i].name = name} IN
  IF found = {} THEN N + 1 ELSE CHOOSE i \in found : \A j \in found : i <= j

StartAt(wf, name) ==
  IF wf = "resuming" /\ name # NoState THEN ResumeAt(name) ELSE 1

(* The workflow's row is loaded, and target_state validated on the copy of  *)
(* the machine.                                                             *)
LoadWorkflow(r) ==
  LET c == [run[r] EXCEPT !.wseen = status, !.cseen = ckpt,
                          !.pos = StartAt(status, ckpt)]
  IN
  /\ At(r, "load_wf")
  /\ \/ /\ Target = NoState
        /\ Set(r, [c EXCEPT !.pc = "step"])
     \/ /\ Target # NoState
        /\ CanMove(c.mseen, Target)
        /\ Set(r, [SeeState(c, Target) EXCEPT !.pc = "begin"])
     \/ /\ Target # NoState
        /\ ~CanMove(c.mseen, Target)
        /\ Set(r, [c EXCEPT !.pc = "fail"])
  /\ OnlyRuns

(* Mutant: the transition is left to the next flush.                        *)
BeginWithoutFlush(r) ==
  /\ At(r, "begin")
  /\ \E pc \in {"step", "fail"} : Goto(r, pc)
  /\ OnlyRuns

(* _transition: the flush, and the broadcast, which may raise.              *)
Begin(r) ==
  /\ At(r, "begin")
  /\ LockMachine(r)
  /\ \E pc \in {"step", "fail"} : Goto(r, pc)
  /\ UNCHANGED <<rowVars, wlock, executed, waitRaised, crashes>>

Current(r) == steps[run[r].pos]
Turn(r) == At(r, "step") /\ run[r].pos <= N

(* _update_workflow stores the step's name as the checkpoint before the     *)
(* step is carried out; a wait step is called by its duration there.        *)
Recorded(step) == IF step.type = "wait" THEN "wait_10s" ELSE step.name

(* Mutant: the checkpoint tells the step that comes next.                   *)
RecordNextStep(r) ==
  /\ Turn(r)
  /\ Current(r).type # "other"
  /\ LockWorkflow(r)
  /\ \E pc \in {"work", "fail"} :
       /\ Set(r, [SeeCkpt(SeeStatus(run[r], "running"),
                    IF run[r].pos < N THEN Recorded(steps[run[r].pos + 1])
                    ELSE "complete")
                  EXCEPT !.pc = pc, !.call = 0])
       /\ waitRaised' = (waitRaised \/ (pc = "fail" /\ Current(r).type = "wait"))
  /\ UNCHANGED <<rowVars, mlock, executed, crashes>>

(* The flush, and the broadcast (of an Ansible step, two), which may raise. *)
RecordStep(r) ==
  /\ Turn(r)
  /\ Current(r).type # "other"
  /\ LockWorkflow(r)
  /\ \E pc \in {"work", "fail"} :
       /\ Set(r, [SeeCkpt(SeeStatus(run[r], "running"), Recorded(Current(r)))
                  EXCEPT !.pc = pc, !.call = 0])
       /\ waitRaised' = (waitRaised \/ (pc = "fail" /\ Current(r).type = "wait"))
  /\ UNCHANGED <<rowVars, mlock, executed, crashes>>

UnknownStep(r) ==
  /\ Turn(r)
  /\ Current(r).type = "other"
  /\ Goto(r, "fail")
  /\ OnlyRuns

Calls(step) == IF step.type = "redfish" THEN StepCalls[step.action] ELSE <<step.type>>

(* A call of the step has returned, and another follows.                    *)
CallDone(r) ==
  /\ At(r, "work")
  /\ run[r].call + 1 < Len(Calls(Current(r)))
  /\ Set(r, [run[r] EXCEPT !.call = run[r].call + 1])
  /\ OnlyRuns

(* The last call has returned: _save_checkpoint, and on to the next step.   *)
StepDone(r) ==
  /\ At(r, "work")
  /\ \/ run[r].call + 1 = Len(Calls(Current(r)))
     \/ <<Current(r).action, run[r].call + 1>> \in MayEndAfter
  /\ executed' = executed \cup {run[r].pos}
  /\ Set(r, [SeeCkpt(run[r], Current(r).name)
             EXCEPT !.pc = "step", !.pos = run[r].pos + 1])
  /\ UNCHANGED <<rowVars, mlock, wlock, waitRaised, crashes>>

(* A call raises, one that changes the BMC perhaps after it took effect; or *)
(* the broadcast does that follows a playbook; or the sleep is given what   *)
(* is not a number.                                                         *)
StepRaises(r) ==
  /\ At(r, "work")
  /\ executed' \in {executed} \cup
       (IF run[r].call + 1 = Len(Calls(Current(r)))
        THEN {executed \cup {run[r].pos}} ELSE {})
  /\ Goto(r, "fail")
  /\ waitRaised' = (waitRaised \/ Current(r).type = "wait")
  /\ UNCHANGED <<rowVars, mlock, wlock, crashes>>

(* final_state, validated on the copy, flushed and broadcast.               *)
Finish(r) ==
  /\ At(r, "step")
  /\ run[r].pos > N
  /\ \/ /\ Final = NoState
        /\ Goto(r, "finish")
        /\ UNCHANGED mlock
     \/ /\ Final # NoState
        /\ CanMove(run[r].mseen, Final)
        /\ LockMachine(r)
        /\ \E pc \in {"finish", "fail"} :
             Set(r, [SeeState(run[r], Final) EXCEPT !.pc = pc])
     \/ /\ Final # NoState
        /\ ~CanMove(run[r].mseen, Final)
        /\ Goto(r, "fail")
        /\ UNCHANGED mlock
  /\ UNCHANGED <<rowVars, wlock, executed, waitRaised, crashes>>

(* _update_workflow("complete", "completed") flushes both rows; its         *)
(* broadcast may raise when all the work is done.                           *)
Complete(r) ==
  /\ At(r, "finish")
  /\ LockMachine(r)
  /\ LockWorkflow(r)
  /\ \E pc \in {"commit", "fail"} :
       Set(r, [SeeCkpt(SeeStatus(run[r], "completed"), "complete")
               EXCEPT !.pc = pc])
  /\ UNCHANGED <<rowVars, executed, waitRaised, crashes>>

Commit(r) == At(r, "commit") /\ CommitCopy(r, run[r])

(* The except clause: the machine's row, which is not written when it tells *)
(* this very failure already, then the workflow's, and the commit.          *)
FailMachine(r) ==
  /\ At(r, "fail")
  /\ \/ LockMachine(r)
     \/ run[r].mseen = "error" /\ UNCHANGED mlock
  /\ Set(r, [SeeState(run[r], "error") EXCEPT !.pc = "fail_wf"])
  /\ UNCHANGED <<rowVars, wlock, executed, waitRaised, crashes>>

FailWorkflow(r) ==
  /\ At(r, "fail_wf")
  /\ wlock \in {r, NoRun}
  /\ CommitCopy(r, SeeStatus(run[r], "failed"))

(* The flush of both rows has the machine's, and waits for the workflow's.  *)
CompleteWaits(r) ==
  /\ At(r, "finish")
  /\ mlock = NoRun
  /\ wlock \notin {r, NoRun}
  /\ mlock' = r
  /\ UNCHANGED <<rowVars, wlock, run, executed, waitRaised, crashes>>

WaitsForMachine(r) ==
  /\ mlock \notin {r, NoRun}
  /\ \/ run[r].pc \in {"begin", "finish", "fail"}
     \/ At(r, "step") /\ run[r].pos > N /\ Final # NoState

WaitsForWorkflow(r) ==
  /\ wlock \notin {r, NoRun}
  /\ \/ run[r].pc \in {"finish", "fail_wf"}
     \/ Turn(r)

(* A run that holds the machine's row and one that holds the workflow's     *)
(* wait for each other.                                                     *)
Circle(r, q) ==
  /\ mlock = r /\ WaitsForWorkflow(r)
  /\ wlock = q /\ WaitsForMachine(q)

(* PostgreSQL breaks the circle: one of the two waiting statements fails,   *)
(* and with its transaction the session, so that the except clause raises   *)
(* too. The task dies; its row stays as it was committed.                   *)
DeadlockAborts(r) ==
  /\ \E q \in Runs : Circle(r, q) \/ Circle(q, r)
  /\ mlock' = Unlocked(mlock, r)
  /\ wlock' = Unlocked(wlock, r)
  /\ Set(r, Idle)
  /\ UNCHANGED <<rowVars, executed, waitRaised, crashes>>

(* The server dies: what was not committed is rolled back, what the BMC was *)
(* told to do stays done.                                                   *)
Crash ==
  /\ crashes < MaxCrashes
  /\ \E r \in Runs : ~At(r, "idle")
  /\ crashes' = crashes + 1
  /\ run' = [r \in Runs |-> Idle]
  /\ mlock' = NoRun
  /\ wlock' = NoRun
  /\ UNCHANGED <<rowVars, executed, waitRaised>>

Work(r) ==
  \/ ResumeClaim(r) \/ ResumeReads(r) \/ ResumeClears(r)
  \/ LoadMachine(r) \/ LoadWorkflow(r) \/ Begin(r)
  \/ RecordStep(r) \/ UnknownStep(r) \/ CallDone(r) \/ StepDone(r)
  \/ StepRaises(r) \/ Finish(r) \/ Complete(r) \/ Commit(r)
  \/ FailMachine(r) \/ FailWorkflow(r)
  \/ CompleteWaits(r) \/ DeadlockAborts(r)

CustomNext ==
  \/ \E r \in Runs : CreateWorkflow(r) \/ ResumeLoad(r) \/ Work(r)
  \/ Crash

CustomSpec == CustomInit /\ [][CustomNext]_customVars

-----------------------------------------------------------------------------
(* Properties                                                               *)

(* Rows, locks and copies have their types, and no checkpoint is committed  *)
(* that no run writes.                                                      *)
CustomTypeOK ==
  /\ steps \in StepLists
  /\ state \in MachineStates
  /\ status \in {NoState, "pending", "resuming", "completed", "failed"}
  /\ retries \in 0..MaxRetries
  /\ ckpt \in {NoState, "complete", "wait_10s"} \cup {steps[i].name : i \in 1..N}
  /\ {mlock, wlock} \subseteq Runs \cup {NoRun}
  /\ \A r \in Runs : run[r].pos \in 1..N + 1 /\ run[r].rseen \in 0..MaxRetries
  /\ executed \subseteq 1..N
  /\ waitRaised \in BOOLEAN
  /\ crashes \in 0..MaxCrashes

(* However often a workflow fails, is resumed by racing requests or loses   *)
(* its run to a crash: unless a wait step was what failed, a resume from    *)
(* the committed checkpoint skips no step that was not carried out, and a   *)
(* workflow completes only with every step carried out.                     *)
NoStepLost ==
  ~waitRaised =>
    /\ status = "completed" => executed = 1..N
    /\ ckpt # NoState => 1..ResumeAt(ckpt) - 1 \subseteq executed

(* A run that has a target state takes the machine's row first, whatever    *)
(* step it is resumed at and wherever it fails: no two runs of the workflow *)
(* ever wait for each other's rows.                                         *)
NoCircularWait == \A r, q \in Runs : ~Circle(r, q)

(* However its row is fought over, every run ends.                          *)
EveryRunEnds == \A r \in Runs : ~At(r, "idle") ~> At(r, "idle")

(* "Each completed step is persisted; failed workflows restart from the     *)
(* failure point" (README.md): a workflow that is completed has carried out *)
(* all its steps.                                                           *)
CompletedMeansAllSteps == status = "completed" => executed = 1..N

(* The run is an atomic change of the two rows: what readers see of it is   *)
(* a behaviour of WorkflowStore with this one workflow, whose steps the     *)
(* store does not look at.                                                  *)
TheMachine == "machine"
TheWorkflow == "workflow"

Store == INSTANCE WorkflowStore WITH
  Machines <- {TheMachine},
  Workflows <- {TheWorkflow},
  MachineOf <- [w \in {TheWorkflow} |-> TheMachine],
  OfferedTypes <- {"custom"},
  InitialStates <- {InitialState},
  ProvisionOptions <- {},
  CustomTarget <- Target,
  CustomFinal <- Final,
  CustomSteps <- << >>,
  mstate <- [m \in {TheMachine} |-> state],
  wtype <- [w \in {TheWorkflow} |-> IF status = NoState THEN NoState ELSE "custom"],
  wstatus <- [w \in {TheWorkflow} |-> status],
  wretry <- [w \in {TheWorkflow} |-> retries]

RefinesStore == Store!StoreSpec
=============================================================================
