---------------------------- MODULE Provisioning ----------------------------
(***************************************************************************)
(* Provisioning jobs (app/api/provisioning.py, app/provisioning/            *)
(* orchestrator.py): a job pairs a hardware preparation workflow with an    *)
(* installation by an external tool, whose end a callback reports. The      *)
(* workflow is seen through WorkflowStore, as the polling task sees it.     *)
(* A job and its workflow are created together, so a job is named by its    *)
(* workflow here.                                                           *)
(***************************************************************************)
EXTENDS WorkflowStore, ExternalTools, SequencesExt

CONSTANTS
  HostOf,      \* provisioning_jobs.hostname; machines may share a name
  MethodOf,    \* provision_method of the job's profile
  Callbacks,   \* slots for concurrent callback requests
  MaxFaults    \* bound on crashes of the server and on pool timeouts

ASSUME MethodOfAssumption == MethodOf \in [Workflows -> ToolMethods]

VARIABLES
  jstatus,    \* provisioning_jobs.status, NoState while the row does not exist
  jorder,     \* the jobs by started_at
  running,    \* the jobs whose workflow has a task in the engine
  copies,     \* the retry_counts that a resume request may have loaded
  task,       \* program counter of the job's _run_full_provision
  gaveup,     \* the task has stopped polling before the workflow ended
  made,       \* the calls of the external tool that its task has made so far
  installer,  \* what the external tool does on the job's machine
  collection, \* the jobs whose devices are in the collection of MECM
  deployed,   \* the task sequence is deployed to the collection
  cb,         \* the callback requests in progress
  faults

prepVars == <<running, copies>>
toolVars == <<made, installer, collection, deployed>>
jobVars == <<jstatus, jorder, task, gaveup, toolVars, cb, faults>>
provVars == <<mstate, wtype, wstatus, wretry, prepVars, jstatus, jorder, task,
              gaveup, toolVars, cb, faults>>

TaskPCs ==
  {"none", "asked", "poll", "check", "dispatch", "dispatched", "announce",
   "done", "lost"}
NoCallback == [job |-> NoState, status |-> NoState]

ProvInit ==
  /\ StoreInit
  /\ jstatus = [j \in Workflows |-> NoState]
  /\ jorder = << >>
  /\ running = {}
  /\ copies = [j \in Workflows |-> {}]
  /\ task = [j \in Workflows |-> "none"]
  /\ gaveup = [j \in Workflows |-> FALSE]
  /\ made = [j \in Workflows |-> 0]
  /\ installer = [j \in Workflows |-> "idle"]
  /\ collection = {}
  /\ deployed = FALSE
  /\ cb = [c \in Callbacks |-> NoCallback]
  /\ faults = 0

Job(j, status) == jstatus' = [jstatus EXCEPT ![j] = status]
Goto(j, from, to) == task[j] = from /\ task' = [task EXCEPT ![j] = to]

-----------------------------------------------------------------------------
(* The workflow of a job, and its retry                                     *)

(* provision_machine looks at the machine's state ...                       *)
ProvisionMachine(j) ==
  /\ mstate[MachineOf[j]] \in {"enrolled", "ready", "error"}
  /\ Goto(j, "none", "asked")
  /\ UNCHANGED <<storeVars, prepVars, jstatus, jorder, gaveup, toolVars, cb,
                 faults>>

(* ... and commits the job and its workflow together, wherever the machine  *)
(* is by then. The task starts after the response.                          *)
CommitProvision(j) ==
  /\ Goto(j, "asked", "poll")
  /\ Create(j, "provision")
  /\ Job(j, "pending")
  /\ jorder' = Append(jorder, j)
  /\ running' = running \cup {j}
  /\ UNCHANGED <<copies, gaveup, toolVars, cb, faults>>

(* A run ends as the store allows: one refused by the state machine is a    *)
(* failure, and one that read the machine before another run moved it may   *)
(* still complete. Two tasks of one workflow are not told apart: what the   *)
(* second commits, one that is started after the first may commit as well.  *)
PrepEnds(j) ==
  /\ j \in running
  /\ running' = running \ {j}

PrepCompletes(j) ==
  /\ PrepEnds(j)
  /\ Complete(j)
  /\ UNCHANGED <<copies, jobVars>>

(* An operator may resume a workflow that failed, if a retry is left. This  *)
(* is checked on a copy, which a request may load as long as it holds true. *)
Resumable(j) ==
  IF wstatus[j] = "failed" /\ wretry[j] < MaxRetries THEN {wretry[j]} ELSE {}

PrepFails(j) ==
  /\ PrepEnds(j)
  /\ Fail(j)
  /\ wstatus'[j] = "failed"
  /\ copies' = [copies EXCEPT ![j] = @ \cup Resumable(j)']
  /\ UNCHANGED jobVars

(* The engine's task finds no connection in the pool: db.get raises before  *)
(* the runner's try, and the workflow's row stays as it is.                 *)
PrepDies(j) ==
  /\ PrepEnds(j)
  /\ faults < MaxFaults
  /\ faults' = faults + 1
  /\ UNCHANGED <<copies, storeVars, jstatus, jorder, task, gaveup, toolVars, cb>>

(* The retry is booked on whatever the row says by then, by one request or  *)
(* more that hold the same copy. The job's task is not told.                *)
ResumePrep(j) ==
  /\ Claim(j)
  /\ wretry'[j] - 1 \in copies[j]
  /\ running' = running \cup {j}
  /\ UNCHANGED <<copies, jobVars>>

-----------------------------------------------------------------------------
(* _run_full_provision                                                      *)

PollSeesEnd(j) ==
  /\ Goto(j, "poll", "check")
  /\ wstatus[j] \in {"completed", "failed"}
  /\ UNCHANGED <<storeVars, prepVars, jstatus, jorder, gaveup, toolVars, cb,
                 faults>>

(* Mutant: the task polls until the workflow ends.                          *)
PollWithoutLimit(j) == FALSE /\ Goto(j, "poll", "check")

(* 120 polls, five seconds apart, have seen no end; the task goes on.       *)
PollGivesUp(j) ==
  /\ Goto(j, "poll", "check")
  /\ wstatus[j] \notin {"completed", "failed"}
  /\ gaveup' = [gaveup EXCEPT ![j] = TRUE]
  /\ UNCHANGED <<storeVars, prepVars, jstatus, jorder, toolVars, cb, faults>>

(* Mutant: a failed preparation is not looked at again before the install.  *)
CheckPrepIgnoresFailure(j) ==
  /\ Goto(j, "check", "dispatch")
  /\ UNCHANGED <<storeVars, prepVars, jstatus, jorder, gaveup, toolVars, cb,
                 faults>>

(* A second session reads the workflow again: only "failed" stops the job.  *)
CheckPrep(j) ==
  /\ \/ /\ wstatus[j] = "failed"
        /\ Goto(j, "check", "done")
        /\ Job(j, "failed")
     \/ /\ wstatus[j] # "failed"
        /\ Goto(j, "check", "dispatch")
        /\ UNCHANGED jstatus
  /\ UNCHANGED <<storeVars, prepVars, jorder, gaveup, toolVars, cb, faults>>

(* The same timeout in a session of this task, none of which is inside a    *)
(* try before the dispatch: the task is gone and the job stays pending.     *)
TaskDies(j) ==
  /\ Goto(j, "poll", "lost") \/ Goto(j, "check", "lost")
  /\ faults < MaxFaults
  /\ faults' = faults + 1
  /\ UNCHANGED <<storeVars, prepVars, jstatus, jorder, gaveup, toolVars, cb>>

(* orchestrator.start_provision makes the calls of the tool one by one. In  *)
(* MECM a deployment is for every device of the collection, which the       *)
(* profiles share: for those that other jobs have added, and those to come. *)
Calls(j) == ToolCalls(MethodOf[j])
NextTool(j) == Calls(j)[made[j] + 1]

Ordered(j) ==
  LET call == NextTool(j)
  IN IF call \in OrdersInstall \/ (call = "add_to_collection" /\ deployed) THEN {j}
     ELSE IF call = "create_deployment" THEN collection ELSE {}

Effect(j) ==
  /\ installer' = [k \in Workflows |-> IF k \in Ordered(j) THEN "running" ELSE installer[k]]
  /\ collection' = IF NextTool(j) = "add_to_collection" THEN collection \cup {j}
                   ELSE collection
  /\ deployed' = (deployed \/ NextTool(j) = "create_deployment")

Calling(j) == task[j] = "dispatch" /\ made[j] < Len(Calls(j))
CallMade(j) == made' = [made EXCEPT ![j] = @ + 1]

ToolReturns(j) ==
  /\ Calling(j)
  /\ Effect(j)
  /\ CallMade(j)
  /\ UNCHANGED <<storeVars, prepVars, jstatus, jorder, task, gaveup, cb, faults>>

(* The call raises, with its effect or without: the job fails. What earlier *)
(* calls have done stays. A tool that is disabled and a machine without a   *)
(* MAC address raise like a first call that has no effect.                  *)
ToolRaises(j) ==
  /\ Calling(j)
  /\ Effect(j) \/ UNCHANGED <<installer, collection, deployed>>
  /\ \/ /\ Goto(j, "dispatch", "done")
        /\ Job(j, "failed")
        /\ made' = [made EXCEPT ![j] = 0]
     \/ /\ NextTool(j) \in PassedOver
        /\ CallMade(j)
        /\ UNCHANGED <<jstatus, task>>
  /\ UNCHANGED <<storeVars, prepVars, jorder, gaveup, cb, faults>>

(* Mutant: the first call that returns starts the wait for the callback.    *)
DispatchEarly(j) ==
  /\ Goto(j, "dispatch", "dispatched")
  /\ Calling(j) => made[j] > 0
  /\ UNCHANGED <<storeVars, prepVars, jstatus, jorder, gaveup, toolVars, cb,
                 faults>>

(* All calls are made. The job is flushed as os_deploying and not yet       *)
(* committed.                                                               *)
Dispatch(j) ==
  /\ Goto(j, "dispatch", "dispatched")
  /\ ~Calling(j)
  /\ UNCHANGED <<storeVars, prepVars, jstatus, jorder, gaveup, toolVars, cb,
                 faults>>

CommitDispatch(j) ==
  /\ Goto(j, "dispatched", "announce")
  /\ Job(j, "os_deploying")
  /\ made' = [made EXCEPT ![j] = 0]
  /\ UNCHANGED <<storeVars, prepVars, jorder, gaveup, installer, collection,
                 deployed, cb, faults>>

(* Mutant: the status is assigned after the broadcast once more.            *)
AnnounceThenAssign(j) ==
  /\ Goto(j, "announce", "done")
  /\ Job(j, "os_deploying")
  /\ UNCHANGED <<storeVars, prepVars, jorder, gaveup, toolVars, cb, faults>>

Announce(j) ==
  /\ Goto(j, "announce", "done")
  /\ UNCHANGED <<storeVars, prepVars, jstatus, jorder, gaveup, toolVars, cb,
                 faults>>

(* The broadcast is inside the try: when it raises, the status is assigned  *)
(* on the session's copy and overwrites what a callback may have committed. *)
AnnounceRaises(j) ==
  /\ Goto(j, "announce", "done")
  /\ Job(j, "failed")
  /\ UNCHANGED <<storeVars, prepVars, jorder, gaveup, toolVars, cb, faults>>

-----------------------------------------------------------------------------
(* The installer and its callbacks                                          *)

InstallerEnds(j) ==
  /\ installer[j] = "running"
  /\ \E end \in {"installed", "failed"} :
       installer' = [installer EXCEPT ![j] = end]
  /\ UNCHANGED <<storeVars, prepVars, jstatus, jorder, task, gaveup, made,
                 collection, deployed, cb, faults>>

(* Mutant: the query does not filter by status.                             *)
AllJobs(jobs) == {j \in jobs : jstatus[j] # NoState}

Deploying(jobs) == {j \in jobs : jstatus[j] = "os_deploying"}
Latest(jobs) ==
  jorder[CHOOSE i \in 1..Len(jorder) :
           /\ jorder[i] \in jobs
           /\ \A k \in i + 1..Len(jorder) : jorder[k] \notin jobs]

OfMachine(m) == Deploying({j \in Workflows : MachineOf[j] = m})
OfHost(h) == Deploying({j \in Workflows : HostOf[j] = h})

(* provision_callback finds a job: the latest one deploying on the machine  *)
(* when the payload has a machine_id, else by hostname. The installer of    *)
(* job j may report more than once and at any time after its end.           *)
CallbackArrives(c, j, byMachine) ==
  LET mine == IF byMachine THEN OfMachine(MachineOf[j]) ELSE {}
      found == IF mine # {} THEN mine ELSE OfHost(HostOf[j])
  IN
  /\ cb[c] = NoCallback
  /\ installer[j] \in {"installed", "failed"}
  /\ found # {}                                        \* else a 404
  /\ cb' = [cb EXCEPT ![c] = [job |-> Latest(found), status |-> installer[j]]]
  /\ UNCHANGED <<storeVars, prepVars, jstatus, jorder, task, gaveup, toolVars,
                 faults>>

(* Mutant: the status of the payload is stored as it comes.                 *)
CallbackStoresPayload(c) ==
  /\ cb[c] # NoCallback
  /\ Job(cb[c].job, cb[c].status)
  /\ cb' = [cb EXCEPT ![c] = NoCallback]
  /\ UNCHANGED <<storeVars, prepVars, jorder, task, gaveup, toolVars, faults>>

(* ... and commits its outcome; the machine is moved when its committed     *)
(* state is PROVISIONING.                                                   *)
CallbackCommits(c) ==
  LET j == cb[c].job
      m == MachineOf[j]
  IN
  /\ cb[c] # NoCallback
  /\ Job(j, IF cb[c].status = "installed" THEN "completed" ELSE "failed")
  /\ mstate' = IF cb[c].status = "installed" /\ mstate[m] = "provisioning"
               THEN [mstate EXCEPT ![m] = "ready"] ELSE mstate
  /\ cb' = [cb EXCEPT ![c] = NoCallback]
  /\ UNCHANGED <<wtype, wstatus, wretry, prepVars, jorder, task, gaveup,
                 toolVars, faults>>

-----------------------------------------------------------------------------
(* The server dies: tasks and requests are gone, the tools go on. No       *)
(* restart takes up a workflow, a poll or an installation again.            *)
ProvCrash ==
  /\ faults < MaxFaults
  /\ faults' = faults + 1
  /\ task' = [j \in Workflows |->
                CASE task[j] \in {"none", "asked"} -> "none"
                  [] task[j] = "done" -> "done"
                  [] OTHER -> "lost"]
  /\ cb' = [c \in Callbacks |-> NoCallback]
  /\ running' = {}
  /\ copies' = [j \in Workflows |-> Resumable(j)]
  /\ made' = [j \in Workflows |-> 0]
  /\ UNCHANGED <<storeVars, jstatus, jorder, gaveup, installer, collection,
                 deployed>>

Prep(j) == PrepCompletes(j) \/ PrepFails(j) \/ PrepDies(j) \/ ResumePrep(j)

Task(j) ==
  \/ PollSeesEnd(j) \/ PollGivesUp(j) \/ CheckPrep(j)
  \/ ToolReturns(j) \/ ToolRaises(j) \/ Dispatch(j) \/ CommitDispatch(j)
  \/ Announce(j) \/ AnnounceRaises(j)

Callback(c) ==
  \/ \E j \in Workflows, byMachine \in BOOLEAN : CallbackArrives(c, j, byMachine)
  \/ CallbackCommits(c)

ProvNext ==
  \/ \E j \in Workflows :
       \/ ProvisionMachine(j) \/ CommitProvision(j) \/ Prep(j) \/ Task(j)
       \/ TaskDies(j) \/ InstallerEnds(j)
  \/ \E c \in Callbacks : Callback(c)
  \/ ProvCrash

(* asyncio runs every task that is ready: a poll sleeps five seconds, and a *)
(* call of a tool returns or times out.                                     *)
ProvSpec ==
  ProvInit /\ [][ProvNext]_provVars /\ \A j \in Workflows : WF_provVars(Task(j))

-----------------------------------------------------------------------------
(* Properties                                                               *)

(* The rows, the tasks and the requests have their types, and jorder lists  *)
(* exactly the jobs that exist, each once.                                  *)
ProvTypeOK ==
  /\ jstatus \in [Workflows -> {NoState, "pending", "os_deploying", "completed", "failed"}]
  /\ {jorder[i] : i \in DOMAIN jorder} = {j \in Workflows : jstatus[j] # NoState}
  /\ \A i, k \in DOMAIN jorder : jorder[i] = jorder[k] => i = k
  /\ running \subseteq {j \in Workflows : wstatus[j] \in {"pending", "resuming"}}
  /\ copies \in [Workflows -> SUBSET (0..MaxRetries)]
  /\ task \in [Workflows -> TaskPCs]
  /\ gaveup \in [Workflows -> BOOLEAN]
  /\ \A j \in Workflows : made[j] \in 0..Len(Calls(j))
  /\ installer \in [Workflows -> {"idle", "running", "installed", "failed"}]
  /\ collection \subseteq Workflows
  /\ deployed \in BOOLEAN
  /\ cb \in [Callbacks -> {NoCallback} \cup
              [job : Workflows, status : {"installed", "failed"}]]

(* An installation is ordered only for prepared hardware, unless the poll   *)
(* gave up or the failed preparation was resumed between two reads.         *)
InstallNeedsPrep ==
  \A j \in Workflows :
    installer[j] # "idle" => wstatus[j] = "completed" \/ gaveup[j] \/ wretry[j] > 0

(* A callback, early, late or meant for another job, never ends a job whose *)
(* own task has not committed the dispatch: it would be overwritten.        *)
NoCallbackBeforeDispatch ==
  \A c \in Callbacks : cb[c] # NoCallback =>
    task[cb[c].job] \in {"announce", "done", "lost"} /\ jstatus[cb[c].job] # "pending"

(* A job that has failed or completed is never deploying again: callbacks   *)
(* and the failure of its own task may swap its two ends, none reopens it.  *)
JobsStayEnded ==
  [][\A j \in Workflows : jstatus[j] \in {"completed", "failed"}
       => jstatus'[j] \in {"completed", "failed"}]_provVars

(* A job that waits for a callback has an installation ordered that can     *)
(* send it, whichever call raised or crash hit, for itself or for the other *)
(* jobs of its collection. (Manual and vCenter profiles order none, and     *)
(* their jobs wait for somebody to post the callback.)                      *)
WaitsForAnInstaller ==
  \A j \in Workflows :
    jstatus[j] = "os_deploying" /\ MethodOf[j] \in {"satellite", "mecm", "ignition"}
      => installer[j] # "idle"

(* Every job leaves "pending": it is dispatched or fails, whatever the      *)
(* workflow and the tools do, unless the server faults.                    *)
JobsLeavePending ==
  \A j \in Workflows :
    jstatus[j] = "pending" ~> (jstatus[j] # "pending" \/ faults > 0)
=============================================================================
