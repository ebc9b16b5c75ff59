---------------------------- MODULE WorkflowEngine ----------------------------
(***************************************************************************)
(* The workflow engine (app/engine/workflows.py) with the endpoints that    *)
(* start and resume workflows (app/api/machines.py), over PostgreSQL.       *)
(*                                                                          *)
(* Every runner and every resume request is an asyncio task with a session  *)
(* of its own. A session loads its own copy of a row once and never again;  *)
(* a flush sends the changed columns and takes the row's lock, which it     *)
(* keeps until the commit; another session's flush of that row waits, then  *)
(* overwrites (READ COMMITTED). Control passes between tasks only at an     *)
(* await, so an action here is the code from one await that matters to the  *)
(* next: a load, a flush, a BMC call, a commit.                             *)
(***************************************************************************)
EXTENDS WorkflowStore, FiniteSets

CONSTANTS
  Sessions,    \* slots for concurrent tasks with a database session
  NoSession,   \* holder of a free row lock
  NoWorkflow,  \* workflow of an idle session
  PoolSize,    \* connections that the engine's pool can hand out
  MaxCrashes   \* bound on crashes of the server process

ASSUME SessionsAssumption == IsFiniteSet(Sessions)
ASSUME NoSessionAssumption == NoSession \notin Sessions
ASSUME NoWorkflowAssumption == NoWorkflow \notin Workflows
ASSUME PoolSizeAssumption == PoolSize \in Nat
ASSUME MaxCrashesAssumption == MaxCrashes \in Nat

VARIABLES
  mlock,    \* session whose uncommitted UPDATE locks the machine's row
  wlock,    \* session whose uncommitted UPDATE locks the workflow's row
  sess,     \* the sessions: program counter and copies of the rows
  crashes   \* crashes so far

vars == <<mstate, wtype, wstatus, wretry, mlock, wlock, sess, crashes>>

ResumePCs == {"resume_load", "resume_claim", "resume_read", "resume_clear"}
RunPCs == {"start", "load_wf", "begin", "step", "bmc", "finish", "finish_wf",
           "commit", "fail", "fail_wf"}

Session ==
  [pc     : {"idle"} \cup ResumePCs \cup RunPCs,
   wf     : Workflows \cup {NoWorkflow},
   step   : Nat,                                 \* steps done or skipped
   mseen  : MachineStates \cup {NoState},        \* machine.state, its copy
   mdirty : BOOLEAN,                             \* the copy will be written
   wseen  : Statuses \cup {NoState},             \* wf.status, its copy
   wdirty : BOOLEAN,
   rseen  : Nat]                                 \* wf.retry_count, its copy

Fresh(pc, w) ==
  [pc |-> pc, wf |-> w, step |-> 0, mseen |-> NoState, mdirty |-> FALSE,
   wseen |-> NoState, wdirty |-> FALSE, rseen |-> 0]

Idle == Fresh("idle", NoWorkflow)

EngineInit ==
  /\ StoreInit
  /\ mlock = [m \in Machines |-> NoSession]
  /\ wlock = [w \in Workflows |-> NoSession]
  /\ sess = [s \in Sessions |-> Idle]
  /\ crashes = 0

-----------------------------------------------------------------------------
(* Sessions, copies and locks                                               *)

At(s, pc) == sess[s].pc = pc
Machine(s) == MachineOf[sess[s].wf]
Type(s) == wtype[sess[s].wf]
Set(s, r) == sess' = [sess EXCEPT ![s] = r]

(* Assigning a loaded attribute: SQLAlchemy writes the column only when the *)
(* value differs from the one it knows.                                     *)
SeeState(r, v) ==
  [r EXCEPT !.mseen = v, !.mdirty = r.mdirty \/ v # r.mseen]
SeeStatus(r, v) ==
  [r EXCEPT !.wseen = v, !.wdirty = r.wdirty \/ v # r.wseen]

LockMachine(s) ==
  /\ mlock[Machine(s)] \in {s, NoSession}
  /\ mlock' = [mlock EXCEPT ![Machine(s)] = s]

LockWorkflow(s) ==
  /\ wlock[sess[s].wf] \in {s, NoSession}
  /\ wlock' = [wlock EXCEPT ![sess[s].wf] = s]

(* Mutant: the machine's row stays locked when the session is closed.       *)
ReleaseLocksKeepsMachine(s) ==
  /\ wlock' = [w \in Workflows |-> IF wlock[w] = s THEN NoSession ELSE wlock[w]]
  /\ UNCHANGED mlock

ReleaseLocks(s) ==
  /\ mlock' = [m \in Machines |-> IF mlock[m] = s THEN NoSession ELSE mlock[m]]
  /\ wlock' = [w \in Workflows |-> IF wlock[w] = s THEN NoSession ELSE wlock[w]]

(* Mutant: the completed status is saved without the machine's state.       *)
CommitStatusOnly(s, r) ==
  /\ wstatus' = IF r.wdirty THEN [wstatus EXCEPT ![r.wf] = r.wseen]
                ELSE wstatus
  /\ ReleaseLocks(s)
  /\ Set(s, Idle)
  /\ UNCHANGED <<mstate, wtype, wretry, crashes>>

(* The transaction ends: the changed columns of r reach the rows, the locks *)
(* are released and the session is closed.                                  *)
CommitRun(s, r) ==
  /\ mstate' = IF r.mdirty THEN [mstate EXCEPT ![Machine(s)] = r.mseen]
               ELSE mstate
  /\ wstatus' = IF r.wdirty THEN [wstatus EXCEPT ![r.wf] = r.wseen]
                ELSE wstatus
  /\ ReleaseLocks(s)
  /\ Set(s, Idle)
  /\ UNCHANGED <<wtype, wretry, crashes>>

StoreUnchanged == UNCHANGED storeVars
LocksUnchanged == UNCHANGED <<mlock, wlock>>

(* A session holds a pool connection from its first query to its commit.    *)
Connected(s) == sess[s].pc \notin {"idle", "resume_load", "resume_read", "start"}
PoolFree == Cardinality({s \in Sessions : Connected(s)}) < PoolSize

-----------------------------------------------------------------------------
(* Requests                                                                 *)

(* register_machine: the machine and its enroll workflow, then the runner.  *)
RegisterMachine(s, w) ==
  /\ At(s, "idle")
  /\ Register(w)
  /\ Set(s, Fresh("start", w))
  /\ LocksUnchanged /\ UNCHANGED crashes

(* create_workflow: any machine that exists, whatever its state.            *)
CreateWorkflow(s, w, t) ==
  /\ At(s, "idle")
  /\ Create(w, t)
  /\ Set(s, Fresh("start", w))
  /\ LocksUnchanged /\ UNCHANGED crashes

(* The resume endpoint: checks the row, then queues resume_workflow, which  *)
(* runs after the response.                                                 *)
RequestResume(s, w) ==
  /\ At(s, "idle")
  /\ wstatus[w] = "failed"
  /\ wretry[w] < MaxRetries
  /\ Set(s, Fresh("resume_load", w))
  /\ StoreUnchanged /\ LocksUnchanged /\ UNCHANGED crashes

-----------------------------------------------------------------------------
(* resume_workflow                                                          *)

(* Mutant: an off-by-one in the retry check.                                *)
MayClaimOnceMore(status, retries) == status = "failed" /\ retries <= MaxRetries

MayClaim(status, retries) == status = "failed" /\ retries < MaxRetries

ResumeLoad(s) ==
  LET w == sess[s].wf IN
  /\ At(s, "resume_load")
  /\ PoolFree
  /\ IF MayClaim(wstatus[w], wretry[w])
     THEN Set(s, [sess[s] EXCEPT !.pc = "resume_claim", !.rseen = wretry[w]])
     ELSE Set(s, Idle)                      \* raises ValueError
  /\ StoreUnchanged /\ LocksUnchanged /\ UNCHANGED crashes

(* Mutant: retry_count counts the retries that are left.                    *)
ResumeClaimCountsDown(s) ==
  LET w == sess[s].wf IN
  /\ At(s, "resume_claim")
  /\ wlock[w] = NoSession
  /\ wstatus' = [wstatus EXCEPT ![w] = "resuming"]
  /\ wretry' = [wretry EXCEPT ![w] = sess[s].rseen - 1]
  /\ Set(s, Fresh("resume_read", w))
  /\ LocksUnchanged
  /\ UNCHANGED <<mstate, wtype, crashes>>

(* The UPDATE carries the values of the copy that was checked; it waits for *)
(* the row's lock and commits at once.                                      *)
ResumeClaim(s) ==
  LET w == sess[s].wf IN
  /\ At(s, "resume_claim")
  /\ wlock[w] = NoSession
  /\ wstatus' = [wstatus EXCEPT ![w] = "resuming"]
  /\ wretry' = [wretry EXCEPT ![w] = sess[s].rseen + 1]
  /\ Set(s, Fresh("resume_read", w))
  /\ LocksUnchanged
  /\ UNCHANGED <<mstate, wtype, crashes>>

(* Mutant: only a machine in ERROR is worth a new run.                      *)
ResumeReadOnlyError(s) ==
  LET w == sess[s].wf IN
  /\ At(s, "resume_read")
  /\ PoolFree
  /\ \/ mstate[Machine(s)] # "error" /\ Set(s, Idle)
     \/ /\ mstate[Machine(s)] = "error"
        /\ \E pc \in {"resume_clear", "start"} : Set(s, Fresh(pc, w))
  /\ StoreUnchanged /\ LocksUnchanged /\ UNCHANGED crashes

(* A machine in ERROR has its error_message cleared, unless another resume  *)
(* has done so: then no column changes and no UPDATE is sent.               *)
ResumeRead(s) ==
  LET w == sess[s].wf IN
  /\ At(s, "resume_read")
  /\ PoolFree
  /\ \/ Set(s, Fresh("start", w))
     \/ /\ mstate[Machine(s)] = "error"
        /\ Set(s, Fresh("resume_clear", w))
  /\ StoreUnchanged /\ LocksUnchanged /\ UNCHANGED crashes

(* The UPDATE (the state stays ERROR), the commit, and the run starts.      *)
ResumeClear(s) ==
  /\ At(s, "resume_clear")
  /\ mlock[Machine(s)] = NoSession
  /\ Set(s, Fresh("start", sess[s].wf))
  /\ StoreUnchanged /\ LocksUnchanged /\ UNCHANGED crashes

-----------------------------------------------------------------------------
(* A run: run_enroll, run_provision, run_decommission, run_health_check,    *)
(* run_custom                                                               *)

LoadMachine(s) ==
  /\ At(s, "start")
  /\ PoolFree
  /\ Set(s, [sess[s] EXCEPT !.pc = "load_wf", !.mseen = mstate[Machine(s)]])
  /\ StoreUnchanged /\ LocksUnchanged /\ UNCHANGED crashes

(* A resumed custom run skips its steps up to the one that has the name of  *)
(* last_checkpoint, all of them if none has: CustomRun tells which those    *)
(* are, and here they may be any.                                           *)
MaySkip(t, status) ==
  IF t = "custom" /\ status = "resuming" THEN 0..Len(Steps(t)) ELSE {0}

(* Loads the workflow's row and, with no await in between, validates the    *)
(* first transition against the copy of the machine.                        *)
LoadWorkflow(s) ==
  LET status == wstatus[sess[s].wf]
      target == TargetState(Type(s))
  IN
  /\ At(s, "load_wf")
  /\ \E n \in MaySkip(Type(s), status) :
       LET r == [sess[s] EXCEPT !.wseen = status, !.step = n] IN
       \/ /\ target = NoState
          /\ Set(s, [r EXCEPT !.pc = "step"])
       \/ /\ target # NoState
          /\ CanMove(r.mseen, target)
          /\ Set(s, [SeeState(r, target) EXCEPT !.pc = "begin"])
       \/ /\ target # NoState
          /\ ~CanMove(r.mseen, target)
          /\ Set(s, [r EXCEPT !.pc = "fail"])
  /\ StoreUnchanged /\ LocksUnchanged /\ UNCHANGED crashes

(* Mutant: the transition is not flushed before the run goes on.            *)
BeginRunWithoutFlush(s) ==
  /\ At(s, "begin")
  /\ \E pc \in {"step", "fail"} : Set(s, [sess[s] EXCEPT !.pc = pc])
  /\ StoreUnchanged /\ LocksUnchanged /\ UNCHANGED crashes

(* Mutant: the transition is committed at once, to be visible to readers.   *)
BeginRunCommits(s) ==
  /\ At(s, "begin")
  /\ mlock[Machine(s)] = NoSession
  /\ mstate' = [mstate EXCEPT ![Machine(s)] = sess[s].mseen]
  /\ Set(s, [sess[s] EXCEPT !.pc = "step"])
  /\ LocksUnchanged
  /\ UNCHANGED <<wtype, wstatus, wretry, crashes>>

(* _transition: flush (the lock), then the broadcast, which may raise.      *)
BeginRun(s) ==
  /\ At(s, "begin")
  /\ LockMachine(s)
  /\ \E pc \in {"step", "fail"} : Set(s, [sess[s] EXCEPT !.pc = pc])
  /\ StoreUnchanged /\ UNCHANGED <<wlock, crashes>>

(* _update_workflow: the step is recorded and flushed before it executes. A *)
(* health check's flush also writes the machine attributes that an earlier  *)
(* step has changed, when they did change.                                  *)
RecordStep(s) ==
  /\ At(s, "step")
  /\ sess[s].step < Len(Steps(Type(s)))
  /\ LockWorkflow(s)
  /\ \/ UNCHANGED mlock
     \/ /\ Type(s) = "health_check"
        /\ sess[s].step > 0
        /\ LockMachine(s)
  /\ Set(s, [SeeStatus(sess[s], "running") EXCEPT !.pc = "bmc"])
  /\ StoreUnchanged /\ UNCHANGED crashes

(* The BMC call (or playbook, or sleep) of the step returns ...             *)
StepSucceeds(s) ==
  /\ At(s, "bmc")
  /\ Set(s, [sess[s] EXCEPT !.pc = "step", !.step = sess[s].step + 1])
  /\ StoreUnchanged /\ LocksUnchanged /\ UNCHANGED crashes

(* ... or raises.                                                           *)
StepRaises(s) ==
  /\ At(s, "bmc")
  /\ Steps(Type(s))[sess[s].step + 1] \notin SafeSteps
  /\ Set(s, [sess[s] EXCEPT !.pc = "fail"])
  /\ StoreUnchanged /\ LocksUnchanged /\ UNCHANGED crashes

(* An exception between two steps: the login to the BMC or the logout, a    *)
(* broadcast. A custom workflow logs in within its steps, and raises here   *)
(* for what it finds in the params of a later one.                          *)
RunRaises(s) ==
  /\ At(s, "step")
  /\ Type(s) = "custom" => sess[s].step > 0
  /\ Set(s, [sess[s] EXCEPT !.pc = "fail"])
  /\ StoreUnchanged /\ LocksUnchanged /\ UNCHANGED crashes

(* The last transition of the run, validated against the copy, flushed and  *)
(* broadcast.                                                               *)
FinishRun(s) ==
  LET final == FinalState(Type(s)) IN
  /\ At(s, "step")
  /\ sess[s].step = Len(Steps(Type(s)))
  /\ \/ /\ final = NoState
        /\ Set(s, [sess[s] EXCEPT !.pc = "finish"])
        /\ UNCHANGED mlock
     \/ /\ final # NoState
        /\ CanMove(sess[s].mseen, final)
        /\ LockMachine(s)
        /\ \E pc \in {"finish", "fail"} :
             Set(s, [SeeState(sess[s], final) EXCEPT !.pc = pc])
     \/ /\ final # NoState
        /\ ~CanMove(sess[s].mseen, final)
        /\ Set(s, [sess[s] EXCEPT !.pc = "fail"])
        /\ UNCHANGED mlock
  /\ StoreUnchanged /\ UNCHANGED <<wlock, crashes>>

(* _update_workflow("complete", "completed"): its flush writes both rows,   *)
(* the machine's first (last_seen has changed if nothing else) ...          *)
FlushMachine(s) ==
  /\ At(s, "finish")
  /\ LockMachine(s)
  /\ Set(s, [sess[s] EXCEPT !.pc = "finish_wf"])
  /\ StoreUnchanged /\ UNCHANGED <<wlock, crashes>>

(* ... then the workflow's; then the broadcast, which may raise after all   *)
(* the work is done.                                                        *)
CompleteRun(s) ==
  /\ At(s, "finish_wf")
  /\ LockWorkflow(s)
  /\ \E pc \in {"commit", "fail"} :
       Set(s, [SeeStatus(sess[s], "completed") EXCEPT !.pc = pc])
  /\ StoreUnchanged /\ UNCHANGED <<mlock, crashes>>

Commit(s) ==
  /\ At(s, "commit")
  /\ CommitRun(s, sess[s])

(* Mutant: the failure of a run is recorded without waiting for the lock.   *)
FailMachineWithoutLock(s) ==
  /\ At(s, "fail")
  /\ Set(s, [(IF FailureSetsError(Type(s)) THEN SeeState(sess[s], "error")
              ELSE sess[s]) EXCEPT !.pc = "fail_wf"])
  /\ StoreUnchanged /\ LocksUnchanged /\ UNCHANGED crashes

(* The except clause. The machine's row goes first: it is written when its  *)
(* state changes, and otherwise only if another column did (an error        *)
(* message, what a health check has read).                                  *)
FailMachine(s) ==
  LET r == IF FailureSetsError(Type(s)) THEN SeeState(sess[s], "error")
           ELSE sess[s]
  IN
  /\ At(s, "fail")
  /\ \/ /\ FailureSetsError(Type(s)) \/ sess[s].step > 0
        /\ LockMachine(s)
     \/ /\ ~r.mdirty
        /\ UNCHANGED mlock
  /\ Set(s, [r EXCEPT !.pc = "fail_wf"])
  /\ StoreUnchanged /\ UNCHANGED <<wlock, crashes>>

(* ... then the workflow's row, and the commit.                             *)
FailWorkflow(s) ==
  /\ At(s, "fail_wf")
  /\ wlock[sess[s].wf] \in {s, NoSession}
  /\ CommitRun(s, SeeStatus(sess[s], "failed"))

-----------------------------------------------------------------------------
(* Lock waits                                                               *)

WaitsForWorkflow(s) ==
  /\ \/ sess[s].pc \in {"resume_claim", "finish_wf", "fail_wf"}
     \/ At(s, "step") /\ sess[s].step < Len(Steps(Type(s)))
  /\ wlock[sess[s].wf] \notin {s, NoSession}

WaitsForMachine(s) ==
  /\ \/ sess[s].pc \in {"resume_clear", "begin", "finish", "fail"}
     \/ /\ At(s, "step")
        /\ \/ Type(s) = "health_check"
           \/ sess[s].step = Len(Steps(Type(s))) /\ FinalState(Type(s)) # NoState
  /\ mlock[Machine(s)] \notin {s, NoSession}

(* Two sessions wait for each other: s has the machine's row, t the         *)
(* workflow's. No session takes more rows, so that circles are of two.      *)
Circle(s, t) ==
  /\ WaitsForWorkflow(s) /\ wlock[sess[s].wf] = t
  /\ WaitsForMachine(t) /\ mlock[Machine(t)] = s

(* PostgreSQL breaks a circle: one of the two waiting statements fails, and *)
(* with it the transaction, so that the runner's except clause raises too.  *)
(* The task dies; the rows stay as they were committed.                     *)
DeadlockAborts(s) ==
  /\ \E t \in Sessions : Circle(s, t) \/ Circle(t, s)
  /\ ReleaseLocks(s)
  /\ Set(s, Idle)
  /\ StoreUnchanged /\ UNCHANGED crashes

-----------------------------------------------------------------------------
(* Faults                                                                   *)

(* The pool's queue times out: the first query of a task raises outside the *)
(* try of the runner, so the task dies and the workflow's row stays.        *)
ConnectTimesOut(s) ==
  /\ sess[s].pc \in {"resume_load", "resume_read", "start"}
  /\ ~PoolFree
  /\ Set(s, Idle)
  /\ StoreUnchanged /\ LocksUnchanged /\ UNCHANGED crashes

(* The server process dies and starts again: PostgreSQL rolls back what was *)
(* not committed, and start-up looks at no workflow.                        *)
Crash ==
  /\ crashes < MaxCrashes
  /\ \E s \in Sessions : ~At(s, "idle")
  /\ crashes' = crashes + 1
  /\ mlock' = [m \in Machines |-> NoSession]
  /\ wlock' = [w \in Workflows |-> NoSession]
  /\ sess' = [s \in Sessions |-> Idle]
  /\ StoreUnchanged

-----------------------------------------------------------------------------
Request(s) ==
  \E w \in Workflows :
    \/ RegisterMachine(s, w)
    \/ \E t \in OfferedTypes : CreateWorkflow(s, w, t)
    \/ RequestResume(s, w)

Resume(s) == ResumeLoad(s) \/ ResumeClaim(s) \/ ResumeRead(s) \/ ResumeClear(s)

Run(s) ==
  \/ LoadMachine(s) \/ LoadWorkflow(s) \/ BeginRun(s)
  \/ RecordStep(s) \/ StepSucceeds(s) \/ StepRaises(s) \/ RunRaises(s)
  \/ FinishRun(s) \/ FlushMachine(s) \/ CompleteRun(s) \/ Commit(s)
  \/ FailMachine(s) \/ FailWorkflow(s)

Work(s) == Resume(s) \/ Run(s) \/ ConnectTimesOut(s) \/ DeadlockAborts(s)

(* No task is left: the server waits for requests.                          *)
Waiting == (\A s \in Sessions : At(s, "idle")) /\ UNCHANGED vars

EngineNext ==
  \/ \E s \in Sessions : Request(s) \/ Work(s)
  \/ Crash
  \/ Waiting

EngineSpec == EngineInit /\ [][EngineNext]_vars

(* asyncio runs every ready task, a BMC call returns or times out, and      *)
(* PostgreSQL grants a row lock in the order of the waiters: a task that    *)
(* can go on again and again does go on.                                    *)
FairEngineSpec == EngineSpec /\ \A s \in Sessions : SF_vars(Work(s))

-----------------------------------------------------------------------------
(* Properties                                                               *)

(* The rows, the locks and every session's copies have the types of the     *)
(* columns, and no committed status is one the code does not write.         *)
EngineTypeOK ==
  /\ mstate \in [Machines -> MachineStates \cup {NoState}]
  /\ wtype \in [Workflows -> WorkflowTypes \cup {NoState}]
  /\ wstatus \in [Workflows -> Statuses \cup {NoState}]
  /\ wretry \in [Workflows -> Nat]
  /\ mlock \in [Machines -> Sessions \cup {NoSession}]
  /\ wlock \in [Workflows -> Sessions \cup {NoSession}]
  /\ sess \in [Sessions -> Session]
  /\ crashes \in 0..MaxCrashes

(* A session that drives a BMC through a lifecycle change: past the flush   *)
(* of its first transition and before the end of its run.                   *)
Driving(s) ==
  /\ sess[s].pc \in {"step", "bmc", "finish", "finish_wf", "commit"}
  /\ TargetState(Type(s)) # NoState

(* At most one lifecycle workflow drives the BMC of a machine at a time,    *)
(* although nothing in the engine serialises them: the row lock that the    *)
(* first transition's flush takes is held until the commit.                 *)
ExclusiveDrive ==
  \A s, t \in Sessions :
    Driving(s) /\ Driving(t) /\ Machine(s) = Machine(t) => s = t

(* No reader, and no restart after a crash, finds a machine in ENROLLING,   *)
(* PROVISIONING or DECOMMISSIONING, nor a workflow "running": a run's       *)
(* intermediate states are flushed but never committed. The README has it   *)
(* otherwise ("Each completed step is persisted", progress by polling), and *)
(* the dashboard counts "running" workflows, of which it never finds one.   *)
NoTransientCommitted ==
  /\ \A m \in Machines : mstate[m] \notin TransientStates
  /\ \A w \in Workflows : wstatus[w] # "running"

(* Runs, failures and racing resumes wait for each other's rows in a circle *)
(* in one case only: two runs of a custom workflow that has no target       *)
(* state, where one was resumed, has skipped all it passed and so comes to  *)
(* the machine's row first, and the other has recorded a step. Every other  *)
(* pair agrees on an order, although a run that has no first transition     *)
(* takes the workflow's row first and the rest the machine's.               *)
OnlySkippingRunsCollide ==
  \A s, t \in Sessions : Circle(s, t) =>
    /\ Type(s) = "custom" /\ CustomTarget = NoState
    /\ sess[t].wf = sess[s].wf
    /\ sess[s].wseen = "resuming" /\ ~sess[s].wdirty /\ sess[s].step > 0
    /\ sess[t].wdirty

(* retry_count never exceeds max_retries, although the check and the        *)
(* increment are separated by awaits and use a copy.                        *)
RetryBound == \A w \in Workflows : wretry[w] <= MaxRetries

(* A machine's row never changes under a workflow that drives its BMC: a    *)
(* run, a failure or a stale run of another workflow waits for the end of   *)
(* the drive before it writes its outcome.                                  *)
UndisturbedDrive ==
  [][\A s \in Sessions :
       Driving(s) /\ Driving(s)' => mstate'[Machine(s)] = mstate[Machine(s)]]_vars

Owned(w) ==
  \E s \in Sessions : sess[s].wf = w /\ ~At(s, "resume_load")

(* While the server has not crashed and the pool has a connection for       *)
(* every task, a workflow that is pending or resuming has a task at work    *)
(* for it: only those two faults strand a workflow.                         *)
NoOrphanedWorkflow ==
  crashes = 0 /\ Cardinality(Sessions) <= PoolSize =>
    \A w \in Workflows : wstatus[w] \in {"pending", "resuming"} => Owned(w)

(* Every workflow that is created or resumed comes to an end.               *)
EveryWorkflowSettles ==
  \A w \in Workflows :
    wstatus[w] \in {"pending", "resuming"} ~> wstatus[w] \in {"completed", "failed"}

(* What readers see of a machine follows the lifecycle diagram of the       *)
(* README: apart from ERROR, which any state may lead to, a machine moves   *)
(* only where the transition table lets it. The table is consulted with a   *)
(* copy of the state that may be stale when the move is committed.          *)
LifecycleFollowed ==
  [][\A m \in Machines :
       mstate'[m] \notin {mstate[m], "error"} /\ mstate[m] # NoState
         => CanMoveAcross(mstate[m], mstate'[m])]_vars

(* A run that resumes a failed workflow gets past its first transition: it  *)
(* is not refused for the ERROR state that its own failure left.            *)
ResumeIsAccepted ==
  \A s \in Sessions :
    At(s, "fail") /\ sess[s].wseen = "resuming" => mlock[Machine(s)] = s

(* The engine implements the store: every step changes the committed rows   *)
(* as one of the store's actions, or not at all.                            *)
ImplementsStore == [][StoreNext]_storeVars
=============================================================================
