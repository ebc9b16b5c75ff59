------------------------- MODULE WorkflowEngineProofs -------------------------
(***************************************************************************)
(* Proofs about WorkflowEngine for any number of machines, workflows and    *)
(* sessions. The inductive invariant IInv says what a session's copies may  *)
(* hold at each program counter and which lock it holds then.               *)
(***************************************************************************)
EXTENDS WorkflowEngine, TLAPS, SequenceTheorems, FiniteSetTheorems

(* A custom workflow does not ask to be left in a transient state.          *)
CustomSettles == Outcome("custom") \notin TransientStates

(* A row of a workflow is complete and belongs to a machine that exists.    *)
RowsOK ==
  \A w \in Workflows : wstatus[w] # NoState =>
    wtype[w] \in WorkflowTypes /\ mstate[MachineOf[w]] # NoState

(* A task works on a workflow that exists; it claims a retry only when its  *)
(* copy allows one.                                                         *)
TaskOK(s) ==
  /\ ~At(s, "idle") => sess[s].wf \in Workflows /\ wstatus[sess[s].wf] # NoState
  /\ At(s, "resume_claim") => sess[s].rseen < MaxRetries

(* The machine state that a session is going to write, by program counter.  *)
CopyOK(s) ==
  /\ sess[s].mdirty =>
       /\ sess[s].mseen # NoState
       /\ sess[s].pc \in {"begin", "step", "bmc", "finish", "finish_wf", "commit",
                          "fail", "fail_wf"}
       /\ Type(s) # "health_check"
       /\ sess[s].pc \in {"begin", "step", "bmc"} => sess[s].mseen = TargetState(Type(s))
       /\ sess[s].pc \in {"finish", "finish_wf", "commit"} => sess[s].mseen = Outcome(Type(s))
       /\ At(s, "fail_wf") => sess[s].mseen = "error"
  /\ At(s, "commit") => sess[s].wseen = "completed"

(* The row lock of the machine is held from the first flush of the row to   *)
(* the commit.                                                              *)
LockOK(s) ==
  /\ Driving(s) => mlock[Machine(s)] = s
  /\ sess[s].pc \in {"finish_wf", "commit", "fail_wf"} /\ sess[s].mdirty
       => mlock[Machine(s)] = s

IInv ==
  /\ EngineTypeOK
  /\ RowsOK
  /\ RetryBound
  /\ \A s \in Sessions : TaskOK(s) /\ CopyOK(s) /\ LockOK(s)

USE MachineOfAssumption, NoSessionAssumption, NoWorkflowAssumption,
    MaxRetriesAssumption, MaxCrashesAssumption

-----------------------------------------------------------------------------
(* Lemmas about the tables and the records                                  *)

LEMMA FreshType ==
  ASSUME NEW w \in Workflows, NEW pc \in {"idle"} \cup ResumePCs \cup RunPCs
  PROVE  Fresh(pc, w) \in Session
  BY DEF Fresh, Session

LEMMA IdleType == Idle \in Session
  BY DEF Idle, Fresh, Session

(* The states of the tables are machine states or none.                     *)
LEMMA TableTypes ==
  ASSUME NEW t \in WorkflowTypes \cup {NoState}
  PROVE  /\ TargetState(t) \in MachineStates \cup {NoState}
         /\ FinalState(t) \in MachineStates \cup {NoState}
         /\ Outcome(t) \in MachineStates \cup {NoState}
  <1>1. TargetState(t) \in MachineStates \cup {NoState}
    BY CustomAssumption DEF WorkflowTypes, TargetState, MachineStates, NoState
  <1>2. FinalState(t) \in MachineStates \cup {NoState}
    BY CustomAssumption DEF WorkflowTypes, FinalState, MachineStates, NoState
  <1> QED BY <1>1, <1>2 DEF Outcome

LEMMA SeeStateType ==
  ASSUME NEW r \in Session, NEW v \in MachineStates \cup {NoState}
  PROVE  SeeState(r, v) \in Session
  BY DEF SeeState, Session

LEMMA SeeStatusType ==
  ASSUME NEW r \in Session, NEW v \in Statuses
  PROVE  SeeStatus(r, v) \in Session
  BY DEF SeeStatus, Session

LEMMA MachineType ==
  ASSUME EngineTypeOK, NEW s \in Sessions, TaskOK(s), ~At(s, "idle")
  PROVE  Machine(s) \in Machines /\ sess[s].wf \in Workflows
  BY DEF EngineTypeOK, TaskOK, Machine

-----------------------------------------------------------------------------
LEMMA InitIInv == EngineInit => IInv
  <1> SUFFICES ASSUME EngineInit PROVE IInv OBVIOUS
  <1> USE DEF EngineInit, StoreInit
  <1>1. EngineTypeOK
    BY IdleType, InitialStatesAssumption DEF EngineTypeOK
  <1>2. RowsOK /\ RetryBound
    BY DEF RowsOK, RetryBound
  <1>3. \A s \in Sessions : TaskOK(s) /\ CopyOK(s) /\ LockOK(s)
    BY DEF TaskOK, CopyOK, LockOK, Driving, At, Idle, Fresh
  <1> QED BY <1>1, <1>2, <1>3 DEF IInv

(* A step of another task leaves what is known of task t: the step writes   *)
(* no row that t relies on and takes no lock that t holds.                  *)
LEMMA OtherTask ==
  ASSUME IInv, NEW t \in Sessions, sess'[t] = sess[t],
         \A w \in Workflows : wstatus[w] # NoState =>
           wstatus'[w] # NoState /\ wtype'[w] = wtype[w],
         \A m \in Machines : mlock[m] = t => mlock'[m] = t
  PROVE  TaskOK(t)' /\ CopyOK(t)' /\ LockOK(t)'
  <1>0. TaskOK(t) /\ CopyOK(t) /\ LockOK(t) /\ EngineTypeOK
    BY DEF IInv
  <1>1. CASE At(t, "idle")
    <2>1. sess[t].mdirty = FALSE
      BY <1>0, <1>1 DEF CopyOK, At, EngineTypeOK, Session
    <2> QED BY <2>1, <1>1 DEF TaskOK, CopyOK, LockOK, Driving, At
  <1>2. CASE ~At(t, "idle")
    <2>1. sess[t].wf \in Workflows /\ wtype'[sess[t].wf] = wtype[sess[t].wf]
          /\ wstatus'[sess[t].wf] # NoState
      BY <1>0, <1>2 DEF TaskOK
    <2>2. TaskOK(t)'
      BY <2>1, <1>0 DEF TaskOK, At
    <2>3. CopyOK(t)'
      BY <2>1, <1>0 DEF CopyOK, At, Type
    <2>4. LockOK(t)'
      BY <2>1, <1>0 DEF LockOK, Driving, Type, Machine
    <2> QED BY <2>2, <2>3, <2>4
  <1> QED BY <1>1, <1>2

(* Taking a lock that is free or one's own disturbs no other holder.        *)
LEMMA LockMachineKeeps ==
  ASSUME NEW s \in Sessions, LockMachine(s), NEW t \in Sessions, t # s,
         NEW m \in Machines, mlock[m] = t, mlock \in [Machines -> Sessions \cup {NoSession}]
  PROVE  mlock'[m] = t
  BY DEF LockMachine

-----------------------------------------------------------------------------
(* Types                                                                    *)

LEMMA LockTypes ==
  ASSUME EngineTypeOK, NEW s \in Sessions, TaskOK(s), ~At(s, "idle")
  PROVE  /\ LockMachine(s) => mlock' \in [Machines -> Sessions \cup {NoSession}]
                              /\ mlock'[Machine(s)] = s
         /\ LockWorkflow(s) => wlock' \in [Workflows -> Sessions \cup {NoSession}]
         /\ ReleaseLocks(s) => /\ mlock' \in [Machines -> Sessions \cup {NoSession}]
                               /\ wlock' \in [Workflows -> Sessions \cup {NoSession}]
  BY MachineType DEF EngineTypeOK, LockMachine, LockWorkflow, ReleaseLocks

LEMMA SetType ==
  ASSUME EngineTypeOK, NEW s \in Sessions, NEW r \in Session, Set(s, r)
  PROVE  /\ sess' \in [Sessions -> Session]
         /\ sess'[s] = r
         /\ \A t \in Sessions \ {s} : sess'[t] = sess[t]
  BY DEF EngineTypeOK, Set

LEMMA RequestTypes ==
  ASSUME EngineTypeOK, NEW s \in Sessions, Request(s)
  PROVE  EngineTypeOK'
  <1>1. ASSUME NEW w \in Workflows, RegisterMachine(s, w)
        PROVE  EngineTypeOK'
    <2>1. Fresh("start", w) \in Session
      BY FreshType DEF RunPCs
    <2>2. sess' \in [Sessions -> Session]
      BY <1>1, <2>1, SetType DEF RegisterMachine
    <2> QED
      BY <1>1, <2>2 DEF RegisterMachine, Register, NewWorkflow, EngineTypeOK,
         LocksUnchanged, MachineStates, WorkflowTypes, Statuses
  <1>2. ASSUME NEW w \in Workflows, NEW t \in OfferedTypes, CreateWorkflow(s, w, t)
        PROVE  EngineTypeOK'
    <2>1. Fresh("start", w) \in Session
      BY FreshType DEF RunPCs
    <2>2. sess' \in [Sessions -> Session]
      BY <1>2, <2>1, SetType DEF CreateWorkflow
    <2> QED
      BY <1>2, <2>2, OfferedTypesAssumption DEF CreateWorkflow, Create, NewWorkflow,
         EngineTypeOK, LocksUnchanged, Statuses
  <1>3. ASSUME NEW w \in Workflows, RequestResume(s, w)
        PROVE  EngineTypeOK'
    <2>1. Fresh("resume_load", w) \in Session
      BY FreshType DEF ResumePCs
    <2>2. sess' \in [Sessions -> Session]
      BY <1>3, <2>1, SetType DEF RequestResume
    <2> QED
      BY <1>3, <2>2 DEF RequestResume, StoreUnchanged, storeVars, LocksUnchanged, EngineTypeOK
  <1> QED BY <1>1, <1>2, <1>3 DEF Request

LEMMA ResumeTypes ==
  ASSUME EngineTypeOK, NEW s \in Sessions, TaskOK(s), Resume(s)
  PROVE  EngineTypeOK'
  <1> DEFINE w == sess[s].wf
  <1>0. w \in Workflows /\ Machine(s) \in Machines /\ sess[s] \in Session
    BY MachineType DEF Resume, ResumeLoad, ResumeClaim, ResumeRead, ResumeClear, At,
       EngineTypeOK
  <1>f. \A pc \in ResumePCs \cup RunPCs : Fresh(pc, w) \in Session
    BY <1>0, FreshType
  <1> USE DEF EngineTypeOK, StoreUnchanged, storeVars, LocksUnchanged
  <1>1. CASE ResumeLoad(s)
    <2>1. [sess[s] EXCEPT !.pc = "resume_claim", !.rseen = wretry[w]] \in Session
      BY <1>0 DEF Session, ResumePCs
    <2>2. sess' \in [Sessions -> Session]
      BY <1>1, <2>1, IdleType, SetType DEF ResumeLoad
    <2> QED BY <1>1, <2>2 DEF ResumeLoad
  <1>2. CASE ResumeClaim(s)
    <2>1. sess' \in [Sessions -> Session]
      BY <1>2, <1>f, SetType DEF ResumeClaim, ResumePCs
    <2>2. sess[s].rseen + 1 \in Nat
      BY <1>0 DEF Session
    <2> QED BY <1>0, <1>2, <2>1, <2>2 DEF ResumeClaim, Statuses
  <1>3. CASE ResumeRead(s)
    <2>1. sess' \in [Sessions -> Session]
      BY <1>3, <1>f, SetType DEF ResumeRead, ResumePCs, RunPCs
    <2> QED BY <1>3, <2>1 DEF ResumeRead
  <1>4. CASE ResumeClear(s)
    <2>1. sess' \in [Sessions -> Session]
      BY <1>4, <1>f, SetType DEF ResumeClear, ResumePCs, RunPCs
    <2> QED BY <1>4, <2>1 DEF ResumeClear
  <1> QED BY <1>1, <1>2, <1>3, <1>4 DEF Resume

LEMMA CommitTypes ==
  ASSUME EngineTypeOK, NEW s \in Sessions, TaskOK(s), ~At(s, "idle"),
         NEW r \in Session, r.wf = sess[s].wf, CommitRun(s, r)
  PROVE  EngineTypeOK'
  <1>1. Machine(s) \in Machines /\ r.wf \in Workflows
    BY MachineType
  <1>2. sess' \in [Sessions -> Session]
    BY IdleType, SetType DEF CommitRun
  <1>3. /\ mlock' \in [Machines -> Sessions \cup {NoSession}]
        /\ wlock' \in [Workflows -> Sessions \cup {NoSession}]
    BY LockTypes DEF CommitRun
  <1>4. mstate' \in [Machines -> MachineStates \cup {NoState}]
    BY <1>1 DEF CommitRun, EngineTypeOK, Session
  <1>5. wstatus' \in [Workflows -> Statuses \cup {NoState}]
    BY <1>1 DEF CommitRun, EngineTypeOK, Session
  <1> QED BY <1>2, <1>3, <1>4, <1>5 DEF CommitRun, EngineTypeOK

(* The run that a session starts: where it begins, and with which copies.   *)
LEMMA Loading ==
  ASSUME EngineTypeOK, NEW s \in Sessions, TaskOK(s), LoadWorkflow(s)
  PROVE  \E l \in Session :
           /\ l.wf = sess[s].wf /\ l.wseen = wstatus[sess[s].wf]
           /\ l.step # 0 => Type(s) = "custom" /\ wstatus[sess[s].wf] = "resuming"
           /\ l.wdirty = sess[s].wdirty
           /\ l.mseen = sess[s].mseen /\ l.mdirty = sess[s].mdirty
           /\ \/ /\ TargetState(Type(s)) = NoState
                 /\ Set(s, [l EXCEPT !.pc = "step"])
              \/ /\ TargetState(Type(s)) # NoState
                 /\ CanMove(l.mseen, TargetState(Type(s)))
                 /\ Set(s, [SeeState(l, TargetState(Type(s))) EXCEPT !.pc = "begin"])
              \/ /\ TargetState(Type(s)) # NoState
                 /\ Set(s, [l EXCEPT !.pc = "fail"])
  <1> DEFINE status == wstatus[sess[s].wf]
             target == TargetState(Type(s))
             l(n) == [sess[s] EXCEPT !.wseen = status, !.step = n]
  <1>1. PICK n \in MaySkip(Type(s), status) :
          \/ target = NoState /\ Set(s, [l(n) EXCEPT !.pc = "step"])
          \/ /\ target # NoState /\ CanMove(l(n).mseen, target)
             /\ Set(s, [SeeState(l(n), target) EXCEPT !.pc = "begin"])
          \/ target # NoState /\ Set(s, [l(n) EXCEPT !.pc = "fail"])
    BY DEF LoadWorkflow
  <1>2. n \in Nat /\ (n # 0 => Type(s) = "custom" /\ status = "resuming")
    <2>1. Len(Steps("custom")) \in Nat
      BY CustomAssumption DEF Steps
    <2> QED BY <2>1 DEF MaySkip
  <1>3. sess[s] \in Session /\ status \in Statuses \cup {NoState}
    <2>1. ~At(s, "idle")
      BY DEF LoadWorkflow, At
    <2> QED BY <2>1, MachineType DEF EngineTypeOK
  <1>4. /\ l(n) \in Session /\ l(n).wf = sess[s].wf /\ l(n).wseen = status
        /\ l(n).step = n /\ l(n).wdirty = sess[s].wdirty
        /\ l(n).mseen = sess[s].mseen /\ l(n).mdirty = sess[s].mdirty
    BY <1>2, <1>3 DEF Session
  <1> HIDE DEF l
  <1> QED BY <1>1, <1>2, <1>4

LEMMA RunTypes ==
  ASSUME EngineTypeOK, NEW s \in Sessions, TaskOK(s), Run(s)
  PROVE  EngineTypeOK'
  <1>0. ~At(s, "idle")
    BY DEF Run, LoadMachine, LoadWorkflow, BeginRun, RecordStep, StepSucceeds,
       StepRaises, RunRaises, FinishRun, FlushMachine, CompleteRun, Commit, FailMachine,
       FailWorkflow, At
  <1>1. /\ sess[s].wf \in Workflows
        /\ Machine(s) \in Machines
        /\ sess[s] \in Session
        /\ Type(s) \in WorkflowTypes \cup {NoState}
    BY <1>0, MachineType DEF EngineTypeOK, Type
  <1>2. /\ TargetState(Type(s)) \in MachineStates \cup {NoState}
        /\ FinalState(Type(s)) \in MachineStates \cup {NoState}
    BY <1>1, TableTypes
  (* It is enough that the session's record keeps its type.                 *)
  <1>3. ASSUME NEW r \in Session, Set(s, r), StoreUnchanged, UNCHANGED crashes,
               \/ UNCHANGED mlock
               \/ LockMachine(s),
               \/ UNCHANGED wlock
               \/ LockWorkflow(s)
        PROVE  EngineTypeOK'
    <2>1. sess' \in [Sessions -> Session]
      BY <1>3, SetType
    <2>2. /\ mlock' \in [Machines -> Sessions \cup {NoSession}]
          /\ wlock' \in [Workflows -> Sessions \cup {NoSession}]
      BY <1>0, <1>3, LockTypes DEF EngineTypeOK
    <2> QED BY <1>3, <2>1, <2>2 DEF EngineTypeOK, StoreUnchanged, storeVars
  <1>4. ASSUME NEW r \in Session, NEW pc \in RunPCs
        PROVE  [r EXCEPT !.pc = pc] \in Session
    BY DEF Session
  <1>5. CASE LoadMachine(s)
    <2>1. [sess[s] EXCEPT !.pc = "load_wf", !.mseen = mstate[Machine(s)]] \in Session
      BY <1>1 DEF Session, RunPCs, EngineTypeOK
    <2> QED BY <1>5, <1>3, <2>1 DEF LoadMachine, LocksUnchanged
  <1>6. CASE LoadWorkflow(s)
    <2> DEFINE target == TargetState(Type(s))
    <2>1. PICK r \in Session :
            \/ Set(s, [r EXCEPT !.pc = "step"])
            \/ Set(s, [SeeState(r, target) EXCEPT !.pc = "begin"])
            \/ Set(s, [r EXCEPT !.pc = "fail"])
      BY <1>6, Loading
    <2>2. SeeState(r, target) \in Session
      BY <2>1, <1>2, SeeStateType
    <2>3. /\ [r EXCEPT !.pc = "step"] \in Session
          /\ [r EXCEPT !.pc = "fail"] \in Session
          /\ [SeeState(r, target) EXCEPT !.pc = "begin"] \in Session
      BY <2>1, <2>2, <1>4 DEF RunPCs
    <2>4. StoreUnchanged /\ LocksUnchanged /\ UNCHANGED crashes
      BY <1>6 DEF LoadWorkflow
    <2> QED BY <1>3, <2>1, <2>3, <2>4 DEF LocksUnchanged
  <1>7. CASE BeginRun(s)
    <2>1. \A pc \in {"step", "fail"} : [sess[s] EXCEPT !.pc = pc] \in Session
      BY <1>1, <1>4 DEF RunPCs
    <2> QED BY <1>7, <1>3, <2>1 DEF BeginRun
  <1>8. CASE RecordStep(s)
    <2>1. [SeeStatus(sess[s], "running") EXCEPT !.pc = "bmc"] \in Session
      BY <1>1, <1>4, SeeStatusType DEF RunPCs, Statuses
    <2> QED BY <1>8, <1>3, <2>1 DEF RecordStep
  <1>9. CASE StepSucceeds(s)
    <2>0. sess[s].step + 1 \in Nat
      BY <1>1 DEF Session
    <2>1. [sess[s] EXCEPT !.pc = "step", !.step = sess[s].step + 1] \in Session
      BY <1>1, <2>0, Zenon DEF Session, RunPCs
    <2> QED BY <1>9, <1>3, <2>1 DEF StepSucceeds, LocksUnchanged
  <1>10. CASE StepRaises(s) \/ RunRaises(s)
    <2>1. [sess[s] EXCEPT !.pc = "fail"] \in Session
      BY <1>1, <1>4 DEF RunPCs
    <2> QED BY <1>10, <1>3, <2>1 DEF StepRaises, RunRaises, LocksUnchanged
  <1>11. CASE FinishRun(s)
    <2> DEFINE final == FinalState(Type(s))
    <2>1. SeeState(sess[s], final) \in Session
      BY <1>1, <1>2, SeeStateType
    <2>2. /\ \A pc \in {"finish", "fail"} :
                /\ [sess[s] EXCEPT !.pc = pc] \in Session
                /\ [SeeState(sess[s], final) EXCEPT !.pc = pc] \in Session
      BY <1>1, <2>1, <1>4 DEF RunPCs
    <2> QED BY <1>11, <1>3, <2>2 DEF FinishRun
  <1>f. CASE FlushMachine(s)
    <2>1. [sess[s] EXCEPT !.pc = "finish_wf"] \in Session
      BY <1>1, <1>4 DEF RunPCs
    <2> QED BY <1>f, <1>3, <2>1 DEF FlushMachine
  <1>12. CASE CompleteRun(s)
    <2>1. \A pc \in {"commit", "fail"} :
            [SeeStatus(sess[s], "completed") EXCEPT !.pc = pc] \in Session
      BY <1>1, <1>4, SeeStatusType DEF RunPCs, Statuses
    <2> QED BY <1>12, <1>3, <2>1 DEF CompleteRun
  <1>13. CASE Commit(s)
    BY <1>13, <1>0, <1>1, CommitTypes DEF Commit
  <1>14. CASE FailMachine(s)
    <2> DEFINE r == IF FailureSetsError(Type(s)) THEN SeeState(sess[s], "error")
                    ELSE sess[s]
    <2>1. r \in Session
      BY <1>1, SeeStateType DEF MachineStates
    <2>2. [r EXCEPT !.pc = "fail_wf"] \in Session
      BY <2>1, <1>4 DEF RunPCs
    <2> QED BY <1>14, <1>3, <2>2 DEF FailMachine
  <1>15. CASE FailWorkflow(s)
    <2>1. SeeStatus(sess[s], "failed") \in Session
      BY <1>1, SeeStatusType DEF Statuses
    <2>2. SeeStatus(sess[s], "failed").wf = sess[s].wf
      BY <1>1 DEF SeeStatus, Session
    <2> QED BY <1>15, <1>0, <2>1, <2>2, CommitTypes DEF FailWorkflow
  <1> QED BY <1>5, <1>6, <1>7, <1>8, <1>9, <1>10, <1>11, <1>f, <1>12, <1>13, <1>14, <1>15
          DEF Run

(* A task that a deadlock ends changes no row and keeps no lock.            *)
LEMMA AbortEffect ==
  ASSUME EngineTypeOK, NEW s \in Sessions, DeadlockAborts(s)
  PROVE  /\ sess' \in [Sessions -> Session]
         /\ sess'[s] = Idle
         /\ \A t \in Sessions \ {s} : sess'[t] = sess[t]
         /\ UNCHANGED <<mstate, wtype, wstatus, wretry, crashes>>
         /\ ReleaseLocks(s)
  BY IdleType, SetType DEF DeadlockAborts, StoreUnchanged, storeVars

LEMMA FaultTypes ==
  ASSUME EngineTypeOK,
         \/ \E s \in Sessions : ConnectTimesOut(s) \/ DeadlockAborts(s)
         \/ Crash
         \/ UNCHANGED vars
  PROVE  EngineTypeOK'
  <1>1. ASSUME NEW s \in Sessions, ConnectTimesOut(s)
        PROVE  EngineTypeOK'
    <2>1. sess' \in [Sessions -> Session]
      BY <1>1, IdleType, SetType DEF ConnectTimesOut
    <2> QED BY <1>1, <2>1 DEF ConnectTimesOut, EngineTypeOK, StoreUnchanged, storeVars,
               LocksUnchanged
  <1>4. ASSUME NEW s \in Sessions, DeadlockAborts(s)
        PROVE  EngineTypeOK'
    BY <1>4, AbortEffect DEF ReleaseLocks, EngineTypeOK
  <1>2. CASE Crash
    BY <1>2, IdleType DEF Crash, EngineTypeOK, StoreUnchanged, storeVars
  <1>3. CASE UNCHANGED vars
    BY <1>3 DEF EngineTypeOK, vars
  <1> QED BY <1>1, <1>2, <1>3, <1>4

-----------------------------------------------------------------------------
(* The invariant is inductive                                               *)

Known(t) == TaskOK(t) /\ CopyOK(t) /\ LockOK(t)

(* A step of session s that writes no row: the rest of the system keeps     *)
(* what is known of it, and only s itself remains to be looked at.          *)
LEMMA QuietStep ==
  ASSUME IInv, NEW s \in Sessions, NEW r \in Session, Set(s, r),
         StoreUnchanged,
         UNCHANGED mlock \/ LockMachine(s)
  PROVE  /\ RowsOK' /\ RetryBound'
         /\ sess'[s] = r
         /\ \A t \in Sessions \ {s} : Known(t)'
         /\ \A m \in Machines : mlock[m] = s => mlock'[m] = s
  <1>0. EngineTypeOK
    BY DEF IInv
  <1>1. sess'[s] = r /\ \A t \in Sessions \ {s} : sess'[t] = sess[t]
    BY <1>0, SetType
  <1>2. RowsOK' /\ RetryBound'
    BY DEF IInv, RowsOK, RetryBound, StoreUnchanged, storeVars
  <1>3. ASSUME NEW t \in Sessions \ {s} PROVE Known(t)'
    <2>1. \A m \in Machines : mlock[m] = t => mlock'[m] = t
      BY <1>0, LockMachineKeeps DEF EngineTypeOK
    <2> QED BY <1>1, <2>1, OtherTask DEF StoreUnchanged, storeVars, Known
  <1>4. \A m \in Machines : mlock[m] = s => mlock'[m] = s
    BY <1>0 DEF LockMachine, EngineTypeOK
  <1> QED BY <1>1, <1>2, <1>3, <1>4

(* A session that has no machine state to write knows nothing it could      *)
(* lose.                                                                    *)
LEMMA FreshKnown ==
  ASSUME NEW s \in Sessions, NEW w \in Workflows \cup {NoWorkflow},
         NEW pc \in {"idle", "resume_load", "resume_read", "resume_clear", "start"},
         sess'[s] = Fresh(pc, w),
         pc # "idle" => w \in Workflows /\ wstatus'[w] # NoState
  PROVE  Known(s)'
  BY DEF Known, TaskOK, CopyOK, LockOK, Driving, At, Fresh

LEMMA RequestStep ==
  ASSUME IInv, NEW s \in Sessions, Request(s)
  PROVE  RowsOK' /\ RetryBound' /\ \A t \in Sessions : Known(t)'
  <1>0. EngineTypeOK
    BY DEF IInv
  <1>1. ASSUME NEW w \in Workflows, NEW t \in WorkflowTypes, NewWorkflow(w, t),
               mstate[MachineOf[w]] = NoState =>
                 mstate' = [mstate EXCEPT ![MachineOf[w]] = "discovered"],
               mstate[MachineOf[w]] # NoState => UNCHANGED mstate,
               Set(s, Fresh("start", w)), LocksUnchanged
        PROVE  RowsOK' /\ RetryBound' /\ \A u \in Sessions : Known(u)'
    <2>1. /\ sess'[s] = Fresh("start", w)
          /\ \A u \in Sessions \ {s} : sess'[u] = sess[u]
      BY <1>0, <1>1, FreshType, SetType DEF RunPCs
    <2>2. RowsOK'
      BY <1>0, <1>1 DEF IInv, RowsOK, NewWorkflow, EngineTypeOK, MachineStates, NoState
    <2>3. RetryBound'
      BY <1>1 DEF IInv, RetryBound, NewWorkflow
    <2>4. Known(s)'
      BY <1>0, <1>1, <2>1, FreshKnown DEF NewWorkflow, EngineTypeOK, NoState
    <2>5. ASSUME NEW u \in Sessions \ {s} PROVE Known(u)'
      BY <1>0, <1>1, <2>1, OtherTask DEF NewWorkflow, LocksUnchanged, Known, EngineTypeOK
    <2> QED BY <2>2, <2>3, <2>4, <2>5
  <1>2. ASSUME NEW w \in Workflows, RegisterMachine(s, w)
        PROVE  RowsOK' /\ RetryBound' /\ \A t \in Sessions : Known(t)'
    BY <1>1, <1>2 DEF RegisterMachine, Register, WorkflowTypes
  <1>3. ASSUME NEW w \in Workflows, NEW t \in OfferedTypes, CreateWorkflow(s, w, t)
        PROVE  RowsOK' /\ RetryBound' /\ \A u \in Sessions : Known(u)'
    BY <1>1, <1>3, OfferedTypesAssumption DEF CreateWorkflow, Create
  <1>4. ASSUME NEW w \in Workflows, RequestResume(s, w)
        PROVE  RowsOK' /\ RetryBound' /\ \A t \in Sessions : Known(t)'
    <2>1. Fresh("resume_load", w) \in Session
      BY FreshType DEF ResumePCs
    <2>2. /\ RowsOK' /\ RetryBound' /\ \A t \in Sessions \ {s} : Known(t)'
          /\ sess'[s] = Fresh("resume_load", w)
      BY <1>4, <2>1, QuietStep DEF RequestResume, LocksUnchanged
    <2>3. Known(s)'
      BY <1>4, <2>2, FreshKnown DEF RequestResume, NoState, StoreUnchanged, storeVars
    <2> QED BY <2>2, <2>3
  <1> QED BY <1>2, <1>3, <1>4 DEF Request

LEMMA ResumeStep ==
  ASSUME IInv, NEW s \in Sessions, Resume(s)
  PROVE  RowsOK' /\ RetryBound' /\ \A t \in Sessions : Known(t)'
  <1> DEFINE w == sess[s].wf
  <1>0. EngineTypeOK /\ TaskOK(s)
    BY DEF IInv
  <1>1. /\ w \in Workflows /\ wstatus[w] # NoState
        /\ Machine(s) \in Machines /\ sess[s] \in Session
    BY <1>0, MachineType DEF Resume, ResumeLoad, ResumeClaim, ResumeRead, ResumeClear, At,
       EngineTypeOK, TaskOK
  <1>2. \A pc \in ResumePCs \cup RunPCs : Fresh(pc, w) \in Session
    BY <1>1, FreshType
  (* The quiet steps go on with a fresh record.                             *)
  <1>3. ASSUME NEW pc \in {"resume_read", "resume_clear", "start"}, Set(s, Fresh(pc, w)),
               StoreUnchanged, LocksUnchanged
        PROVE  RowsOK' /\ RetryBound' /\ \A t \in Sessions : Known(t)'
    <2>1. Fresh(pc, w) \in Session
      BY <1>2 DEF ResumePCs, RunPCs
    <2>2. /\ RowsOK' /\ RetryBound' /\ \A t \in Sessions \ {s} : Known(t)'
          /\ sess'[s] = Fresh(pc, w)
      BY <1>3, <2>1, QuietStep DEF LocksUnchanged
    <2>3. Known(s)'
      BY <1>1, <1>3, <2>2, FreshKnown DEF StoreUnchanged, storeVars
    <2> QED BY <2>2, <2>3
  <1>4. CASE ResumeLoad(s)
    <2>1. CASE MayClaim(wstatus[w], wretry[w])
      <3> DEFINE r == [sess[s] EXCEPT !.pc = "resume_claim", !.rseen = wretry[w]]
      <3>1. /\ r \in Session /\ r.wf = w /\ r.pc = "resume_claim" /\ r.rseen = wretry[w]
            /\ r.mdirty = sess[s].mdirty
        BY <1>0, <1>1 DEF Session, ResumePCs, EngineTypeOK
      <3>2. /\ RowsOK' /\ RetryBound' /\ \A t \in Sessions \ {s} : Known(t)'
            /\ sess'[s] = r
        BY <1>4, <2>1, <3>1, QuietStep DEF ResumeLoad, LocksUnchanged
      <3>3. r.mdirty = FALSE
        BY <1>4, <1>1, <3>1 DEF IInv, CopyOK, ResumeLoad, At, Session
      <3>4. Known(s)'
        BY <1>4, <1>1, <2>1, <3>1, <3>2, <3>3
           DEF Known, TaskOK, CopyOK, LockOK, Driving, At, MayClaim, ResumeLoad,
               StoreUnchanged, storeVars
      <3> QED BY <3>2, <3>4
    <2>2. CASE ~MayClaim(wstatus[w], wretry[w])
      <3>1. /\ RowsOK' /\ RetryBound' /\ \A t \in Sessions \ {s} : Known(t)'
            /\ sess'[s] = Fresh("idle", NoWorkflow)
        BY <1>4, <2>2, IdleType, QuietStep DEF ResumeLoad, LocksUnchanged, Idle
      <3>2. Known(s)'
        BY <3>1, FreshKnown
      <3> QED BY <3>1, <3>2
    <2> QED BY <2>1, <2>2
  <1>5. CASE ResumeClaim(s)
    <2>1. /\ sess'[s] = Fresh("resume_read", w)
          /\ \A t \in Sessions \ {s} : sess'[t] = sess[t]
      BY <1>0, <1>2, <1>5, SetType DEF ResumeClaim, ResumePCs
    <2>2. RowsOK'
      BY <1>0, <1>1, <1>5 DEF IInv, RowsOK, ResumeClaim, EngineTypeOK
    <2>3. RetryBound'
      <3>1. sess[s].rseen < MaxRetries /\ sess[s].rseen \in Nat
        BY <1>0, <1>1, <1>5 DEF TaskOK, ResumeClaim, Session
      <3> QED BY <1>0, <1>1, <1>5, <3>1 DEF IInv, RetryBound, ResumeClaim, EngineTypeOK
    <2>4. Known(s)'
      BY <1>0, <1>1, <1>5, <2>1, FreshKnown DEF ResumeClaim, EngineTypeOK, NoState
    <2>5. ASSUME NEW t \in Sessions \ {s} PROVE Known(t)'
      BY <1>0, <1>1, <1>5, <2>1, OtherTask
         DEF ResumeClaim, LocksUnchanged, Known, EngineTypeOK, NoState
    <2> QED BY <2>2, <2>3, <2>4, <2>5
  <1>6. CASE ResumeRead(s)
    BY <1>3, <1>6 DEF ResumeRead
  <1>7. CASE ResumeClear(s)
    BY <1>3, <1>7 DEF ResumeClear
  <1> QED BY <1>4, <1>5, <1>6, <1>7 DEF Resume

(* The commit of a run: what it writes is a state that runs end in.         *)
LEMMA CommitStep ==
  ASSUME IInv, NEW s \in Sessions, ~At(s, "idle"),
         NEW r \in Session, r.wf = sess[s].wf, CommitRun(s, r),
         r.mdirty => r.mseen # NoState,
         r.wdirty => r.wseen # NoState
  PROVE  RowsOK' /\ RetryBound' /\ \A t \in Sessions : Known(t)'
  <1>0. EngineTypeOK /\ TaskOK(s)
    BY DEF IInv
  <1>1. Machine(s) \in Machines /\ r.wf \in Workflows
    BY <1>0, MachineType
  <1>2. sess'[s] = Fresh("idle", NoWorkflow) /\ \A t \in Sessions \ {s} : sess'[t] = sess[t]
    BY <1>0, IdleType, SetType DEF CommitRun, Idle
  <1>3. /\ \A m \in Machines : mstate[m] # NoState => mstate'[m] # NoState
        /\ \A w \in Workflows : wstatus[w] # NoState => wstatus'[w] # NoState
        /\ \A w \in Workflows : wstatus[w] = NoState => wstatus'[w] = NoState
    BY <1>0, <1>1 DEF CommitRun, EngineTypeOK, TaskOK
  <1>4. RowsOK'
    BY <1>0, <1>3 DEF IInv, RowsOK, CommitRun, EngineTypeOK
  <1>5. RetryBound'
    BY DEF IInv, RetryBound, CommitRun
  <1>6. Known(s)'
    BY <1>2, FreshKnown
  <1>7. ASSUME NEW t \in Sessions \ {s} PROVE Known(t)'
    <2>1. \A m \in Machines : mlock[m] = t => mlock'[m] = t
      BY DEF CommitRun, ReleaseLocks
    <2> QED BY <1>2, <1>3, <2>1, OtherTask DEF CommitRun, Known
  <1> QED BY <1>4, <1>5, <1>6, <1>7

LEMMA RunStep ==
  ASSUME IInv, NEW s \in Sessions, Run(s)
  PROVE  RowsOK' /\ RetryBound' /\ \A t \in Sessions : Known(t)'
  <1>0. EngineTypeOK /\ TaskOK(s) /\ CopyOK(s) /\ LockOK(s)
    BY DEF IInv
  <1>1. /\ sess[s].wf \in Workflows /\ wstatus[sess[s].wf] # NoState
        /\ Machine(s) \in Machines
        /\ sess[s] \in Session
        /\ Type(s) \in WorkflowTypes
        /\ mstate[Machine(s)] # NoState
        /\ ~At(s, "idle")
    <2>1. ~At(s, "idle")
      BY DEF Run, LoadMachine, LoadWorkflow, BeginRun, RecordStep, StepSucceeds,
         StepRaises, RunRaises, FinishRun, FlushMachine, CompleteRun, Commit, FailMachine,
         FailWorkflow, At
    <2> QED BY <1>0, <2>1, MachineType DEF EngineTypeOK, TaskOK, RowsOK, Type, Machine, IInv
  <1>2. /\ TargetState(Type(s)) \in MachineStates \cup {NoState}
        /\ FinalState(Type(s)) \in MachineStates \cup {NoState}
    BY <1>1, TableTypes
  (* A quiet step of s: only the new record of s is left to look at.        *)
  <1>3. ASSUME NEW r \in Session, Set(s, r), StoreUnchanged,
               UNCHANGED mlock \/ LockMachine(s),
               r.wf = sess[s].wf,
               r.pc \in RunPCs,
               r.mdirty =>
                 /\ r.mseen # NoState
                 /\ r.pc \in {"begin", "step", "bmc", "finish", "finish_wf", "commit",
                             "fail", "fail_wf"}
                 /\ Type(s) # "health_check"
                 /\ r.pc \in {"begin", "step", "bmc"} => r.mseen = TargetState(Type(s))
                 /\ r.pc \in {"finish", "finish_wf", "commit"} => r.mseen = Outcome(Type(s))
                 /\ r.pc = "fail_wf" => r.mseen = "error",
               r.pc = "commit" => r.wseen = "completed",
               r.pc \in {"step", "bmc", "finish", "finish_wf", "commit"} /\ TargetState(Type(s)) # NoState
                 => mlock'[Machine(s)] = s,
               r.pc \in {"finish_wf", "commit", "fail_wf"} /\ r.mdirty
                 => mlock'[Machine(s)] = s
        PROVE  RowsOK' /\ RetryBound' /\ \A t \in Sessions : Known(t)'
    <2>1. /\ RowsOK' /\ RetryBound' /\ \A t \in Sessions \ {s} : Known(t)'
          /\ sess'[s] = r
      BY <1>3, QuietStep
    <2>2. Machine(s)' = Machine(s) /\ Type(s)' = Type(s)
      BY <1>3, <2>1 DEF Machine, Type, StoreUnchanged, storeVars
    <2>3. TaskOK(s)'
      BY <1>1, <1>3, <2>1 DEF TaskOK, At, RunPCs, StoreUnchanged, storeVars
    <2>4. CopyOK(s)'
      BY <1>3, <2>1, <2>2 DEF CopyOK, At
    <2>5. LockOK(s)'
      BY <1>3, <2>1, <2>2 DEF LockOK, Driving
    <2> QED BY <2>1, <2>3, <2>4, <2>5 DEF Known
  <1>m. LockMachine(s) => mlock'[Machine(s)] = s
    BY <1>0, <1>1, LockTypes
  <1>4. CASE LoadMachine(s)
    <2> DEFINE r == [sess[s] EXCEPT !.pc = "load_wf", !.mseen = mstate[Machine(s)]]
    <2>1. /\ r \in Session /\ r.wf = sess[s].wf /\ r.pc = "load_wf" /\ r.mdirty = sess[s].mdirty
      BY <1>0, <1>1 DEF Session, RunPCs, EngineTypeOK
    <2>2. r.mdirty = FALSE
      BY <1>0, <1>1, <1>4, <2>1 DEF CopyOK, LoadMachine, At, Session
    <2> HIDE DEF r
    <2> QED BY <1>3, <1>4, <2>1, <2>2 DEF LoadMachine, LocksUnchanged, RunPCs, r
  <1>5. CASE LoadWorkflow(s)
    <2> DEFINE target == TargetState(Type(s))
    <2>0. sess[s].mdirty = FALSE
      BY <1>0, <1>1, <1>5 DEF CopyOK, LoadWorkflow, At, Session
    <2>1. PICK l \in Session :
            /\ l.wf = sess[s].wf /\ l.mdirty = FALSE
            /\ \/ target = NoState /\ Set(s, [l EXCEPT !.pc = "step"])
               \/ target # NoState /\ Set(s, [SeeState(l, target) EXCEPT !.pc = "begin"])
               \/ Set(s, [l EXCEPT !.pc = "fail"])
      BY <1>0, <1>5, <2>0, Loading
    <2> DEFINE r1 == [l EXCEPT !.pc = "step"]
               r2 == [SeeState(l, target) EXCEPT !.pc = "begin"]
               r3 == [l EXCEPT !.pc = "fail"]
    <2>u. Set(s, r1) \/ Set(s, r2) \/ Set(s, r3) =>
            StoreUnchanged /\ UNCHANGED mlock
      BY <1>5 DEF LoadWorkflow, LocksUnchanged
    <2>s. \/ target = NoState /\ Set(s, r1)
          \/ target # NoState /\ Set(s, r2)
          \/ Set(s, r3)
      BY <2>1
    <2>2. /\ r1 \in Session /\ r1.wf = sess[s].wf /\ r1.pc = "step" /\ r1.mdirty = FALSE
          /\ r3 \in Session /\ r3.wf = sess[s].wf /\ r3.pc = "fail" /\ r3.mdirty = FALSE
      BY <2>1 DEF Session, RunPCs
    <2>3. /\ r2 \in Session /\ r2.wf = sess[s].wf /\ r2.pc = "begin" /\ r2.mseen = target
      BY <1>2, <2>1 DEF Session, RunPCs, SeeState
    <2>4. target # NoState => Type(s) # "health_check"
      BY DEF TargetState
    <2> HIDE DEF r1, r2, r3
    <2>5. CASE target = NoState /\ Set(s, r1)
      BY <1>3, <2>2, <2>5, <2>u DEF RunPCs
    <2>6. CASE target # NoState /\ Set(s, r2)
      BY <1>3, <2>3, <2>4, <2>6, <2>u DEF RunPCs
    <2>7. CASE Set(s, r3)
      BY <1>3, <2>2, <2>7, <2>u DEF RunPCs
    <2> QED BY <2>s, <2>5, <2>6, <2>7
  <1>6. CASE BeginRun(s)
    <2> DEFINE r(pc) == [sess[s] EXCEPT !.pc = pc]
    <2>1. PICK pc \in {"step", "fail"} : Set(s, r(pc))
      BY <1>6 DEF BeginRun
    <2>2. /\ r(pc) \in Session /\ r(pc).wf = sess[s].wf /\ r(pc).pc = pc
          /\ r(pc).mdirty = sess[s].mdirty /\ r(pc).mseen = sess[s].mseen
      BY <1>1, <2>1 DEF Session, RunPCs
    <2>3. sess[s].mdirty => /\ sess[s].mseen # NoState /\ Type(s) # "health_check"
                            /\ sess[s].mseen = TargetState(Type(s))
      BY <1>0, <1>6 DEF CopyOK, BeginRun, At
    <2> HIDE DEF r
    <2> QED BY <1>3, <1>6, <1>m, <2>1, <2>2, <2>3 DEF BeginRun, RunPCs
  <1>7. CASE RecordStep(s)
    <2> DEFINE r == [SeeStatus(sess[s], "running") EXCEPT !.pc = "bmc"]
    <2>1. /\ r \in Session /\ r.wf = sess[s].wf /\ r.pc = "bmc"
          /\ r.mdirty = sess[s].mdirty /\ r.mseen = sess[s].mseen
      BY <1>1 DEF Session, RunPCs, SeeStatus, Statuses
    <2>2. sess[s].mdirty => /\ sess[s].mseen # NoState /\ Type(s) # "health_check"
                            /\ sess[s].mseen = TargetState(Type(s))
      BY <1>0, <1>7 DEF CopyOK, RecordStep, At
    <2>3. TargetState(Type(s)) # NoState => mlock'[Machine(s)] = s
      BY <1>0, <1>7, <1>m DEF LockOK, Driving, RecordStep, At
    <2> HIDE DEF r
    <2> QED BY <1>3, <1>7, <2>1, <2>2, <2>3 DEF RecordStep, RunPCs, r
  <1>8. CASE StepSucceeds(s)
    <2> DEFINE r == [sess[s] EXCEPT !.pc = "step", !.step = sess[s].step + 1]
    <2>0. sess[s].step + 1 \in Nat
      BY <1>1 DEF Session
    <2>1. /\ r \in Session /\ r.wf = sess[s].wf /\ r.pc = "step"
          /\ r.mdirty = sess[s].mdirty /\ r.mseen = sess[s].mseen
      BY <1>1, <2>0, Zenon DEF Session, RunPCs
    <2>2. sess[s].mdirty => /\ sess[s].mseen # NoState /\ Type(s) # "health_check"
                            /\ sess[s].mseen = TargetState(Type(s))
      BY <1>0, <1>8 DEF CopyOK, StepSucceeds, At
    <2>3. TargetState(Type(s)) # NoState => mlock[Machine(s)] = s
      BY <1>0, <1>8 DEF LockOK, Driving, StepSucceeds, At
    <2> HIDE DEF r
    <2> QED BY <1>3, <1>8, <2>1, <2>2, <2>3 DEF StepSucceeds, LocksUnchanged, RunPCs, r
  <1>9. CASE StepRaises(s) \/ RunRaises(s)
    <2> DEFINE r == [sess[s] EXCEPT !.pc = "fail"]
    <2>1. /\ r \in Session /\ r.wf = sess[s].wf /\ r.pc = "fail"
          /\ r.mdirty = sess[s].mdirty /\ r.mseen = sess[s].mseen
      BY <1>1 DEF Session, RunPCs
    <2>2. sess[s].mdirty => sess[s].mseen # NoState /\ Type(s) # "health_check"
      BY <1>0 DEF CopyOK
    <2> HIDE DEF r
    <2> QED BY <1>3, <1>9, <2>1, <2>2 DEF StepRaises, RunRaises, LocksUnchanged, RunPCs, r
  <1>10. CASE FinishRun(s)
    <2> DEFINE final == FinalState(Type(s))
               plain(pc) == [sess[s] EXCEPT !.pc = pc]
               moved(pc) == [SeeState(sess[s], final) EXCEPT !.pc = pc]
    <2>1. ASSUME NEW pc \in {"finish", "fail"}
          PROVE  /\ plain(pc) \in Session /\ plain(pc).wf = sess[s].wf
                 /\ plain(pc).pc = pc
                 /\ plain(pc).mdirty = sess[s].mdirty /\ plain(pc).mseen = sess[s].mseen
                 /\ moved(pc) \in Session /\ moved(pc).wf = sess[s].wf
                 /\ moved(pc).pc = pc /\ moved(pc).mseen = final
      BY <1>1, <1>2 DEF Session, RunPCs, SeeState
    <2>2. /\ sess[s].mdirty => /\ sess[s].mseen # NoState /\ Type(s) # "health_check"
                               /\ sess[s].mseen = TargetState(Type(s))
          /\ TargetState(Type(s)) # NoState => mlock[Machine(s)] = s
      BY <1>0, <1>10 DEF CopyOK, LockOK, Driving, FinishRun, At
    <2>3. final # NoState => Type(s) # "health_check" /\ Outcome(Type(s)) = final
      BY DEF FinalState, Outcome
    <2>4. final = NoState => Outcome(Type(s)) = TargetState(Type(s))
      BY DEF Outcome
    <2> HIDE DEF plain, moved
    <2>5. CASE final = NoState /\ Set(s, plain("finish")) /\ UNCHANGED mlock
      BY <1>3, <1>10, <2>1, <2>2, <2>4, <2>5 DEF FinishRun, RunPCs
    <2>6. ASSUME final # NoState, LockMachine(s),
                 NEW pc \in {"finish", "fail"}, Set(s, moved(pc))
          PROVE  RowsOK' /\ RetryBound' /\ \A t \in Sessions : Known(t)'
      BY <1>3, <1>10, <1>m, <2>1, <2>3, <2>6 DEF FinishRun, RunPCs
    <2>7. CASE Set(s, plain("fail")) /\ UNCHANGED mlock
      BY <1>3, <1>10, <2>1, <2>2, <2>7 DEF FinishRun, RunPCs
    <2> QED BY <1>10, <2>5, <2>6, <2>7 DEF FinishRun, plain, moved
  <1>f. CASE FlushMachine(s)
    <2> DEFINE r == [sess[s] EXCEPT !.pc = "finish_wf"]
    <2>1. /\ r \in Session /\ r.wf = sess[s].wf /\ r.pc = "finish_wf"
          /\ r.mdirty = sess[s].mdirty /\ r.mseen = sess[s].mseen
      BY <1>1 DEF Session, RunPCs
    <2>2. sess[s].mdirty => /\ sess[s].mseen # NoState /\ Type(s) # "health_check"
                            /\ sess[s].mseen = Outcome(Type(s))
      BY <1>0, <1>f DEF CopyOK, FlushMachine, At
    <2>3. Set(s, r) /\ StoreUnchanged /\ LockMachine(s)
      BY <1>f DEF FlushMachine
    <2> HIDE DEF r
    <2> QED BY <1>3, <1>m, <2>1, <2>2, <2>3 DEF RunPCs
  <1>11. CASE CompleteRun(s)
    <2> DEFINE r(pc) == [SeeStatus(sess[s], "completed") EXCEPT !.pc = pc]
    <2>1. PICK pc \in {"commit", "fail"} : Set(s, r(pc))
      BY <1>11 DEF CompleteRun
    <2>2. /\ r(pc) \in Session /\ r(pc).wf = sess[s].wf /\ r(pc).pc = pc
          /\ r(pc).mdirty = sess[s].mdirty /\ r(pc).mseen = sess[s].mseen
          /\ r(pc).wseen = "completed"
      BY <1>1, <2>1 DEF Session, RunPCs, SeeStatus, Statuses
    <2>3. sess[s].mdirty => /\ sess[s].mseen # NoState /\ Type(s) # "health_check"
                            /\ sess[s].mseen = Outcome(Type(s))
      BY <1>0, <1>11 DEF CopyOK, CompleteRun, At
    <2>4. /\ TargetState(Type(s)) # NoState => mlock[Machine(s)] = s
          /\ sess[s].mdirty => mlock[Machine(s)] = s
      BY <1>0, <1>11 DEF LockOK, Driving, CompleteRun, At
    <2> HIDE DEF r
    <2> QED BY <1>3, <1>11, <2>1, <2>2, <2>3, <2>4 DEF CompleteRun, RunPCs
  <1>12. CASE Commit(s)
    <2>1. sess[s].mdirty => sess[s].mseen # NoState
      BY <1>0 DEF CopyOK
    <2>2. sess[s].wseen # NoState
      BY <1>0, <1>12 DEF CopyOK, Commit, NoState
    <2> QED BY <1>1, <1>12, <2>1, <2>2, CommitStep DEF Commit
  <1>13. CASE FailMachine(s)
    <2> DEFINE r == IF FailureSetsError(Type(s)) THEN SeeState(sess[s], "error")
                    ELSE sess[s]
               f == [r EXCEPT !.pc = "fail_wf"]
    <2>0. /\ r \in Session /\ r.wf = sess[s].wf
      <3>1. SeeState(sess[s], "error") \in Session
        BY <1>1, SeeStateType DEF MachineStates
      <3>2. SeeState(sess[s], "error").wf = sess[s].wf
        BY <1>1 DEF SeeState, Session
      <3> QED BY <1>1, <3>1, <3>2
    <2>1. /\ f \in Session /\ f.wf = sess[s].wf /\ f.pc = "fail_wf"
          /\ f.mdirty = r.mdirty /\ f.mseen = r.mseen
      <3> HIDE DEF r
      <3> QED BY <2>0 DEF Session, RunPCs
    <2>2. r.mdirty => r.mseen = "error" /\ Type(s) # "health_check"
      BY <1>0, <1>1 DEF CopyOK, FailureSetsError, SeeState, Session
    <2>3. r.mdirty => mlock'[Machine(s)] = s
      BY <1>13, <1>m DEF FailMachine
    <2>4. UNCHANGED mlock \/ LockMachine(s)
      BY <1>13 DEF FailMachine
    <2>5. Set(s, f) /\ StoreUnchanged
      BY <1>13 DEF FailMachine
    <2> HIDE DEF r, f
    <2> QED BY <1>3, <2>1, <2>2, <2>3, <2>4, <2>5 DEF RunPCs, NoState
  <1>14. CASE FailWorkflow(s)
    <2> DEFINE r == SeeStatus(sess[s], "failed")
    <2>1. /\ r \in Session /\ r.wf = sess[s].wf /\ r.wseen = "failed"
          /\ r.mdirty = sess[s].mdirty /\ r.mseen = sess[s].mseen
      BY <1>1 DEF Session, SeeStatus, Statuses
    <2>2. sess[s].mdirty => sess[s].mseen # NoState
      BY <1>0 DEF CopyOK
    <2>3. CommitRun(s, r)
      BY <1>14 DEF FailWorkflow
    <2> HIDE DEF r
    <2> QED BY <1>1, <2>1, <2>2, <2>3, CommitStep DEF NoState
  <1> QED BY <1>4, <1>5, <1>6, <1>7, <1>8, <1>9, <1>10, <1>f, <1>11, <1>12, <1>13, <1>14
          DEF Run

LEMMA FaultStep ==
  ASSUME IInv,
         \/ \E s \in Sessions : ConnectTimesOut(s) \/ DeadlockAborts(s)
         \/ Crash
         \/ UNCHANGED vars
  PROVE  RowsOK' /\ RetryBound' /\ \A t \in Sessions : Known(t)'
  <1>1. ASSUME NEW s \in Sessions, ConnectTimesOut(s)
        PROVE  RowsOK' /\ RetryBound' /\ \A t \in Sessions : Known(t)'
    <2>1. /\ RowsOK' /\ RetryBound' /\ \A t \in Sessions \ {s} : Known(t)'
          /\ sess'[s] = Fresh("idle", NoWorkflow)
      BY <1>1, IdleType, QuietStep DEF ConnectTimesOut, LocksUnchanged, Idle
    <2>2. Known(s)'
      BY <2>1, FreshKnown
    <2> QED BY <2>1, <2>2
  <1>4. ASSUME NEW s \in Sessions, DeadlockAborts(s)
        PROVE  RowsOK' /\ RetryBound' /\ \A t \in Sessions : Known(t)'
    <2>0. EngineTypeOK
      BY DEF IInv
    <2>1. RowsOK' /\ RetryBound'
      BY <1>4, <2>0, AbortEffect DEF IInv, RowsOK, RetryBound
    <2>2. Known(s)'
      BY <1>4, <2>0, AbortEffect, FreshKnown DEF Idle
    <2>3. ASSUME NEW t \in Sessions \ {s} PROVE Known(t)'
      <3>1. \A m \in Machines : mlock[m] = t => mlock'[m] = t
        BY <1>4, <2>0, AbortEffect DEF ReleaseLocks
      <3> QED BY <1>4, <2>0, <3>1, AbortEffect, OtherTask DEF Known
    <2> QED BY <2>1, <2>2, <2>3
  <1>2. CASE Crash
    <2>1. RowsOK' /\ RetryBound'
      BY <1>2 DEF IInv, RowsOK, RetryBound, Crash, StoreUnchanged, storeVars
    <2>2. ASSUME NEW t \in Sessions PROVE Known(t)'
      BY <1>2, FreshKnown DEF Crash, Idle
    <2> QED BY <2>1, <2>2
  <1>3. CASE UNCHANGED vars
    BY <1>3 DEF vars, IInv, RowsOK, RetryBound, Known, TaskOK, CopyOK, LockOK, At,
       Driving, Type, Machine
  <1> QED BY <1>1, <1>2, <1>3, <1>4

LEMMA NextIInv == IInv /\ [EngineNext]_vars => IInv'
  <1> SUFFICES ASSUME IInv, [EngineNext]_vars PROVE IInv'
    OBVIOUS
  <1>1. ASSUME NEW s \in Sessions, Request(s) PROVE IInv'
    BY <1>1, RequestTypes, RequestStep DEF IInv, Known
  <1>2. ASSUME NEW s \in Sessions, Resume(s) PROVE IInv'
    BY <1>2, ResumeTypes, ResumeStep DEF IInv, Known
  <1>3. ASSUME NEW s \in Sessions, Run(s) PROVE IInv'
    BY <1>3, RunTypes, RunStep DEF IInv, Known
  <1>4. CASE (\E s \in Sessions : ConnectTimesOut(s) \/ DeadlockAborts(s)) \/ Crash \/ UNCHANGED vars
    BY <1>4, FaultTypes, FaultStep DEF IInv, Known
  <1> QED BY <1>1, <1>2, <1>3, <1>4 DEF EngineNext, Work, Waiting

LEMMA IInvHolds == EngineSpec => []IInv
  BY InitIInv, NextIInv, PTL DEF EngineSpec

-----------------------------------------------------------------------------
(* Theorems                                                                 *)

(* The rows, the locks and the sessions keep their types, for any number of *)
(* machines, workflows and sessions.                                        *)
THEOREM TypeCorrect == EngineSpec => []EngineTypeOK
  <1>1. IInv => EngineTypeOK
    BY DEF IInv
  <1> QED BY <1>1, IInvHolds, PTL

(* retry_count never exceeds max_retries, however many resume requests race *)
(* on copies of the row.                                                    *)
THEOREM RetriesBounded == EngineSpec => []RetryBound
  <1>1. IInv => RetryBound
    BY DEF IInv
  <1> QED BY <1>1, IInvHolds, PTL

(* Two lifecycle workflows never drive the BMC of one machine at once: both *)
(* would hold the lock of its row.                                          *)
THEOREM DrivesAreExclusive == EngineSpec => []ExclusiveDrive
  <1>1. IInv => ExclusiveDrive
    BY DEF IInv, LockOK, ExclusiveDrive
  <1> QED BY <1>1, IInvHolds, PTL

-----------------------------------------------------------------------------
(* Committed states                                                         *)

(* A commit writes "completed" with the outcome of the workflow's type, or  *)
(* "failed" with ERROR, and nothing else.                                   *)
LEMMA WhatCommitsWrite ==
  ASSUME IInv, NEW s \in Sessions, Commit(s) \/ FailWorkflow(s)
  PROVE  \E r \in Session :
           /\ r.wf = sess[s].wf
           /\ CommitRun(s, r)
           /\ r.wseen \in {"completed", "failed"}
           /\ r.mdirty => /\ mlock[Machine(s)] = s
                          /\ r.mseen = IF r.wseen = "completed"
                                       THEN Outcome(Type(s)) ELSE "error"
                          /\ Type(s) # "health_check"
                          /\ r.mseen # NoState
  <1>0. /\ CopyOK(s) /\ LockOK(s)
        /\ sess[s] \in Session
    BY DEF IInv, EngineTypeOK
  <1>1. CASE Commit(s)
    <2>1. sess[s].mdirty => /\ mlock[Machine(s)] = s
                            /\ sess[s].mseen = Outcome(Type(s))
                            /\ Type(s) # "health_check"
                            /\ sess[s].mseen # NoState
      BY <1>0, <1>1 DEF CopyOK, LockOK, Commit, At
    <2>2. sess[s].wseen = "completed" /\ CommitRun(s, sess[s])
      BY <1>0, <1>1 DEF CopyOK, Commit
    <2> QED BY <1>0, <2>1, <2>2
  <1>2. CASE FailWorkflow(s)
    <2> DEFINE r == SeeStatus(sess[s], "failed")
    <2>1. /\ r \in Session /\ r.wf = sess[s].wf /\ r.wseen = "failed"
          /\ r.mdirty = sess[s].mdirty /\ r.mseen = sess[s].mseen
      BY <1>0 DEF Session, SeeStatus, Statuses
    <2>2. sess[s].mdirty => /\ mlock[Machine(s)] = s
                            /\ sess[s].mseen = "error"
                            /\ Type(s) # "health_check"
                            /\ sess[s].mseen # NoState
      BY <1>0, <1>2 DEF CopyOK, LockOK, FailWorkflow, At
    <2>3. CommitRun(s, r)
      BY <1>2 DEF FailWorkflow
    <2> HIDE DEF r
    <2> QED BY <2>1, <2>2, <2>3
  <1> QED BY <1>1, <1>2

(* Every step but a commit, a claim or a request leaves the rows alone.     *)
LEMMA StepKinds ==
  ASSUME [EngineNext]_vars
  PROVE  \/ UNCHANGED storeVars
         \/ \E s \in Sessions : Commit(s) \/ FailWorkflow(s)
         \/ \E s \in Sessions : ResumeClaim(s)
         \/ \E s \in Sessions : Request(s)
  BY DEF EngineNext, Work, Resume, Run, Waiting, Crash, ConnectTimesOut, DeadlockAborts,
     ResumeLoad, ResumeRead, ResumeClear, LoadMachine, LoadWorkflow, BeginRun,
     RecordStep, StepSucceeds, StepRaises, RunRaises, FinishRun, FlushMachine, CompleteRun,
     FailMachine, StoreUnchanged, storeVars, vars

(* The outcomes of the built-in workflows are not transient.                *)
LEMMA OutcomesSettle ==
  ASSUME CustomSettles, NEW t \in WorkflowTypes
  PROVE  Outcome(t) \notin TransientStates
  BY DEF CustomSettles, Outcome, FinalState, TargetState, WorkflowTypes,
     TransientStates, NoState

(* No reader finds a machine in a transient state or a workflow "running",  *)
(* unless a custom workflow asks to be left in one.                         *)
THEOREM TransientNeverCommitted ==
  CustomSettles => (EngineSpec => []NoTransientCommitted)
  <1> SUFFICES ASSUME CustomSettles PROVE EngineSpec => []NoTransientCommitted
    OBVIOUS
  <1>1. EngineInit => NoTransientCommitted
    BY InitialStatesAssumption
       DEF EngineInit, StoreInit, NoTransientCommitted, TransientStates, NoState
  <1>2. IInv /\ NoTransientCommitted /\ [EngineNext]_vars => NoTransientCommitted'
    <2> SUFFICES ASSUME IInv, NoTransientCommitted, [EngineNext]_vars
                 PROVE  NoTransientCommitted'
      OBVIOUS
    <2>0. EngineTypeOK
      BY DEF IInv
    <2>1. CASE UNCHANGED storeVars
      BY <2>1 DEF storeVars, NoTransientCommitted
    <2>2. ASSUME NEW s \in Sessions, Commit(s) \/ FailWorkflow(s)
          PROVE  NoTransientCommitted'
      <3>1. PICK r \in Session :
              /\ r.wf = sess[s].wf
              /\ CommitRun(s, r)
              /\ r.wseen \in {"completed", "failed"}
              /\ r.mdirty => r.mseen = IF r.wseen = "completed"
                                       THEN Outcome(Type(s)) ELSE "error"
        BY <2>2, WhatCommitsWrite
      <3>2. Type(s) \in WorkflowTypes
        BY <2>2 DEF IInv, TaskOK, RowsOK, Type, Commit, FailWorkflow, At
      <3>3. r.mdirty => r.mseen \notin TransientStates
        BY <3>1, <3>2, OutcomesSettle DEF TransientStates
      <3> QED BY <2>0, <3>1, <3>3 DEF CommitRun, NoTransientCommitted, EngineTypeOK
    <2>3. ASSUME NEW s \in Sessions, ResumeClaim(s)
          PROVE  NoTransientCommitted'
      BY <2>0, <2>3 DEF ResumeClaim, NoTransientCommitted, EngineTypeOK
    <2>4. ASSUME NEW s \in Sessions, Request(s)
          PROVE  NoTransientCommitted'
      BY <2>0, <2>4 DEF Request, RegisterMachine, Register, CreateWorkflow, Create,
         NewWorkflow, RequestResume, StoreUnchanged, storeVars, NoTransientCommitted,
         EngineTypeOK, TransientStates
    <2> QED BY <2>1, <2>2, <2>3, <2>4, StepKinds
  <1> QED BY <1>1, <1>2, IInvHolds, PTL DEF EngineSpec

(* A machine's row never changes under a workflow that drives its BMC.      *)
THEOREM DrivesAreUndisturbed == EngineSpec => UndisturbedDrive
  <1>1. ASSUME IInv, [EngineNext]_vars, NEW t \in Sessions, Driving(t), Driving(t)'
        PROVE  mstate'[Machine(t)] = mstate[Machine(t)]
    <2>0. /\ EngineTypeOK /\ TaskOK(t) /\ ~At(t, "idle")
          /\ mlock[Machine(t)] = t
      BY <1>1 DEF IInv, LockOK, Driving, At
    <2>m. Machine(t) \in Machines /\ mstate[Machine(t)] # NoState
      BY <2>0, <1>1, MachineType DEF IInv, RowsOK, TaskOK, Machine
    <2>1. CASE UNCHANGED storeVars
      BY <2>1 DEF storeVars
    <2>2. ASSUME NEW s \in Sessions, Commit(s) \/ FailWorkflow(s)
          PROVE  mstate'[Machine(t)] = mstate[Machine(t)]
      <3>1. PICK r \in Session :
              /\ CommitRun(s, r)
              /\ r.mdirty => mlock[Machine(s)] = s
        BY <1>1, <2>2, WhatCommitsWrite
      <3>2. s # t
        <4>1. sess'[s] = Idle
          BY <2>0, <3>1, IdleType, SetType DEF CommitRun
        <4> QED BY <1>1, <4>1 DEF Driving, Idle, Fresh
      <3> QED BY <2>0, <2>m, <3>1, <3>2 DEF CommitRun, EngineTypeOK
    <2>3. ASSUME NEW s \in Sessions, ResumeClaim(s)
          PROVE  mstate'[Machine(t)] = mstate[Machine(t)]
      BY <2>3 DEF ResumeClaim
    <2>4. ASSUME NEW s \in Sessions, Request(s)
          PROVE  mstate'[Machine(t)] = mstate[Machine(t)]
      BY <2>0, <2>m, <2>4 DEF Request, RegisterMachine, Register, CreateWorkflow,
         Create, RequestResume, StoreUnchanged, storeVars, EngineTypeOK
    <2> QED BY <1>1, <2>1, <2>2, <2>3, <2>4, StepKinds
  <1>2. IInv /\ [EngineNext]_vars =>
          [\A s \in Sessions :
             Driving(s) /\ Driving(s)' => mstate'[Machine(s)] = mstate[Machine(s)]]_vars
    BY <1>1
  <1> QED BY <1>2, IInvHolds, PTL DEF EngineSpec, UndisturbedDrive

-----------------------------------------------------------------------------
(* What a run writes when it ends, and the refinement                       *)

(* A custom workflow has steps. Without any, a run whose copy of the status *)
(* says "completed" already ends without writing it, and commits the state  *)
(* of the machine to a workflow that another request has just claimed.      *)
StepsGiven == CustomSteps # << >>

(* A run marks what it will write: the status from the first step that it   *)
(* records, or at its end if it resumes a workflow and skips them all, and  *)
(* the machine's state when its type has one.                               *)
MarksOK(s) ==
  /\ sess[s].wseen = "running" => sess[s].wdirty
  /\ At(s, "bmc") => sess[s].wdirty
  /\ sess[s].pc \in {"begin", "step"} /\ sess[s].step > 0
       => sess[s].wdirty \/ sess[s].wseen = "resuming"
  /\ StepsGiven /\ sess[s].pc \in {"finish", "finish_wf"}
       => sess[s].wdirty \/ sess[s].wseen = "resuming"
  /\ StepsGiven /\ At(s, "commit") => sess[s].wdirty
  /\ sess[s].pc \in {"start", "load_wf"} => sess[s].step = 0 /\ ~sess[s].wdirty
  /\ sess[s].pc \in {"begin", "step", "bmc", "finish", "finish_wf", "commit"}
       /\ TargetState(Type(s)) # NoState => sess[s].mdirty
  /\ sess[s].pc \in {"finish", "finish_wf", "commit"} /\ FinalState(Type(s)) # NoState => sess[s].mdirty

(* A task that will settle a workflow that is open: it has yet to load the  *)
(* row, or it has found the workflow open, or it has a status to write.     *)
Open == {"pending", "resuming"}
Carries(s) ==
  \/ sess[s].pc \in {"resume_read", "resume_clear", "start", "load_wf"}
  \/ sess[s].pc \in RunPCs /\ (sess[s].wdirty \/ sess[s].wseen \in Open)

NeverRunning == \A w \in Workflows : wstatus[w] # "running"

MarksInv == NeverRunning /\ \A s \in Sessions : MarksOK(s)

LEMMA StepsNotEmpty ==
  ASSUME StepsGiven, NEW t \in WorkflowTypes
  PROVE  Len(Steps(t)) \in Nat \ {0}
  <1>1. Len(CustomSteps) \in Nat \ {0}
    BY CustomAssumption, EmptySeq DEF StepsGiven
  <1>2. Len(ProvisionSteps) \in Nat \ {0}
    <2> DEFINE S == {"configure_bios", "configure_storage", "set_pxe_boot", "mount_iso",
                     "power_on", "wait_for_os", "refresh_inventory"}
               a == Optional("configure_bios")
               b == a \o Optional("configure_storage")
               c == b \o <<"set_pxe_boot">>
               d == c \o Optional("mount_iso")
               z == <<"power_on", "wait_for_os", "refresh_inventory">>
    <2>1. \A v \in S : <<v>> \in Seq(S)
      OBVIOUS
    <2>2. z \in Seq(S) /\ Len(z) = 3
      OBVIOUS
    <2>3. {"configure_bios", "configure_storage", "set_pxe_boot", "mount_iso"} \subseteq S
      OBVIOUS
    <2> HIDE DEF S, z
    <2>4. \A v \in S : Optional(v) \in Seq(S)
      BY <2>1, EmptySeq DEF Optional
    <2>5. b \in Seq(S)
      BY <2>3, <2>4, ConcatProperties
    <2> HIDE DEF b
    <2>6. c \in Seq(S)
      BY <2>1, <2>3, <2>5, ConcatProperties
    <2> HIDE DEF c
    <2>7. d \in Seq(S)
      BY <2>3, <2>4, <2>6, ConcatProperties
    <2> HIDE DEF d
    <2>8. Len(d \o z) = Len(d) + Len(z)
      BY <2>2, <2>7, ConcatProperties
    <2>9. Len(d) \in Nat
      BY <2>7
    <2>10. ProvisionSteps = d \o z
      BY DEF ProvisionSteps, a, b, c, d, z
    <2> QED BY <2>2, <2>8, <2>9, <2>10
  <1> QED BY <1>1, <1>2 DEF Steps, WorkflowTypes, EnrollSteps, DecommissionSteps,
             HealthCheckSteps

(* The table has no transition of a state to itself.                        *)
LEMMA NoSelfLoop ==
  ASSUME NEW v \in MachineStates \cup {NoState}, NEW w \in MachineStates, CanMove(v, w)
  PROVE  v # w
  <1>1. /\ "discovered" \notin ValidTransitions["discovered"]
        /\ "enrolling" \notin ValidTransitions["enrolling"]
        /\ "enrolled" \notin ValidTransitions["enrolled"]
        /\ "provisioning" \notin ValidTransitions["provisioning"]
        /\ "ready" \notin ValidTransitions["ready"]
        /\ "in_use" \notin ValidTransitions["in_use"]
        /\ "maintenance" \notin ValidTransitions["maintenance"]
        /\ "decommissioning" \notin ValidTransitions["decommissioning"]
        /\ "decommissioned" \notin ValidTransitions["decommissioned"]
        /\ "error" \notin ValidTransitions["error"]
    BY DEF ValidTransitions
  <1>2. \A m \in MachineStates : m \notin ValidTransitions[m]
    BY <1>1 DEF MachineStates
  <1> QED BY <1>2 DEF CanMove

LEMMA MarksOther ==
  ASSUME IInv, NEW t \in Sessions, MarksOK(t), sess'[t] = sess[t],
         \A w \in Workflows : wstatus[w] # NoState => wtype'[w] = wtype[w]
  PROVE  MarksOK(t)'
  <1>1. TaskOK(t) /\ EngineTypeOK
    BY DEF IInv
  <1>2. CASE At(t, "idle")
    <2>1. sess[t].mdirty \in BOOLEAN /\ sess[t].pc = "idle"
      BY <1>1, <1>2 DEF EngineTypeOK, Session, At
    <2> QED BY <2>1 DEF MarksOK, At
  <1>3. CASE ~At(t, "idle")
    <2>1. Type(t)' = Type(t)
      BY <1>1, <1>3 DEF TaskOK, Type
    <2> QED BY <2>1 DEF MarksOK, At
  <1> QED BY <1>2, <1>3

LEMMA MarksFresh ==
  ASSUME NEW s \in Sessions, NEW w,
         NEW pc \in {"idle", "resume_load", "resume_read", "resume_clear", "start"},
         sess'[s] = Fresh(pc, w)
  PROVE  MarksOK(s)'
  BY DEF MarksOK, Fresh, At, NoState

(* The steps of a run that do not commit.                                   *)
LEMMA MarksRun ==
  ASSUME IInv, NeverRunning, NEW s \in Sessions, MarksOK(s),
         Run(s), ~Commit(s), ~FailWorkflow(s)
  PROVE  /\ MarksOK(s)' /\ sess'[s].wf = sess[s].wf
         /\ Carries(s) /\ wstatus[sess[s].wf] \in Open => Carries(s)'
  <1>0. EngineTypeOK /\ TaskOK(s) /\ ~At(s, "idle") /\ UNCHANGED wtype
    BY DEF IInv, Run, LoadMachine, LoadWorkflow, BeginRun, RecordStep, StepSucceeds,
       StepRaises, RunRaises, FinishRun, FlushMachine, CompleteRun, Commit, FailMachine,
       FailWorkflow, At, StoreUnchanged, storeVars
  <1>1. /\ sess[s].wf \in Workflows /\ wstatus[sess[s].wf] # NoState
        /\ sess[s] \in Session /\ Type(s) \in WorkflowTypes
        /\ Machine(s) \in Machines
        /\ TargetState(Type(s)) \in MachineStates \cup {NoState}
        /\ FinalState(Type(s)) \in MachineStates \cup {NoState}
    <2>1. /\ sess[s].wf \in Workflows /\ wstatus[sess[s].wf] # NoState
          /\ sess[s] \in Session /\ Type(s) \in WorkflowTypes
          /\ Machine(s) \in Machines
      BY <1>0, MachineType DEF IInv, RowsOK, TaskOK, Type, EngineTypeOK
    <2> QED BY <2>1, TableTypes
  <1>2. /\ sess[s].wseen = "running" => sess[s].wdirty
        /\ sess[s].pc = "bmc" => sess[s].wdirty
        /\ sess[s].pc \in {"begin", "step"} /\ sess[s].step > 0
             => sess[s].wdirty \/ sess[s].wseen = "resuming"
        /\ StepsGiven /\ sess[s].pc \in {"finish", "finish_wf"}
             => sess[s].wdirty \/ sess[s].wseen = "resuming"
        /\ StepsGiven /\ sess[s].pc = "commit" => sess[s].wdirty
        /\ sess[s].pc \in {"start", "load_wf"} => sess[s].step = 0 /\ ~sess[s].wdirty
        /\ sess[s].pc \in {"begin", "step", "bmc", "finish", "finish_wf", "commit"}
             /\ TargetState(Type(s)) # NoState => sess[s].mdirty
        /\ sess[s].pc \in {"finish", "finish_wf", "commit"} /\ FinalState(Type(s)) # NoState
             => sess[s].mdirty
    BY DEF MarksOK, At
  <1>3. ASSUME NEW r \in Session, Set(s, r), r.wf = sess[s].wf, r.pc \in RunPCs,
               r.wseen = "running" => r.wdirty,
               r.pc = "bmc" => r.wdirty,
               r.pc \in {"begin", "step"} /\ r.step > 0
                 => r.wdirty \/ r.wseen = "resuming",
               StepsGiven /\ r.pc \in {"finish", "finish_wf"}
                 => r.wdirty \/ r.wseen = "resuming",
               StepsGiven /\ r.pc = "commit" => r.wdirty,
               r.pc \in {"start", "load_wf"} => r.step = 0 /\ ~r.wdirty,
               r.pc \in {"begin", "step", "bmc", "finish", "finish_wf", "commit"}
                 /\ TargetState(Type(s)) # NoState => r.mdirty,
               r.pc \in {"finish", "finish_wf", "commit"} /\ FinalState(Type(s)) # NoState => r.mdirty,
               Carries(s) /\ wstatus[sess[s].wf] \in Open =>
                 r.pc = "load_wf" \/ r.wdirty \/ r.wseen \in Open
        PROVE  /\ MarksOK(s)' /\ sess'[s].wf = sess[s].wf
               /\ Carries(s) /\ wstatus[sess[s].wf] \in Open => Carries(s)'
    <2>1. sess'[s] = r /\ Type(s)' = Type(s)
      BY <1>0, <1>3, SetType DEF Type
    <2> QED BY <1>3, <2>1 DEF MarksOK, Carries, At
  <1>4. CASE LoadMachine(s)
    <2> DEFINE r == [sess[s] EXCEPT !.pc = "load_wf", !.mseen = mstate[Machine(s)]]
    <2>1. /\ r \in Session /\ r.wf = sess[s].wf /\ r.pc = "load_wf" /\ r.step = sess[s].step
          /\ r.wseen = sess[s].wseen /\ r.wdirty = sess[s].wdirty
      BY <1>0, <1>1 DEF Session, RunPCs, EngineTypeOK
    <2>2. Set(s, r) /\ sess[s].pc = "start"
      BY <1>4 DEF LoadMachine, At
    <2> HIDE DEF r
    <2> QED BY <1>2, <1>3, <2>1, <2>2 DEF RunPCs
  <1>5. CASE LoadWorkflow(s)
    <2> DEFINE target == TargetState(Type(s))
    <2>0. sess[s].pc = "load_wf" /\ sess[s].wdirty = FALSE
      BY <1>1, <1>2, <1>5 DEF LoadWorkflow, At, Session
    <2>l. PICK l \in Session :
            /\ l.wf = sess[s].wf /\ l.wseen = wstatus[sess[s].wf] /\ l.wdirty = FALSE
            /\ l.step # 0 => l.wseen = "resuming"
            /\ \/ target = NoState /\ Set(s, [l EXCEPT !.pc = "step"])
               \/ /\ target # NoState /\ CanMove(l.mseen, target)
                  /\ Set(s, [SeeState(l, target) EXCEPT !.pc = "begin"])
               \/ Set(s, [l EXCEPT !.pc = "fail"])
      BY <1>0, <1>5, <2>0, Loading
    <2> DEFINE r1 == [l EXCEPT !.pc = "step"]
               r2 == [SeeState(l, target) EXCEPT !.pc = "begin"]
               r3 == [l EXCEPT !.pc = "fail"]
    <2>1. l.wseen # "running" /\ l.step \in Nat
      BY <1>1, <2>l DEF NeverRunning, Session
    <2>2. /\ r1 \in Session /\ r1.wf = sess[s].wf /\ r1.pc = "step" /\ r1.step = l.step
          /\ r1.wseen = l.wseen
          /\ r3 \in Session /\ r3.wf = sess[s].wf /\ r3.pc = "fail"
          /\ r3.wseen = l.wseen
      BY <2>l DEF Session, RunPCs
    <2>3. /\ r2 \in Session /\ r2.wf = sess[s].wf /\ r2.pc = "begin" /\ r2.step = l.step
          /\ r2.wseen = l.wseen
          /\ l.mseen # target => r2.mdirty
      BY <1>1, <2>l DEF Session, RunPCs, SeeState
    <2>4. target # NoState /\ CanMove(l.mseen, target) => l.mseen # target
      BY <1>1, <2>1, NoSelfLoop DEF Session
    <2>5. \/ target = NoState /\ Set(s, r1)
          \/ target # NoState /\ CanMove(l.mseen, target) /\ Set(s, r2)
          \/ Set(s, r3)
      BY <2>l
    <2> HIDE DEF r1, r2, r3
    <2>6. CASE target = NoState /\ Set(s, r1)
      BY <1>3, <2>l, <2>1, <2>2, <2>6 DEF RunPCs
    <2>7. CASE target # NoState /\ CanMove(l.mseen, target) /\ Set(s, r2)
      BY <1>3, <2>l, <2>1, <2>3, <2>4, <2>7 DEF RunPCs
    <2>8. CASE Set(s, r3)
      BY <1>3, <2>l, <2>1, <2>2, <2>8 DEF RunPCs
    <2> QED BY <2>5, <2>6, <2>7, <2>8
  <1>p. sess[s].pc \notin {"start", "load_wf"} /\ sess[s].pc \in RunPCs =>
          (Carries(s) => sess[s].wdirty \/ sess[s].wseen \in Open)
    BY DEF Carries, RunPCs
  <1>6. CASE BeginRun(s)
    <2> DEFINE r(pc) == [sess[s] EXCEPT !.pc = pc]
    <2>1. PICK pc \in {"step", "fail"} : Set(s, r(pc))
      BY <1>6 DEF BeginRun
    <2>2. /\ r(pc) \in Session /\ r(pc).wf = sess[s].wf /\ r(pc).pc = pc
          /\ r(pc).mdirty = sess[s].mdirty /\ r(pc).step = sess[s].step
          /\ r(pc).wseen = sess[s].wseen /\ r(pc).wdirty = sess[s].wdirty
      BY <1>1, <2>1 DEF Session, RunPCs
    <2>3. sess[s].pc = "begin"
      BY <1>6 DEF BeginRun, At
    <2> HIDE DEF r
    <2> QED BY <1>2, <1>3, <1>p, <2>1, <2>2, <2>3 DEF RunPCs
  <1>7. CASE RecordStep(s)
    <2> DEFINE r == [SeeStatus(sess[s], "running") EXCEPT !.pc = "bmc"]
    <2>1. /\ r \in Session /\ r.wf = sess[s].wf /\ r.pc = "bmc"
          /\ r.mdirty = sess[s].mdirty
          /\ r.wdirty = (sess[s].wdirty \/ "running" # sess[s].wseen)
      BY <1>1 DEF Session, RunPCs, SeeStatus, Statuses
    <2>2. Set(s, r) /\ sess[s].pc = "step"
      BY <1>7 DEF RecordStep, At
    <2>3. r.wdirty
      BY <1>2, <2>1
    <2> HIDE DEF r
    <2> QED BY <1>2, <1>3, <2>1, <2>2, <2>3 DEF RunPCs
  <1>8. CASE StepSucceeds(s)
    <2> DEFINE r == [sess[s] EXCEPT !.pc = "step", !.step = sess[s].step + 1]
    <2>0. sess[s].step + 1 \in Nat
      BY <1>1 DEF Session
    <2>1. /\ r \in Session /\ r.wf = sess[s].wf /\ r.pc = "step"
          /\ r.mdirty = sess[s].mdirty /\ r.wdirty = sess[s].wdirty
      BY <1>1, <2>0, Zenon DEF Session, RunPCs
    <2>2. Set(s, r) /\ sess[s].pc = "bmc"
      BY <1>8 DEF StepSucceeds, At
    <2> HIDE DEF r
    <2> QED BY <1>2, <1>3, <2>1, <2>2 DEF RunPCs
  <1>9. CASE StepRaises(s) \/ RunRaises(s)
    <2> DEFINE r == [sess[s] EXCEPT !.pc = "fail"]
    <2>1. /\ r \in Session /\ r.wf = sess[s].wf /\ r.pc = "fail"
          /\ r.wseen = sess[s].wseen /\ r.wdirty = sess[s].wdirty
      BY <1>1 DEF Session, RunPCs
    <2>2. Set(s, r) /\ sess[s].pc \in {"bmc", "step"}
      BY <1>9 DEF StepRaises, RunRaises, At
    <2> HIDE DEF r
    <2> QED BY <1>2, <1>3, <1>p, <2>1, <2>2 DEF RunPCs
  <1>10. CASE FinishRun(s)
    <2> DEFINE final == FinalState(Type(s))
               plain(pc) == [sess[s] EXCEPT !.pc = pc]
               moved(pc) == [SeeState(sess[s], final) EXCEPT !.pc = pc]
    <2>0. /\ sess[s].pc = "step" /\ sess[s].step = Len(Steps(Type(s)))
      BY <1>10 DEF FinishRun, At
    <2>1. ASSUME NEW pc \in {"finish", "fail"}
          PROVE  /\ plain(pc) \in Session /\ plain(pc).wf = sess[s].wf
                 /\ plain(pc).pc = pc
                 /\ plain(pc).mdirty = sess[s].mdirty
                 /\ plain(pc).wseen = sess[s].wseen /\ plain(pc).wdirty = sess[s].wdirty
                 /\ moved(pc) \in Session /\ moved(pc).wf = sess[s].wf
                 /\ moved(pc).pc = pc
                 /\ moved(pc).mdirty = (sess[s].mdirty \/ final # sess[s].mseen)
                 /\ moved(pc).wseen = sess[s].wseen /\ moved(pc).wdirty = sess[s].wdirty
      BY <1>1 DEF Session, RunPCs, SeeState
    <2>2. StepsGiven => sess[s].wdirty \/ sess[s].wseen = "resuming"
      <3> HAVE StepsGiven
      <3>1. Len(Steps(Type(s))) > 0
        BY <1>1, StepsNotEmpty
      <3> QED BY <1>2, <2>0, <3>1
    <2>3. final # NoState /\ CanMove(sess[s].mseen, final) => sess[s].mseen # final
      BY <1>1, NoSelfLoop DEF Session
    <2>4. \/ final = NoState /\ Set(s, plain("finish"))
          \/ /\ final # NoState /\ CanMove(sess[s].mseen, final)
             /\ \E pc \in {"finish", "fail"} : Set(s, moved(pc))
          \/ Set(s, plain("fail"))
      BY <1>10 DEF FinishRun
    <2> HIDE DEF plain, moved
    <2>5. CASE final = NoState /\ Set(s, plain("finish"))
      BY <1>2, <1>3, <1>p, <2>0, <2>1, <2>2, <2>5 DEF RunPCs
    <2>6. ASSUME final # NoState, CanMove(sess[s].mseen, final),
                 NEW pc \in {"finish", "fail"}, Set(s, moved(pc))
          PROVE  /\ MarksOK(s)' /\ sess'[s].wf = sess[s].wf
                 /\ Carries(s) /\ wstatus[sess[s].wf] \in Open => Carries(s)'
      <3>1. moved(pc).mdirty
        BY <2>1, <2>3, <2>6
      <3> QED BY <1>2, <1>3, <1>p, <2>0, <2>1, <2>2, <2>6, <3>1 DEF RunPCs
    <2>7. CASE Set(s, plain("fail"))
      BY <1>2, <1>3, <1>p, <2>0, <2>1, <2>7 DEF RunPCs
    <2> QED BY <2>4, <2>5, <2>6, <2>7
  <1>f. CASE FlushMachine(s)
    <2> DEFINE r == [sess[s] EXCEPT !.pc = "finish_wf"]
    <2>1. /\ r \in Session /\ r.wf = sess[s].wf /\ r.pc = "finish_wf"
          /\ r.mdirty = sess[s].mdirty
          /\ r.wseen = sess[s].wseen /\ r.wdirty = sess[s].wdirty
      BY <1>1 DEF Session, RunPCs
    <2>2. Set(s, r) /\ sess[s].pc = "finish"
      BY <1>f DEF FlushMachine, At
    <2> HIDE DEF r
    <2> QED BY <1>2, <1>3, <1>p, <2>1, <2>2 DEF RunPCs
  <1>11. CASE CompleteRun(s)
    <2> DEFINE r(pc) == [SeeStatus(sess[s], "completed") EXCEPT !.pc = pc]
    <2>1. PICK pc \in {"commit", "fail"} : Set(s, r(pc))
      BY <1>11 DEF CompleteRun
    <2>2. /\ r(pc) \in Session /\ r(pc).wf = sess[s].wf /\ r(pc).pc = pc
          /\ r(pc).mdirty = sess[s].mdirty
          /\ r(pc).wseen = "completed"
          /\ r(pc).wdirty = (sess[s].wdirty \/ "completed" # sess[s].wseen)
      BY <1>1, <2>1 DEF Session, RunPCs, SeeStatus, Statuses
    <2>3. sess[s].pc = "finish_wf"
      BY <1>11 DEF CompleteRun, At
    <2>4. Carries(s) => r(pc).wdirty
      <3>1. "completed" \notin Open
        BY DEF Open
      <3> HIDE DEF r
      <3> QED BY <1>p, <2>2, <2>3, <3>1 DEF RunPCs
    <2>5. StepsGiven => r(pc).wdirty
      BY <1>2, <2>2, <2>3
    <2> HIDE DEF r
    <2> QED BY <1>2, <1>3, <2>1, <2>2, <2>3, <2>4, <2>5 DEF RunPCs
  <1>13. CASE FailMachine(s)
    <2> DEFINE r == IF FailureSetsError(Type(s)) THEN SeeState(sess[s], "error")
                    ELSE sess[s]
               f == [r EXCEPT !.pc = "fail_wf"]
    <2>0. /\ r \in Session /\ r.wf = sess[s].wf
          /\ r.wseen = sess[s].wseen /\ r.wdirty = sess[s].wdirty
      <3>1. SeeState(sess[s], "error") \in Session
        BY <1>1, SeeStateType DEF MachineStates
      <3>2. /\ SeeState(sess[s], "error").wf = sess[s].wf
            /\ SeeState(sess[s], "error").wseen = sess[s].wseen
            /\ SeeState(sess[s], "error").wdirty = sess[s].wdirty
        BY <1>1 DEF SeeState, Session
      <3> QED BY <1>1, <3>1, <3>2
    <2>1. /\ f \in Session /\ f.wf = sess[s].wf /\ f.pc = "fail_wf"
          /\ f.wseen = sess[s].wseen /\ f.wdirty = sess[s].wdirty
      <3> HIDE DEF r
      <3> QED BY <2>0 DEF Session, RunPCs
    <2>2. Set(s, f) /\ sess[s].pc = "fail"
      BY <1>13 DEF FailMachine, At
    <2> HIDE DEF r, f
    <2> QED BY <1>2, <1>3, <1>p, <2>1, <2>2 DEF RunPCs
  <1> QED BY <1>4, <1>5, <1>6, <1>7, <1>8, <1>9, <1>10, <1>f, <1>11, <1>13 DEF Run

(* What a commit leaves: the status of the run's workflow is settled or is  *)
(* left alone, and the session starts afresh.                               *)
LEMMA CommitEffect ==
  ASSUME IInv, NEW s \in Sessions, Commit(s) \/ FailWorkflow(s)
  PROVE  /\ sess'[s] = Idle
         /\ \A t \in Sessions \ {s} : sess'[t] = sess[t]
         /\ \A w \in Workflows : wstatus'[w] \in {wstatus[w], "completed", "failed"}
         /\ \A w \in Workflows : w # sess[s].wf => wstatus'[w] = wstatus[w]
         /\ UNCHANGED <<wtype, crashes>>
  <1>1. PICK r \in Session :
          r.wf = sess[s].wf /\ CommitRun(s, r) /\ r.wseen \in {"completed", "failed"}
    BY WhatCommitsWrite
  <1>2. EngineTypeOK
    BY DEF IInv
  <1>3. sess'[s] = Idle /\ \A t \in Sessions \ {s} : sess'[t] = sess[t]
    BY <1>1, <1>2, IdleType, SetType DEF CommitRun
  <1> QED BY <1>1, <1>2, <1>3 DEF CommitRun, EngineTypeOK

(* What a request leaves: a session that was idle starts a task, on a row   *)
(* of its own or on a workflow that has failed.                             *)
LEMMA RequestEffect ==
  ASSUME IInv, NEW s \in Sessions, Request(s)
  PROVE  /\ At(s, "idle")
         /\ \A t \in Sessions \ {s} : sess'[t] = sess[t]
         /\ crashes' = crashes
         /\ \E w \in Workflows :
              /\ \/ sess'[s] = Fresh("start", w) /\ wstatus[w] = NoState /\ wstatus'[w] = "pending"
                 \/ sess'[s] = Fresh("resume_load", w) /\ wstatus'[w] = wstatus[w]
              /\ \A v \in Workflows \ {w} : wstatus'[v] = wstatus[v]
         /\ \A w \in Workflows : wstatus[w] # NoState => wtype'[w] = wtype[w]
  <1>0. EngineTypeOK
    BY DEF IInv
  <1>f. \A w \in Workflows : /\ Fresh("start", w) \in Session
                             /\ Fresh("resume_load", w) \in Session
    BY FreshType DEF RunPCs, ResumePCs
  <1>1. ASSUME NEW w \in Workflows, NEW r \in Session, Set(s, r)
        PROVE  sess'[s] = r /\ \A t \in Sessions \ {s} : sess'[t] = sess[t]
    BY <1>0, <1>1, SetType
  <1>2. ASSUME NEW w \in Workflows, NEW t \in WorkflowTypes, NewWorkflow(w, t)
        PROVE  /\ wstatus[w] = NoState /\ wstatus'[w] = "pending"
               /\ \A v \in Workflows \ {w} : wstatus'[v] = wstatus[v]
               /\ \A v \in Workflows : wstatus[v] # NoState => wtype'[v] = wtype[v]
    BY <1>0, <1>2 DEF NewWorkflow, EngineTypeOK
  <1>3. CASE \E w \in Workflows : RegisterMachine(s, w)
    <2>1. PICK w \in Workflows : RegisterMachine(s, w)
      BY <1>3
    <2>2. NewWorkflow(w, "enroll") /\ Set(s, Fresh("start", w)) /\ At(s, "idle")
          /\ crashes' = crashes
      BY <2>1 DEF RegisterMachine, Register
    <2>3. "enroll" \in WorkflowTypes
      BY DEF WorkflowTypes
    <2> QED BY <1>f, <1>1, <1>2, <2>2, <2>3
  <1>4. CASE \E w \in Workflows, t \in OfferedTypes : CreateWorkflow(s, w, t)
    <2>1. PICK w \in Workflows, t \in OfferedTypes : CreateWorkflow(s, w, t)
      BY <1>4
    <2>2. NewWorkflow(w, t) /\ Set(s, Fresh("start", w)) /\ At(s, "idle")
          /\ crashes' = crashes /\ t \in WorkflowTypes
      BY <2>1, OfferedTypesAssumption DEF CreateWorkflow, Create
    <2> QED BY <1>f, <1>1, <1>2, <2>2
  <1>5. CASE \E w \in Workflows : RequestResume(s, w)
    <2>1. PICK w \in Workflows : RequestResume(s, w)
      BY <1>5
    <2>2. Set(s, Fresh("resume_load", w)) /\ At(s, "idle") /\ crashes' = crashes
          /\ UNCHANGED <<wtype, wstatus>>
      BY <2>1 DEF RequestResume, StoreUnchanged, storeVars
    <2> QED BY <1>f, <1>1, <2>2
  <1> QED BY <1>3, <1>4, <1>5 DEF Request

(* What the steps of a resume leave; a claim makes the workflow open and    *)
(* its claimer the one that carries it.                                     *)
LEMMA ResumeEffect ==
  ASSUME IInv, NEW s \in Sessions, Resume(s), MarksOK(s)
  PROVE  /\ MarksOK(s)'
         /\ sess[s].wf \in Workflows
         /\ \A t \in Sessions \ {s} : sess'[t] = sess[t]
         /\ UNCHANGED <<wtype, crashes>>
         /\ \A v \in Workflows \ {sess[s].wf} : wstatus'[v] = wstatus[v]
         /\ wstatus'[sess[s].wf] \in {wstatus[sess[s].wf], "resuming"}
         /\ \/ sess'[s].wf = sess[s].wf /\ Carries(s)'
            \/ ~Carries(s) /\ wstatus' = wstatus
  <1> DEFINE w == sess[s].wf
  <1>0. EngineTypeOK /\ w \in Workflows /\ sess[s] \in Session
    BY MachineType DEF IInv, Resume, ResumeLoad, ResumeClaim, ResumeRead, ResumeClear, At,
       EngineTypeOK
  <1>f. \A pc \in ResumePCs \cup RunPCs : Fresh(pc, w) \in Session
    BY <1>0, FreshType
  <1>1. CASE ResumeLoad(s)
    <2> DEFINE r == [sess[s] EXCEPT !.pc = "resume_claim", !.rseen = wretry[w]]
    <2>1. /\ r \in Session /\ r.pc = "resume_claim"
          /\ r.wseen = sess[s].wseen /\ r.wdirty = sess[s].wdirty
      BY <1>0 DEF Session, ResumePCs, EngineTypeOK
    <2>2. ~Carries(s)
      BY <1>1 DEF ResumeLoad, At, Carries, RunPCs
    <2>3. Set(s, r) \/ Set(s, Idle)
      BY <1>1 DEF ResumeLoad
    <2>4. UNCHANGED <<wtype, crashes, wstatus>>
      BY <1>1 DEF ResumeLoad, StoreUnchanged, storeVars
    <2> HIDE DEF r
    <2>5. CASE Set(s, r)
      <3>1. sess'[s] = r /\ \A t \in Sessions \ {s} : sess'[t] = sess[t]
        BY <1>0, <2>1, <2>5, SetType
      <3>2. MarksOK(s)'
        BY <2>1, <3>1 DEF MarksOK, At
      <3> QED BY <1>0, <2>2, <2>4, <3>1, <3>2
    <2>6. CASE Set(s, Idle)
      <3>1. sess'[s] = Idle /\ \A t \in Sessions \ {s} : sess'[t] = sess[t]
        BY <1>0, <2>6, IdleType, SetType
      <3>2. MarksOK(s)'
        BY <3>1, MarksFresh DEF Idle
      <3> QED BY <1>0, <2>2, <2>4, <3>1, <3>2
    <2> QED BY <2>3, <2>5, <2>6
  <1>2. ASSUME NEW pc \in {"resume_read", "resume_clear", "start"}, Set(s, Fresh(pc, w)),
               UNCHANGED <<wtype, crashes>>,
               \/ wstatus' = wstatus
               \/ wstatus' = [wstatus EXCEPT ![w] = "resuming"]
        PROVE  /\ MarksOK(s)'
               /\ \A t \in Sessions \ {s} : sess'[t] = sess[t]
               /\ UNCHANGED <<wtype, crashes>>
               /\ \A v \in Workflows \ {w} : wstatus'[v] = wstatus[v]
               /\ wstatus'[w] \in {wstatus[w], "resuming"}
               /\ sess'[s].wf = w /\ Carries(s)'
    <2>1. Fresh(pc, w) \in Session
      BY <1>f DEF ResumePCs, RunPCs
    <2>2. sess'[s] = Fresh(pc, w) /\ \A t \in Sessions \ {s} : sess'[t] = sess[t]
      BY <1>0, <1>2, <2>1, SetType
    <2>3. MarksOK(s)'
      BY <2>2, MarksFresh
    <2>4. sess'[s].wf = w /\ Carries(s)'
      BY <2>2 DEF Carries, Fresh
    <2> QED BY <1>0, <1>2, <2>2, <2>3, <2>4 DEF EngineTypeOK
  <1>3. CASE ResumeClaim(s)
    BY <1>0, <1>2, <1>3 DEF ResumeClaim
  <1>4. CASE ResumeRead(s)
    BY <1>0, <1>2, <1>4 DEF ResumeRead, StoreUnchanged, storeVars
  <1>5. CASE ResumeClear(s)
    BY <1>0, <1>2, <1>5 DEF ResumeClear, StoreUnchanged, storeVars
  <1> QED BY <1>1, <1>3, <1>4, <1>5 DEF Resume

(* The steps of a run that do not commit touch their own session only.      *)
LEMMA RunEffect ==
  ASSUME IInv, NEW s \in Sessions, Run(s), ~Commit(s), ~FailWorkflow(s)
  PROVE  /\ \A t \in Sessions \ {s} : sess'[t] = sess[t]
         /\ UNCHANGED <<wtype, wstatus, crashes>>
  BY DEF Run, LoadMachine, LoadWorkflow, BeginRun, RecordStep, StepSucceeds,
     StepRaises, RunRaises, FinishRun, FlushMachine, CompleteRun, FailMachine, StoreUnchanged, storeVars,
     Set, IInv, EngineTypeOK

LEMMA InitMarks == EngineInit => MarksInv
  <1> SUFFICES ASSUME EngineInit PROVE MarksInv
    OBVIOUS
  <1>1. NeverRunning
    BY DEF EngineInit, StoreInit, NeverRunning, NoState
  <1>2. ASSUME NEW s \in Sessions PROVE MarksOK(s)
    BY DEF EngineInit, MarksOK, Idle, Fresh, At, NoState
  <1> QED BY <1>1, <1>2 DEF MarksInv

LEMMA NextMarks == IInv /\ MarksInv /\ [EngineNext]_vars => MarksInv'
  <1> SUFFICES ASSUME IInv, MarksInv, [EngineNext]_vars PROVE MarksInv'
    OBVIOUS
  <1>0. NeverRunning /\ \A t \in Sessions : MarksOK(t)
    BY DEF MarksInv
  <1>1. ASSUME NEW s \in Sessions, \A t \in Sessions \ {s} : sess'[t] = sess[t],
               \A w \in Workflows : wstatus[w] # NoState => wtype'[w] = wtype[w],
               MarksOK(s)',
               \A w \in Workflows : wstatus'[w] = wstatus[w] \/ wstatus'[w] # "running"
        PROVE  MarksInv'
    <2>1. ASSUME NEW t \in Sessions \ {s} PROVE MarksOK(t)'
      <3>1. MarksOK(t) /\ sess'[t] = sess[t]
        BY <1>0, <1>1
      <3> QED BY <1>1, <3>1, MarksOther
    <2>2. NeverRunning'
      BY <1>0, <1>1 DEF NeverRunning
    <2>3. \A t \in Sessions : MarksOK(t)'
      BY <1>1, <2>1
    <2> QED BY <2>2, <2>3 DEF MarksInv
  <1>2. ASSUME NEW s \in Sessions, Request(s) PROVE MarksInv'
    <2>1. PICK w \in Workflows :
            /\ \/ sess'[s] = Fresh("start", w) /\ wstatus'[w] = "pending"
               \/ sess'[s] = Fresh("resume_load", w) /\ wstatus'[w] = wstatus[w]
            /\ \A v \in Workflows \ {w} : wstatus'[v] = wstatus[v]
      BY <1>2, RequestEffect
    <2>2. MarksOK(s)'
      BY <2>1, MarksFresh
    <2>3. \A v \in Workflows : wstatus'[v] = wstatus[v] \/ wstatus'[v] # "running"
      BY <2>1
    <2> QED BY <1>1, <1>2, <2>2, <2>3, RequestEffect
  <1>3. ASSUME NEW s \in Sessions, Resume(s) PROVE MarksInv'
    <2>1. MarksOK(s)
      BY <1>0
    <2>2. \A v \in Workflows : wstatus'[v] = wstatus[v] \/ wstatus'[v] # "running"
      BY <1>3, <2>1, ResumeEffect
    <2> QED BY <1>1, <1>3, <2>1, <2>2, ResumeEffect
  <1>4. ASSUME NEW s \in Sessions, Commit(s) \/ FailWorkflow(s) PROVE MarksInv'
    <2>1. MarksOK(s)'
      BY <1>4, CommitEffect, MarksFresh DEF Idle
    <2>2. \A v \in Workflows : wstatus'[v] = wstatus[v] \/ wstatus'[v] # "running"
      BY <1>4, CommitEffect
    <2>3. \A w \in Workflows : wstatus[w] # NoState => wtype'[w] = wtype[w]
      BY <1>4, CommitEffect
    <2> QED BY <1>1, <1>4, <2>1, <2>2, <2>3, CommitEffect
  <1>5. ASSUME NEW s \in Sessions, Run(s), ~Commit(s), ~FailWorkflow(s) PROVE MarksInv'
    <2>1. MarksOK(s)
      BY <1>0
    <2>2. MarksOK(s)'
      BY <1>0, <1>5, <2>1, MarksRun
    <2> QED BY <1>1, <1>5, <2>2, RunEffect
  <1>6. ASSUME NEW s \in Sessions, ConnectTimesOut(s) PROVE MarksInv'
    <2>0. EngineTypeOK
      BY DEF IInv
    <2>1. sess'[s] = Idle /\ (\A t \in Sessions \ {s} : sess'[t] = sess[t])
          /\ UNCHANGED <<wtype, wstatus>>
      BY <1>6, <2>0, IdleType, SetType DEF ConnectTimesOut, StoreUnchanged, storeVars
    <2>2. MarksOK(s)'
      BY <2>1, MarksFresh DEF Idle
    <2> QED BY <1>1, <2>1, <2>2
  <1>d. ASSUME NEW s \in Sessions, DeadlockAborts(s) PROVE MarksInv'
    <2>0. EngineTypeOK
      BY DEF IInv
    <2>1. MarksOK(s)'
      BY <1>d, <2>0, AbortEffect, MarksFresh DEF Idle
    <2> QED BY <1>1, <1>d, <2>0, <2>1, AbortEffect
  <1>7. CASE Crash
    <2>1. ASSUME NEW t \in Sessions PROVE MarksOK(t)'
      <3>1. sess'[t] = Fresh("idle", NoWorkflow)
        BY <1>7 DEF Crash, Idle
      <3> QED BY <3>1, MarksFresh
    <2> QED BY <1>0, <1>7, <2>1 DEF MarksInv, NeverRunning, Crash, StoreUnchanged, storeVars
  <1>8. CASE UNCHANGED vars
    BY <1>8 DEF vars, MarksInv, NeverRunning, MarksOK, At, Type
  <1> QED BY <1>2, <1>3, <1>4, <1>5, <1>6, <1>d, <1>7, <1>8
          DEF EngineNext, Work, Waiting, Run


(* The end of a successful run is the store's Complete: the machine's row   *)
(* gets the outcome of the workflow's type with the status, or stays.       *)
LEMMA CommitCompletes ==
  ASSUME StepsGiven, IInv, NEW s \in Sessions, MarksOK(s), Commit(s)
  PROVE  Complete(sess[s].wf)
  <1>0. CopyOK(s) /\ TaskOK(s) /\ EngineTypeOK /\ sess[s].pc = "commit"
    BY DEF IInv, Commit, At
  <1>1. wstatus[sess[s].wf] \in Statuses /\ sess[s].wf \in Workflows
    BY <1>0 DEF TaskOK, At, EngineTypeOK
  <1>2. sess[s].wdirty /\ sess[s].wseen = "completed"
    BY <1>0 DEF MarksOK, CopyOK, At
  <1>3. /\ sess[s].mdirty => sess[s].mseen = Outcome(Type(s)) /\ Outcome(Type(s)) # NoState
        /\ ~sess[s].mdirty => Outcome(Type(s)) = NoState
    BY <1>0 DEF MarksOK, CopyOK, Outcome
  <1>4. /\ mstate' = IF sess[s].mdirty THEN [mstate EXCEPT ![Machine(s)] = sess[s].mseen]
                     ELSE mstate
        /\ wstatus' = [wstatus EXCEPT ![sess[s].wf] = "completed"]
        /\ UNCHANGED <<wtype, wretry>>
    BY <1>2 DEF Commit, CommitRun
  <1>5. mstate' = IF Outcome(wtype[sess[s].wf]) = NoState THEN mstate
                  ELSE [mstate EXCEPT ![MachineOf[sess[s].wf]] = Outcome(wtype[sess[s].wf])]
    <2>1. CASE sess[s].mdirty
      BY <1>3, <1>4, <2>1 DEF Type, Machine
    <2>2. CASE ~sess[s].mdirty
      BY <1>3, <1>4, <2>2 DEF Type
    <2> QED BY <2>1, <2>2
  <1> QED BY <1>1, <1>4, <1>5 DEF Complete

(* The end of a failed run is the store's Fail.                             *)
LEMMA FailureFails ==
  ASSUME IInv, NEW s \in Sessions, FailWorkflow(s)
  PROVE  Fail(sess[s].wf)
  <1> DEFINE r == SeeStatus(sess[s], "failed")
  <1>0. CopyOK(s) /\ TaskOK(s) /\ EngineTypeOK /\ sess[s].pc = "fail_wf"
        /\ sess[s] \in Session
    BY DEF IInv, FailWorkflow, At, EngineTypeOK
  <1>1. wstatus[sess[s].wf] \in Statuses /\ sess[s].wf \in Workflows
    BY <1>0 DEF TaskOK, At, EngineTypeOK
  <1>2. /\ r.wf = sess[s].wf /\ r.wseen = "failed"
        /\ r.mdirty = sess[s].mdirty /\ r.mseen = sess[s].mseen
    BY <1>0 DEF Session, SeeStatus, Statuses
  <1>3. CommitRun(s, r)
    BY DEF FailWorkflow
  <1>4. r.mdirty => r.mseen = "error" /\ FailureSetsError(wtype[sess[s].wf])
    BY <1>0, <1>2 DEF CopyOK, At, FailureSetsError, Type
  <1> HIDE DEF r
  <1>5. wstatus' \in {wstatus, [wstatus EXCEPT ![sess[s].wf] = "failed"]}
    BY <1>2, <1>3 DEF CommitRun
  <1>6. \/ UNCHANGED mstate
        \/ /\ FailureSetsError(wtype[sess[s].wf])
           /\ mstate' = [mstate EXCEPT ![MachineOf[sess[s].wf]] = "error"]
    BY <1>3, <1>4 DEF CommitRun, Machine
  <1>7. UNCHANGED <<wtype, wretry>>
    BY <1>3 DEF CommitRun
  <1> QED BY <1>1, <1>5, <1>6, <1>7 DEF Fail

(* A claim of a retry is the store's Claim: the copy that was checked keeps *)
(* the count it writes within MaxRetries.                                   *)
LEMMA ClaimClaims ==
  ASSUME IInv, NEW s \in Sessions, ResumeClaim(s)
  PROVE  Claim(sess[s].wf)
  <1>1. /\ TaskOK(s) /\ EngineTypeOK /\ sess[s].pc = "resume_claim"
        /\ sess[s] \in Session
    BY DEF IInv, ResumeClaim, At, EngineTypeOK
  <1>2. wstatus[sess[s].wf] \in Statuses
    BY <1>1 DEF TaskOK, At, EngineTypeOK
  <1>3. sess[s].rseen \in Nat /\ sess[s].rseen < MaxRetries
    BY <1>1 DEF TaskOK, At, Session
  <1>4. sess[s].rseen + 1 \in 1..MaxRetries
    BY <1>3
  <1> QED BY <1>2, <1>4 DEF ResumeClaim, Claim

LEMMA StepRefines ==
  ASSUME StepsGiven, IInv, MarksInv, [EngineNext]_vars
  PROVE  [StoreNext]_storeVars
  <1>1. ASSUME NEW s \in Sessions, Commit(s) \/ FailWorkflow(s)
        PROVE  StoreNext
    <2>1. sess[s].wf \in Workflows /\ MarksOK(s)
      BY <1>1 DEF IInv, TaskOK, MarksInv, Commit, FailWorkflow, At
    <2>2. Complete(sess[s].wf) \/ Fail(sess[s].wf)
      BY <1>1, <2>1, CommitCompletes, FailureFails
    <2> QED BY <2>1, <2>2 DEF StoreNext
  <1>2. ASSUME NEW s \in Sessions, ResumeClaim(s)
        PROVE  StoreNext
    <2>1. sess[s].wf \in Workflows
      BY <1>2 DEF IInv, TaskOK, ResumeClaim, At
    <2> QED BY <1>2, <2>1, ClaimClaims DEF StoreNext
  <1>3. ASSUME NEW s \in Sessions, Request(s)
        PROVE  StoreNext \/ UNCHANGED storeVars
    BY <1>3 DEF Request, RegisterMachine, CreateWorkflow, RequestResume, StoreUnchanged,
       StoreNext
  <1> QED BY <1>1, <1>2, <1>3, StepKinds

(* The engine, with its sessions, copies and row locks, implements the      *)
(* store: what readers see of every run is one atomic change of the two     *)
(* rows, provided that custom workflows have steps.                         *)
THEOREM EngineImplementsStore == StepsGiven => (EngineSpec => StoreInit /\ ImplementsStore)
  <1> SUFFICES ASSUME StepsGiven PROVE EngineSpec => StoreInit /\ ImplementsStore
    OBVIOUS
  <1>1. EngineInit => StoreInit
    BY DEF EngineInit
  <1>2. IInv /\ MarksInv /\ [EngineNext]_vars => [StoreNext]_storeVars
    BY StepRefines
  <1>3. EngineSpec => StoreInit /\ [][StoreNext]_storeVars
    BY <1>1, <1>2, InitMarks, NextMarks, IInvHolds, PTL DEF EngineSpec
  <1> QED BY <1>3 DEF ImplementsStore


-----------------------------------------------------------------------------
(* The order of the row locks                                               *)

(* A run whose type has steps but no first transition takes the workflow's  *)
(* row before the machine's, unless it skips its steps; every other run the *)
(* machine's first.                                                         *)
WorkflowFirst(t) == TargetState(t) = NoState /\ Len(Steps(t)) # 0

Holding == {"step", "bmc", "finish", "finish_wf", "commit", "fail", "fail_wf"}

(* The run has recorded a step, and so flushed the row of its workflow.     *)
Recorded(t, r) ==
  \/ r.pc \in {"bmc", "finish", "finish_wf", "commit"}
  \/ r.pc \in {"step", "fail"} /\ r.step > 0
  \/ r.pc = "fail" /\ t = "custom"

(* The run was resumed and has skipped every step it passed.                *)
Skipping(t, r) ==
  t = "custom" /\ r.wseen = "resuming" /\ ~r.wdirty /\ r.step > 0

(* A session holds no rows but its own two, and these in their order.       *)
OrderOK(s) ==
  /\ \A m \in Machines : mlock[m] = s =>
       /\ sess[s].pc \in Holding /\ m = Machine(s)
       /\ WorkflowFirst(Type(s)) =>
            wlock[sess[s].wf] = s \/ Skipping(Type(s), sess[s])
  /\ \A w \in Workflows : wlock[w] = s =>
       /\ sess[s].pc \in Holding /\ w = sess[s].wf
       /\ IF WorkflowFirst(Type(s)) THEN sess[s].wdirty ELSE mlock[Machine(s)] = s
  /\ At(s, "begin") => TargetState(Type(s)) # NoState
  /\ At(s, "finish_wf") => mlock[Machine(s)] = s
  /\ WorkflowFirst(Type(s)) /\ Recorded(Type(s), sess[s]) =>
       wlock[sess[s].wf] = s \/ Skipping(Type(s), sess[s])

OrderInv == \A s \in Sessions : OrderOK(s)

(* Another session takes and gives back no lock but its own.                *)
Untouched(t) ==
  /\ sess'[t] = sess[t]
  /\ \A m \in Machines : mlock'[m] = t <=> mlock[m] = t
  /\ \A w \in Workflows : wlock'[w] = t <=> wlock[w] = t

LEMMA OrderOther ==
  ASSUME IInv, NEW t \in Sessions, OrderOK(t), Untouched(t),
         \A w \in Workflows : wstatus[w] # NoState => wtype'[w] = wtype[w]
  PROVE  OrderOK(t)'
  <1>1. TaskOK(t) /\ EngineTypeOK
    BY DEF IInv
  <1>2. CASE At(t, "idle")
    BY <1>2 DEF OrderOK, Untouched, At, Holding, Recorded
  <1>3. CASE ~At(t, "idle")
    <2>1. Type(t)' = Type(t) /\ sess[t].wf \in Workflows /\ Machine(t) \in Machines
      BY <1>1, <1>3, MachineType DEF TaskOK, Type, Untouched
    <2>2. Machine(t)' = Machine(t)
      BY DEF Untouched, Machine
    <2> QED BY <2>1, <2>2 DEF OrderOK, Untouched, At
  <1> QED BY <1>2, <1>3

LEMMA LocksOfOthers ==
  ASSUME EngineTypeOK, NEW s \in Sessions, NEW r \in Session, Set(s, r),
         NEW t \in Sessions \ {s},
         \/ ReleaseLocks(s)
         \/ (mlock' = mlock \/ LockMachine(s)) /\ (wlock' = wlock \/ LockWorkflow(s))
  PROVE  Untouched(t)
  <1>1. sess'[t] = sess[t]
    BY SetType
  <1>2. CASE ReleaseLocks(s)
    BY <1>1, <1>2 DEF Untouched, ReleaseLocks
  <1>3. CASE (mlock' = mlock \/ LockMachine(s)) /\ (wlock' = wlock \/ LockWorkflow(s))
    <2>1. \A m \in Machines : mlock'[m] = t <=> mlock[m] = t
      BY <1>3 DEF LockMachine, EngineTypeOK
    <2>2. \A w \in Workflows : wlock'[w] = t <=> wlock[w] = t
      BY <1>3 DEF LockWorkflow, EngineTypeOK
    <2> QED BY <1>1, <2>1, <2>2 DEF Untouched
  <1> QED BY <1>2, <1>3

(* A session whose task ends or begins anew holds nothing.                  *)
LEMMA OrderFresh ==
  ASSUME NEW s \in Sessions, NEW w,
         NEW pc \in {"idle", "resume_load", "resume_read", "resume_clear", "start"},
         sess'[s] = Fresh(pc, w),
         \A m \in Machines : mlock'[m] # s, \A v \in Workflows : wlock'[v] # s
  PROVE  OrderOK(s)'
  BY DEF OrderOK, Fresh, At, Recorded

(* A step of a run, by what it takes and where it leads.                    *)
LEMMA OrderGeneral ==
  ASSUME IInv, NEW s \in Sessions, OrderOK(s), ~At(s, "idle"),
         NEW r \in Session, Set(s, r), r.wf = sess[s].wf, wtype' = wtype,
         mlock' = mlock \/ LockMachine(s), wlock' = wlock \/ LockWorkflow(s),
         \/ r.pc \in Holding
         \/ UNCHANGED <<mlock, wlock>> /\ sess[s].pc \notin Holding,
         r.pc = "begin" => TargetState(Type(s)) # NoState,
         r.pc = "finish_wf" => mlock'[Machine(s)] = s,
         WorkflowFirst(Type(s)) /\ mlock' # mlock =>
           wlock'[sess[s].wf] = s \/ Skipping(Type(s), r),
         Skipping(Type(s), sess[s]) =>
           wlock'[sess[s].wf] = s \/ Skipping(Type(s), r),
         ~WorkflowFirst(Type(s)) /\ wlock' # wlock => mlock'[Machine(s)] = s,
         sess[s].wdirty => r.wdirty,
         WorkflowFirst(Type(s)) /\ wlock' # wlock => r.wdirty,
         WorkflowFirst(Type(s)) /\ Recorded(Type(s), r) =>
           wlock'[sess[s].wf] = s \/ Skipping(Type(s), r)
  PROVE  OrderOK(s)' /\ \A t \in Sessions \ {s} : Untouched(t)
  <1>0. /\ EngineTypeOK /\ Machine(s) \in Machines /\ sess[s].wf \in Workflows
        /\ sess'[s] = r
    BY MachineType, SetType DEF IInv
  <1>1. Type(s)' = Type(s) /\ Machine(s)' = Machine(s)
    BY <1>0 DEF Type, Machine
  <1>2. mlock[Machine(s)] = s => mlock'[Machine(s)] = s
    BY <1>0 DEF LockMachine, EngineTypeOK
  <1>3. wlock[sess[s].wf] = s => wlock'[sess[s].wf] = s
    BY <1>0 DEF LockWorkflow, EngineTypeOK
  <1>4. ASSUME NEW m \in Machines, mlock'[m] = s
        PROVE  /\ r.pc \in Holding /\ m = Machine(s)
               /\ WorkflowFirst(Type(s)) =>
                    wlock'[sess[s].wf] = s \/ Skipping(Type(s), r)
    <2>1. CASE mlock' = mlock
      BY <1>3, <1>4, <2>1 DEF OrderOK
    <2>2. CASE mlock' # mlock
      <3>1. m = Machine(s)
        BY <1>0, <1>4, <2>2 DEF LockMachine, OrderOK, EngineTypeOK
      <3> QED BY <2>2, <3>1
    <2> QED BY <2>1, <2>2
  <1>5. ASSUME NEW w \in Workflows, wlock'[w] = s
        PROVE  /\ r.pc \in Holding /\ w = sess[s].wf
               /\ IF WorkflowFirst(Type(s)) THEN r.wdirty ELSE mlock'[Machine(s)] = s
    <2>1. CASE wlock' = wlock
      BY <1>2, <1>5, <2>1 DEF OrderOK
    <2>2. CASE wlock' # wlock
      <3>1. w = sess[s].wf
        BY <1>0, <1>5, <2>2 DEF LockWorkflow, OrderOK, EngineTypeOK
      <3> QED BY <2>2, <3>1
    <2> QED BY <2>1, <2>2
  <1>6. OrderOK(s)'
    BY <1>0, <1>1, <1>4, <1>5 DEF OrderOK, At
  <1> QED BY <1>0, <1>6, LocksOfOthers

(* Each step of a run that does not end it.                                 *)
LEMMA OrderRun ==
  ASSUME IInv, MarksInv, NEW s \in Sessions, OrderOK(s), Run(s), ~Commit(s), ~FailWorkflow(s)
  PROVE  OrderOK(s)' /\ \A t \in Sessions \ {s} : Untouched(t)
  <1>0. /\ EngineTypeOK /\ TaskOK(s) /\ LockOK(s) /\ ~At(s, "idle")
        /\ wtype' = wtype
    BY DEF IInv, Run, LoadMachine, LoadWorkflow, BeginRun, RecordStep, StepSucceeds,
       StepRaises, RunRaises, FinishRun, FlushMachine, CompleteRun, Commit, FailMachine,
       FailWorkflow, At, StoreUnchanged, storeVars
  <1>1. /\ sess[s].wf \in Workflows /\ sess[s] \in Session
        /\ Type(s) \in WorkflowTypes /\ Machine(s) \in Machines
        /\ sess[s].step \in Nat
    BY <1>0, MachineType DEF IInv, RowsOK, TaskOK, Type, EngineTypeOK, Session
  <1>2. /\ LockMachine(s) => mlock'[Machine(s)] = s
        /\ LockWorkflow(s) => wlock'[sess[s].wf] = s
        /\ mlock[Machine(s)] = s /\ LockMachine(s) => mlock' = mlock
        /\ wlock[sess[s].wf] = s /\ LockWorkflow(s) => wlock' = wlock
    BY <1>0, <1>1 DEF LockMachine, LockWorkflow, EngineTypeOK
  <1>3. /\ sess[s].pc = "begin" => ~WorkflowFirst(Type(s))
        /\ WorkflowFirst(Type(s)) /\ Recorded(Type(s), sess[s]) =>
             wlock[sess[s].wf] = s \/ Skipping(Type(s), sess[s])
        /\ TargetState(Type(s)) # NoState /\ sess[s].pc \in {"step", "bmc", "finish", "finish_wf", "commit"}
             => mlock[Machine(s)] = s
    BY <1>0 DEF OrderOK, WorkflowFirst, At, LockOK, Driving
  (* Most steps leave the copies that tell what a run has skipped.          *)
  <1> DEFINE Copied(r) == /\ r.step = sess[s].step /\ r.wseen = sess[s].wseen
                          /\ r.wdirty = sess[s].wdirty
  <1>c. ASSUME NEW r, Copied(r)
        PROVE  Skipping(Type(s), r) <=> Skipping(Type(s), sess[s])
    BY <1>c DEF Skipping
  <1>4. CASE LoadMachine(s)
    <2> DEFINE r == [sess[s] EXCEPT !.pc = "load_wf", !.mseen = mstate[Machine(s)]]
    <2>1. /\ r \in Session /\ r.wf = sess[s].wf /\ r.pc = "load_wf"
          /\ Copied(r)
      BY <1>0, <1>1 DEF Session, RunPCs, EngineTypeOK
    <2>2. Set(s, r) /\ sess[s].pc = "start" /\ UNCHANGED <<mlock, wlock>>
      BY <1>4 DEF LoadMachine, At, LocksUnchanged
    <2>3. ~Recorded(Type(s), r) /\ sess[s].pc \notin Holding
      BY <2>1, <2>2 DEF Recorded, Holding
    <2> HIDE DEF r
    <2>4. Skipping(Type(s), sess[s]) => Skipping(Type(s), r)
      BY <1>c, <2>1
    <2> QED BY <1>0, <2>1, <2>2, <2>3, <2>4, OrderGeneral
  <1>5. CASE LoadWorkflow(s)
    <2> DEFINE target == TargetState(Type(s))
    <2>0. sess[s].pc = "load_wf" /\ UNCHANGED <<mlock, wlock>> /\ sess[s].pc \notin Holding
      BY <1>5 DEF LoadWorkflow, At, LocksUnchanged, Holding
    <2>s. sess[s].wdirty = FALSE /\ sess[s].step = 0
      BY <1>1, <2>0 DEF MarksInv, MarksOK, Session
    <2>1. target \in MachineStates \cup {NoState}
      BY <1>1, TableTypes
    <2>2. PICK l \in Session :
            /\ l.wf = sess[s].wf /\ l.wdirty = FALSE
            /\ l.step # 0 => Type(s) = "custom" /\ l.wseen = "resuming"
            /\ \/ target = NoState /\ Set(s, [l EXCEPT !.pc = "step"])
               \/ target # NoState /\ Set(s, [SeeState(l, target) EXCEPT !.pc = "begin"])
               \/ target # NoState /\ Set(s, [l EXCEPT !.pc = "fail"])
      BY <1>0, <1>5, <2>s, Loading
    <2> DEFINE r1 == [l EXCEPT !.pc = "step"]
               r2 == [SeeState(l, target) EXCEPT !.pc = "begin"]
               r3 == [l EXCEPT !.pc = "fail"]
    <2>3. /\ r1 \in Session /\ r1.wf = sess[s].wf /\ r1.pc = "step" /\ r1.step = l.step
          /\ r1.wseen = l.wseen /\ r1.wdirty = FALSE /\ l.step \in Nat
          /\ r3 \in Session /\ r3.wf = sess[s].wf /\ r3.pc = "fail"
          /\ r2 \in Session /\ r2.wf = sess[s].wf /\ r2.pc = "begin"
      BY <2>1, <2>2 DEF Session, RunPCs, SeeState
    <2>4. \/ target = NoState /\ Set(s, r1)
          \/ target # NoState /\ Set(s, r2)
          \/ target # NoState /\ Set(s, r3)
      BY <2>2
    <2>5. target # NoState => ~WorkflowFirst(Type(s))
      BY DEF WorkflowFirst
    <2> HIDE DEF r1, r2, r3
    <2>6. Recorded(Type(s), r1) => Skipping(Type(s), r1)
      BY <2>2, <2>3 DEF Recorded, Skipping
    <2>k. ~Skipping(Type(s), sess[s])
      BY <2>s DEF Skipping
    <2>7. CASE target = NoState /\ Set(s, r1)
      BY <1>0, <2>0, <2>s, <2>k, <2>3, <2>6, <2>7, OrderGeneral
    <2>8. CASE target # NoState /\ Set(s, r2)
      BY <1>0, <2>0, <2>s, <2>k, <2>3, <2>5, <2>8, OrderGeneral
    <2>9. CASE target # NoState /\ Set(s, r3)
      BY <1>0, <2>0, <2>s, <2>k, <2>3, <2>5, <2>9, OrderGeneral
    <2> QED BY <2>4, <2>7, <2>8, <2>9
  <1>6. CASE BeginRun(s)
    <2> DEFINE r(pc) == [sess[s] EXCEPT !.pc = pc]
    <2>1. PICK pc \in {"step", "fail"} : Set(s, r(pc))
      BY <1>6 DEF BeginRun
    <2>2. r(pc) \in Session /\ r(pc).wf = sess[s].wf /\ r(pc).pc = pc /\ Copied(r(pc))
      BY <1>1, <2>1 DEF Session, RunPCs
    <2>3. sess[s].pc = "begin" /\ LockMachine(s) /\ wlock' = wlock
      BY <1>6 DEF BeginRun, At
    <2> HIDE DEF r
    <2>4. Skipping(Type(s), r(pc)) <=> Skipping(Type(s), sess[s])
      BY <1>c, <2>2
    <2> QED BY <1>0, <1>3, <2>1, <2>2, <2>3, <2>4, OrderGeneral DEF Holding
  <1>7. CASE RecordStep(s)
    <2> DEFINE r == [SeeStatus(sess[s], "running") EXCEPT !.pc = "bmc"]
    <2>1. /\ r \in Session /\ r.wf = sess[s].wf /\ r.pc = "bmc"
          /\ r.wdirty = (sess[s].wdirty \/ "running" # sess[s].wseen)
      BY <1>1 DEF Session, RunPCs, SeeStatus, Statuses
    <2>d. sess[s].wseen = "running" => sess[s].wdirty
      BY DEF MarksInv, MarksOK
    <2>2. /\ Set(s, r) /\ sess[s].pc = "step" /\ LockWorkflow(s)
          /\ mlock' = mlock \/ LockMachine(s)
          /\ sess[s].step < Len(Steps(Type(s)))
      BY <1>7 DEF RecordStep, At
    <2>3. ~WorkflowFirst(Type(s)) => mlock[Machine(s)] = s
      <3>1. Len(Steps(Type(s))) # 0
        BY <1>1, <2>2
      <3> QED BY <1>3, <2>2, <3>1 DEF WorkflowFirst
    <2> HIDE DEF r
    <2> QED BY <1>0, <1>2, <2>1, <2>d, <2>2, <2>3, OrderGeneral DEF Holding
  <1>8. CASE StepSucceeds(s)
    <2> DEFINE r == [sess[s] EXCEPT !.pc = "step", !.step = sess[s].step + 1]
    <2>0. sess[s].step + 1 \in Nat
      BY <1>1
    <2>1. /\ r \in Session /\ r.wf = sess[s].wf /\ r.pc = "step"
          /\ r.wdirty = sess[s].wdirty
      BY <1>1, <2>0, Zenon DEF Session, RunPCs
    <2>2. Set(s, r) /\ sess[s].pc = "bmc" /\ UNCHANGED <<mlock, wlock>>
      BY <1>8 DEF StepSucceeds, At, LocksUnchanged
    <2>3. Recorded(Type(s), sess[s]) /\ ~Skipping(Type(s), sess[s])
      BY <2>2 DEF Recorded, Skipping, MarksInv, MarksOK, At
    <2> HIDE DEF r
    <2> QED BY <1>0, <1>3, <2>1, <2>2, <2>3, OrderGeneral DEF Holding
  <1>9. CASE StepRaises(s) \/ RunRaises(s)
    <2> DEFINE r == [sess[s] EXCEPT !.pc = "fail"]
    <2>1. r \in Session /\ r.wf = sess[s].wf /\ r.pc = "fail" /\ Copied(r)
      BY <1>1 DEF Session, RunPCs
    <2>2. Set(s, r) /\ sess[s].pc \in {"bmc", "step"} /\ UNCHANGED <<mlock, wlock>>
      BY <1>9 DEF StepRaises, RunRaises, At, LocksUnchanged
    <2>3. sess[s].pc = "bmc" \/ (Type(s) = "custom" => sess[s].step > 0)
      BY <1>9 DEF StepRaises, RunRaises, At
    <2>4. Recorded(Type(s), r) => Recorded(Type(s), sess[s])
      <3> HIDE DEF r
      <3> QED BY <2>1, <2>2, <2>3 DEF Recorded
    <2> HIDE DEF r
    <2>5. Skipping(Type(s), r) <=> Skipping(Type(s), sess[s])
      BY <1>c, <2>1
    <2> QED BY <1>0, <1>3, <2>1, <2>2, <2>4, <2>5, OrderGeneral DEF Holding
  <1>10. CASE FinishRun(s)
    <2> DEFINE final == FinalState(Type(s))
               plain(pc) == [sess[s] EXCEPT !.pc = pc]
               moved(pc) == [SeeState(sess[s], final) EXCEPT !.pc = pc]
    <2>0. /\ sess[s].pc = "step" /\ sess[s].step = Len(Steps(Type(s))) /\ wlock' = wlock
          /\ mlock' = mlock \/ LockMachine(s)
      BY <1>10 DEF FinishRun, At
    <2>1. ASSUME NEW pc \in {"finish", "fail"}
          PROVE  /\ plain(pc) \in Session /\ plain(pc).wf = sess[s].wf
                 /\ plain(pc).pc = pc /\ Copied(plain(pc))
                 /\ moved(pc) \in Session /\ moved(pc).wf = sess[s].wf
                 /\ moved(pc).pc = pc /\ Copied(moved(pc))
      BY <1>1, TableTypes DEF Session, RunPCs, SeeState
    <2>2. WorkflowFirst(Type(s)) =>
            wlock[sess[s].wf] = s \/ Skipping(Type(s), sess[s])
      <3> HAVE WorkflowFirst(Type(s))
      <3>1. sess[s].step > 0
        BY <1>1, <2>0 DEF WorkflowFirst
      <3> QED BY <1>3, <2>0, <3>1 DEF Recorded
    <2>3. PICK r \in Session : /\ Set(s, r) /\ r.wf = sess[s].wf
                               /\ r.pc \in {"finish", "fail"} /\ Copied(r)
      <3>1. \E pc \in {"finish", "fail"} : Set(s, plain(pc)) \/ Set(s, moved(pc))
        BY <1>10 DEF FinishRun
      <3> HIDE DEF plain, moved
      <3> QED BY <2>1, <3>1
    <2>4. Skipping(Type(s), r) <=> Skipping(Type(s), sess[s])
      BY <1>c, <2>3
    <2> QED BY <1>0, <2>0, <2>2, <2>3, <2>4, OrderGeneral DEF Holding
  <1>f. CASE FlushMachine(s)
    <2> DEFINE r == [sess[s] EXCEPT !.pc = "finish_wf"]
    <2>1. r \in Session /\ r.wf = sess[s].wf /\ r.pc = "finish_wf" /\ Copied(r)
      BY <1>1 DEF Session, RunPCs
    <2>2. Set(s, r) /\ sess[s].pc = "finish" /\ LockMachine(s) /\ wlock' = wlock
      BY <1>f DEF FlushMachine, At
    <2>3. Recorded(Type(s), sess[s])
      BY <2>2 DEF Recorded
    <2> HIDE DEF r
    <2>4. Skipping(Type(s), r) <=> Skipping(Type(s), sess[s])
      BY <1>c, <2>1
    <2>5. mlock'[Machine(s)] = s
      BY <1>2, <2>2
    <2> QED BY <1>0, <1>3, <2>1, <2>2, <2>3, <2>4, <2>5, OrderGeneral DEF Holding
  <1>11. CASE CompleteRun(s)
    <2> DEFINE r(pc) == [SeeStatus(sess[s], "completed") EXCEPT !.pc = pc]
    <2>1. PICK pc \in {"commit", "fail"} : Set(s, r(pc))
      BY <1>11 DEF CompleteRun
    <2>2. /\ r(pc) \in Session /\ r(pc).wf = sess[s].wf /\ r(pc).pc = pc
          /\ r(pc).wdirty = (sess[s].wdirty \/ "completed" # sess[s].wseen)
      BY <1>1, <2>1 DEF Session, RunPCs, SeeStatus, Statuses
    <2>3. sess[s].pc = "finish_wf" /\ LockWorkflow(s) /\ mlock' = mlock
      BY <1>11 DEF CompleteRun, At
    <2>4. Recorded(Type(s), sess[s])
      BY <2>3 DEF Recorded
    <2>5. ~WorkflowFirst(Type(s)) => mlock[Machine(s)] = s
      BY <2>3 DEF OrderOK, At
    (* The row is taken now only by a run that has skipped its steps.         *)
    <2>6. WorkflowFirst(Type(s)) /\ wlock' # wlock => r(pc).wdirty
      <3> SUFFICES ASSUME WorkflowFirst(Type(s)), wlock' # wlock
                   PROVE  "completed" # sess[s].wseen
        BY <2>2
      <3>1. Skipping(Type(s), sess[s])
        BY <1>2, <1>3, <2>3, <2>4
      <3> QED BY <3>1 DEF Skipping
    <2> HIDE DEF r
    <2> QED BY <1>0, <1>2, <2>1, <2>2, <2>3, <2>5, <2>6, OrderGeneral DEF Holding
  <1>13. CASE FailMachine(s)
    <2> DEFINE r == IF FailureSetsError(Type(s)) THEN SeeState(sess[s], "error")
                    ELSE sess[s]
               f == [r EXCEPT !.pc = "fail_wf"]
    <2>0. r \in Session /\ r.wf = sess[s].wf /\ Copied(r)
      <3>1. SeeState(sess[s], "error") \in Session
        BY <1>1, SeeStateType DEF MachineStates
      <3>2. SeeState(sess[s], "error").wf = sess[s].wf /\ Copied(SeeState(sess[s], "error"))
        BY <1>1 DEF SeeState, Session
      <3> QED BY <1>1, <3>1, <3>2
    <2>1. f \in Session /\ f.wf = sess[s].wf /\ f.pc = "fail_wf" /\ Copied(f)
      <3> HIDE DEF r
      <3> QED BY <2>0 DEF Session, RunPCs
    <2>2. Set(s, f) /\ sess[s].pc = "fail" /\ wlock' = wlock
          /\ \/ mlock' = mlock
             \/ LockMachine(s) /\ (Type(s) # "health_check" \/ sess[s].step > 0)
      BY <1>13 DEF FailMachine, At, FailureSetsError
    <2>3. WorkflowFirst(Type(s)) => Type(s) \in {"health_check", "custom"}
      BY <1>1 DEF WorkflowFirst, TargetState, WorkflowTypes, NoState
    <2>4. WorkflowFirst(Type(s)) /\ mlock' # mlock => Recorded(Type(s), sess[s])
      BY <2>2, <2>3 DEF Recorded
    <2> HIDE DEF r, f
    <2>5. ~Recorded(Type(s), f)
      BY <2>1 DEF Recorded
    <2>6. Skipping(Type(s), f) <=> Skipping(Type(s), sess[s])
      BY <1>c, <2>1
    <2> QED BY <1>0, <1>3, <2>1, <2>2, <2>4, <2>5, <2>6, OrderGeneral DEF Holding
  <1> QED BY <1>4, <1>5, <1>6, <1>7, <1>8, <1>9, <1>10, <1>f, <1>11, <1>13 DEF Run

LEMMA InitOrder == EngineInit => OrderInv
  BY DEF EngineInit, OrderInv, OrderOK, Idle, Fresh, At, Recorded

LEMMA NextOrder == IInv /\ MarksInv /\ OrderInv /\ [EngineNext]_vars => OrderInv'
  <1> SUFFICES ASSUME IInv, MarksInv, OrderInv, [EngineNext]_vars PROVE OrderInv'
    OBVIOUS
  <1>0. EngineTypeOK /\ \A t \in Sessions : OrderOK(t)
    BY DEF OrderInv, IInv
  <1>1. ASSUME NEW s \in Sessions, OrderOK(s)', \A t \in Sessions \ {s} : Untouched(t),
               \A w \in Workflows : wstatus[w] # NoState => wtype'[w] = wtype[w]
        PROVE  OrderInv'
    <2>1. ASSUME NEW t \in Sessions \ {s} PROVE OrderOK(t)'
      <3>1. OrderOK(t) /\ Untouched(t)
        BY <1>0, <1>1
      <3> QED BY <1>1, <3>1, OrderOther
    <2>2. \A t \in Sessions : OrderOK(t)'
      BY <1>1, <2>1
    <2> QED BY <2>2 DEF OrderInv
  <1>2. ASSUME NEW s \in Sessions, NEW pc \in ResumePCs \cup {"idle", "start"},
               sess'[s].pc = pc, sess[s].pc \notin Holding, UNCHANGED <<mlock, wlock>>,
               \A t \in Sessions \ {s} : sess'[t] = sess[t],
               \A w \in Workflows : wstatus[w] # NoState => wtype'[w] = wtype[w]
        PROVE  OrderInv'
    <2>1. \A t \in Sessions \ {s} : Untouched(t)
      BY <1>2 DEF Untouched
    <2>2. /\ \A m \in Machines : mlock'[m] # s
          /\ \A v \in Workflows : wlock'[v] # s
      BY <1>0, <1>2 DEF OrderOK
    <2>3. OrderOK(s)'
      BY <1>2, <2>2 DEF OrderOK, At, Recorded, ResumePCs
    <2> QED BY <1>1, <1>2, <2>1, <2>3
  <1>3. ASSUME NEW s \in Sessions, Request(s) PROVE OrderInv'
    <2>1. sess'[s].pc \in {"start", "resume_load"}
      <3>1. PICK w \in Workflows : \/ sess'[s] = Fresh("start", w)
                                   \/ sess'[s] = Fresh("resume_load", w)
        BY <1>3, RequestEffect
      <3> QED BY <3>1 DEF Fresh
    <2>2. sess[s].pc \notin Holding
      BY <1>3, RequestEffect DEF At, Holding
    <2>3. UNCHANGED <<mlock, wlock>>
      BY <1>3 DEF Request, RegisterMachine, CreateWorkflow, RequestResume, LocksUnchanged
    <2> QED BY <1>2, <1>3, <2>1, <2>2, <2>3, RequestEffect DEF ResumePCs
  <1>4. ASSUME NEW s \in Sessions, Resume(s) PROVE OrderInv'
    <2>1. UNCHANGED <<mlock, wlock>> /\ sess[s].pc \in ResumePCs
      BY <1>4 DEF Resume, ResumeLoad, ResumeClaim, ResumeRead, ResumeClear, LocksUnchanged,
         At, ResumePCs
    <2>2. MarksOK(s)
      BY DEF MarksInv
    <2>3. (\A t \in Sessions \ {s} : sess'[t] = sess[t]) /\ wtype' = wtype
      BY <1>4, <2>2, ResumeEffect
    <2>4. sess'[s].pc \in ResumePCs \cup {"idle", "start"}
      <3>0. sess[s] \in Session
        BY <1>0 DEF EngineTypeOK
      <3>1. ASSUME NEW r, Set(s, r) PROVE sess'[s] = r
        BY <1>0, <3>1 DEF Set, EngineTypeOK
      <3>2. \A pc, w : Fresh(pc, w).pc = pc
        BY DEF Fresh
      <3>3. CASE ResumeLoad(s)
        <4> DEFINE r == [sess[s] EXCEPT !.pc = "resume_claim", !.rseen = wretry[sess[s].wf]]
        <4>1. r.pc = "resume_claim"
          BY <3>0 DEF Session
        <4>2. Set(s, r) \/ Set(s, Idle)
          BY <3>3 DEF ResumeLoad
        <4>3. Idle.pc = "idle"
          BY <3>2 DEF Idle
        <4> HIDE DEF r
        <4>4. sess'[s] = r \/ sess'[s] = Idle
          BY <3>1, <4>2
        <4> QED BY <4>1, <4>3, <4>4 DEF ResumePCs
      <3>4. CASE ResumeClaim(s) \/ ResumeRead(s) \/ ResumeClear(s)
        <4>1. \/ Set(s, Fresh("resume_read", sess[s].wf))
              \/ Set(s, Fresh("resume_clear", sess[s].wf))
              \/ Set(s, Fresh("start", sess[s].wf))
          BY <3>4 DEF ResumeClaim, ResumeRead, ResumeClear
        <4> QED BY <3>1, <3>2, <4>1 DEF ResumePCs
      <3> QED BY <1>4, <3>3, <3>4 DEF Resume
    <2>5. sess[s].pc \notin Holding
      BY <2>1 DEF ResumePCs, Holding
    <2> QED BY <1>2, <2>1, <2>3, <2>4, <2>5
  <1>5. ASSUME NEW s \in Sessions, Commit(s) \/ FailWorkflow(s) PROVE OrderInv'
    <2>1. ReleaseLocks(s) /\ Set(s, Idle)
      BY <1>5 DEF Commit, FailWorkflow, CommitRun
    <2>2. \A t \in Sessions \ {s} : Untouched(t)
      BY <1>0, <2>1, IdleType, LocksOfOthers
    <2>3. /\ \A m \in Machines : mlock'[m] # s
          /\ \A v \in Workflows : wlock'[v] # s
      BY <2>1 DEF ReleaseLocks
    <2>4. OrderOK(s)'
      BY <1>5, <2>3, CommitEffect, OrderFresh DEF Idle
    <2> QED BY <1>1, <1>5, <2>2, <2>4, CommitEffect
  <1>6. ASSUME NEW s \in Sessions, Run(s), ~Commit(s), ~FailWorkflow(s) PROVE OrderInv'
    <2>1. OrderOK(s)
      BY <1>0
    <2>2. OrderOK(s)' /\ \A t \in Sessions \ {s} : Untouched(t)
      BY <1>6, <2>1, OrderRun
    <2> QED BY <1>1, <1>6, <2>2, RunEffect
  <1>7. ASSUME NEW s \in Sessions, ConnectTimesOut(s) PROVE OrderInv'
    <2>1. sess'[s] = Idle /\ (\A t \in Sessions \ {s} : sess'[t] = sess[t])
          /\ UNCHANGED <<wtype, mlock, wlock>>
      BY <1>0, <1>7, IdleType, SetType DEF ConnectTimesOut, StoreUnchanged, storeVars,
         LocksUnchanged
    <2>2. sess'[s].pc = "idle" /\ sess[s].pc \notin Holding
      BY <1>7, <2>1 DEF ConnectTimesOut, Idle, Fresh, Holding
    <2> QED BY <1>2, <2>1, <2>2
  <1>d. ASSUME NEW s \in Sessions, DeadlockAborts(s) PROVE OrderInv'
    <2>1. ReleaseLocks(s) /\ Set(s, Idle)
      BY <1>d DEF DeadlockAborts
    <2>2. \A t \in Sessions \ {s} : Untouched(t)
      BY <1>0, <2>1, IdleType, LocksOfOthers
    <2>3. /\ \A m \in Machines : mlock'[m] # s
          /\ \A v \in Workflows : wlock'[v] # s
      BY <2>1 DEF ReleaseLocks
    <2>4. OrderOK(s)'
      BY <1>0, <1>d, <2>3, AbortEffect, OrderFresh DEF Idle
    <2> QED BY <1>0, <1>1, <1>d, <2>2, <2>4, AbortEffect
  <1>8. CASE Crash
    <2>1. ASSUME NEW t \in Sessions PROVE OrderOK(t)'
      <3>1. sess'[t] = Fresh("idle", NoWorkflow)
        BY <1>8 DEF Crash, Idle
      <3>2. /\ \A m \in Machines : mlock'[m] # t
            /\ \A v \in Workflows : wlock'[v] # t
        BY <1>8 DEF Crash
      <3> QED BY <3>1, <3>2, OrderFresh
    <2> QED BY <2>1 DEF OrderInv
  <1>9. CASE UNCHANGED vars
    BY <1>0, <1>9 DEF vars, OrderInv, OrderOK, At, Type, Machine
  <1> QED BY <1>3, <1>4, <1>5, <1>6, <1>7, <1>d, <1>8, <1>9
          DEF EngineNext, Work, Waiting, Run

LEMMA OrderHolds == EngineSpec => [](IInv /\ MarksInv /\ OrderInv)
  <1>1. EngineSpec => []MarksInv
    BY InitMarks, NextMarks, IInvHolds, PTL DEF EngineSpec
  <1> QED BY <1>1, InitOrder, NextOrder, IInvHolds, PTL DEF EngineSpec

(* The two sessions of a circle are tasks of one workflow that is custom    *)
(* and has no target state: one skips, the other has recorded a step.       *)
LEMMA Circles ==
  ASSUME IInv, OrderInv, NEW s \in Sessions, NEW t \in Sessions, Circle(s, t)
  PROVE  /\ Skipping(Type(s), sess[s]) /\ CustomTarget = NoState
         /\ sess[t].wf = sess[s].wf /\ sess[s].wf \in Workflows
         /\ sess[t].wdirty
         /\ sess[s].pc \in Holding /\ sess[t].pc \in Holding
  <1>1. /\ OrderOK(s) /\ OrderOK(t) /\ TaskOK(s) /\ TaskOK(t) /\ EngineTypeOK
        /\ wlock[sess[s].wf] = t /\ mlock[Machine(t)] = s /\ s # t
    BY DEF IInv, OrderInv, Circle, WaitsForWorkflow
  <1>2. ~At(s, "idle") /\ ~At(t, "idle")
    BY DEF Circle, WaitsForWorkflow, WaitsForMachine, At
  <1>3. sess[s].wf \in Workflows /\ Machine(t) \in Machines
    BY <1>1, <1>2, MachineType
  <1>4. sess[t].wf = sess[s].wf
    BY <1>1, <1>3 DEF OrderOK
  <1>5. Type(s) = Type(t)
    BY <1>4 DEF Type
  <1>6. WorkflowFirst(Type(t)) /\ sess[t].wdirty /\ sess[t].pc \in Holding
    BY <1>1, <1>3 DEF OrderOK
  <1>7. Skipping(Type(s), sess[s]) /\ sess[s].pc \in Holding
    BY <1>1, <1>3, <1>5, <1>6 DEF OrderOK
  <1>8. CustomTarget = NoState
    BY <1>5, <1>6, <1>7 DEF WorkflowFirst, Skipping, TargetState
  <1> QED BY <1>3, <1>4, <1>6, <1>7, <1>8

(* Whatever workflows run, fail and are resumed on however many machines,   *)
(* two sessions wait for each other's row locks only as tasks of one custom *)
(* workflow without a target state, one of which skips its steps. Every     *)
(* other two tasks of a workflow take the rows in one order; of two         *)
(* workflows of one machine each has a row of its own.                      *)
THEOREM OnlySkippersCollide == EngineSpec => []OnlySkippingRunsCollide
  <1>1. IInv /\ OrderInv => OnlySkippingRunsCollide
    BY Circles DEF OnlySkippingRunsCollide, Skipping
  <1> QED BY <1>1, OrderHolds, PTL

(* A target state rules out every circle: DeadlockAborts never happens.     *)
THEOREM TargetsPreventCircles ==
  CustomTarget # NoState => (EngineSpec => [](\A s, t \in Sessions : ~Circle(s, t)))
  <1> SUFFICES ASSUME CustomTarget # NoState
               PROVE  EngineSpec => [](\A s, t \in Sessions : ~Circle(s, t))
    OBVIOUS
  <1>1. IInv /\ OrderInv => \A s, t \in Sessions : ~Circle(s, t)
    BY Circles
  <1> QED BY <1>1, OrderHolds, PTL

-----------------------------------------------------------------------------
(* Every open workflow has a task                                           *)

Sheltered == crashes = 0 /\ Cardinality(Sessions) <= PoolSize

(* While nothing strands a task, an open workflow is carried by one that    *)
(* will settle it. Owned alone is not inductive: a task that has read the   *)
(* row as settled owns the workflow but would end without writing it.       *)
CarriedInv ==
  Sheltered => \A w \in Workflows :
    wstatus[w] \in Open => \E s \in Sessions : sess[s].wf = w /\ Carries(s)

(* With a connection for every task the pool's queue cannot time out.       *)
LEMMA PoolSuffices ==
  ASSUME Cardinality(Sessions) <= PoolSize, NEW s \in Sessions
  PROVE  ~ConnectTimesOut(s)
  <1> SUFFICES ASSUME ConnectTimesOut(s) PROVE FALSE
    OBVIOUS
  <1> DEFINE C == {t \in Sessions : Connected(t)}
  <1>1. C \subseteq Sessions \ {s}
    BY DEF ConnectTimesOut, Connected
  <1>2. IsFiniteSet(Sessions \ {s}) /\ Cardinality(Sessions \ {s}) = Cardinality(Sessions) - 1
    BY SessionsAssumption, FS_RemoveElement
  <1>3. IsFiniteSet(C) /\ Cardinality(C) <= Cardinality(Sessions \ {s})
    BY <1>1, <1>2, FS_Subset
  <1>4. Cardinality(C) \in Nat /\ Cardinality(Sessions) \in Nat
    BY <1>3, SessionsAssumption, FS_CardinalityType
  <1>5. Cardinality(C) < PoolSize
    BY <1>2, <1>3, <1>4, PoolSizeAssumption
  <1> QED BY <1>5 DEF ConnectTimesOut, PoolFree

(* A task that carries a workflow does not end without settling it.         *)
LEMMA CarrierSettles ==
  ASSUME IInv, NEW s \in Sessions, Carries(s), Commit(s) \/ FailWorkflow(s)
  PROVE  wstatus'[sess[s].wf] \notin Open
  <1>0. /\ CopyOK(s) /\ TaskOK(s) /\ EngineTypeOK /\ sess[s] \in Session
        /\ sess[s].pc \in {"commit", "fail_wf"}
    BY DEF IInv, EngineTypeOK, Commit, FailWorkflow, At
  <1>1. sess[s].wf \in Workflows
    BY <1>0 DEF TaskOK, At
  <1>2. sess[s].wdirty \/ sess[s].wseen \in Open
    BY <1>0 DEF Carries
  <1>3. CASE Commit(s)
    <2>1. sess[s].wseen = "completed"
      BY <1>3 DEF IInv, CopyOK, Commit
    <2>2. sess[s].wdirty
      BY <1>2, <2>1 DEF Open
    <2> QED BY <1>0, <1>1, <1>3, <2>1, <2>2 DEF Commit, CommitRun, EngineTypeOK, Open
  <1>4. CASE FailWorkflow(s)
    <2> DEFINE r == SeeStatus(sess[s], "failed")
    <2>1. r.wseen = "failed" /\ r.wf = sess[s].wf /\ r.wdirty
      BY <1>0, <1>2 DEF Session, SeeStatus, Statuses, Open
    <2>2. CommitRun(s, r)
      BY <1>4 DEF FailWorkflow
    <2> HIDE DEF r
    <2> QED BY <1>0, <1>1, <2>1, <2>2 DEF CommitRun, EngineTypeOK, Open
  <1> QED BY <1>3, <1>4

LEMMA NextCarried ==
  ASSUME IInv, MarksInv, OrderInv, CarriedInv, [EngineNext]_vars
  PROVE  CarriedInv'
  <1> SUFFICES ASSUME Sheltered', NEW w \in Workflows, wstatus'[w] \in Open
               PROVE  \E s \in Sessions : sess'[s].wf = w /\ Carries(s)'
    BY DEF CarriedInv
  <1>0. EngineTypeOK /\ NeverRunning /\ \A t \in Sessions : MarksOK(t)
    BY DEF IInv, MarksInv
  <1>p. crashes' = 0 /\ Cardinality(Sessions) <= PoolSize
    BY DEF Sheltered
  <1>c. ASSUME crashes' = crashes, wstatus[w] \in Open
        PROVE  \E t \in Sessions : sess[t].wf = w /\ Carries(t)
    BY <1>c, <1>p DEF CarriedInv, Sheltered
  <1>k. ASSUME NEW t \in Sessions, sess'[t] = sess[t], Carries(t)
        PROVE  Carries(t)'
    BY <1>k DEF Carries
  (* The carrier is not the task that steps.                                *)
  <1>o. ASSUME NEW s \in Sessions, \A t \in Sessions \ {s} : sess'[t] = sess[t],
               wstatus[w] \in Open, crashes' = crashes, sess[s].wf # w \/ ~Carries(s)
        PROVE  \E t \in Sessions : sess'[t].wf = w /\ Carries(t)'
    <2>1. PICK t \in Sessions : sess[t].wf = w /\ Carries(t)
      BY <1>c, <1>o
    <2>2. t # s
      BY <1>o, <2>1
    <2>3. sess'[t] = sess[t]
      BY <1>o, <2>2
    <2>4. Carries(t)'
      BY <1>k, <2>1, <2>3
    <2> QED BY <2>1, <2>3, <2>4
  <1>1. ASSUME NEW s \in Sessions, Request(s)
        PROVE  \E t \in Sessions : sess'[t].wf = w /\ Carries(t)'
    <2>1. PICK v \in Workflows :
            /\ \/ sess'[s] = Fresh("start", v) /\ wstatus'[v] = "pending"
               \/ sess'[s] = Fresh("resume_load", v) /\ wstatus'[v] = wstatus[v]
            /\ \A u \in Workflows \ {v} : wstatus'[u] = wstatus[u]
      BY <1>1, RequestEffect
    <2>2. ~Carries(s)
      BY <1>1, RequestEffect DEF At, Carries, RunPCs
    <2>3. CASE sess'[s] = Fresh("start", v) /\ w = v
      BY <2>3 DEF Fresh, Carries
    <2>4. CASE wstatus'[w] = wstatus[w]
      <3>1. wstatus[w] \in Open
        BY <2>4
      <3> QED BY <1>1, <1>o, <2>2, <3>1, RequestEffect
    <2> QED BY <2>1, <2>3, <2>4
  <1>2. ASSUME NEW s \in Sessions, Resume(s)
        PROVE  \E t \in Sessions : sess'[t].wf = w /\ Carries(t)'
    <2>0. MarksOK(s)
      BY <1>0
    <2>1. /\ \A t \in Sessions \ {s} : sess'[t] = sess[t]
          /\ crashes' = crashes
          /\ \A v \in Workflows \ {sess[s].wf} : wstatus'[v] = wstatus[v]
          /\ \/ sess'[s].wf = sess[s].wf /\ Carries(s)'
             \/ ~Carries(s) /\ wstatus' = wstatus
      BY <1>2, <2>0, ResumeEffect
    <2>2. CASE w = sess[s].wf /\ sess'[s].wf = sess[s].wf /\ Carries(s)'
      BY <2>2
    <2>3. CASE w # sess[s].wf
      <3>1. wstatus[w] \in Open
        BY <2>1, <2>3
      <3> QED BY <1>o, <2>1, <2>3, <3>1
    <2>4. CASE ~Carries(s) /\ wstatus' = wstatus
      <3>1. wstatus[w] \in Open
        BY <2>4
      <3> QED BY <1>o, <2>1, <2>4, <3>1
    <2> QED BY <2>1, <2>2, <2>3, <2>4
  <1>3. ASSUME NEW s \in Sessions, Commit(s) \/ FailWorkflow(s)
        PROVE  \E t \in Sessions : sess'[t].wf = w /\ Carries(t)'
    <2>1. wstatus[w] \in Open
      <3>1. wstatus'[w] \in {wstatus[w], "completed", "failed"}
        BY <1>3, CommitEffect
      <3> QED BY <3>1 DEF Open
    <2>2. sess[s].wf # w \/ ~Carries(s)
      BY <1>3, CarrierSettles
    <2> QED BY <1>3, <1>o, <2>1, <2>2, CommitEffect
  <1>4. ASSUME NEW s \in Sessions, Run(s), ~Commit(s), ~FailWorkflow(s)
        PROVE  \E t \in Sessions : sess'[t].wf = w /\ Carries(t)'
    <2>0. MarksOK(s)
      BY <1>0
    <2>1. /\ \A t \in Sessions \ {s} : sess'[t] = sess[t]
          /\ UNCHANGED <<wstatus, crashes>>
      BY <1>4, RunEffect
    <2>2. /\ sess'[s].wf = sess[s].wf
          /\ Carries(s) /\ wstatus[sess[s].wf] \in Open => Carries(s)'
      BY <1>0, <1>4, <2>0, MarksRun
    <2>3. wstatus[w] \in Open
      BY <2>1
    <2>4. CASE sess[s].wf = w /\ Carries(s)
      BY <2>2, <2>3, <2>4
    <2>5. CASE sess[s].wf # w \/ ~Carries(s)
      BY <1>o, <2>1, <2>3, <2>5
    <2> QED BY <2>4, <2>5
  <1>5. ASSUME NEW s \in Sessions, ConnectTimesOut(s) PROVE FALSE
    BY <1>5, <1>p, PoolSuffices
  (* The one that a deadlock ends leaves the other, which carries too.      *)
  <1>d. ASSUME NEW s \in Sessions, DeadlockAborts(s)
        PROVE  \E t \in Sessions : sess'[t].wf = w /\ Carries(t)'
    <2>1. PICK t \in Sessions : Circle(s, t) \/ Circle(t, s)
      BY <1>d DEF DeadlockAborts
    <2>2. /\ t # s /\ sess[t].wf = sess[s].wf /\ Carries(t)
      BY <2>1, Circles DEF Circle, WaitsForWorkflow, Carries, Skipping, Open, Holding, RunPCs
    <2>3. /\ \A u \in Sessions \ {s} : sess'[u] = sess[u]
          /\ wstatus' = wstatus /\ crashes' = crashes
      BY <1>0, <1>d, AbortEffect
    <2>4. CASE sess[s].wf = w
      <3>1. sess'[t] = sess[t]
        BY <2>2, <2>3
      <3>2. Carries(t)'
        BY <1>k, <2>2, <3>1
      <3> QED BY <2>2, <2>4, <3>1, <3>2
    <2>5. CASE sess[s].wf # w
      <3>1. wstatus[w] \in Open
        BY <2>3
      <3> QED BY <1>o, <2>3, <2>5, <3>1
    <2> QED BY <2>4, <2>5
  <1>6. ~Crash
    BY <1>0, <1>p DEF Crash, EngineTypeOK
  <1>7. CASE UNCHANGED vars
    <2>1. wstatus[w] \in Open /\ crashes' = crashes /\ sess' = sess
      BY <1>7 DEF vars
    <2>2. PICK t \in Sessions : sess[t].wf = w /\ Carries(t)
      BY <1>c, <2>1
    <2> QED BY <1>k, <2>1, <2>2
  <1> QED BY <1>1, <1>2, <1>3, <1>4, <1>5, <1>d, <1>6, <1>7
          DEF EngineNext, Work, Waiting, Run

(* While the server has not crashed and the pool has a connection for every *)
(* task, an open workflow has a task at work for it: only those two faults  *)
(* strand a workflow.                                                       *)
THEOREM OnlyFaultsStrand == EngineSpec => []NoOrphanedWorkflow
  <1>1. EngineInit => CarriedInv
    BY DEF EngineInit, StoreInit, CarriedInv, Open, NoState
  <1>2. IInv /\ MarksInv /\ OrderInv /\ CarriedInv /\ [EngineNext]_vars => CarriedInv'
    BY NextCarried
  <1>3. IInv /\ CarriedInv => NoOrphanedWorkflow
    <2>1. \A s \in Sessions : Carries(s) => ~At(s, "resume_load")
      BY DEF Carries, At, RunPCs
    <2> QED BY <2>1 DEF CarriedInv, Sheltered, NoOrphanedWorkflow, Owned, Open
  <1> QED BY <1>1, <1>2, <1>3, OrderHolds, PTL DEF EngineSpec

=============================================================================
