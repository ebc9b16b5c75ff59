---------------------------- MODULE CustomRunProofs ----------------------------
(***************************************************************************)
(* Proofs about CustomRun for any number of runs, any lists of steps, any   *)
(* target and final state. The inductive invariant CustomInv says of every  *)
(* run which steps must have been carried out before the one it is at, and  *)
(* of every copy of the checkpoint what a resume from it would skip.        *)
(* The operators below take the variables they speak of as arguments.       *)
(***************************************************************************)
EXTENDS CustomRun, TLAPS, WellFoundedInduction, SequenceTheorems

PCs == {"idle", "claim", "claimed", "clear", "load", "load_wf", "begin", "step",
        "work", "finish", "commit", "fail", "fail_wf"}
Committed == {NoState, "pending", "resuming", "completed", "failed"}

(* What a checkpoint can say in a workflow with the steps ss.               *)
Names(ss) == {NoState, "complete", "wait_10s"} \cup {ss[i].name : i \in 1..Len(ss)}

FirstNamed(ss, name) ==
  LET found == {i \in 1..Len(ss) : ss[i].name = name} IN
  IF found = {} THEN Len(ss) + 1 ELSE CHOOSE i \in found : \A j \in found : i <= j

RunRec(ss) ==
  [pc : PCs, pos : 1..Len(ss) + 1, call : Nat,
   mseen : MachineStates \cup {NoState}, mdirty : BOOLEAN,
   wseen : Committed \cup {"running"}, wdirty : BOOLEAN,
   cseen : Names(ss), cdirty : BOOLEAN, rseen : 0..MaxRetries]

(* The state that a run which completes leaves its machine in, or NoState.  *)
Settled == IF Final # NoState THEN Final ELSE Target

(* What a run's copy holds at each program counter.                         *)
CopyOK(ss, c) ==
  /\ c.pc = "claim" => c.rseen < MaxRetries
  /\ c.pc = "work" => c.pos <= Len(ss) /\ c.wseen = "running"
  /\ c.pc \in {"finish", "commit"} => c.pos = Len(ss) + 1
  /\ c.pc \in {"idle", "claim", "claimed", "clear", "load", "load_wf"} => ~c.mdirty
  /\ c.pc \in {"begin", "step", "work"} =>
       (c.mdirty <=> Target # NoState) /\ (c.mdirty => c.mseen = Target)
  /\ c.pc \in {"finish", "commit"} =>
       (c.mdirty <=> Settled # NoState) /\ (c.mdirty => c.mseen = Settled)
  /\ c.pc = "fail_wf" => c.mseen = "error"
  /\ c.pc = "commit" => c.wseen = "completed"
  /\ c.pc \in {"begin", "step", "work", "finish"} =>
       c.wdirty \/ c.wseen # "completed" \/ c.pos = 1
  /\ c.pc = "commit" /\ Len(ss) > 0 => c.wdirty

(* Every step before the one at hand has been carried out, and so has every *)
(* step that a resume from the copy's checkpoint would skip. A wait step is *)
(* the exception: while it lasts the checkpoint names no step of the list.  *)
Proceeds(ss, c, done, raised) ==
  ~raised =>
    /\ c.pc \in {"begin", "step", "work", "finish", "commit"} => 1..c.pos - 1 \subseteq done
    /\ /\ c.pc \in {"begin", "step", "work", "finish", "commit", "fail", "fail_wf"}
       /\ c.cseen # NoState
       /\ c.pc = "work" => ss[c.pos].type # "wait"
       => 1..FirstNamed(ss, c.cseen) - 1 \subseteq done

(* The same of the committed rows: what NoStepLost says.                    *)
NothingLost(ss, st, ck, done, raised) ==
  ~raised =>
    /\ st = "completed" => done = 1..Len(ss)
    /\ ck # NoState => 1..FirstNamed(ss, ck) - 1 \subseteq done

RowTypes ==
  /\ steps \in StepLists
  /\ state \in MachineStates
  /\ status \in Committed
  /\ retries \in 0..MaxRetries
  /\ ckpt \in Names(steps)
  /\ executed \subseteq 1..Len(steps)
  /\ waitRaised \in BOOLEAN
  /\ NothingLost(steps, status, ckpt, executed, waitRaised)

CustomInv ==
  /\ RowTypes
  /\ mlock \in Runs \cup {NoRun} /\ wlock \in Runs \cup {NoRun}
  /\ crashes \in 0..MaxCrashes
  /\ run \in [Runs -> RunRec(steps)]
  /\ \A r \in Runs :
       /\ CopyOK(steps, run[r])
       /\ Proceeds(steps, run[r], executed, waitRaised)
       /\ run[r].pc # "idle" => status # NoState

USE NoRunAssumption, StatesAssumption, BoundsAssumption

-----------------------------------------------------------------------------
(* Lemmas about the list of steps, the table and the records                *)

LEMMA LengthType ==
  ASSUME NEW ss \in StepLists
  PROVE  Len(ss) \in Nat
  BY StepListsAssumption

(* A resume takes up the work at the first step of a name, or after all.    *)
LEMMA FirstNamedIs ==
  ASSUME NEW ss \in StepLists, NEW name
  PROVE  /\ FirstNamed(ss, name) \in 1..Len(ss) + 1
         /\ \A i \in 1..Len(ss) : ss[i].name = name => FirstNamed(ss, name) <= i
  <1> DEFINE found == {i \in 1..Len(ss) : ss[i].name = name}
  <1>0. Len(ss) \in Nat
    BY LengthType
  <1>1. CASE found = {}
    BY <1>0, <1>1 DEF FirstNamed
  <1>2. CASE found # {}
    <2>1. found \subseteq Nat
      BY <1>0
    <2>2. PICK n \in found : \A m \in found : ~(<<m, n>> \in OpToRel(<, Nat))
      <3> HIDE DEF found
      <3> QED BY <1>2, <2>1, NatLessThanWellFounded, WFMin
    <2>3. \A m \in found : n <= m
      <3> HIDE DEF found
      <3>1. n \in Nat
        BY <2>1, <2>2
      <3>2. ASSUME NEW m \in found PROVE n <= m
        <4>1. m \in Nat
          BY <2>1
        <4>2. ~(m < n)
          BY <2>2, <3>1, <4>1 DEF OpToRel
        <4> QED BY <3>1, <4>1, <4>2
      <3> QED BY <3>2
    <2>4. /\ FirstNamed(ss, name) \in found
          /\ \A m \in found : FirstNamed(ss, name) <= m
      BY <1>2, <2>3 DEF FirstNamed
    <2> QED BY <1>0, <2>4
  <1> QED BY <1>1, <1>2

LEMMA ResumeAtIs == \A name : ResumeAt(name) = FirstNamed(steps, name)
  BY DEF ResumeAt, FirstNamed, N

(* The table has no transition of a state to itself.                        *)
LEMMA NoMoveToSelf ==
  ASSUME NEW v \in MachineStates \cup {NoState}, NEW w \in MachineStates, CanMove(v, w)
  PROVE  v # w
  <1>1. /\ "discovered" \notin ValidTransitions["discovered"]
        /\ "enrolling" \notin ValidTransitions["enrolling"]
        /\ "enrolled" \notin ValidTransitions["enrolled"]
        /\ "provisioning" \notin ValidTransitions["provisioning"]
        /\ "ready" \notin ValidTransitions["ready"]
        /\ "in_use" \notin ValidTransitions["in_use"]
        /\ "maintenance" \notin ValidTransitions["maintenance"]
        /\ "decommissioning" \notin ValidTransitions["decommissioning"]
        /\ "decommissioned" \notin ValidTransitions["decommissioned"]
        /\ "error" \notin ValidTransitions["error"]
    BY DEF ValidTransitions
  <1>2. \A m \in MachineStates : m \notin ValidTransitions[m]
    BY <1>1 DEF MachineStates
  <1> QED BY <1>2 DEF CanMove

AtPc(c, pc) == [c EXCEPT !.pc = pc]

LEMMA GotoIs ==
  ASSUME NEW ss, NEW c \in RunRec(ss), NEW pc \in PCs
  PROVE  /\ AtPc(c, pc) \in RunRec(ss)
         /\ AtPc(c, pc).pc = pc
         /\ AtPc(c, pc).pos = c.pos
         /\ AtPc(c, pc).call = c.call
         /\ AtPc(c, pc).mseen = c.mseen
         /\ AtPc(c, pc).mdirty = c.mdirty
         /\ AtPc(c, pc).wseen = c.wseen
         /\ AtPc(c, pc).wdirty = c.wdirty
         /\ AtPc(c, pc).cseen = c.cseen
         /\ AtPc(c, pc).cdirty = c.cdirty
  BY DEF RunRec, AtPc

LEMMA SeeStateIs ==
  ASSUME NEW ss, NEW c \in RunRec(ss), NEW v \in MachineStates \cup {NoState}
  PROVE  /\ SeeState(c, v) \in RunRec(ss)
         /\ SeeState(c, v).pos = c.pos
         /\ SeeState(c, v).mseen = v
         /\ SeeState(c, v).mdirty = (c.mdirty \/ v # c.mseen)
         /\ SeeState(c, v).wseen = c.wseen
         /\ SeeState(c, v).wdirty = c.wdirty
         /\ SeeState(c, v).cseen = c.cseen
         /\ SeeState(c, v).cdirty = c.cdirty
  BY DEF RunRec, SeeState

LEMMA SeeStatusIs ==
  ASSUME NEW ss, NEW c \in RunRec(ss), NEW v \in Committed \cup {"running"}
  PROVE  /\ SeeStatus(c, v) \in RunRec(ss)
         /\ SeeStatus(c, v).pos = c.pos
         /\ SeeStatus(c, v).mseen = c.mseen
         /\ SeeStatus(c, v).mdirty = c.mdirty
         /\ SeeStatus(c, v).wseen = v
         /\ SeeStatus(c, v).wdirty = (c.wdirty \/ v # c.wseen)
         /\ SeeStatus(c, v).cseen = c.cseen
         /\ SeeStatus(c, v).cdirty = c.cdirty
  BY DEF RunRec, SeeStatus

LEMMA SeeCkptIs ==
  ASSUME NEW ss, NEW c \in RunRec(ss), NEW v \in Names(ss)
  PROVE  /\ SeeCkpt(c, v) \in RunRec(ss)
         /\ SeeCkpt(c, v).pos = c.pos
         /\ SeeCkpt(c, v).mseen = c.mseen
         /\ SeeCkpt(c, v).mdirty = c.mdirty
         /\ SeeCkpt(c, v).wseen = c.wseen
         /\ SeeCkpt(c, v).wdirty = c.wdirty
         /\ SeeCkpt(c, v).cseen = v
  BY DEF RunRec, SeeCkpt

LEMMA IdleIs ==
  ASSUME NEW ss \in StepLists
  PROVE  /\ Idle \in RunRec(ss)
         /\ CopyOK(ss, Idle)
         /\ \A done, raised : Proceeds(ss, Idle, done, raised)
         /\ Idle.pc = "idle"
  <1>0. Len(ss) \in Nat
    BY LengthType
  <1>1. Idle \in RunRec(ss)
    BY <1>0 DEF Idle, RunRec, PCs, Names, Committed, MachineStates
  <1>2. CopyOK(ss, Idle)
    BY DEF Idle, CopyOK
  <1>3. \A done, raised : Proceeds(ss, Idle, done, raised)
    BY DEF Idle, Proceeds
  <1>4. Idle.pc = "idle"
    BY DEF Idle
  <1> QED BY <1>1, <1>2, <1>3, <1>4

-----------------------------------------------------------------------------
(* The invariant is inductive                                               *)

LEMMA InitCustom == CustomInit => CustomInv
  <1> SUFFICES ASSUME CustomInit PROVE CustomInv
    OBVIOUS
  <1>0. steps \in StepLists
    BY DEF CustomInit
  <1>1. RowTypes
    <2>1. NothingLost(steps, status, ckpt, executed, waitRaised)
      BY DEF CustomInit, NothingLost, NoState
    <2>2. status \in Committed /\ ckpt \in Names(steps)
      BY DEF CustomInit, Committed, Names
    <2>3. retries \in 0..MaxRetries /\ executed \subseteq 1..Len(steps)
      BY DEF CustomInit
    <2>4. waitRaised \in BOOLEAN
      BY DEF CustomInit
    <2>5. state \in MachineStates
      BY DEF CustomInit
    <2> QED BY <1>0, <2>1, <2>2, <2>3, <2>4, <2>5 DEF RowTypes
  <1>2. ASSUME NEW r \in Runs
        PROVE  run[r] = Idle
    BY DEF CustomInit
  <1>3. run \in [Runs -> RunRec(steps)]
    BY <1>0, IdleIs DEF CustomInit
  <1>4. ASSUME NEW r \in Runs
        PROVE  /\ CopyOK(steps, run[r])
               /\ Proceeds(steps, run[r], executed, waitRaised)
               /\ run[r].pc # "idle" => status # NoState
    BY <1>0, <1>2, IdleIs
  <1>5. mlock = NoRun /\ wlock = NoRun /\ crashes = 0
    BY DEF CustomInit
  <1> QED BY <1>1, <1>3, <1>4, <1>5 DEF CustomInv

(* It is enough to look at the run that steps, and at the rows: what has    *)
(* been carried out stays so.                                               *)
LEMMA OneRunSteps ==
  ASSUME CustomInv, NEW r \in Runs, NEW c \in RunRec(steps), Set(r, c),
         steps' = steps, RowTypes', crashes' = crashes,
         mlock' \in Runs \cup {NoRun}, wlock' \in Runs \cup {NoRun},
         executed \subseteq executed', waitRaised => waitRaised',
         status # NoState => status' # NoState,
         CopyOK(steps, c), Proceeds(steps, c, executed', waitRaised'),
         c.pc # "idle" => status' # NoState
  PROVE  CustomInv'
  <1>1. /\ run \in [Runs -> RunRec(steps)]
        /\ crashes \in 0..MaxCrashes
        /\ \A t \in Runs : /\ CopyOK(steps, run[t])
                           /\ Proceeds(steps, run[t], executed, waitRaised)
                           /\ run[t].pc # "idle" => status # NoState
    BY DEF CustomInv
  <1>2. run' \in [Runs -> RunRec(steps)] /\ run'[r] = c
        /\ \A t \in Runs \ {r} : run'[t] = run[t]
    BY <1>1 DEF Set
  <1>3. ASSUME NEW d, Proceeds(steps, d, executed, waitRaised)
        PROVE  Proceeds(steps, d, executed', waitRaised')
    BY <1>3 DEF Proceeds
  <1>4. ASSUME NEW t \in Runs
        PROVE  /\ CopyOK(steps', run'[t])
               /\ Proceeds(steps', run'[t], executed', waitRaised')
               /\ run'[t].pc # "idle" => status' # NoState
    <2>1. CASE t = r
      BY <1>2, <2>1
    <2>2. CASE t # r
      <3>1. run'[t] = run[t]
        BY <1>2, <2>2
      <3>2. Proceeds(steps, run[t], executed, waitRaised)
        BY <1>1
      <3>3. Proceeds(steps, run[t], executed', waitRaised')
        BY <1>3, <3>2
      <3> QED BY <1>1, <3>1, <3>3
    <2> QED BY <2>1, <2>2
  <1>5. crashes' \in 0..MaxCrashes
    BY <1>1
  <1>6. run' \in [Runs -> RunRec(steps')]
    BY <1>2
  <1> QED BY <1>4, <1>5, <1>6 DEF CustomInv

(* A step that writes no row and carries nothing out.                       *)
LEMMA QuietStep ==
  ASSUME CustomInv, NEW r \in Runs, NEW c \in RunRec(steps), Set(r, c),
         UNCHANGED <<rowVars, executed, waitRaised, crashes>>,
         UNCHANGED mlock \/ LockMachine(r), UNCHANGED wlock \/ LockWorkflow(r),
         CopyOK(steps, c), Proceeds(steps, c, executed, waitRaised),
         status # NoState
  PROVE  CustomInv'
  <1>1. RowTypes'
    BY DEF CustomInv, RowTypes, rowVars
  <1>2. mlock' \in Runs \cup {NoRun} /\ wlock' \in Runs \cup {NoRun}
    BY DEF CustomInv, LockMachine, LockWorkflow
  <1> QED BY <1>1, <1>2, OneRunSteps DEF rowVars

(* What is known of a run before it steps.                                  *)
LEMMA Before ==
  ASSUME CustomInv, NEW r \in Runs
  PROVE  /\ steps \in StepLists /\ Len(steps) \in Nat /\ N = Len(steps)
         /\ run[r] \in RunRec(steps)
         /\ CopyOK(steps, run[r])
         /\ Proceeds(steps, run[r], executed, waitRaised)
         /\ run[r].pc # "idle" => status # NoState
         /\ RowTypes
  BY LengthType DEF CustomInv, RowTypes, N

-----------------------------------------------------------------------------
(* One lemma for each kind of step                                          *)

LEMMA RequestSteps ==
  ASSUME CustomInv, NEW r \in Runs, CreateWorkflow(r) \/ ResumeLoad(r)
  PROVE  CustomInv'
  <1>0. /\ steps \in StepLists /\ run[r] \in RunRec(steps) /\ CopyOK(steps, run[r])
        /\ RowTypes
    BY Before
  <1>l. mlock \in Runs \cup {NoRun} /\ wlock \in Runs \cup {NoRun}
    BY DEF CustomInv
  <1>1. CASE CreateWorkflow(r)
    <2> DEFINE c == AtPc(run[r], "load")
    <2>1. /\ c \in RunRec(steps) /\ c.pc = "load" /\ c.mdirty = run[r].mdirty
      BY <1>0, GotoIs DEF PCs
    <2>2. run[r].pc = "idle" /\ Set(r, c) /\ status' = "pending"
          /\ UNCHANGED <<steps, state, retries, ckpt, mlock, wlock, executed, waitRaised, crashes>>
      BY <1>1 DEF CreateWorkflow, Goto, At, AtPc
    <2> HIDE DEF c
    <2>3. CopyOK(steps, c)
      BY <1>0, <2>1, <2>2 DEF CopyOK
    <2>4. Proceeds(steps, c, executed', waitRaised')
      BY <2>1 DEF Proceeds
    <2>5. NothingLost(steps', status', ckpt', executed', waitRaised')
      BY <1>0, <2>2 DEF RowTypes, NothingLost
    <2>6. RowTypes'
      BY <1>0, <2>2, <2>5 DEF RowTypes, Committed
    <2>7. status' # NoState
      BY <2>2 DEF NoState
    <2> QED BY <1>l, <2>1, <2>2, <2>3, <2>4, <2>6, <2>7, OneRunSteps
  <1>2. CASE ResumeLoad(r)
    <2> DEFINE c == [Idle EXCEPT !.pc = "claim", !.rseen = retries]
    <2>1. Idle \in RunRec(steps) /\ retries \in 0..MaxRetries
      BY <1>0, IdleIs DEF RowTypes
    <2>2. /\ c \in RunRec(steps) /\ c.pc = "claim" /\ c.rseen = retries
          /\ c.mdirty = FALSE
      <3>1. Idle.mdirty = FALSE
        BY DEF Idle
      <3> QED BY <2>1, <3>1 DEF RunRec, PCs
    <2>3. /\ status = "failed" /\ retries < MaxRetries /\ Set(r, c)
          /\ UNCHANGED <<rowVars, mlock, wlock, executed, waitRaised, crashes>>
      BY <1>2 DEF ResumeLoad, OnlyRuns
    <2> HIDE DEF c
    <2>4. CopyOK(steps, c)
      BY <2>2, <2>3 DEF CopyOK
    <2>5. Proceeds(steps, c, executed, waitRaised)
      BY <2>2 DEF Proceeds
    <2>6. status # NoState
      BY <2>3 DEF NoState
    <2> QED BY <2>2, <2>3, <2>4, <2>5, <2>6, QuietStep
  <1> QED BY <1>1, <1>2

LEMMA ResumeSteps ==
  ASSUME CustomInv, NEW r \in Runs,
         ResumeClaim(r) \/ ResumeReads(r) \/ ResumeClears(r)
  PROVE  CustomInv'
  <1>0. /\ steps \in StepLists /\ run[r] \in RunRec(steps) /\ CopyOK(steps, run[r])
        /\ RowTypes /\ (run[r].pc # "idle" => status # NoState)
    BY Before
  <1>l. mlock \in Runs \cup {NoRun} /\ wlock \in Runs \cup {NoRun}
    BY DEF CustomInv
  <1>1. CASE ResumeClaim(r)
    <2> DEFINE c == AtPc(run[r], "claimed")
    <2>1. c \in RunRec(steps) /\ c.pc = "claimed" /\ c.mdirty = run[r].mdirty
      BY <1>0, GotoIs DEF PCs
    <2>2. /\ run[r].pc = "claim" /\ Set(r, c) /\ status' = "resuming"
          /\ retries' = run[r].rseen + 1
          /\ UNCHANGED <<steps, state, ckpt, mlock, wlock, executed, waitRaised, crashes>>
      BY <1>1 DEF ResumeClaim, Goto, At, AtPc
    <2> HIDE DEF c
    <2>3. CopyOK(steps, c)
      BY <1>0, <2>1, <2>2 DEF CopyOK
    <2>4. Proceeds(steps, c, executed', waitRaised')
      BY <2>1 DEF Proceeds
    <2>5. NothingLost(steps', status', ckpt', executed', waitRaised')
      BY <1>0, <2>2 DEF RowTypes, NothingLost
    <2>6. retries' \in 0..MaxRetries
      BY <1>0, <2>2 DEF CopyOK, RunRec
    <2>7. RowTypes'
      BY <1>0, <2>2, <2>5, <2>6 DEF RowTypes, Committed
    <2>8. status' # NoState
      BY <2>2 DEF NoState
    <2> QED BY <1>l, <2>1, <2>2, <2>3, <2>4, <2>7, <2>8, OneRunSteps
  <1>2. CASE ResumeReads(r) \/ ResumeClears(r)
    <2>0. PICK pc \in {"load", "clear"} : Set(r, AtPc(Idle, pc))
      BY <1>2 DEF ResumeReads, ResumeClears, AtPc
    <2> DEFINE c == AtPc(Idle, pc)
    <2>1. c \in RunRec(steps) /\ c.pc = pc /\ c.mdirty = FALSE
      <3>1. Idle \in RunRec(steps) /\ Idle.mdirty = FALSE
        BY <1>0, IdleIs DEF Idle
      <3> QED BY <3>1, GotoIs DEF PCs
    <2>2. run[r].pc # "idle" /\ Set(r, c)
          /\ UNCHANGED <<rowVars, mlock, wlock, executed, waitRaised, crashes>>
      BY <1>2, <2>0 DEF ResumeReads, ResumeClears, At, OnlyRuns
    <2> HIDE DEF c
    <2>3. CopyOK(steps, c)
      BY <2>1 DEF CopyOK
    <2>4. Proceeds(steps, c, executed, waitRaised)
      BY <2>1 DEF Proceeds
    <2> QED BY <1>0, <2>1, <2>2, <2>3, <2>4, QuietStep
  <1> QED BY <1>1, <1>2

LEMMA LoadMachineStep ==
  ASSUME CustomInv, NEW r \in Runs, LoadMachine(r)
  PROVE  CustomInv'
  <1> DEFINE c == [run[r] EXCEPT !.pc = "load_wf", !.mseen = state]
  <1>0. /\ steps \in StepLists /\ run[r] \in RunRec(steps) /\ CopyOK(steps, run[r])
        /\ state \in MachineStates /\ (run[r].pc # "idle" => status # NoState)
    BY Before DEF RowTypes
  <1>1. c \in RunRec(steps) /\ c.pc = "load_wf" /\ c.mdirty = run[r].mdirty
    BY <1>0 DEF RunRec, PCs
  <1>2. run[r].pc = "load" /\ Set(r, c)
        /\ UNCHANGED <<rowVars, mlock, wlock, executed, waitRaised, crashes>>
    BY DEF LoadMachine, At, OnlyRuns
  <1> HIDE DEF c
  <1>3. CopyOK(steps, c)
    BY <1>0, <1>1, <1>2 DEF CopyOK
  <1>4. Proceeds(steps, c, executed, waitRaised)
    BY <1>1 DEF Proceeds
  <1> QED BY <1>0, <1>1, <1>2, <1>3, <1>4, QuietStep

(* Where a run takes up the work, it has lost nothing.                      *)
LEMMA StartAtIs ==
  ASSUME RowTypes
  PROVE  /\ StartAt(status, ckpt) \in 1..Len(steps) + 1
         /\ ~waitRaised => 1..StartAt(status, ckpt) - 1 \subseteq executed
         /\ status # "resuming" => StartAt(status, ckpt) = 1
  <1>0. steps \in StepLists /\ Len(steps) \in Nat
    BY LengthType DEF RowTypes
  <1>1. CASE status = "resuming" /\ ckpt # NoState
    <2>1. StartAt(status, ckpt) = FirstNamed(steps, ckpt)
      BY <1>1, ResumeAtIs DEF StartAt
    <2> QED BY <1>0, <1>1, <2>1, FirstNamedIs DEF RowTypes, NothingLost
  <1>2. CASE ~(status = "resuming" /\ ckpt # NoState)
    BY <1>0, <1>2 DEF StartAt
  <1> QED BY <1>1, <1>2

LEMMA LoadWorkflowStep ==
  ASSUME CustomInv, NEW r \in Runs, LoadWorkflow(r)
  PROVE  CustomInv'
  <1> DEFINE l == [run[r] EXCEPT !.wseen = status, !.cseen = ckpt,
                                 !.pos = StartAt(status, ckpt)]
             c1 == AtPc(l, "step")
             c2 == AtPc(SeeState(l, Target), "begin")
             c3 == AtPc(l, "fail")
  <1>0. /\ steps \in StepLists /\ run[r] \in RunRec(steps) /\ CopyOK(steps, run[r])
        /\ RowTypes /\ (run[r].pc # "idle" => status # NoState)
    BY Before
  <1>1. /\ StartAt(status, ckpt) \in 1..Len(steps) + 1
        /\ ~waitRaised => 1..StartAt(status, ckpt) - 1 \subseteq executed
        /\ status # "resuming" => StartAt(status, ckpt) = 1
    BY <1>0, StartAtIs
  <1>2. run[r].pc = "load_wf" /\ ~run[r].mdirty
    BY <1>0 DEF LoadWorkflow, At, CopyOK
  <1>3. status \in Committed /\ ckpt \in Names(steps)
    BY <1>0 DEF RowTypes
  <1>4. /\ l \in RunRec(steps) /\ l.pos = StartAt(status, ckpt)
        /\ l.wseen = status /\ l.cseen = ckpt
        /\ l.mdirty = FALSE
    BY <1>0, <1>1, <1>2, <1>3 DEF RunRec
  <1>5. UNCHANGED <<rowVars, mlock, wlock, executed, waitRaised, crashes>>
        /\ \/ Target = NoState /\ Set(r, c1)
           \/ Target # NoState /\ CanMove(l.mseen, Target) /\ Set(r, c2)
           \/ Set(r, c3)
    BY DEF LoadWorkflow, OnlyRuns, AtPc
  <1> HIDE DEF l
  <1>6. ASSUME NEW c \in RunRec(steps), Set(r, c), CopyOK(steps, c),
               c.pos = l.pos, c.cseen = l.cseen, c.pc \in {"begin", "step", "fail"}
        PROVE  CustomInv'
    <2>1. Proceeds(steps, c, executed, waitRaised)
      <3>1. ckpt # NoState /\ ~waitRaised => 1..FirstNamed(steps, ckpt) - 1 \subseteq executed
        BY <1>0 DEF RowTypes, NothingLost
      <3> QED BY <1>1, <1>4, <1>6, <3>1 DEF Proceeds
    <2> QED BY <1>0, <1>2, <1>5, <1>6, <2>1, QuietStep
  <1>7. l.wseen # "completed" \/ l.pos = 1
    BY <1>1, <1>4
  <1>8. CASE Target = NoState /\ Set(r, c1)
    <2>1. /\ c1 \in RunRec(steps) /\ c1.pc = "step" /\ c1.pos = l.pos /\ c1.cseen = l.cseen
          /\ c1.mdirty = l.mdirty /\ c1.wseen = l.wseen /\ c1.wdirty = l.wdirty
      BY <1>4, GotoIs DEF PCs
    <2> HIDE DEF c1
    <2>2. CopyOK(steps, c1)
      BY <1>4, <1>7, <1>8, <2>1 DEF CopyOK
    <2> QED BY <1>6, <1>8, <2>1, <2>2
  <1>9. CASE Target # NoState /\ CanMove(l.mseen, Target) /\ Set(r, c2)
    <2> DEFINE d == SeeState(l, Target)
    <2>1. /\ d \in RunRec(steps) /\ d.pos = l.pos /\ d.cseen = l.cseen
          /\ d.mseen = Target /\ d.mdirty = (l.mdirty \/ Target # l.mseen)
          /\ d.wseen = l.wseen /\ d.wdirty = l.wdirty
      BY <1>4, SeeStateIs
    <2>2. l.mseen # Target
      <3>1. l.mseen \in MachineStates \cup {NoState} /\ Target \in MachineStates
        BY <1>4, <1>9 DEF RunRec
      <3> QED BY <1>9, <3>1, NoMoveToSelf
    <2> HIDE DEF d
    <2>3. /\ c2 \in RunRec(steps) /\ c2.pc = "begin" /\ c2.pos = d.pos /\ c2.cseen = d.cseen
          /\ c2.mseen = d.mseen /\ c2.mdirty = d.mdirty
          /\ c2.wseen = d.wseen /\ c2.wdirty = d.wdirty
      BY <2>1, GotoIs DEF PCs, d
    <2> HIDE DEF c2
    <2>4. CopyOK(steps, c2)
      BY <1>7, <1>9, <2>1, <2>2, <2>3 DEF CopyOK
    <2> QED BY <1>6, <1>9, <2>1, <2>3, <2>4
  <1>10. CASE Set(r, c3)
    <2>1. /\ c3 \in RunRec(steps) /\ c3.pc = "fail" /\ c3.pos = l.pos /\ c3.cseen = l.cseen
      BY <1>4, GotoIs DEF PCs
    <2> HIDE DEF c3
    <2>2. CopyOK(steps, c3)
      BY <2>1 DEF CopyOK
    <2> QED BY <1>6, <1>10, <2>1, <2>2
  <1> QED BY <1>5, <1>8, <1>9, <1>10

LEMMA BeginStep ==
  ASSUME CustomInv, NEW r \in Runs, Begin(r)
  PROVE  CustomInv'
  <1>0. /\ run[r] \in RunRec(steps) /\ CopyOK(steps, run[r])
        /\ Proceeds(steps, run[r], executed, waitRaised)
        /\ (run[r].pc # "idle" => status # NoState)
    BY Before
  <1>1. PICK pc \in {"step", "fail"} : Set(r, AtPc(run[r], pc))
    BY DEF Begin, Goto, AtPc
  <1> DEFINE c == AtPc(run[r], pc)
  <1>2. /\ c \in RunRec(steps) /\ c.pc = pc /\ c.pos = run[r].pos
        /\ c.mseen = run[r].mseen /\ c.mdirty = run[r].mdirty
        /\ c.wseen = run[r].wseen /\ c.wdirty = run[r].wdirty /\ c.cseen = run[r].cseen
    BY <1>0, <1>1, GotoIs DEF PCs
  <1>3. /\ run[r].pc = "begin" /\ LockMachine(r)
        /\ UNCHANGED <<rowVars, wlock, executed, waitRaised, crashes>>
    BY DEF Begin, At
  <1> HIDE DEF c
  <1>4. CopyOK(steps, c)
    BY <1>0, <1>1, <1>2, <1>3 DEF CopyOK
  <1>5. Proceeds(steps, c, executed, waitRaised)
    BY <1>0, <1>1, <1>2, <1>3 DEF Proceeds
  <1>6. Set(r, c)
    BY <1>1 DEF c
  <1> QED BY <1>0, <1>2, <1>3, <1>4, <1>5, <1>6, QuietStep

(* The checkpoint names the step before it is carried out: a resume would   *)
(* execute it again. Of a wait step it names nothing.                       *)
LEMMA RecordStepStep ==
  ASSUME CustomInv, NEW r \in Runs, RecordStep(r)
  PROVE  CustomInv'
  <1> DEFINE b == SeeStatus(run[r], "running")
             d == SeeCkpt(b, Recorded(Current(r)))
  <1>0. /\ steps \in StepLists /\ Len(steps) \in Nat /\ N = Len(steps)
        /\ run[r] \in RunRec(steps) /\ CopyOK(steps, run[r])
        /\ Proceeds(steps, run[r], executed, waitRaised)
        /\ (run[r].pc # "idle" => status # NoState) /\ RowTypes
    BY Before
  <1>1. /\ run[r].pc = "step" /\ run[r].pos \in 1..Len(steps)
        /\ LockWorkflow(r) /\ UNCHANGED <<rowVars, mlock, executed, crashes>>
    BY <1>0 DEF RecordStep, Turn, At, RunRec
  <1>2. PICK pc \in {"work", "fail"} :
          /\ Set(r, [d EXCEPT !.pc = pc, !.call = 0])
          /\ waitRaised' = (waitRaised \/ (pc = "fail" /\ Current(r).type = "wait"))
    BY DEF RecordStep
  <1>3. /\ b \in RunRec(steps) /\ b.pos = run[r].pos
        /\ b.mseen = run[r].mseen /\ b.mdirty = run[r].mdirty /\ b.wseen = "running"
    BY <1>0, SeeStatusIs
  <1>4. Recorded(Current(r)) \in Names(steps)
    BY <1>1 DEF Recorded, Current, Names
  <1> HIDE DEF b
  <1>5. /\ d \in RunRec(steps) /\ d.pos = run[r].pos
        /\ d.mseen = run[r].mseen /\ d.mdirty = run[r].mdirty /\ d.wseen = "running"
        /\ d.cseen = Recorded(Current(r))
    BY <1>3, <1>4, SeeCkptIs
  <1> HIDE DEF d
  <1> DEFINE c == [d EXCEPT !.pc = pc, !.call = 0]
  <1>6. /\ c \in RunRec(steps) /\ c.pc = pc /\ c.pos = run[r].pos
        /\ c.mseen = run[r].mseen /\ c.mdirty = run[r].mdirty /\ c.wseen = "running"
        /\ c.cseen = Recorded(Current(r))
    BY <1>5 DEF RunRec, PCs
  <1>7. Set(r, c)
    BY <1>2
  <1> HIDE DEF c
  <1>8. CopyOK(steps, c)
    BY <1>0, <1>1, <1>2, <1>6 DEF CopyOK
  <1>9. Proceeds(steps, c, executed, waitRaised')
    <2>1. CASE Current(r).type = "wait"
      <3>1. pc = "work" \/ waitRaised'
        BY <1>2, <2>1
      <3> QED BY <1>0, <1>1, <1>2, <1>6, <2>1, <3>1 DEF Proceeds, Current
    <2>2. CASE Current(r).type # "wait"
      <3>1. c.cseen = steps[run[r].pos].name
        BY <1>6, <2>2 DEF Recorded, Current
      <3>2. /\ FirstNamed(steps, c.cseen) <= run[r].pos
            /\ FirstNamed(steps, c.cseen) \in 1..Len(steps) + 1
        BY <1>0, <1>1, <3>1, FirstNamedIs
      <3>3. 1..FirstNamed(steps, c.cseen) - 1 \subseteq 1..run[r].pos - 1
        BY <1>0, <1>1, <3>2
      <3>4. ~waitRaised' => ~waitRaised
        BY <1>2
      <3> QED BY <1>0, <1>1, <1>2, <1>6, <3>3, <3>4 DEF Proceeds
    <2> QED BY <2>1, <2>2
  <1>10. wlock' \in Runs \cup {NoRun} /\ mlock' \in Runs \cup {NoRun}
    BY <1>1 DEF CustomInv, LockWorkflow
  <1>11. RowTypes'
    <2>1. waitRaised' \in BOOLEAN /\ (waitRaised => waitRaised')
      BY <1>0, <1>2 DEF RowTypes
    <2>2. NothingLost(steps', status', ckpt', executed', waitRaised')
      BY <1>0, <1>1, <2>1 DEF RowTypes, NothingLost, rowVars
    <2> QED BY <1>0, <1>1, <2>1, <2>2 DEF RowTypes, rowVars
  <1>12. steps' = steps /\ status' = status /\ executed' = executed /\ crashes' = crashes
         /\ (waitRaised => waitRaised')
    BY <1>1, <1>2 DEF rowVars
  <1> QED BY <1>0, <1>1, <1>6, <1>7, <1>8, <1>9, <1>10, <1>11, <1>12, OneRunSteps

LEMMA UnknownStepStep ==
  ASSUME CustomInv, NEW r \in Runs, UnknownStep(r)
  PROVE  CustomInv'
  <1> DEFINE c == AtPc(run[r], "fail")
  <1>0. /\ run[r] \in RunRec(steps) /\ CopyOK(steps, run[r])
        /\ Proceeds(steps, run[r], executed, waitRaised)
        /\ (run[r].pc # "idle" => status # NoState)
    BY Before
  <1>1. /\ run[r].pc = "step" /\ Set(r, c)
        /\ UNCHANGED <<rowVars, mlock, wlock, executed, waitRaised, crashes>>
    BY DEF UnknownStep, Turn, At, Goto, AtPc, OnlyRuns
  <1>2. c \in RunRec(steps) /\ c.pc = "fail" /\ c.cseen = run[r].cseen
    BY <1>0, GotoIs DEF PCs
  <1> HIDE DEF c
  <1>3. CopyOK(steps, c)
    BY <1>2 DEF CopyOK
  <1>4. Proceeds(steps, c, executed, waitRaised)
    BY <1>0, <1>1, <1>2 DEF Proceeds
  <1> QED BY <1>0, <1>1, <1>2, <1>3, <1>4, QuietStep

LEMMA CallDoneStep ==
  ASSUME CustomInv, NEW r \in Runs, CallDone(r)
  PROVE  CustomInv'
  <1> DEFINE c == [run[r] EXCEPT !.call = run[r].call + 1]
  <1>0. /\ run[r] \in RunRec(steps) /\ CopyOK(steps, run[r])
        /\ Proceeds(steps, run[r], executed, waitRaised)
        /\ (run[r].pc # "idle" => status # NoState)
    BY Before
  <1>1. /\ run[r].pc = "work" /\ Set(r, c)
        /\ UNCHANGED <<rowVars, mlock, wlock, executed, waitRaised, crashes>>
    BY DEF CallDone, At, OnlyRuns
  <1>2. run[r].call + 1 \in Nat
    BY <1>0 DEF RunRec
  <1>3. /\ c \in RunRec(steps) /\ c.pc = run[r].pc /\ c.pos = run[r].pos
        /\ c.mseen = run[r].mseen /\ c.mdirty = run[r].mdirty
        /\ c.wseen = run[r].wseen /\ c.wdirty = run[r].wdirty /\ c.cseen = run[r].cseen
        /\ c.rseen = run[r].rseen
    BY <1>0, <1>2, Zenon DEF RunRec
  <1> HIDE DEF c
  <1>4. CopyOK(steps, c)
    BY <1>0, <1>1, <1>3 DEF CopyOK
  <1>5. Proceeds(steps, c, executed, waitRaised)
    BY <1>0, <1>1, <1>3 DEF Proceeds
  <1> QED BY <1>0, <1>1, <1>3, <1>4, <1>5, QuietStep

LEMMA StepDoneStep ==
  ASSUME CustomInv, NEW r \in Runs, StepDone(r)
  PROVE  CustomInv'
  <1> DEFINE d == SeeCkpt(run[r], Current(r).name)
             c == [d EXCEPT !.pc = "step", !.pos = run[r].pos + 1]
  <1>0. /\ steps \in StepLists /\ Len(steps) \in Nat
        /\ run[r] \in RunRec(steps) /\ CopyOK(steps, run[r])
        /\ Proceeds(steps, run[r], executed, waitRaised)
        /\ (run[r].pc # "idle" => status # NoState) /\ RowTypes
    BY Before
  <1>1. /\ run[r].pc = "work" /\ Set(r, c)
        /\ executed' = executed \cup {run[r].pos}
        /\ UNCHANGED <<rowVars, mlock, wlock, waitRaised, crashes>>
    BY DEF StepDone, At
  <1>2. run[r].pos \in 1..Len(steps)
    BY <1>0, <1>1 DEF CopyOK, RunRec
  <1>3. Current(r).name \in Names(steps)
    BY <1>2 DEF Current, Names
  <1>4. /\ d \in RunRec(steps) /\ d.pos = run[r].pos
        /\ d.mseen = run[r].mseen /\ d.mdirty = run[r].mdirty
        /\ d.wseen = run[r].wseen /\ d.wdirty = run[r].wdirty
        /\ d.cseen = steps[run[r].pos].name
    BY <1>0, <1>3, SeeCkptIs DEF Current
  <1> HIDE DEF d
  <1>5. run[r].pos + 1 \in 1..Len(steps) + 1
    BY <1>0, <1>2
  <1>6. /\ c \in RunRec(steps) /\ c.pc = "step" /\ c.pos = run[r].pos + 1
        /\ c.mseen = run[r].mseen /\ c.mdirty = run[r].mdirty
        /\ c.wseen = run[r].wseen /\ c.wdirty = run[r].wdirty
        /\ c.cseen = steps[run[r].pos].name
    BY <1>4, <1>5 DEF RunRec, PCs
  <1> HIDE DEF c
  <1>7. CopyOK(steps, c)
    <2>1. c.wdirty \/ c.wseen # "completed" \/ c.pos = 1
      BY <1>0, <1>1, <1>6 DEF CopyOK, RunRec
    <2> QED BY <1>0, <1>1, <1>6, <2>1 DEF CopyOK
  <1>8. Proceeds(steps, c, executed', waitRaised')
    <2>1. /\ FirstNamed(steps, c.cseen) <= run[r].pos
          /\ FirstNamed(steps, c.cseen) \in 1..Len(steps) + 1
      BY <1>0, <1>2, <1>6, FirstNamedIs
    <2>2. ~waitRaised => 1..run[r].pos - 1 \subseteq executed
      BY <1>0, <1>1 DEF Proceeds
    <2>3. ~waitRaised => 1..run[r].pos \subseteq executed'
      BY <1>0, <1>1, <1>2, <2>2
    <2>4. (run[r].pos + 1) - 1 = run[r].pos
      BY <1>2
    <2>5. 1..FirstNamed(steps, c.cseen) - 1 \subseteq 1..run[r].pos
      BY <1>0, <1>2, <2>1
    <2> QED BY <1>1, <1>6, <2>3, <2>4, <2>5 DEF Proceeds
  <1>9. RowTypes'
    <2>1. executed \subseteq executed' /\ executed' \subseteq 1..Len(steps)
      BY <1>0, <1>1, <1>2 DEF RowTypes
    <2>2. UNCHANGED <<steps, status, ckpt, waitRaised>>
      BY <1>1 DEF rowVars
    <2>3. NothingLost(steps', status', ckpt', executed', waitRaised')
      <3>1. executed = 1..Len(steps) => executed' = 1..Len(steps)
        BY <2>1
      <3>2. NothingLost(steps, status, ckpt, executed, waitRaised)
        BY <1>0 DEF RowTypes
      <3>3. NothingLost(steps, status, ckpt, executed', waitRaised)
        BY <2>1, <3>1, <3>2 DEF NothingLost
      <3> QED BY <2>2, <3>3
    <2> QED BY <1>0, <1>1, <2>1, <2>3 DEF RowTypes, rowVars
  <1>10. mlock' \in Runs \cup {NoRun} /\ wlock' \in Runs \cup {NoRun}
    BY <1>1 DEF CustomInv
  <1>11. /\ steps' = steps /\ status' = status /\ crashes' = crashes
         /\ executed \subseteq executed' /\ (waitRaised => waitRaised')
         /\ status # NoState
    BY <1>0, <1>1 DEF rowVars
  <1> QED BY <1>0, <1>1, <1>6, <1>7, <1>8, <1>9, <1>10, <1>11, OneRunSteps

LEMMA StepRaisesStep ==
  ASSUME CustomInv, NEW r \in Runs, StepRaises(r)
  PROVE  CustomInv'
  <1> DEFINE c == AtPc(run[r], "fail")
  <1>0. /\ steps \in StepLists /\ Len(steps) \in Nat
        /\ run[r] \in RunRec(steps) /\ CopyOK(steps, run[r])
        /\ Proceeds(steps, run[r], executed, waitRaised)
        /\ (run[r].pc # "idle" => status # NoState) /\ RowTypes
    BY Before
  <1>1. /\ run[r].pc = "work" /\ Set(r, c)
        /\ executed' = executed \/ executed' = executed \cup {run[r].pos}
        /\ waitRaised' = (waitRaised \/ Current(r).type = "wait")
        /\ UNCHANGED <<rowVars, mlock, wlock, crashes>>
    BY DEF StepRaises, At, Goto, AtPc
  <1>2. run[r].pos \in 1..Len(steps)
    BY <1>0, <1>1 DEF CopyOK, RunRec
  <1>3. c \in RunRec(steps) /\ c.pc = "fail" /\ c.cseen = run[r].cseen
    BY <1>0, GotoIs DEF PCs
  <1> HIDE DEF c
  <1>4. CopyOK(steps, c)
    BY <1>3 DEF CopyOK
  <1>5. executed \subseteq executed' /\ executed' \subseteq 1..Len(steps)
    BY <1>0, <1>1, <1>2 DEF RowTypes
  <1>6. Proceeds(steps, c, executed', waitRaised')
    BY <1>0, <1>1, <1>3, <1>5 DEF Proceeds, Current
  <1>7. RowTypes'
    <2>1. waitRaised' \in BOOLEAN /\ (waitRaised => waitRaised')
      BY <1>0, <1>1 DEF RowTypes
    <2>2. NothingLost(steps', status', ckpt', executed', waitRaised')
      BY <1>0, <1>1, <1>5, <2>1 DEF RowTypes, NothingLost, rowVars
    <2> QED BY <1>0, <1>1, <1>5, <2>1, <2>2 DEF RowTypes, rowVars
  <1>8. mlock' \in Runs \cup {NoRun} /\ wlock' \in Runs \cup {NoRun}
    BY <1>1 DEF CustomInv
  <1>9. /\ steps' = steps /\ status' = status /\ crashes' = crashes
        /\ (waitRaised => waitRaised')
    BY <1>1 DEF rowVars
  <1> QED BY <1>0, <1>1, <1>3, <1>4, <1>5, <1>6, <1>7, <1>8, <1>9, OneRunSteps

LEMMA FinishStep ==
  ASSUME CustomInv, NEW r \in Runs, Finish(r)
  PROVE  CustomInv'
  <1>0. /\ steps \in StepLists /\ Len(steps) \in Nat /\ N = Len(steps)
        /\ run[r] \in RunRec(steps) /\ CopyOK(steps, run[r])
        /\ Proceeds(steps, run[r], executed, waitRaised)
        /\ (run[r].pc # "idle" => status # NoState)
    BY Before
  <1>1. /\ run[r].pc = "step" /\ run[r].pos > Len(steps)
        /\ UNCHANGED <<rowVars, wlock, executed, waitRaised, crashes>>
    BY <1>0 DEF Finish, At
  <1>2. run[r].pos = Len(steps) + 1
    BY <1>0, <1>1 DEF RunRec
  <1>3. \/ Final = NoState /\ Set(r, AtPc(run[r], "finish")) /\ UNCHANGED mlock
        \/ /\ Final # NoState /\ CanMove(run[r].mseen, Final) /\ LockMachine(r)
           /\ \E pc \in {"finish", "fail"} : Set(r, AtPc(SeeState(run[r], Final), pc))
        \/ Set(r, AtPc(run[r], "fail")) /\ UNCHANGED mlock
    BY DEF Finish, Goto, AtPc
  <1>4. ASSUME NEW c \in RunRec(steps), Set(r, c), CopyOK(steps, c),
               c.pos = run[r].pos, c.cseen = run[r].cseen, c.pc \in {"finish", "fail"},
               UNCHANGED mlock \/ LockMachine(r)
        PROVE  CustomInv'
    <2>1. Proceeds(steps, c, executed, waitRaised)
      BY <1>0, <1>1, <1>4 DEF Proceeds
    <2> QED BY <1>0, <1>1, <1>4, <2>1, QuietStep
  <1>5. CASE Final = NoState /\ Set(r, AtPc(run[r], "finish")) /\ UNCHANGED mlock
    <2> DEFINE c == AtPc(run[r], "finish")
    <2>1. /\ c \in RunRec(steps) /\ c.pc = "finish" /\ c.pos = run[r].pos
          /\ c.mseen = run[r].mseen /\ c.mdirty = run[r].mdirty /\ c.cseen = run[r].cseen
          /\ c.wseen = run[r].wseen /\ c.wdirty = run[r].wdirty
      BY <1>0, GotoIs DEF PCs
    <2> HIDE DEF c
    <2>2. CopyOK(steps, c)
      BY <1>0, <1>1, <1>2, <1>5, <2>1 DEF CopyOK, Settled
    <2>3. Set(r, c)
      BY <1>5 DEF c
    <2> QED BY <1>4, <1>5, <2>1, <2>2, <2>3
  <1>6. ASSUME Final # NoState, CanMove(run[r].mseen, Final), LockMachine(r),
               NEW pc \in {"finish", "fail"}, Set(r, AtPc(SeeState(run[r], Final), pc))
        PROVE  CustomInv'
    <2> DEFINE d == SeeState(run[r], Final)
               c == AtPc(d, pc)
    <2>1. /\ d \in RunRec(steps) /\ d.pos = run[r].pos
          /\ d.mseen = Final /\ d.mdirty = (run[r].mdirty \/ Final # run[r].mseen)
          /\ d.wseen = run[r].wseen /\ d.wdirty = run[r].wdirty /\ d.cseen = run[r].cseen
      BY <1>0, SeeStateIs
    <2>2. run[r].mseen # Final
      <3>1. run[r].mseen \in MachineStates \cup {NoState} /\ Final \in MachineStates
        BY <1>0, <1>6 DEF RunRec
      <3> QED BY <1>6, <3>1, NoMoveToSelf
    <2> HIDE DEF d
    <2>3. /\ c \in RunRec(steps) /\ c.pc = pc /\ c.pos = d.pos
          /\ c.mseen = d.mseen /\ c.mdirty = d.mdirty /\ c.cseen = d.cseen
          /\ c.wseen = d.wseen /\ c.wdirty = d.wdirty
      BY <1>6, <2>1, GotoIs DEF PCs
    <2>4. Set(r, c)
      BY <1>6 DEF d
    <2> HIDE DEF c
    <2>5. CopyOK(steps, c)
      BY <1>0, <1>1, <1>2, <1>6, <2>1, <2>2, <2>3 DEF CopyOK, Settled
    <2> QED BY <1>4, <1>6, <2>1, <2>3, <2>4, <2>5
  <1>7. CASE Set(r, AtPc(run[r], "fail")) /\ UNCHANGED mlock
    <2> DEFINE c == AtPc(run[r], "fail")
    <2>1. c \in RunRec(steps) /\ c.pc = "fail" /\ c.pos = run[r].pos /\ c.cseen = run[r].cseen
      BY <1>0, GotoIs DEF PCs
    <2> HIDE DEF c
    <2>2. CopyOK(steps, c)
      BY <2>1 DEF CopyOK
    <2>3. Set(r, c)
      BY <1>7 DEF c
    <2> QED BY <1>4, <1>7, <2>1, <2>2, <2>3
  <1> QED BY <1>3, <1>5, <1>6, <1>7

(* "complete" names no step, or one of that name: all is carried out.       *)
LEMMA CompleteStep ==
  ASSUME CustomInv, NEW r \in Runs, Complete(r)
  PROVE  CustomInv'
  <1> DEFINE b == SeeStatus(run[r], "completed")
             d == SeeCkpt(b, "complete")
  <1>0. /\ steps \in StepLists /\ Len(steps) \in Nat
        /\ run[r] \in RunRec(steps) /\ CopyOK(steps, run[r])
        /\ Proceeds(steps, run[r], executed, waitRaised)
        /\ (run[r].pc # "idle" => status # NoState)
    BY Before
  <1>1. /\ run[r].pc = "finish" /\ LockMachine(r) /\ LockWorkflow(r)
        /\ UNCHANGED <<rowVars, executed, waitRaised, crashes>>
    BY DEF Complete, At
  <1>2. PICK pc \in {"commit", "fail"} : Set(r, AtPc(d, pc))
    BY DEF Complete, AtPc
  <1>3. /\ b \in RunRec(steps) /\ b.pos = run[r].pos
        /\ b.mseen = run[r].mseen /\ b.mdirty = run[r].mdirty /\ b.wseen = "completed"
        /\ b.wdirty = (run[r].wdirty \/ "completed" # run[r].wseen)
    BY <1>0, SeeStatusIs DEF Committed
  <1> HIDE DEF b
  <1>4. /\ d \in RunRec(steps) /\ d.pos = run[r].pos
        /\ d.mseen = run[r].mseen /\ d.mdirty = run[r].mdirty /\ d.wseen = "completed"
        /\ d.wdirty = (run[r].wdirty \/ "completed" # run[r].wseen)
        /\ d.cseen = "complete"
    BY <1>3, SeeCkptIs DEF Names
  <1> HIDE DEF d
  <1> DEFINE c == AtPc(d, pc)
  <1>5. /\ c \in RunRec(steps) /\ c.pc = pc /\ c.pos = run[r].pos
        /\ c.mseen = run[r].mseen /\ c.mdirty = run[r].mdirty /\ c.wseen = "completed"
        /\ c.wdirty = (run[r].wdirty \/ "completed" # run[r].wseen)
        /\ c.cseen = "complete"
    BY <1>2, <1>4, GotoIs DEF PCs
  <1>6. Set(r, c)
    BY <1>2
  <1> HIDE DEF c
  <1>7. run[r].pos = Len(steps) + 1
    BY <1>0, <1>1 DEF CopyOK
  <1>8. CopyOK(steps, c)
    <2>1. Len(steps) > 0 => c.wdirty
      <3>1. run[r].wdirty \/ run[r].wseen # "completed" \/ run[r].pos = 1
        BY <1>0, <1>1 DEF CopyOK
      <3>2. Len(steps) > 0 => run[r].pos # 1
        BY <1>0, <1>7
      <3> QED BY <1>5, <3>1, <3>2
    <2> QED BY <1>0, <1>1, <1>2, <1>5, <2>1 DEF CopyOK
  <1>9. Proceeds(steps, c, executed, waitRaised)
    <2>1. FirstNamed(steps, "complete") \in 1..Len(steps) + 1
      BY <1>0, FirstNamedIs
    <2>2. 1..FirstNamed(steps, "complete") - 1 \subseteq 1..run[r].pos - 1
      BY <1>0, <1>7, <2>1
    <2>3. ~waitRaised => 1..run[r].pos - 1 \subseteq executed
      BY <1>0, <1>1 DEF Proceeds
    <2> QED BY <1>2, <1>5, <2>2, <2>3 DEF Proceeds
  <1> QED BY <1>0, <1>1, <1>5, <1>6, <1>8, <1>9, QuietStep

LEMMA FailMachineStep ==
  ASSUME CustomInv, NEW r \in Runs, FailMachine(r)
  PROVE  CustomInv'
  <1> DEFINE d == SeeState(run[r], "error")
             c == AtPc(d, "fail_wf")
  <1>0. /\ run[r] \in RunRec(steps)
        /\ Proceeds(steps, run[r], executed, waitRaised)
        /\ (run[r].pc # "idle" => status # NoState)
    BY Before
  <1>1. /\ run[r].pc = "fail" /\ Set(r, c) /\ (UNCHANGED mlock \/ LockMachine(r))
        /\ UNCHANGED <<rowVars, wlock, executed, waitRaised, crashes>>
    BY DEF FailMachine, At, AtPc
  <1>2. d \in RunRec(steps) /\ d.mseen = "error" /\ d.cseen = run[r].cseen
    BY <1>0, SeeStateIs DEF MachineStates
  <1> HIDE DEF d
  <1>3. c \in RunRec(steps) /\ c.pc = "fail_wf" /\ c.mseen = "error" /\ c.cseen = run[r].cseen
    BY <1>2, GotoIs DEF PCs
  <1> HIDE DEF c
  <1>4. CopyOK(steps, c)
    BY <1>3 DEF CopyOK
  <1>5. Proceeds(steps, c, executed, waitRaised)
    BY <1>0, <1>1, <1>3 DEF Proceeds
  <1> QED BY <1>0, <1>1, <1>3, <1>4, <1>5, QuietStep

(* The end of a run: what its copy says reaches the rows.                   *)
LEMMA CommitCopyStep ==
  ASSUME CustomInv, NEW r \in Runs, NEW c \in RunRec(steps), CommitCopy(r, c),
         run[r].pc # "idle",
         c.mdirty => c.mseen \in MachineStates,
         c.wseen \in {"completed", "failed"},
         c.wseen = "completed" /\ ~waitRaised => executed = 1..Len(steps),
         c.cseen # NoState /\ ~waitRaised =>
           1..FirstNamed(steps, c.cseen) - 1 \subseteq executed
  PROVE  CustomInv'
  <1>0. /\ steps \in StepLists /\ (run[r].pc # "idle" => status # NoState) /\ RowTypes
    BY Before
  <1>1. /\ Set(r, Idle) /\ UNCHANGED <<steps, retries, executed, waitRaised, crashes>>
        /\ state' = IF c.mdirty THEN c.mseen ELSE state
        /\ status' = IF c.wdirty THEN c.wseen ELSE status
        /\ ckpt' = IF c.cdirty THEN c.cseen ELSE ckpt
    BY DEF CommitCopy
  <1>2. mlock' \in Runs \cup {NoRun} /\ wlock' \in Runs \cup {NoRun}
    BY DEF CommitCopy, Unlocked, CustomInv
  <1>3. status' \in Committed /\ status' # NoState
    BY <1>0, <1>1 DEF RowTypes, Committed, NoState
  <1>4. state' \in MachineStates /\ ckpt' \in Names(steps)
    BY <1>0, <1>1 DEF RowTypes, RunRec
  <1>5. NothingLost(steps', status', ckpt', executed', waitRaised')
    <2>1. status' = "completed" /\ ~waitRaised => executed = 1..Len(steps)
      BY <1>0, <1>1 DEF RowTypes, NothingLost
    <2>2. ckpt' # NoState /\ ~waitRaised => 1..FirstNamed(steps, ckpt') - 1 \subseteq executed
      <3>1. CASE c.cdirty
        BY <1>1, <3>1
      <3>2. CASE ~c.cdirty
        BY <1>0, <1>1, <3>2 DEF RowTypes, NothingLost
      <3> QED BY <3>1, <3>2
    <2> QED BY <1>1, <2>1, <2>2 DEF NothingLost
  <1>6. RowTypes'
    BY <1>0, <1>1, <1>3, <1>4, <1>5 DEF RowTypes
  <1>7. /\ Idle \in RunRec(steps) /\ CopyOK(steps, Idle)
        /\ Proceeds(steps, Idle, executed', waitRaised') /\ Idle.pc = "idle"
    BY <1>0, IdleIs
  <1> QED BY <1>1, <1>2, <1>3, <1>6, <1>7, OneRunSteps

LEMMA EndSteps ==
  ASSUME CustomInv, NEW r \in Runs, Commit(r) \/ FailWorkflow(r)
  PROVE  CustomInv'
  <1>0. /\ steps \in StepLists /\ Len(steps) \in Nat
        /\ run[r] \in RunRec(steps) /\ CopyOK(steps, run[r])
        /\ Proceeds(steps, run[r], executed, waitRaised) /\ RowTypes
    BY Before
  <1>1. CASE Commit(r)
    <2>1. run[r].pc = "commit" /\ CommitCopy(r, run[r])
      BY <1>1 DEF Commit, At
    <2>2. /\ run[r].wseen = "completed" /\ run[r].pos = Len(steps) + 1
          /\ run[r].mdirty => run[r].mseen = Settled /\ Settled # NoState
      BY <1>0, <2>1 DEF CopyOK
    <2>3. run[r].mdirty => run[r].mseen \in MachineStates
      BY <2>2 DEF Settled
    <2>4. ~waitRaised => executed = 1..Len(steps)
      <3>1. ~waitRaised => 1..run[r].pos - 1 \subseteq executed
        BY <1>0, <2>1 DEF Proceeds
      <3>2. run[r].pos - 1 = Len(steps)
        BY <1>0, <2>2
      <3> QED BY <1>0, <3>1, <3>2 DEF RowTypes
    <2>5. run[r].cseen # NoState /\ ~waitRaised =>
            1..FirstNamed(steps, run[r].cseen) - 1 \subseteq executed
      BY <1>0, <2>1 DEF Proceeds
    <2> QED BY <1>0, <2>1, <2>2, <2>3, <2>4, <2>5, CommitCopyStep
  <1>2. CASE FailWorkflow(r)
    <2> DEFINE c == SeeStatus(run[r], "failed")
    <2>1. run[r].pc = "fail_wf" /\ CommitCopy(r, c)
      BY <1>2 DEF FailWorkflow, At
    <2>2. /\ c \in RunRec(steps) /\ c.wseen = "failed" /\ c.mseen = run[r].mseen
          /\ c.cseen = run[r].cseen
      BY <1>0, SeeStatusIs DEF Committed
    <2> HIDE DEF c
    <2>3. c.mseen \in MachineStates
      BY <1>0, <2>1, <2>2 DEF CopyOK, MachineStates
    <2>4. c.cseen # NoState /\ ~waitRaised =>
            1..FirstNamed(steps, c.cseen) - 1 \subseteq executed
      BY <1>0, <2>1, <2>2 DEF Proceeds
    <2> QED BY <2>1, <2>2, <2>3, <2>4, CommitCopyStep
  <1> QED BY <1>1, <1>2

(* A wait inside a flush moves nothing but a lock; the victim of a deadlock *)
(* forgets its copies.                                                      *)
LEMMA LockConflictSteps ==
  ASSUME CustomInv, NEW r \in Runs, CompleteWaits(r) \/ DeadlockAborts(r)
  PROVE  CustomInv'
  <1>0. steps \in StepLists /\ RowTypes
    BY Before
  <1>1. UNCHANGED <<rowVars, executed, waitRaised, crashes>>
    BY DEF CompleteWaits, DeadlockAborts
  <1>2. RowTypes'
    BY <1>0, <1>1 DEF RowTypes, rowVars
  <1>3. mlock' \in Runs \cup {NoRun} /\ wlock' \in Runs \cup {NoRun}
    BY DEF CompleteWaits, DeadlockAborts, Unlocked, CustomInv
  <1>4. CASE CompleteWaits(r)
    <2>1. run' = run
      BY <1>4 DEF CompleteWaits
    <2> QED BY <1>1, <1>2, <1>3, <2>1 DEF CustomInv, rowVars
  <1>5. CASE DeadlockAborts(r)
    <2>1. Set(r, Idle)
      BY <1>5 DEF DeadlockAborts
    <2>2. /\ Idle \in RunRec(steps) /\ CopyOK(steps, Idle) /\ Idle.pc = "idle"
          /\ Proceeds(steps, Idle, executed', waitRaised')
      BY <1>0, IdleIs
    <2> QED BY <1>1, <1>2, <1>3, <2>1, <2>2, OneRunSteps DEF rowVars
  <1> QED BY <1>4, <1>5

(* A crash forgets the runs, and nothing that was carried out.              *)
LEMMA CrashStep ==
  ASSUME CustomInv, Crash
  PROVE  CustomInv'
  <1>0. steps \in StepLists /\ RowTypes /\ crashes \in 0..MaxCrashes
    BY DEF CustomInv, RowTypes
  <1>1. /\ run' = [r \in Runs |-> Idle] /\ mlock' = NoRun /\ wlock' = NoRun
        /\ crashes < MaxCrashes /\ crashes' = crashes + 1
        /\ UNCHANGED <<steps, state, status, retries, ckpt, executed, waitRaised>>
    BY DEF Crash, rowVars
  <1>2. RowTypes'
    BY <1>0, <1>1 DEF RowTypes
  <1>3. Idle \in RunRec(steps) /\ CopyOK(steps, Idle) /\ Idle.pc = "idle"
        /\ Proceeds(steps, Idle, executed, waitRaised)
    BY <1>0, IdleIs
  <1>4. run' \in [Runs -> RunRec(steps')]
    BY <1>1, <1>3
  <1>5. ASSUME NEW r \in Runs
        PROVE  /\ CopyOK(steps', run'[r])
               /\ Proceeds(steps', run'[r], executed', waitRaised')
               /\ run'[r].pc # "idle" => status' # NoState
    <2>1. run'[r] = Idle
      BY <1>1
    <2> QED BY <1>1, <1>3, <2>1
  <1>6. crashes' \in 0..MaxCrashes
    BY <1>0, <1>1
  <1> QED BY <1>1, <1>2, <1>4, <1>5, <1>6 DEF CustomInv

LEMMA NextCustom == CustomInv /\ [CustomNext]_customVars => CustomInv'
  <1> SUFFICES ASSUME CustomInv, [CustomNext]_customVars PROVE CustomInv'
    OBVIOUS
  <1>1. ASSUME NEW r \in Runs, CreateWorkflow(r) \/ ResumeLoad(r) PROVE CustomInv'
    BY <1>1, RequestSteps
  <1>2. ASSUME NEW r \in Runs, Work(r) PROVE CustomInv'
    BY <1>2, ResumeSteps, LoadMachineStep, LoadWorkflowStep, BeginStep, RecordStepStep,
       UnknownStepStep, CallDoneStep, StepDoneStep, StepRaisesStep, FinishStep,
       CompleteStep, FailMachineStep, EndSteps, LockConflictSteps DEF Work
  <1>3. CASE UNCHANGED customVars
    BY <1>3 DEF customVars, CustomInv, RowTypes
  <1> QED BY <1>1, <1>2, <1>3, CrashStep DEF CustomNext

LEMMA CustomInvHolds == CustomSpec => []CustomInv
  BY InitCustom, NextCustom, PTL DEF CustomSpec

-----------------------------------------------------------------------------
(* Theorems                                                                 *)

LEMMA CustomTypes == CustomInv => CustomTypeOK
  <1> SUFFICES ASSUME CustomInv PROVE CustomTypeOK
    OBVIOUS
  <1>1. ASSUME NEW r \in Runs
        PROVE  run[r].pos \in 1..N + 1 /\ run[r].rseen \in 0..MaxRetries
    BY DEF CustomInv, RunRec, N
  <1>2. ckpt \in {NoState, "complete", "wait_10s"} \cup {steps[i].name : i \in 1..N}
    BY DEF CustomInv, RowTypes, Names, N
  <1>3. {mlock, wlock} \subseteq Runs \cup {NoRun}
    BY DEF CustomInv
  <1> QED BY <1>1, <1>2, <1>3 DEF CustomTypeOK, CustomInv, RowTypes, Committed, N

(* The rows, the locks and every run's copies keep their types, and nothing *)
(* intermediate is ever committed.                                          *)
THEOREM CustomTypesHold == CustomSpec => []CustomTypeOK
  BY CustomInvHolds, CustomTypes, PTL

LEMMA LosesNothing == CustomInv => NoStepLost
  BY ResumeAtIs DEF CustomInv, RowTypes, NothingLost, NoStepLost, N

(* Whatever the list of steps, however often a workflow fails, is resumed   *)
(* by racing requests or loses its run to a crash: unless a wait step was   *)
(* what failed, a completed workflow has carried out every step, and a      *)
(* resume from the committed checkpoint skips none that was not.            *)
THEOREM CheckpointsLoseNothing == CustomSpec => []NoStepLost
  BY CustomInvHolds, LosesNothing, PTL

-----------------------------------------------------------------------------
(* The order of the row locks                                               *)

(* With a target state, a run that is past its first transition holds the   *)
(* machine's row until it ends, and no run has the workflow's without it.   *)
LockOrder ==
  /\ run \in [Runs -> RunRec(steps)]
  /\ \A r \in Runs :
       /\ wlock = r => mlock = r
       /\ run[r].pc \in {"step", "work", "finish", "commit"} => mlock = r

(* It is enough that a step of r does not take the machine's row from       *)
(* another run, and leaves r itself in order.                               *)
LEMMA OrderKept ==
  ASSUME LockOrder, CustomInv', NEW r \in Runs, NEW c, Set(r, c),
         mlock' = mlock \/ mlock \in {r, NoRun},
         wlock' = wlock \/ wlock' \in {r, NoRun},
         wlock' = r => mlock' = r,
         c.pc \in {"step", "work", "finish", "commit"} => mlock' = r
  PROVE  LockOrder'
  <1>1. run' \in [Runs -> RunRec(steps')]
    BY DEF CustomInv
  <1>2. \A q \in Runs : run'[q] = IF q = r THEN c ELSE run[q]
    BY DEF LockOrder, Set
  <1>3. ASSUME NEW q \in Runs
        PROVE  /\ wlock' = q => mlock' = q
               /\ run'[q].pc \in {"step", "work", "finish", "commit"} => mlock' = q
    BY <1>2 DEF LockOrder
  <1> QED BY <1>1, <1>3 DEF LockOrder

LEMMA OrderStep ==
  ASSUME Target # NoState, CustomInv, CustomInv', LockOrder, [CustomNext]_customVars
  PROVE  LockOrder'
  <1>0. CASE UNCHANGED customVars
    BY <1>0 DEF customVars, LockOrder
  <1>1. CASE Crash
    BY <1>1 DEF Crash, LockOrder, CustomInv, Idle
  <1>2. ASSUME NEW r \in Runs, CreateWorkflow(r) \/ ResumeLoad(r) \/ Work(r)
        PROVE  LockOrder'
    <2>0. /\ run[r] \in RunRec(steps) /\ Idle.pc = "idle"
          /\ wlock = r => mlock = r
          /\ run[r].pc \in {"step", "work", "finish", "commit"} => mlock = r
      BY DEF LockOrder, Idle
    <2>1. CASE CompleteWaits(r)
      BY <2>0, <2>1 DEF CompleteWaits, At
    <2>2. CASE \/ CreateWorkflow(r) \/ ResumeLoad(r) \/ ResumeClaim(r) \/ ResumeReads(r)
               \/ ResumeClears(r) \/ LoadMachine(r)
      <3>1. PICK c : Set(r, c) /\ c.pc \in {"load", "claim", "claimed", "clear", "load_wf"}
        <4>1. ASSUME NEW pc PROVE [run[r] EXCEPT !.pc = pc].pc = pc
          BY <2>0 DEF RunRec
        <4>2. /\ [Idle EXCEPT !.pc = "claim", !.rseen = retries].pc = "claim"
              /\ \A pc : [Idle EXCEPT !.pc = pc].pc = pc
              /\ [run[r] EXCEPT !.pc = "load_wf", !.mseen = state].pc = "load_wf"
          BY <2>0 DEF Idle, RunRec
        <4>3. CASE CreateWorkflow(r)
          BY <4>1, <4>3 DEF CreateWorkflow, Goto
        <4>4. CASE ResumeClaim(r)
          BY <4>1, <4>4 DEF ResumeClaim, Goto
        <4>5. CASE ResumeLoad(r)
          BY <4>2, <4>5 DEF ResumeLoad
        <4>6. CASE ResumeReads(r) \/ ResumeClears(r)
          BY <4>2, <4>6 DEF ResumeReads, ResumeClears
        <4>7. CASE LoadMachine(r)
          BY <4>2, <4>7 DEF LoadMachine
        <4> QED BY <2>2, <4>3, <4>4, <4>5, <4>6, <4>7
      <3>2. UNCHANGED <<mlock, wlock>>
        BY <2>2 DEF CreateWorkflow, ResumeLoad, ResumeClaim, ResumeReads, ResumeClears, LoadMachine, OnlyRuns
      <3> QED BY <2>0, <3>1, <3>2, OrderKept
    <2>3. CASE LoadWorkflow(r)
      <3>1. UNCHANGED <<mlock, wlock>>
        BY <2>3 DEF LoadWorkflow, OnlyRuns
      <3>2. PICK c : Set(r, c) /\ c.pc \in {"begin", "fail"}
        <4> DEFINE c == [run[r] EXCEPT !.wseen = status, !.cseen = ckpt,
                                       !.pos = StartAt(status, ckpt)]
        <4>1. [SeeState(c, Target) EXCEPT !.pc = "begin"].pc = "begin"
          BY <2>0 DEF RunRec, SeeState
        <4>2. [c EXCEPT !.pc = "fail"].pc = "fail"
          BY <2>0 DEF RunRec
        <4>3. \/ Set(r, [SeeState(c, Target) EXCEPT !.pc = "begin"])
              \/ Set(r, [c EXCEPT !.pc = "fail"])
          BY <2>3 DEF LoadWorkflow
        <4> QED BY <4>1, <4>2, <4>3
      <3> QED BY <2>0, <3>1, <3>2, OrderKept
    <2>4. CASE \/ Begin(r) \/ RecordStep(r) \/ UnknownStep(r) \/ CallDone(r) \/ StepDone(r)
               \/ StepRaises(r) \/ Finish(r) \/ Complete(r) \/ FailMachine(r)
      <3>1. \E c : Set(r, c)
        BY <2>4 DEF Begin, RecordStep, UnknownStep, CallDone, StepDone, StepRaises, Finish,
           Complete, FailMachine, Goto
      <3>2. /\ mlock' = mlock \/ LockMachine(r)
            /\ wlock' = wlock \/ LockWorkflow(r)
        BY <2>4 DEF Begin, RecordStep, UnknownStep, CallDone, StepDone, StepRaises, Finish,
           Complete, FailMachine, OnlyRuns
      <3>3. CASE FailMachine(r)
        <4>1. Set(r, [SeeState(run[r], "error") EXCEPT !.pc = "fail_wf"]) /\ wlock' = wlock
          BY <3>3 DEF FailMachine
        <4>2. [SeeState(run[r], "error") EXCEPT !.pc = "fail_wf"].pc = "fail_wf"
          BY <2>0 DEF RunRec, SeeState
        <4> QED BY <2>0, <3>2, <4>1, <4>2, OrderKept DEF LockMachine
      <3>4. CASE ~FailMachine(r)
        <4>1. mlock' = r
          BY <2>0, <2>4, <3>2, <3>4 DEF Begin, RecordStep, UnknownStep, CallDone, StepDone,
             StepRaises, Finish, Complete, LockMachine, OnlyRuns, At, Turn
        <4> QED BY <2>0, <3>1, <3>2, <4>1, OrderKept DEF LockMachine, LockWorkflow
      <3> QED BY <3>3, <3>4
    <2>5. CASE Commit(r) \/ FailWorkflow(r) \/ DeadlockAborts(r)
      <3>1. Set(r, Idle) /\ mlock' = Unlocked(mlock, r) /\ wlock' = Unlocked(wlock, r)
        BY <2>5 DEF Commit, FailWorkflow, DeadlockAborts, CommitCopy
      <3>2. wlock' # r
        BY <3>1 DEF Unlocked
      <3> QED BY <2>0, <3>1, <3>2, OrderKept DEF Unlocked
    <2> QED BY <1>2, <2>1, <2>2, <2>3, <2>4, <2>5 DEF Work
  <1> QED BY <1>0, <1>1, <1>2 DEF CustomNext

(* Whatever steps the runs are resumed at, and wherever they fail, no two   *)
(* of a workflow that has a target state wait for each other's rows. One    *)
(* that has none may: a resumed run that skips its steps takes the          *)
(* machine's row first, one that executes them the workflow's.              *)
THEOREM TargetOrdersLocks == Target # NoState => (CustomSpec => []NoCircularWait)
  <1> SUFFICES ASSUME Target # NoState PROVE CustomSpec => []NoCircularWait
    OBVIOUS
  <1>1. CustomInit /\ CustomInv => LockOrder
    BY DEF CustomInit, CustomInv, LockOrder, Idle
  <1>2. CustomInv /\ CustomInv' /\ LockOrder /\ [CustomNext]_customVars => LockOrder'
    BY OrderStep
  <1>3. LockOrder => NoCircularWait
    BY DEF LockOrder, NoCircularWait, Circle, WaitsForMachine
  <1> QED BY <1>1, <1>2, <1>3, CustomInvHolds, PTL DEF CustomSpec

-----------------------------------------------------------------------------
(* The refinement: each of the store's actions on its one workflow          *)

LEMMA StoreCreates ==
  ASSUME status = NoState, status' = "pending", state # NoState,
         state' = state, retries' = retries
  PROVE  Store!StoreNext
  <1>1. "pending" # NoState
    BY DEF NoState
  <1>2. Store!Create(TheWorkflow, "custom")
    BY <1>1 DEF Store!Create, Store!NewWorkflow, Store!NoState, NoState
  <1> QED BY <1>2 DEF Store!StoreNext

LEMMA StoreClaims ==
  ASSUME status \in Committed \ {NoState}, status' = "resuming",
         NEW n \in 1..MaxRetries, retries' = n, state' = state
  PROVE  Store!StoreNext
  <1>1. status # NoState /\ status' # NoState
    BY DEF NoState
  <1>2. Store!Claim(TheWorkflow)
    BY <1>1 DEF Store!Claim, Store!Statuses, Store!NoState, NoState, Committed
  <1> QED BY <1>2 DEF Store!StoreNext

LEMMA StoreCompletes ==
  ASSUME status \in Committed \ {NoState}, status' = "completed", retries' = retries,
         state' = IF Settled = NoState THEN state ELSE Settled
  PROVE  Store!StoreNext
  <1>1. status # NoState /\ status' # NoState
    BY DEF NoState
  <1>2. Store!Outcome("custom") = Settled
    BY DEF Store!Outcome, Store!FinalState, Store!TargetState, Settled, Store!NoState, NoState
  <1>3. Store!Complete(TheWorkflow)
    BY <1>1, <1>2 DEF Store!Complete, Store!Statuses, Store!NoState, NoState, Committed
  <1> QED BY <1>3 DEF Store!StoreNext

LEMMA StoreFails ==
  ASSUME status \in Committed \ {NoState}, status' \in {status, "failed"},
         state' \in {state, "error"}, retries' = retries
  PROVE  Store!StoreNext
  <1>1. status # NoState /\ status' # NoState
    BY DEF NoState
  <1>2. Store!FailureSetsError("custom")
    BY DEF Store!FailureSetsError
  <1>3. Store!Fail(TheWorkflow)
    BY <1>1, <1>2 DEF Store!Fail, Store!Statuses, Store!NoState, NoState, Committed
  <1> QED BY <1>3 DEF Store!StoreNext

LEMMA StoreStays ==
  ASSUME UNCHANGED <<state, status, retries>>
  PROVE  UNCHANGED Store!storeVars
  BY DEF Store!storeVars

(* Every workflow has steps. Without any, a run that loads the row when it  *)
(* says "completed" already ends without writing the status, and commits    *)
(* the machine's state to a workflow that another request has claimed.      *)
StepsGiven == << >> \notin StepLists

LEMMA InitImplements == CustomInit => Store!StoreInit
  <1> SUFFICES ASSUME CustomInit PROVE Store!StoreInit
    OBVIOUS
  <1>1. state = InitialState /\ status = NoState /\ retries = 0
    BY DEF CustomInit
  <1> QED BY <1>1 DEF Store!StoreInit, Store!NoState, NoState

(* A run that completes has a status to write, and writes it together with  *)
(* the state it leaves the machine in.                                      *)
LEMMA CommitImplements ==
  ASSUME StepsGiven, CustomInv, NEW r \in Runs, Commit(r)
  PROVE  Store!StoreNext
  <1>0. /\ steps \in StepLists /\ Len(steps) \in Nat /\ CopyOK(steps, run[r])
        /\ (run[r].pc # "idle" => status # NoState) /\ status \in Committed
    BY Before DEF RowTypes
  <1>1. Len(steps) > 0
    <2>1. steps \in Seq(Step) /\ steps # << >>
      BY <1>0, StepListsAssumption DEF StepsGiven
    <2> QED BY <1>0, <2>1, EmptySeq
  <1>2. run[r].pc = "commit" /\ CommitCopy(r, run[r])
    BY DEF Commit, At
  <1>3. /\ run[r].wdirty /\ run[r].wseen = "completed"
        /\ run[r].mdirty <=> Settled # NoState
        /\ run[r].mdirty => run[r].mseen = Settled
    BY <1>0, <1>1, <1>2 DEF CopyOK
  <1>4. /\ state' = IF run[r].mdirty THEN run[r].mseen ELSE state
        /\ status' = IF run[r].wdirty THEN run[r].wseen ELSE status
        /\ retries' = retries
    BY <1>2 DEF CommitCopy
  <1>5. state' = IF Settled = NoState THEN state ELSE Settled
    BY <1>3, <1>4
  <1>6. status' = "completed"
    BY <1>3, <1>4
  <1> QED BY <1>0, <1>2, <1>4, <1>5, <1>6, StoreCompletes

LEMMA FailureImplements ==
  ASSUME CustomInv, NEW r \in Runs, FailWorkflow(r)
  PROVE  Store!StoreNext
  <1> DEFINE c == SeeStatus(run[r], "failed")
  <1>0. /\ run[r] \in RunRec(steps) /\ CopyOK(steps, run[r])
        /\ (run[r].pc # "idle" => status # NoState) /\ status \in Committed
    BY Before DEF RowTypes
  <1>1. run[r].pc = "fail_wf" /\ CommitCopy(r, c)
    BY DEF FailWorkflow, At
  <1>2. c.wseen = "failed" /\ c.mseen = "error"
    BY <1>0, <1>1, SeeStatusIs DEF Committed, CopyOK
  <1> HIDE DEF c
  <1>3. status' \in {status, "failed"} /\ state' \in {state, "error"} /\ retries' = retries
    BY <1>1, <1>2 DEF CommitCopy
  <1> QED BY <1>0, <1>1, <1>3, StoreFails

LEMMA ClaimImplements ==
  ASSUME CustomInv, NEW r \in Runs, ResumeClaim(r)
  PROVE  Store!StoreNext
  <1>0. /\ run[r] \in RunRec(steps) /\ CopyOK(steps, run[r])
        /\ (run[r].pc # "idle" => status # NoState) /\ status \in Committed
    BY Before DEF RowTypes
  <1>1. /\ run[r].pc = "claim" /\ status' = "resuming" /\ retries' = run[r].rseen + 1
        /\ state' = state
    BY DEF ResumeClaim, At
  <1>2. run[r].rseen + 1 \in 1..MaxRetries
    BY <1>0, <1>1 DEF CopyOK, RunRec
  <1> QED BY <1>0, <1>1, <1>2, StoreClaims

LEMMA StepImplements ==
  ASSUME StepsGiven, CustomInv, [CustomNext]_customVars
  PROVE  [Store!StoreNext]_Store!storeVars
  <1>1. CASE UNCHANGED <<state, status, retries>>
    BY <1>1, StoreStays
  <1>2. ASSUME NEW r \in Runs, CreateWorkflow(r) PROVE Store!StoreNext
    <2>1. state # NoState
      <3>1. state \in MachineStates
        BY DEF CustomInv, RowTypes
      <3> QED BY <3>1 DEF MachineStates, NoState
    <2> QED BY <1>2, <2>1, StoreCreates DEF CreateWorkflow
  <1>3. ASSUME NEW r \in Runs, Work(r)
        PROVE  \/ UNCHANGED <<state, status, retries>>
               \/ ResumeClaim(r) \/ Commit(r) \/ FailWorkflow(r)
    BY <1>3 DEF Work, ResumeReads, ResumeClears, LoadMachine, LoadWorkflow, Begin, RecordStep, UnknownStep,
       CallDone, StepDone, StepRaises, Finish, Complete, FailMachine, CompleteWaits,
       DeadlockAborts, OnlyRuns, rowVars
  <1>4. ASSUME NEW r \in Runs, ResumeLoad(r) PROVE UNCHANGED <<state, status, retries>>
    BY <1>4 DEF ResumeLoad, OnlyRuns, rowVars
  <1>5. Crash => UNCHANGED <<state, status, retries>>
    BY DEF Crash, rowVars
  <1>6. UNCHANGED customVars => UNCHANGED <<state, status, retries>>
    BY DEF customVars
  <1> QED BY <1>1, <1>2, <1>3, <1>4, <1>5, <1>6, ClaimImplements, CommitImplements,
             FailureImplements DEF CustomNext

(* A custom workflow, with the checkpoints, steps and calls of its runs,    *)
(* implements the store: what readers see of a run is one atomic change of  *)
(* the two rows, provided that the workflow has steps.                      *)
THEOREM RunImplementsStore == StepsGiven => (CustomSpec => RefinesStore)
  <1> SUFFICES ASSUME StepsGiven PROVE CustomSpec => RefinesStore
    OBVIOUS
  <1>1. CustomInv /\ [CustomNext]_customVars => [Store!StoreNext]_Store!storeVars
    BY StepImplements
  <1>2. CustomSpec => Store!StoreInit /\ [][Store!StoreNext]_Store!storeVars
    BY <1>1, InitImplements, CustomInvHolds, PTL DEF CustomSpec
  <1> QED BY <1>2 DEF RefinesStore, Store!StoreSpec

=============================================================================
