-------------------------- MODULE ProvisioningProofs --------------------------
(***************************************************************************)
(* Proofs about Provisioning for any number of machines, jobs, hosts that   *)
(* share a name, callbacks and faults, and any assignment of tools to jobs. *)
(* The inductive invariant ProvInv says, for each program counter of a      *)
(* job's task, what its row, its preparation and its installer have come    *)
(* to.                                                                      *)
(***************************************************************************)
EXTENDS Provisioning, TLAPS, WellFoundedInduction, SequenceTheorems

(* The columns of the rows, and the calls a task counts.                    *)
RowTypes ==
  /\ wstatus \in [Workflows -> Statuses \cup {NoState}]
  /\ wretry \in [Workflows -> Nat]
  /\ jorder \in Seq(Workflows)
  /\ made \in [Workflows -> Nat]

(* The task of a job owns the row until it has committed the dispatch: only *)
(* then is the job deploying, and only then can a callback find it.         *)
Dispatched == {"announce", "done", "lost"}

JobOK(j) ==
  /\ task[j] \in {"none", "asked"} <=> jstatus[j] = NoState
  /\ task[j] \in {"poll", "check", "dispatch", "dispatched"} => jstatus[j] = "pending"
  /\ jstatus[j] = "os_deploying" => task[j] \in Dispatched
  /\ task[j] \notin {"dispatch", "dispatched"} => made[j] = 0

(* What justifies an installation: it holds from the moment the task goes   *)
(* on, and for every device that the task has added to the collection.      *)
Prepared(j) == wstatus[j] = "completed" \/ gaveup[j] \/ wretry[j] > 0

PrepOK(j) ==
  /\ task[j] = "check" => wstatus[j] = "failed" \/ Prepared(j)
  /\ task[j] \in {"dispatch", "dispatched", "announce"} => Prepared(j)
  /\ j \in collection => Prepared(j)
  /\ installer[j] # "idle" => Prepared(j)

(* How far the calls of the tool have brought the installation.             *)
Orders == {"satellite", "mecm", "ignition"}

OrderOK(j) ==
  /\ task[j] = "dispatch" =>
       /\ MethodOf[j] \in {"satellite", "ignition"} /\ made[j] >= 1 => installer[j] # "idle"
       /\ MethodOf[j] = "mecm" /\ made[j] >= 2 => j \in collection
       /\ MethodOf[j] = "mecm" /\ made[j] >= 3 => installer[j] # "idle"
  /\ MethodOf[j] \in Orders /\ (task[j] = "dispatched" \/ jstatus[j] = "os_deploying")
       => installer[j] # "idle"

ProvInv ==
  /\ ProvTypeOK
  /\ RowTypes
  /\ \A j \in Workflows : JobOK(j) /\ PrepOK(j) /\ OrderOK(j)
  /\ NoCallbackBeforeDispatch

USE MethodOfAssumption

-----------------------------------------------------------------------------
(* Lemmas about the helpers                                                 *)

(* The query for the latest job of a set finds one of the set.              *)
LEMMA LatestFinds ==
  ASSUME ProvInv, NEW jobs \in SUBSET Workflows, jobs # {},
         \A j \in jobs : jstatus[j] # NoState
  PROVE  Latest(jobs) \in jobs
  <1> DEFINE n == Len(jorder)
             T == {d \in Nat : n - d \in 1..n /\ jorder[n - d] \in jobs}
  <1>1. n \in Nat /\ DOMAIN jorder = 1..n
    BY DEF ProvInv, RowTypes
  <1> HIDE DEF n
  <1>2. ASSUME NEW k \in 1..n, jorder[k] \in jobs PROVE n - k \in T
    <2>1. n - k \in Nat /\ n - (n - k) = k
      BY <1>1
    <2> QED BY <1>2, <2>1
  <1>3. T # {}
    <2>1. PICK j \in jobs : TRUE
      OBVIOUS
    <2>2. j \in {jorder[i] : i \in DOMAIN jorder}
      BY <2>1 DEF ProvInv, ProvTypeOK
    <2>3. PICK i \in DOMAIN jorder : jorder[i] = j
      BY <2>2
    <2> QED BY <1>1, <1>2, <2>1, <2>3
  <1>4. PICK d \in T : \A e \in T : ~(<<e, d>> \in OpToRel(<, Nat))
    <2>1. T \subseteq Nat
      OBVIOUS
    <2> HIDE DEF T
    <2> QED BY <1>3, <2>1, NatLessThanWellFounded, WFMin
  <1>5. \A e \in T : ~(e < d)
    BY <1>4 DEF OpToRel
  <1>6. ASSUME NEW k \in (n - d) + 1..n PROVE jorder[k] \notin jobs
    <2>1. d \in Nat /\ n - d \in 1..n
      BY <1>4
    <2>2. k \in 1..n /\ n - k < d
      BY <1>1, <2>1
    <2> QED BY <1>2, <1>5, <2>2
  <1>7. \E i \in 1..n :
          jorder[i] \in jobs /\ \A k \in i + 1..n : jorder[k] \notin jobs
    BY <1>4, <1>6
  <1> HIDE DEF T
  <1> QED BY <1>7 DEF Latest, n

(* What one call of the tool can change: it orders for its job and for the  *)
(* collection, and undoes nothing.                                          *)
LEMMA EffectChanges ==
  ASSUME ProvInv, NEW j \in Workflows, Effect(j) \/ UNCHANGED <<installer, collection, deployed>>
  PROVE  /\ installer' \in [Workflows -> {"idle", "running", "installed", "failed"}]
         /\ collection' \subseteq Workflows /\ deployed' \in BOOLEAN
         /\ collection \subseteq collection' /\ collection' \subseteq collection \cup {j}
         /\ \A k \in Workflows : installer[k] # "idle" => installer'[k] # "idle"
         /\ \A k \in Workflows : installer'[k] # "idle" =>
              installer[k] # "idle" \/ k = j \/ k \in collection
  BY DEF ProvInv, ProvTypeOK, Effect, Ordered

(* A step that takes nothing from a job that is at rest or at work.         *)
LEMMA JobKept ==
  ASSUME ProvInv, NEW k \in Workflows,
         task'[k] = task[k], jstatus'[k] = jstatus[k], made'[k] = made[k],
         Prepared(k) => Prepared(k)',
         wstatus[k] = "failed" => wstatus'[k] = "failed" \/ Prepared(k)',
         installer[k] # "idle" => installer'[k] # "idle",
         k \in collection => k \in collection',
         k \in collection' => k \in collection \/ Prepared(k)',
         installer'[k] # "idle" => installer[k] # "idle" \/ Prepared(k)'
  PROVE  JobOK(k)' /\ PrepOK(k)' /\ OrderOK(k)'
  <1>1. JobOK(k) /\ PrepOK(k) /\ OrderOK(k)
    BY DEF ProvInv
  <1>2. JobOK(k)'
    BY <1>1 DEF JobOK
  <1>3. PrepOK(k)'
    BY <1>1 DEF PrepOK
  <1>4. OrderOK(k)'
    BY <1>1 DEF OrderOK
  <1> QED BY <1>2, <1>3, <1>4

(* The jobs that exist are those of the order when no row comes or goes.    *)
LEMMA RowsKept ==
  ASSUME ProvInv, UNCHANGED jorder,
         \A j \in Workflows : jstatus'[j] = NoState <=> jstatus[j] = NoState
  PROVE  {jorder[i] : i \in DOMAIN jorder}' = {j \in Workflows : jstatus[j] # NoState}'
  BY DEF ProvInv, ProvTypeOK

-----------------------------------------------------------------------------
LEMMA InitProvInv == ProvInit => ProvInv
  <1> SUFFICES ASSUME ProvInit PROVE ProvInv OBVIOUS
  <1> USE DEF ProvInit, StoreInit
  <1>1. \A j \in Workflows : Len(Calls(j)) \in Nat
    BY DEF Calls, ToolCalls, ToolMethods, SatelliteCalls, MecmCalls, VCenterCalls, IgnitionCalls
  <1>2. ProvTypeOK
    <2>0. DOMAIN jorder = {}
      OBVIOUS
    <2>1. {jorder[i] : i \in DOMAIN jorder} = {j \in Workflows : jstatus[j] # NoState}
      BY <2>0
    <2>2. \A j \in Workflows : made[j] \in 0..Len(Calls(j))
      BY <1>1
    <2>3. cb \in [Callbacks -> {NoCallback} \cup
                    [job : Workflows, status : {"installed", "failed"}]]
      OBVIOUS
    <2> QED BY <2>0, <2>1, <2>2, <2>3 DEF ProvTypeOK, TaskPCs
  <1>3. RowTypes
    BY DEF RowTypes
  <1>4. \A j \in Workflows : JobOK(j) /\ PrepOK(j) /\ OrderOK(j)
    BY DEF JobOK, PrepOK, OrderOK, Dispatched, NoState
  <1>5. NoCallbackBeforeDispatch
    BY DEF NoCallbackBeforeDispatch
  <1> QED BY <1>2, <1>3, <1>4, <1>5 DEF ProvInv
-----------------------------------------------------------------------------
(* The steps of the preparation                                             *)

(* A request has looked at the machine: there is no row yet.                *)
LEMMA ProvisionMachineInv ==
  ASSUME ProvInv, NEW j \in Workflows, ProvisionMachine(j)
  PROVE  ProvInv'
  <1> USE DEF toolVars
  <1>1. /\ task[j] = "none" /\ task' = [task EXCEPT ![j] = "asked"]
        /\ UNCHANGED <<storeVars, prepVars, jstatus, jorder, gaveup, made, installer,
                       collection, deployed, cb>>
    BY DEF ProvisionMachine, Goto
  <1>2. ProvTypeOK' /\ RowTypes'
    BY <1>1 DEF ProvInv, ProvTypeOK, RowTypes, TaskPCs, storeVars, prepVars, Calls
  <1>3. /\ task'[j] = "asked" /\ \A k \in Workflows \ {j} : task'[k] = task[k]
        /\ JobOK(j) /\ PrepOK(j) /\ OrderOK(j)
    BY <1>1 DEF ProvInv, ProvTypeOK
  <1>4. JobOK(j)' /\ PrepOK(j)' /\ OrderOK(j)'
    BY <1>1, <1>3 DEF JobOK, PrepOK, OrderOK, Prepared, NoState, storeVars
  <1>5. ASSUME NEW k \in Workflows, k # j PROVE JobOK(k)' /\ PrepOK(k)' /\ OrderOK(k)'
    BY <1>1, <1>3, <1>5, JobKept DEF Prepared, storeVars
  <1>6. NoCallbackBeforeDispatch'
    BY <1>1, <1>3 DEF ProvInv, ProvTypeOK, NoCallbackBeforeDispatch
  <1> QED BY <1>2, <1>4, <1>5, <1>6 DEF ProvInv

(* A job is named by its workflow: a new row, first in no collection and    *)
(* with no installer running, at the end of the order.                      *)
LEMMA CommitProvisionInv ==
  ASSUME ProvInv, NEW j \in Workflows, CommitProvision(j)
  PROVE  ProvInv'
  <1> USE DEF CommitProvision, Create, NewWorkflow, Goto, Job
  <1>1. /\ jstatus[j] = NoState /\ jstatus' = [jstatus EXCEPT ![j] = "pending"]
        /\ task[j] = "asked" /\ task' = [task EXCEPT ![j] = "poll"]
        /\ wstatus[j] = NoState /\ wstatus' = [wstatus EXCEPT ![j] = "pending"]
        /\ UNCHANGED <<wretry, copies, gaveup, made, installer, collection, deployed, cb>>
        /\ jorder' = Append(jorder, j) /\ running' = running \cup {j}
    BY DEF ProvInv, JobOK, toolVars
  <1> HIDE DEF CommitProvision
  <1>0. /\ jstatus \in [Workflows -> {NoState, "pending", "os_deploying", "completed", "failed"}]
        /\ task \in [Workflows -> TaskPCs]
        /\ wstatus \in [Workflows -> Statuses \cup {NoState}]
        /\ JobOK(j) /\ PrepOK(j)
        /\ running \subseteq {k \in Workflows : wstatus[k] \in {"pending", "resuming"}}
    BY DEF ProvInv, RowTypes, ProvTypeOK
  <1>2. RowTypes'
    BY <1>1, AppendProperties DEF ProvInv, RowTypes, Statuses
  <1>3. /\ {jorder[i] : i \in DOMAIN jorder}' = {k \in Workflows : jstatus[k] # NoState}'
        /\ \A i, k \in DOMAIN jorder' : jorder'[i] = jorder'[k] => i = k
    <2>1. \A i \in DOMAIN jorder : jorder[i] \in Workflows /\ jorder[i] # j
      BY <1>1 DEF ProvInv, ProvTypeOK
    <2>2. /\ Len(jorder) \in Nat /\ DOMAIN jorder = 1..Len(jorder)
          /\ DOMAIN jorder' = 1..Len(jorder) + 1
          /\ \A i \in DOMAIN jorder : jorder'[i] = jorder[i]
          /\ jorder'[Len(jorder) + 1] = j
      BY <1>1, AppendProperties DEF ProvInv, RowTypes
    <2>3. DOMAIN jorder' = DOMAIN jorder \cup {Len(jorder) + 1}
      BY <2>2
    <2>4. {jorder'[i] : i \in DOMAIN jorder'} = {jorder[i] : i \in DOMAIN jorder} \cup {j}
      BY <2>2, <2>3
    <2>5. {k \in Workflows : jstatus'[k] # NoState}
            = {k \in Workflows : jstatus[k] # NoState} \cup {j}
      BY <1>1 DEF ProvInv, ProvTypeOK, NoState
    <2>6. \A i, k \in DOMAIN jorder' : jorder'[i] = jorder'[k] => i = k
      BY <2>1, <2>2, <2>3 DEF ProvInv, ProvTypeOK
    <2> QED BY <2>4, <2>5, <2>6 DEF ProvInv, ProvTypeOK
  <1>4. ProvTypeOK'
    <2>1. /\ jstatus' \in [Workflows -> {NoState, "pending", "os_deploying", "completed", "failed"}]
          /\ task' \in [Workflows -> TaskPCs]
          /\ running' \subseteq {k \in Workflows : wstatus'[k] \in {"pending", "resuming"}}
      BY <1>0, <1>1 DEF TaskPCs
    <2> QED BY <1>1, <1>3, <2>1 DEF ProvInv, ProvTypeOK, Calls
  <1>5. JobOK(j)' /\ PrepOK(j)' /\ OrderOK(j)'
    BY <1>0, <1>1 DEF JobOK, PrepOK, OrderOK, Prepared, NoState
  <1>6. ASSUME NEW k \in Workflows, k # j PROVE JobOK(k)' /\ PrepOK(k)' /\ OrderOK(k)'
    <2>1. task'[k] = task[k] /\ jstatus'[k] = jstatus[k] /\ wstatus'[k] = wstatus[k]
      BY <1>0, <1>1, <1>6
    <2> QED BY <1>1, <2>1, JobKept DEF Prepared
  <1>7. NoCallbackBeforeDispatch'
    BY <1>1 DEF ProvInv, ProvTypeOK, NoCallbackBeforeDispatch
  <1> QED BY <1>2, <1>4, <1>5, <1>6, <1>7 DEF ProvInv

(* A step of a workflow leaves the jobs alone. It cannot take back what     *)
(* prepared the hardware: a completed workflow has no task that would fail. *)
LEMMA PrepStep ==
  ASSUME ProvInv, UNCHANGED <<jstatus, jorder, task, gaveup, toolVars, cb>>,
         wstatus' \in [Workflows -> Statuses \cup {NoState}],
         wretry' \in [Workflows -> Nat],
         running' \subseteq {j \in Workflows : wstatus'[j] \in {"pending", "resuming"}},
         copies' \in [Workflows -> SUBSET (0..MaxRetries)],
         \A k \in Workflows :
           /\ Prepared(k) => Prepared(k)'
           /\ wstatus[k] = "failed" => wstatus'[k] = "failed" \/ Prepared(k)'
  PROVE  ProvInv'
  <1>1. ProvTypeOK'
    BY DEF ProvInv, ProvTypeOK, toolVars, Calls
  <1>2. RowTypes'
    BY DEF ProvInv, RowTypes, toolVars
  <1>3. \A k \in Workflows : JobOK(k)' /\ PrepOK(k)' /\ OrderOK(k)'
    BY JobKept DEF toolVars
  <1>4. NoCallbackBeforeDispatch'
    BY DEF ProvInv, NoCallbackBeforeDispatch
  <1> QED BY <1>1, <1>2, <1>3, <1>4 DEF ProvInv

LEMMA PrepInv ==
  ASSUME ProvInv, NEW j \in Workflows, Prep(j)
  PROVE  ProvInv'
  <1> USE DEF jobVars
  <1>0. /\ wstatus \in [Workflows -> Statuses \cup {NoState}]
        /\ wretry \in [Workflows -> Nat]
        /\ running \subseteq {k \in Workflows : wstatus[k] \in {"pending", "resuming"}}
        /\ copies \in [Workflows -> SUBSET (0..MaxRetries)]
    BY DEF ProvInv, RowTypes, ProvTypeOK
  <1>1. CASE PrepCompletes(j)
    <2>1. wstatus' = [wstatus EXCEPT ![j] = "completed"] /\ UNCHANGED wretry
          /\ running' = running \ {j}
      BY <1>1 DEF PrepCompletes, PrepEnds, Complete
    <2>2. wstatus[j] \in {"pending", "resuming"}
      BY <1>0, <1>1 DEF PrepCompletes, PrepEnds
    <2> QED BY <1>0, <1>1, <2>1, <2>2, PrepStep DEF PrepCompletes, Statuses, Prepared
  <1>2. CASE PrepFails(j)
    <2>1. wstatus[j] \in {"pending", "resuming"} /\ running' = running \ {j}
      BY <1>0, <1>2 DEF PrepFails, PrepEnds
    <2>2. wstatus' = [wstatus EXCEPT ![j] = "failed"] /\ UNCHANGED wretry
      BY <1>2, <2>1 DEF PrepFails, Fail
    <2>3. Resumable(j)' \in SUBSET (0..MaxRetries)
      BY <1>0, <2>2, MaxRetriesAssumption DEF Resumable
    <2>4. copies' \in [Workflows -> SUBSET (0..MaxRetries)]
      BY <1>0, <1>2, <2>3 DEF PrepFails
    <2> QED BY <1>0, <1>2, <2>1, <2>2, <2>4, PrepStep DEF PrepFails, Statuses, Prepared
  <1>3. CASE PrepDies(j)
    BY <1>0, <1>3, PrepStep DEF PrepDies, PrepEnds, storeVars, Prepared
  <1>4. CASE ResumePrep(j)
    <2>1. wstatus[j] # NoState /\ wstatus' = [wstatus EXCEPT ![j] = "resuming"]
          /\ running' = running \cup {j}
      BY <1>4 DEF ResumePrep, Claim, Statuses, NoState
    <2>2. PICK n \in 1..MaxRetries : wretry' = [wretry EXCEPT ![j] = n]
      BY <1>4 DEF ResumePrep, Claim
    <2>3. n \in Nat /\ n > 0
      BY MaxRetriesAssumption
    <2> QED BY <1>0, <1>4, <2>1, <2>2, <2>3, PrepStep DEF ResumePrep, Statuses, Prepared
  <1> QED BY <1>1, <1>2, <1>3, <1>4 DEF Prep
-----------------------------------------------------------------------------
(* The steps of the task                                                    *)

(* How many calls each tool takes, and which of them matter here.           *)
LEMMA CallTables ==
  ASSUME NEW j \in Workflows
  PROVE  /\ MethodOf[j] \in {"satellite", "ignition"} =>
              Len(Calls(j)) = 1 /\ Calls(j)[1] \in OrdersInstall /\ Calls(j)[1] \notin PassedOver
         /\ MethodOf[j] = "mecm" =>
              /\ Len(Calls(j)) = 4
              /\ Calls(j)[2] = "add_to_collection" /\ Calls(j)[3] = "create_deployment"
              /\ \A i \in 1..4 : Calls(j)[i] \notin PassedOver
         /\ Len(Calls(j)) \in Nat
  BY DEF Calls, ToolCalls, ToolMethods, SatelliteCalls, MecmCalls, VCenterCalls,
         IgnitionCalls, OrdersInstall, PassedOver

(* A step of the task of j, with or without the effect of a call of its     *)
(* tool: what remains to be shown is what is special to j.                  *)
LEMMA TaskStep ==
  ASSUME ProvInv, NEW j \in Workflows, NEW pc \in TaskPCs, NEW status, NEW n,
         UNCHANGED <<storeVars, prepVars, jorder, cb>>,
         task' = [task EXCEPT ![j] = pc],
         jstatus' = [jstatus EXCEPT ![j] = status],
         made' = [made EXCEPT ![j] = n],
         status \in {"pending", "os_deploying", "completed", "failed"},
         jstatus[j] # NoState, n \in 0..Len(Calls(j)),
         gaveup' \in {gaveup, [gaveup EXCEPT ![j] = TRUE]},
         UNCHANGED <<installer, collection, deployed>> \/ (Effect(j) /\ Prepared(j)),
         task[j] \in Dispatched => pc \in Dispatched,
         jstatus[j] # "pending" => status # "pending",
         JobOK(j)', PrepOK(j)', OrderOK(j)'
  PROVE  ProvInv'
  <1>0. /\ jstatus \in [Workflows -> {NoState, "pending", "os_deploying", "completed", "failed"}]
        /\ task \in [Workflows -> TaskPCs] /\ made \in [Workflows -> Nat]
        /\ gaveup \in [Workflows -> BOOLEAN]
        /\ \A k \in Workflows : made[k] \in 0..Len(Calls(k))
    BY DEF ProvInv, RowTypes, ProvTypeOK
  <1>1. /\ jstatus' \in [Workflows -> {NoState, "pending", "os_deploying", "completed", "failed"}]
        /\ task' \in [Workflows -> TaskPCs] /\ made' \in [Workflows -> Nat]
        /\ gaveup' \in [Workflows -> BOOLEAN]
        /\ \A k \in Workflows : made'[k] \in 0..Len(Calls(k))
    <2>1. n \in Nat
      BY CallTables
    <2> QED BY <1>0, <2>1
  <1>2. /\ installer' \in [Workflows -> {"idle", "running", "installed", "failed"}]
        /\ collection' \subseteq Workflows /\ deployed' \in BOOLEAN
    BY EffectChanges
  <1>3. {jorder[i] : i \in DOMAIN jorder}' = {k \in Workflows : jstatus[k] # NoState}'
    BY <1>0, RowsKept DEF NoState
  <1>4. ProvTypeOK'
    BY <1>1, <1>2, <1>3 DEF ProvInv, ProvTypeOK, Calls, storeVars, prepVars
  <1>5. RowTypes'
    BY <1>1 DEF ProvInv, RowTypes, storeVars
  <1>6. ASSUME NEW k \in Workflows, k # j PROVE JobOK(k)' /\ PrepOK(k)' /\ OrderOK(k)'
    <2>1. task'[k] = task[k] /\ jstatus'[k] = jstatus[k] /\ made'[k] = made[k]
      BY <1>0, <1>6
    <2>2. Prepared(k)' <=> Prepared(k)
      BY <1>0, <1>6 DEF Prepared, storeVars
    <2>3. k \in collection => Prepared(k)
      BY DEF ProvInv, PrepOK
    <2> QED BY <1>6, <2>1, <2>2, <2>3, EffectChanges, JobKept DEF storeVars
  <1>7. NoCallbackBeforeDispatch'
    BY <1>0 DEF ProvInv, ProvTypeOK, NoCallbackBeforeDispatch, Dispatched
  <1> QED BY <1>4, <1>5, <1>6, <1>7 DEF ProvInv

(* What the invariant says of one job.                                      *)
LEMMA OneJob ==
  ASSUME ProvInv, NEW j \in Workflows
  PROVE  /\ JobOK(j) /\ PrepOK(j) /\ OrderOK(j)
         /\ task \in [Workflows -> TaskPCs]
         /\ jstatus \in [Workflows -> {NoState, "pending", "os_deploying", "completed", "failed"}]
         /\ made \in [Workflows -> Nat] /\ made[j] \in 0..Len(Calls(j))
         /\ gaveup \in [Workflows -> BOOLEAN]
         /\ task = [task EXCEPT ![j] = task[j]]
         /\ jstatus = [jstatus EXCEPT ![j] = jstatus[j]]
         /\ made = [made EXCEPT ![j] = made[j]]
  BY DEF ProvInv, RowTypes, ProvTypeOK

LEMMA PollInv ==
  ASSUME ProvInv, NEW j \in Workflows, PollSeesEnd(j) \/ PollGivesUp(j)
  PROVE  ProvInv'
  <1> USE DEF Goto, toolVars
  <1>1. /\ task[j] = "poll" /\ task' = [task EXCEPT ![j] = "check"]
        /\ jstatus' = [jstatus EXCEPT ![j] = jstatus[j]]
        /\ made' = [made EXCEPT ![j] = made[j]]
        /\ gaveup' \in {gaveup, [gaveup EXCEPT ![j] = TRUE]}
        /\ UNCHANGED <<storeVars, prepVars, jorder, cb, installer, collection, deployed>>
        /\ jstatus[j] = "pending" /\ made[j] = 0
    BY OneJob DEF PollSeesEnd, PollGivesUp, JobOK
  <1>2. wstatus'[j] = "failed" \/ Prepared(j)'
    BY OneJob DEF PollSeesEnd, PollGivesUp, Prepared, storeVars
  <1>3. JobOK(j)' /\ PrepOK(j)' /\ OrderOK(j)'
    BY <1>1, <1>2, OneJob DEF JobOK, PrepOK, OrderOK, Dispatched, NoState, Prepared, storeVars
  <1> QED BY <1>1, <1>3, OneJob, TaskStep DEF TaskPCs, Dispatched, NoState

LEMMA CheckPrepInv ==
  ASSUME ProvInv, NEW j \in Workflows, CheckPrep(j)
  PROVE  ProvInv'
  <1> USE DEF Goto, Job, toolVars
  <1>1. /\ made' = [made EXCEPT ![j] = made[j]]
        /\ UNCHANGED <<storeVars, prepVars, jorder, cb, gaveup, installer, collection, deployed>>
        /\ task[j] = "check" /\ jstatus[j] = "pending" /\ made[j] = 0
    BY OneJob DEF CheckPrep, JobOK
  <1>2. CASE wstatus[j] = "failed"
    <2>1. task' = [task EXCEPT ![j] = "done"] /\ jstatus' = [jstatus EXCEPT ![j] = "failed"]
      BY <1>2 DEF CheckPrep
    <2>2. JobOK(j)' /\ PrepOK(j)' /\ OrderOK(j)'
      BY <1>1, <2>1, OneJob DEF JobOK, PrepOK, OrderOK, NoState, Prepared, storeVars
    <2> QED BY <1>1, <2>1, <2>2, OneJob, TaskStep DEF TaskPCs, Dispatched, NoState
  <1>3. CASE wstatus[j] # "failed"
    <2>1. task' = [task EXCEPT ![j] = "dispatch"] /\ jstatus' = [jstatus EXCEPT ![j] = "pending"]
      BY <1>1, <1>3, OneJob DEF CheckPrep
    <2>2. JobOK(j)' /\ PrepOK(j)' /\ OrderOK(j)'
      BY <1>1, <1>3, <2>1, OneJob DEF JobOK, PrepOK, OrderOK, NoState, Prepared, storeVars
    <2> QED BY <1>1, <2>1, <2>2, OneJob, TaskStep DEF TaskPCs, Dispatched, NoState
  <1> QED BY <1>2, <1>3

LEMMA TaskDiesInv ==
  ASSUME ProvInv, NEW j \in Workflows, TaskDies(j)
  PROVE  ProvInv'
  <1> USE DEF Goto, toolVars
  <1>1. /\ task[j] \in {"poll", "check"} /\ task' = [task EXCEPT ![j] = "lost"]
        /\ jstatus' = [jstatus EXCEPT ![j] = jstatus[j]]
        /\ made' = [made EXCEPT ![j] = made[j]]
        /\ UNCHANGED <<storeVars, prepVars, jorder, cb, gaveup, installer, collection, deployed>>
        /\ jstatus[j] = "pending" /\ made[j] = 0
    BY OneJob DEF TaskDies, JobOK
  <1>2. JobOK(j)' /\ PrepOK(j)' /\ OrderOK(j)'
    BY <1>1, OneJob DEF JobOK, PrepOK, OrderOK, NoState, Prepared, storeVars
  <1> QED BY <1>1, <1>2, OneJob, TaskStep DEF TaskPCs, Dispatched, NoState

(* A call that has returned brings the installation as far as OrderOK says. *)
LEMMA CallOrders ==
  ASSUME ProvInv, NEW j \in Workflows, Calling(j), Effect(j), CallMade(j),
         UNCHANGED <<task, jstatus>>
  PROVE  OrderOK(j)'
  <1>1. /\ made'[j] = made[j] + 1 /\ made[j] \in Nat /\ made[j] < Len(Calls(j))
        /\ task[j] = "dispatch" /\ jstatus[j] = "pending"
    BY OneJob DEF Calling, CallMade, JobOK
  <1>2. CASE MethodOf[j] \in {"satellite", "ignition"}
    <2>1. NextTool(j) \in OrdersInstall
      BY <1>1, <1>2, CallTables DEF NextTool
    <2>2. installer'[j] = "running"
      BY <2>1 DEF Effect, Ordered
    <2> QED BY <1>1, <1>2, <2>2 DEF OrderOK
  <1>3. CASE MethodOf[j] = "mecm"
    <2>1. made[j] = 1 => j \in collection'
      BY <1>1, <1>3, CallTables DEF NextTool, Effect
    <2>2. made[j] = 2 => installer'[j] # "idle"
      <3> HAVE made[j] = 2
      <3>1. NextTool(j) = "create_deployment" /\ j \in collection
        BY <1>1, <1>3, CallTables, OneJob DEF NextTool, OrderOK
      <3>2. j \in Ordered(j)
        BY <3>1 DEF Ordered, OrdersInstall
      <3> QED BY <3>2 DEF Effect
    <2>3. /\ made[j] >= 2 => j \in collection'
          /\ made[j] >= 3 => installer'[j] # "idle"
      BY <1>1, <1>3, OneJob, EffectChanges DEF OrderOK
    <2> QED BY <1>1, <1>3, <2>1, <2>2, <2>3 DEF OrderOK
  <1>4. CASE MethodOf[j] \in {"vcenter", "manual"}
    BY <1>1, <1>4 DEF OrderOK, Orders
  <1> QED BY <1>2, <1>3, <1>4 DEF ToolMethods

LEMMA ToolReturnsInv ==
  ASSUME ProvInv, NEW j \in Workflows, ToolReturns(j)
  PROVE  ProvInv'
  <1> USE DEF ToolReturns
  <1>1. /\ task[j] = "dispatch" /\ jstatus[j] = "pending" /\ Prepared(j)
        /\ task' = [task EXCEPT ![j] = "dispatch"]
        /\ jstatus' = [jstatus EXCEPT ![j] = "pending"]
        /\ made' = [made EXCEPT ![j] = made[j] + 1]
        /\ made[j] \in Nat /\ made[j] + 1 \in 0..Len(Calls(j))
        /\ Effect(j) /\ UNCHANGED <<storeVars, prepVars, jorder, cb, gaveup>>
    BY OneJob, CallTables DEF Calling, CallMade, JobOK, PrepOK
  <1>2. OrderOK(j)'
    BY CallOrders
  <1>3. JobOK(j)' /\ PrepOK(j)'
    BY <1>1, OneJob DEF JobOK, PrepOK, NoState, Prepared, storeVars
  <1> QED BY <1>1, <1>2, <1>3, OneJob, TaskStep DEF TaskPCs, Dispatched, NoState

LEMMA ToolRaisesInv ==
  ASSUME ProvInv, NEW j \in Workflows, ToolRaises(j)
  PROVE  ProvInv'
  <1> USE DEF Goto, Job
  <1>1. /\ task[j] = "dispatch" /\ jstatus[j] = "pending" /\ Prepared(j)
        /\ made[j] \in Nat /\ made[j] < Len(Calls(j))
        /\ UNCHANGED <<storeVars, prepVars, jorder, gaveup, cb>>
        /\ UNCHANGED <<installer, collection, deployed>> \/ Effect(j)
    BY OneJob DEF ToolRaises, Calling, JobOK, PrepOK
  <1>2. CASE /\ task' = [task EXCEPT ![j] = "done"]
             /\ jstatus' = [jstatus EXCEPT ![j] = "failed"]
             /\ made' = [made EXCEPT ![j] = 0]
    <2>1. JobOK(j)' /\ PrepOK(j)' /\ OrderOK(j)'
      BY <1>1, <1>2, OneJob DEF JobOK, PrepOK, OrderOK, NoState, Prepared, storeVars
    <2>2. 0 \in 0..Len(Calls(j))
      BY CallTables
    <2> QED BY <1>1, <1>2, <2>1, <2>2, TaskStep DEF TaskPCs, Dispatched, NoState
  <1>3. CASE NextTool(j) \in PassedOver /\ CallMade(j) /\ UNCHANGED <<jstatus, task>>
    <2>1. /\ task' = [task EXCEPT ![j] = "dispatch"]
          /\ jstatus' = [jstatus EXCEPT ![j] = "pending"]
          /\ made' = [made EXCEPT ![j] = made[j] + 1]
          /\ made[j] + 1 \in 0..Len(Calls(j))
      BY <1>1, <1>3, OneJob, CallTables DEF CallMade
    <2>2. MethodOf[j] \in {"vcenter", "manual"}
      <3>1. made[j] + 1 \in 1..Len(Calls(j))
        BY <1>1, CallTables
      <3>2. MethodOf[j] \notin {"satellite", "ignition"}
        BY <1>1, <1>3, <3>1, CallTables DEF NextTool
      <3>3. MethodOf[j] # "mecm"
        BY <1>1, <1>3, <3>1, CallTables DEF NextTool
      <3> QED BY <3>2, <3>3 DEF ToolMethods
    <2>3. JobOK(j)' /\ PrepOK(j)' /\ OrderOK(j)'
      BY <1>1, <2>1, <2>2, OneJob DEF JobOK, PrepOK, OrderOK, Orders, NoState, Prepared, storeVars
    <2> QED BY <1>1, <2>1, <2>3, OneJob, TaskStep DEF TaskPCs, Dispatched, NoState
  <1> QED BY <1>2, <1>3 DEF ToolRaises

LEMMA DispatchInv ==
  ASSUME ProvInv, NEW j \in Workflows, Dispatch(j)
  PROVE  ProvInv'
  <1> USE DEF Goto, toolVars
  <1>1. /\ task[j] = "dispatch" /\ jstatus[j] = "pending" /\ Prepared(j)
        /\ task' = [task EXCEPT ![j] = "dispatched"]
        /\ jstatus' = [jstatus EXCEPT ![j] = jstatus[j]]
        /\ made' = [made EXCEPT ![j] = made[j]]
        /\ UNCHANGED <<storeVars, prepVars, jorder, cb, gaveup, installer, collection, deployed>>
    BY OneJob DEF Dispatch, JobOK, PrepOK
  <1>2. made[j] = Len(Calls(j))
    <2>1. ~(made[j] < Len(Calls(j)))
      BY <1>1 DEF Dispatch, Calling
    <2>2. made[j] \in 0..Len(Calls(j)) /\ Len(Calls(j)) \in Nat
      BY OneJob, CallTables
    <2> QED BY <2>1, <2>2
  <1>3. MethodOf[j] \in Orders => installer[j] # "idle"
    BY <1>1, <1>2, OneJob, CallTables DEF OrderOK, Orders
  <1>4. JobOK(j)' /\ PrepOK(j)' /\ OrderOK(j)'
    BY <1>1, <1>3, OneJob DEF JobOK, PrepOK, OrderOK, Orders, NoState, Prepared, storeVars
  <1> QED BY <1>1, <1>4, OneJob, TaskStep DEF TaskPCs, Dispatched, NoState

LEMMA CommitDispatchInv ==
  ASSUME ProvInv, NEW j \in Workflows, CommitDispatch(j)
  PROVE  ProvInv'
  <1> USE DEF Goto, Job, CommitDispatch
  <1>1. task[j] = "dispatched" /\ jstatus[j] = "pending" /\ Prepared(j)
    BY OneJob DEF JobOK, PrepOK
  <1>2. JobOK(j)' /\ PrepOK(j)' /\ OrderOK(j)'
    BY <1>1, OneJob DEF JobOK, PrepOK, OrderOK, Dispatched, NoState, Prepared, storeVars
  <1>3. 0 \in 0..Len(Calls(j))
    BY CallTables
  <1> QED BY <1>1, <1>2, <1>3, TaskStep DEF TaskPCs, Dispatched, NoState

LEMMA AnnounceInv ==
  ASSUME ProvInv, NEW j \in Workflows, Announce(j) \/ AnnounceRaises(j)
  PROVE  ProvInv'
  <1> USE DEF Goto, Job, toolVars
  <1>1. PICK status \in {jstatus[j], "failed"} : jstatus' = [jstatus EXCEPT ![j] = status]
    BY OneJob DEF Announce, AnnounceRaises
  <1>2. /\ task[j] = "announce" /\ jstatus[j] # NoState /\ made[j] = 0
        /\ task' = [task EXCEPT ![j] = "done"]
        /\ made' = [made EXCEPT ![j] = made[j]]
        /\ UNCHANGED <<storeVars, prepVars, jorder, cb, gaveup, installer, collection, deployed>>
    BY OneJob DEF Announce, AnnounceRaises, JobOK
  <1>3. JobOK(j)' /\ PrepOK(j)' /\ OrderOK(j)'
    BY <1>1, <1>2, OneJob DEF JobOK, PrepOK, OrderOK, Dispatched, NoState, Prepared, storeVars
  <1>4. /\ status \in {"pending", "os_deploying", "completed", "failed"}
        /\ jstatus[j] # "pending" => status # "pending"
    BY <1>1, <1>2, OneJob
  <1> QED BY <1>1, <1>2, <1>3, <1>4, OneJob, TaskStep DEF TaskPCs, Dispatched
-----------------------------------------------------------------------------
(* The installer, the callbacks and the crash                               *)

LEMMA InstallerEndsInv ==
  ASSUME ProvInv, NEW j \in Workflows, InstallerEnds(j)
  PROVE  ProvInv'
  <1> USE DEF InstallerEnds
  <1>1. PICK end \in {"installed", "failed"} : installer' = [installer EXCEPT ![j] = end]
    OBVIOUS
  <1>2. installer \in [Workflows -> {"idle", "running", "installed", "failed"}]
    BY DEF ProvInv, ProvTypeOK
  <1>3. ProvTypeOK'
    BY <1>1, <1>2 DEF ProvInv, ProvTypeOK, storeVars, prepVars, Calls
  <1>4. RowTypes'
    BY DEF ProvInv, RowTypes, storeVars
  <1>5. ASSUME NEW k \in Workflows PROVE JobOK(k)' /\ PrepOK(k)' /\ OrderOK(k)'
    <2>1. installer'[k] # "idle" <=> installer[k] # "idle"
      BY <1>1, <1>2
    <2>2. Prepared(k)' <=> Prepared(k)
      BY DEF Prepared, storeVars
    <2> QED BY <2>1, <2>2, JobKept DEF storeVars
  <1>6. NoCallbackBeforeDispatch'
    BY DEF ProvInv, NoCallbackBeforeDispatch
  <1> QED BY <1>3, <1>4, <1>5, <1>6 DEF ProvInv

LEMMA CallbackArrivesInv ==
  ASSUME ProvInv, NEW c \in Callbacks, NEW j \in Workflows, NEW byMachine \in BOOLEAN,
         CallbackArrives(c, j, byMachine)
  PROVE  ProvInv'
  <1> USE DEF toolVars
  <1> DEFINE mine == IF byMachine THEN OfMachine(MachineOf[j]) ELSE {}
             found == IF mine # {} THEN mine ELSE OfHost(HostOf[j])
             k == Latest(found)
  <1>1. /\ found # {} /\ installer[j] \in {"installed", "failed"}
        /\ cb' = [cb EXCEPT ![c] = [job |-> k, status |-> installer[j]]]
        /\ UNCHANGED <<storeVars, prepVars, jstatus, jorder, task, gaveup, toolVars>>
    BY DEF CallbackArrives
  <1>2. \A i \in found : i \in Workflows /\ jstatus[i] = "os_deploying"
    BY DEF OfMachine, OfHost, Deploying
  <1> HIDE DEF found
  <1>3. k \in Workflows /\ jstatus[k] = "os_deploying"
    BY <1>1, <1>2, LatestFinds DEF NoState
  <1>4. task[k] \in Dispatched
    BY <1>3, OneJob DEF JobOK
  <1> HIDE DEF k
  <1>5. ProvTypeOK'
    <2>1. cb' \in [Callbacks -> {NoCallback} \cup
                     [job : Workflows, status : {"installed", "failed"}]]
      BY <1>1, <1>3 DEF ProvInv, ProvTypeOK
    <2> QED BY <1>1, <2>1 DEF ProvInv, ProvTypeOK, storeVars, prepVars, Calls
  <1>6. RowTypes'
    BY <1>1 DEF ProvInv, RowTypes, storeVars
  <1>7. ASSUME NEW i \in Workflows PROVE JobOK(i)' /\ PrepOK(i)' /\ OrderOK(i)'
    BY <1>1, JobKept DEF Prepared, storeVars
  <1>8. NoCallbackBeforeDispatch'
    <2>1. cb'[c].job = k /\ \A d \in Callbacks \ {c} : cb'[d] = cb[d]
      BY <1>1 DEF ProvInv, ProvTypeOK
    <2> QED BY <1>1, <1>3, <1>4, <2>1 DEF ProvInv, NoCallbackBeforeDispatch, Dispatched
  <1> QED BY <1>5, <1>6, <1>7, <1>8 DEF ProvInv

LEMMA CallbackCommitsInv ==
  ASSUME ProvInv, NEW c \in Callbacks, CallbackCommits(c)
  PROVE  ProvInv'
  <1> USE DEF toolVars
  <1>0. PICK j : j = cb[c].job
    OBVIOUS
  <1> DEFINE status == IF cb[c].status = "installed" THEN "completed" ELSE "failed"
  <1>1. /\ cb[c] # NoCallback
        /\ jstatus' = [jstatus EXCEPT ![j] = status]
        /\ cb' = [cb EXCEPT ![c] = NoCallback]
        /\ UNCHANGED <<wtype, wstatus, wretry, prepVars, jorder, task, gaveup, toolVars>>
    BY <1>0 DEF CallbackCommits, Job
  <1>2. status \in {"completed", "failed"} /\ j \in Workflows
    BY <1>0, <1>1 DEF ProvInv, ProvTypeOK
  <1>3. task[j] \in Dispatched /\ jstatus[j] # "pending"
    BY <1>0, <1>1 DEF ProvInv, NoCallbackBeforeDispatch, Dispatched
  <1>4. cb' \in [Callbacks -> {NoCallback} \cup
                   [job : Workflows, status : {"installed", "failed"}]]
        /\ \A d \in Callbacks : cb'[d] = cb[d] \/ cb'[d] = NoCallback
    BY <1>1 DEF ProvInv, ProvTypeOK
  <1> HIDE DEF status
  <1>5. jstatus[j] # NoState
    BY <1>2, <1>3, OneJob DEF JobOK, Dispatched
  <1>6. jstatus' \in [Workflows -> {NoState, "pending", "os_deploying", "completed", "failed"}]
        /\ jstatus'[j] = status /\ \A k \in Workflows \ {j} : jstatus'[k] = jstatus[k]
    BY <1>1, <1>2 DEF ProvInv, ProvTypeOK
  <1>7. {jorder[i] : i \in DOMAIN jorder}' = {k \in Workflows : jstatus[k] # NoState}'
    BY <1>1, <1>2, <1>5, <1>6, RowsKept DEF NoState
  <1>8. ProvTypeOK'
    BY <1>1, <1>4, <1>6, <1>7 DEF ProvInv, ProvTypeOK, prepVars, Calls
  <1>9. RowTypes'
    BY <1>1 DEF ProvInv, RowTypes
  <1>10. JobOK(j)' /\ PrepOK(j)' /\ OrderOK(j)'
    BY <1>1, <1>2, <1>3, <1>6, OneJob DEF JobOK, PrepOK, OrderOK, Dispatched, NoState, Prepared
  <1>11. ASSUME NEW k \in Workflows, k # j PROVE JobOK(k)' /\ PrepOK(k)' /\ OrderOK(k)'
    BY <1>1, <1>6, <1>11, JobKept DEF Prepared
  <1>12. NoCallbackBeforeDispatch'
    BY <1>1, <1>2, <1>4, <1>6 DEF ProvInv, ProvTypeOK, NoCallbackBeforeDispatch
  <1> QED BY <1>8, <1>9, <1>10, <1>11, <1>12 DEF ProvInv

LEMMA ProvCrashInv ==
  ASSUME ProvInv, ProvCrash
  PROVE  ProvInv'
  <1> USE DEF ProvCrash
  <1>1. \A k \in Workflows :
          /\ task'[k] \in TaskPCs /\ made'[k] = 0
          /\ \/ task'[k] = task[k] /\ task[k] \in {"none", "done"}
             \/ task'[k] = "none" /\ task[k] = "asked"
             \/ task'[k] = "lost" /\ task[k] \notin {"none", "asked"}
    BY DEF ProvInv, ProvTypeOK, TaskPCs
  <1>2. \A c \in Callbacks : cb'[c] = NoCallback
    OBVIOUS
  <1>3. ProvTypeOK'
    <2>1. \A k \in Workflows : made'[k] \in 0..Len(Calls(k))
      BY <1>1, CallTables
    <2>2. task' \in [Workflows -> TaskPCs]
      BY <1>1
    <2>3. copies' \in [Workflows -> SUBSET (0..MaxRetries)]
      BY MaxRetriesAssumption DEF ProvInv, RowTypes, Resumable
    <2> QED BY <2>1, <2>2, <2>3 DEF ProvInv, ProvTypeOK, storeVars, Calls
  <1>4. RowTypes'
    BY DEF ProvInv, RowTypes, storeVars
  <1>5. \A k \in Workflows : JobOK(k)' /\ PrepOK(k)' /\ OrderOK(k)'
    <2> TAKE k \in Workflows
    <2> QED BY <1>1, OneJob DEF JobOK, PrepOK, OrderOK, Dispatched, Prepared, storeVars
  <1>6. NoCallbackBeforeDispatch'
    BY <1>2 DEF NoCallbackBeforeDispatch
  <1> QED BY <1>3, <1>4, <1>5, <1>6 DEF ProvInv

LEMMA StutterProvInv ==
  ASSUME ProvInv, UNCHANGED provVars
  PROVE  ProvInv'
  BY DEF ProvInv, provVars, prepVars, toolVars, ProvTypeOK, RowTypes, JobOK, PrepOK, OrderOK,
         Prepared, NoCallbackBeforeDispatch, Calls

LEMMA NextProvInv == ProvInv /\ [ProvNext]_provVars => ProvInv'
  <1> SUFFICES ASSUME ProvInv, [ProvNext]_provVars PROVE ProvInv' OBVIOUS
  <1>1. ASSUME NEW j \in Workflows, ProvisionMachine(j) \/ CommitProvision(j)
        PROVE  ProvInv'
    BY <1>1, ProvisionMachineInv, CommitProvisionInv
  <1>2. ASSUME NEW j \in Workflows, Prep(j) PROVE ProvInv'
    BY <1>2, PrepInv
  <1>3. ASSUME NEW j \in Workflows, Task(j) PROVE ProvInv'
    BY <1>3, PollInv, CheckPrepInv, ToolReturnsInv, ToolRaisesInv, DispatchInv,
       CommitDispatchInv, AnnounceInv DEF Task
  <1>4. ASSUME NEW j \in Workflows, TaskDies(j) \/ InstallerEnds(j) PROVE ProvInv'
    BY <1>4, TaskDiesInv, InstallerEndsInv
  <1>5. ASSUME NEW c \in Callbacks, Callback(c) PROVE ProvInv'
    BY <1>5, CallbackArrivesInv, CallbackCommitsInv DEF Callback
  <1> QED BY <1>1, <1>2, <1>3, <1>4, <1>5, ProvCrashInv, StutterProvInv DEF ProvNext

-----------------------------------------------------------------------------
(* The theorems                                                             *)

LEMMA ProvInvHolds == ProvSpec => []ProvInv
  BY InitProvInv, NextProvInv, PTL DEF ProvSpec

(* Every job has one place in the order of the jobs, every count of calls   *)
(* stays within the tool's list, and a callback is for a job that exists.   *)
THEOREM ProvisioningTypesHold == ProvSpec => []ProvTypeOK
  <1>1. ProvInv => ProvTypeOK
    BY DEF ProvInv
  <1> QED BY <1>1, ProvInvHolds, PTL

(* No installer is started on hardware whose preparation was not seen to    *)
(* end well, was not retried and was not given up on.                       *)
THEOREM InstallsArePrepared == ProvSpec => []InstallNeedsPrep
  <1>1. ProvInv => InstallNeedsPrep
    BY DEF ProvInv, PrepOK, Prepared, InstallNeedsPrep
  <1> QED BY <1>1, ProvInvHolds, PTL

(* A callback request never holds a job that its task is still to commit.   *)
THEOREM CallbacksFindDispatched == ProvSpec => []NoCallbackBeforeDispatch
  <1>1. ProvInv => NoCallbackBeforeDispatch
    BY DEF ProvInv
  <1> QED BY <1>1, ProvInvHolds, PTL

(* A job of Satellite, MECM or Ignition that waits for its callback has an  *)
(* installation on the way or done, whichever call was the last to return.  *)
THEOREM DeployingIsOrdered == ProvSpec => []WaitsForAnInstaller
  <1>1. ProvInv => WaitsForAnInstaller
    BY DEF ProvInv, OrderOK, Orders, WaitsForAnInstaller
  <1> QED BY <1>1, ProvInvHolds, PTL

(* No callback, retry, late failure of the task or crash reopens a job.     *)
THEOREM EndedStaysEnded == ProvSpec => JobsStayEnded
  <1> DEFINE Ended == {"completed", "failed"}
             Stays == \A j \in Workflows : jstatus[j] \in Ended => jstatus'[j] \in Ended
  <1>1. ProvInv /\ [ProvNext]_provVars => Stays
    <2> SUFFICES ASSUME ProvInv, [ProvNext]_provVars, NEW j \in Workflows, jstatus[j] \in Ended
                 PROVE  jstatus'[j] \in Ended
      OBVIOUS
    <2> USE OneJob DEF Job, Goto
    <2>1. ASSUME NEW k \in Workflows, ProvisionMachine(k) \/ CommitProvision(k)
          PROVE  jstatus'[j] \in Ended
      BY <2>1 DEF ProvisionMachine, CommitProvision, JobOK, NoState
    <2>2. ASSUME NEW k \in Workflows, Prep(k) PROVE jstatus'[j] \in Ended
      BY <2>2 DEF Prep, PrepCompletes, PrepFails, PrepDies, ResumePrep, jobVars
    <2>3. ASSUME NEW k \in Workflows, Task(k) PROVE jstatus'[j] \in Ended
      <3>1. CASE CommitDispatch(k)
        BY <3>1 DEF CommitDispatch, JobOK
      <3>2. CASE ~CommitDispatch(k)
        BY <2>3, <3>2 DEF Task, PollSeesEnd, PollGivesUp, CheckPrep, ToolReturns,
           ToolRaises, Dispatch, Announce, AnnounceRaises
      <3> QED BY <3>1, <3>2
    <2>4. ASSUME NEW k \in Workflows, TaskDies(k) \/ InstallerEnds(k) PROVE jstatus'[j] \in Ended
      BY <2>4 DEF TaskDies, InstallerEnds
    <2>5. ASSUME NEW c \in Callbacks, Callback(c) PROVE jstatus'[j] \in Ended
      BY <2>5 DEF Callback, CallbackArrives, CallbackCommits
    <2>6. CASE ProvCrash \/ UNCHANGED provVars
      BY <2>6 DEF ProvCrash, provVars
    <2> QED BY <2>1, <2>2, <2>3, <2>4, <2>5, <2>6 DEF ProvNext
  <1>2. ProvSpec => [][Stays]_provVars
    BY <1>1, ProvInvHolds, PTL DEF ProvSpec
  <1> QED BY <1>2 DEF JobsStayEnded
=============================================================================
