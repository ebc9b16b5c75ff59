# Verification of infra-controller

TLA+ models of the infra-controller service (`src/`): a FastAPI server that
registers bare-metal machines, drives their BMCs through long running
workflows, hands operating system installation to external tools and announces
what happens over WebSockets. The modules are model-checked with TLC on small
instances, and every invariant and action property of the passing runs is also
proved with TLAPS, for every number of machines, workflows, jobs, clients and
requests.

## Inventory

| Component | Source | State | Operations | What must hold |
| --- | --- | --- | --- | --- |
| Machine state machine | `app/engine/state_machine.py`, `app/models/machine.py` | `machines.state` | `validate_transition` | committed states follow the table |
| Workflow engine | `app/engine/workflows.py` | rows of `machines` and `workflows`, one session per run, asyncio tasks | five runners, `resume_workflow`, `start_workflow` | one workflow at a time drives a BMC; a run is visible all at once or not at all; retries are bounded; every run settles |
| Machines API | `app/api/machines.py` | the same rows | register, create and resume workflows; direct BMC calls; update, delete | no duplicate machine; only failed workflows resume; a slow request undoes nobody's write |
| Database sessions | `app/database.py` | connection pool, sessions, row locks | begin, flush, commit, roll back | no lost work, no deadlock |
| Provisioning | `app/api/provisioning.py` | `provisioning_jobs`, one polling task per job | provision, poll, dispatch, callback | installs follow preparation; callbacks end the right job; jobs do not hang or reopen |
| Orchestrator and tools | `app/provisioning/*.py` | hosts and deployments in Satellite, MECM, vCenter, Ignition files | `start_provision`, `check_status` | a job that waits for its callback has an installation ordered |
| Event manager | `app/events/manager.py`, `app/api/events_ws.py` | connections, history | connect, disconnect, broadcast | events in order, once, to everyone; bounded history |
| Discovery | `app/api/discovery.py`, `app/redfish/discovery.py` | machine rows | batch registration | no duplicate machine |
| Firmware compliance | `app/api/firmware.py` | baselines, reports | baseline CRUD, check one, check all, summary | a scan reports as a whole or not at all; no report without its rows |
| Tenants | `app/api/tenants.py` | organisations, projects, members | create, update, deactivate, add and remove members | what is deactivated or removed stays so; an organisation appears with an owner |
| Credentials | `app/api/credentials.py` | BMC credentials | create, delete | at most one default |
| Authentication | `app/auth.py` | JWKS cache | validate a token, check a role | role order |
| Redfish and IPMI clients | `app/redfish/client.py`, `app/ipmi/client.py` | none | calls that answer, fail or time out | errors reach the caller, unless a method tolerates them |
| Ansible runner | `app/engine/ansible_runner.py` | a subprocess per playbook | run a playbook | its failure fails the step |
| GPU, TPM and IPMI views | `app/api/gpu.py`, `tpm.py`, `ipmi.py` | inventory columns of `machines` | refresh, read | as for direct BMC calls |
| Dashboard, metrics | `app/api/dashboard.py`, `metrics.py` | none | reads | see `WorkflowStore` |
| Settings, wiring, CLI | `app/config.py`, `app/main.py`, `scripts/cli.py` | none | | |

How they interact: an API request commits a workflow row and leaves an asyncio
task behind, which opens its own session. The task and other requests meet only
in the database (rows and row locks), in the connection pool and in the
event manager, whose `broadcast` is awaited in the middle of every transition and
may raise into it. A provisioning job polls its workflow's row, then calls an
external tool, whose installer calls back by hostname. The hard parts are
therefore copies of rows that go stale across an `await`, locks held across BMC
calls, failures between two effects, a process that dies with nothing to restart
its tasks, and callbacks that are early, late, repeated or misaddressed. The full
list of hazards is in `PROJECT.json`, each with the properties that watch it.

## Modules

The engine and what it promises:

* `MachineStates`: the states and the transition table.
* `WorkflowTypes`: what the five runners differ in - first and last transition,
  steps, effect of a failure - as tables. Constants shared by the engine and
  the provisioning are declared and constrained here.
* `WorkflowStore`: the abstract specification. What a reader of the database
  sees: rows are created, a retry is booked, a run completes or fails, each in one
  step.
* `WorkflowEngine`: the engine as it runs. `sess[s]` is one database session with
  its task: its program counter, its copies of the two rows, which of their
  columns it has changed, and what it has seen. `mlock` and `wlock` are
  PostgreSQL's row locks, taken by a flush that writes the row and held to the end of
  the transaction. The pieces of a run are `LoadMachine`, `LoadWorkflow`,
  `BeginRun` (first `_transition`: check the copy, flush, wait for the lock),
  `RecordStep` (`_update_workflow`), `StepSucceeds`/`StepRaises` (the BMC call),
  `FinishRun`, `FlushMachine` and `CompleteRun` (one flush of both rows, the
  machine's first), `Commit`, and the except clause `FailMachine`/`FailWorkflow`.
  `Resume...` are the awaits of `resume_workflow`. A resumed custom run skips some
  of its steps or all (`MaySkip`: which ones is `CustomRun`'s matter).
  `ConnectTimesOut` is a session that finds the pool empty, `DeadlockAborts`
  PostgreSQL failing one of two statements that wait for each other, `Crash` the
  process dying. It extends `WorkflowStore`, and `ImplementsStore` says that its
  rows change as the store allows.
* `WorkflowEngineProofs`: theorems about `WorkflowEngine`. Each module named
  `...Proofs` extends the module it is named after with theorems about it; what they
  say is told under Proofs.

The steps of a run, and the calls to a machine:

* `RedfishClient`: every method of the Redfish and IPMI clients by what its caller
  can tell apart - a read, a write, a method that tolerates refusals - what it
  raises for each reply of the BMC (`Result`), and the calls of each action of
  a custom step (`StepCalls`).
* `CustomRun`: `run_custom` and its resumption, step by step and call by call.
  Where `WorkflowEngine` counts steps, this module has `steps`, the checkpoint
  `ckpt` in the workflow's row, the position `pos` of each run in the list and
  `executed`, what has been carried out. `RecordStep` is `_update_workflow`,
  `StepDone` `_save_checkpoint`, `StartAt` the search for the checkpoint's name
  in a resumed run. Two runs of one workflow can hold one row each and wait for the
  other: `CompleteWaits` is a last flush that has the machine's row and waits
  for the workflow's, `DeadlockAborts` PostgreSQL failing one of the two waiting
  statements, whose task dies. `Store == INSTANCE WorkflowStore WITH ...` maps the one
  machine and the one workflow to the rows of the store; `RefinesStore` is the
  refinement.
* `DirectCalls`: the endpoints that talk to a BMC within one request or write the
  machine's row, each an entry of `Endpoints` (its calls in order, which
  failures it forgives, the columns it writes), beside a `CustomRun` on the same
  machine. `request[q].seen` is the row as it was loaded, `copy` what the request
  has made of it, `sees` the machine's state as loaded; `Write` sends the columns in
  which `copy` and `seen` differ. That it does not send the rest is what
  `RefinesStore` needs beside requests: a write of the whole row would bring back a
  state from before a run.

Installation of operating systems:

* `ExternalTools`: the calls `start_provision` makes to Satellite, MECM, vCenter
  and for Ignition, in their order, which of them order an installation, and
  the one whose error is passed over.
* `Provisioning`: jobs, their polling tasks (`task[j]` is the program counter of
  `_run_full_provision`, `made[j]` the calls of the tool already made), the
  external installers, MECM's shared collection and its deployment, and the callback
  requests, on top of `WorkflowStore`: preparation is one atomic change of the rows,
  which is what `WorkflowEngine` and `CustomRun` are shown to implement.
  `ProvisionMachine` looks at the machine's state and `CommitProvision` commits the
  job, wherever the machine is by then. `copies` has what the resume requests that
  passed their checks may have loaded, so that `ResumePrep` books a retry on a
  workflow that has completed, or was resumed by another, in the meantime.

The other parts:

* `Registration`: requests that register one machine or discover a subnet. `entry`
  is the unique index entry of an open transaction, `row` a committed machine. A
  batch is rolled back (`RollBack`) by an address that was taken or by a host whose
  answer raises (`HostRaises`).
* `EventManager`: the endpoint of each client and the broadcast loop, whose
  iterator is an index into a list that others change.
* `Tenants`: requests on one organisation, its members and a project. `ask[q].pc`
  walks through `_get_org_and_check_access` select by select (`SelectOrg`,
  `SelectMembership`), then `SelectTarget`, then the write of the endpoint; `entry`
  is the slug of an uncommitted organisation.
* `Firmware`: baselines and machines as rows, and a scan as one session. A version
  of a baseline is its filters and rules together; `Applies` says which machines
  the filters of a version let match, and `NoRules` are the versions whose rules a
  `PATCH` has set to null. `FindBaselines` selects the baselines of the next
  machine, which flushes the reports of the one before; `held` is the identity map,
  whose copies also decide which machines match; `Judge` adds a report, `JudgeRaises`
  is a baseline without rules, which costs a scan of the fleet that one pair and a single
  check everything; `FlushFails` is the foreign key that rolls the whole scan back.
  `steady`, which the properties speak of, has the pairs of a machine and a baseline fit
  to judge it that no edit has parted since the scan began. The module also has
  `DELETE /firmware-baselines/{id}` and `DELETE /machines/{id}`.

`MCWorkflowEngine`, `MCProvisioning`, `MCEventManager`, `MCRegistration`,
`MCDirectCalls` (for `CustomRun` and `DirectCalls`), `MCTenants` and `MCFirmware` are
instances for TLC.

Definitions that begin with "Mutant:" in their comment are wrong versions
of the definition below them; nothing uses them. They are there to show that each
property notices the corresponding mistake.

## Runs

| Run | Question | Bounds |
| --- | --- | --- |
| `engine_safety` | types, exclusion, atomicity, retry bound, refinement of the store; no deadlock; which runs alone can wait in a circle; pool exhausted | 1 machine, 2 workflows of all five types, 3 sessions on 2 connections, 1 retry, 1 crash |
| `engine_liveness` | every workflow has a task and settles, with a connection for each, even when two runs wait in a circle | 1 machine, 2 workflows (decommission, health check or custom without a target state), 2 sessions, 1 retry |
| `custom` | no step is lost between failures, resumes and crashes; refinement of the store by runs and direct calls; no circle of row locks; direct calls are answered | 2 lists of steps, 2 runs, 1 request (`power_action` or `get_tpm_status`), 1 retry, 1 crash |
| `circular_wait` | every run ends, even when runs wait for each other's rows | 1 list of one wait step, no target state, 3 runs, 1 retry |
| `registration` | true answers, tasks only for committed machines, no circular wait, every request ends | 2 discoveries of 3 overlapping addresses, 1 registration, 1 crash; any host may raise |
| `provisioning` | order of preparation, tool calls, dispatch and callback; jobs leave pending, wait only for ordered installers and never reopen | 1 machine, 2 jobs (MECM, vCenter), 1 callback at a time, 1 retry, resumed at any time later, 1 fault |
| `events` | order, no duplicates, history, reach | 3 clients, 2 producers, 3 events, history of 2 |
| `tenants` | creation is all or nothing; nothing deactivated or removed comes back | 2 users (one a system administrator), 2 requests at a time, 2 member ids, 2 roles to give |
| `firmware` | scans are whole, keep their rows, judge by one set of rules | 3 machines, 2 baselines, 4 versions (two match every machine, one passes over a machine, one has no rules), 1 scan |
| `stale_transition`, `resume_refused`, `lost_step` | statements of the documentation that the code does not keep | the smallest instance that shows it |

Why the bounds suffice. Rows of different machines share nothing but
the pool, so one machine with two workflows has every conflict between two runs,
and a third session adds the overtaking of a waiter and racing resumes of one
workflow. One crash is enough because a crash leaves nothing but the
committed rows. The lists of steps in `custom` have what a run treats differently: an action of several
calls that may end after the first, a wait whose record is not its name, a playbook,
an unknown type; two runs are two resumes that race or a resume beside a
late run. `circular_wait` needs three resumes that race for one retry: one fails
again, one loads the row as that failure left it and executes the step, one claims the
workflow once more and skips the step. The two endpoints there are one that stamps the row whatever it was told and
one that forgives a refusal and writes only what is new; all the others
are rows of the same table. Two jobs show a device that is installed by the deployment
another job made, and a tool that orders no installation; the tools left out of the
instance make fewer calls of the same kinds. For broadcasts, three clients are needed for a
skip behind a removed connection while another is dead, two producers for a double
removal. A history of two is below the number of events, so trimming happens. Two requests on an
organisation are one that has passed its checks and one that takes
away what was checked; they are interchangeable, so the run uses symmetry. Three
machines are the least for a baseline to be loaded, let go and loaded again by one scan;
the first and the last, and the two baselines, are interchangeable. The liveness run,
which cannot use symmetry, has two sessions: enough for two resumes of one workflow to wait in
a circle; it leaves out `enroll` and `provision`, which run like
`decommission` with other states and numbers of steps.

`CHECK_DEADLOCK FALSE` is set where a system may come to rest: in `custom` all
requests and retries can be used up, in `provisioning`, `registration`, `events`,
`tenants` and `firmware` likewise. The two runs of the engine check for deadlock: it may
rest only when no session has work left (`Waiting`), so sessions that wait for each
other's row locks, in a circle that PostgreSQL does not abort, would be reported.

### What the violated properties show

* `LifecycleFollowed`: the table is checked on the session's copy, before the
  wait for the row lock; the committed state can be one that another run left long
  ago, so the committed move need not be one of the table.
* `ResumeIsAccepted`: a failed run leaves the machine in ERROR; the table does not
  lead from there to PROVISIONING, so every retry of a provision fails at once.
* `CompletedMeansAllSteps` (`lost_step`): a wait step is recorded as `wait_<n>s` before it sleeps.
  When it fails there, the resumed run looks for a step of that name, finds none,
  skips every step and completes.

### Steps and progress are not persisted

`src/README.md:321` says "Each completed step is persisted; failed workflows restart from
the failure point", line 322 that a workflow in the background can be polled via the API, and
`dashboard.py:64` selects the workflows that are "pending" or "running" as the active ones.
The code does otherwise: `_update_workflow` and `_save_checkpoint` flush, and a runner commits
once, when it completes or in its except clause. `NoTransientCommitted`, which the run
`engine_safety` checks and `TransientNeverCommitted` proves, states what the code does: nothing
of a run is visible before its end - no step, no status "running", no transient state of the
machine. So a poll sees "pending" (or "resuming", which the dashboard does not count) until the
end, no query ever finds a "running" workflow, and a crash loses every step of the runs in
progress. The mutant of that property, which commits the first transition, is nearer to what
the documents promise. It is listed under the findings, with the run that
shows the code's side of it.

### What else the models found

* A circle of row locks. A run of a custom workflow without a target state has no
  first transition. If it executes its steps, it writes the workflow's row first
  and the machine's at the end; if it was resumed and skips them all, its last flush
  writes the machine's row first. When one of several racing resumes has failed
  again, another that loads "failed" starts over and a third that loads its own
  "resuming", with a checkpoint that no step has the name of, skips them all: the
  two wait for each other. The database's deadlock detection breaks the
  circle; the task it aborts fails in its except clause too, and dies. The runs show
  that every workflow still settles (`EveryRunEnds`, `EveryWorkflowSettles`). With a target
  state this cannot happen (`TargetOrdersLocks`, `TargetsPreventCircles`), and no other
  pair of sessions can come to it (`OnlySkippersCollide`).
* READY comes early. The preparation workflow itself ends in READY and commits it
  before the installation is ordered, while `app/provisioning/orchestrator.py:7-8` says that
  the callback makes the machine READY. The callback's branch for a machine in
  PROVISIONING is not taken: no reader finds a machine in that state
  (`TransientNeverCommitted`), unless a custom workflow asks for it.
* A workflow without steps is not atomic. A run that loads the row when a racing
  run has just completed it has a copy that says "completed"; with no step in between,
  its last assignment changes nothing, so that only the machine's state is
  written - by then perhaps while another resume has claimed the workflow. TLC shows
  this when `CustomSteps` is `<< >>`; the refinement theorems assume steps
  (`StepsGiven`).

Other behaviour met while modelling - two racing resumes of one workflow, the second
of which runs it again after it has completed; an installation ordered while the
preparation still runs, or left running by a job that failed; a job or a workflow that a
crash leaves open for good; a callback by hostname that ends another job; a client skipped
behind a removed connection - is listed under the hazards. A hazard's note says where the
code allows what it describes and the properties only bound it.

## Fairness

`FairEngineSpec` assumes strong fairness of each session's work: asyncio
runs ready tasks in turn, PostgreSQL serves the waiters of a row lock in order,
and every BMC call ends because the HTTP client has a timeout, so a session that
can proceed again and again does. Nothing is assumed of requests, of crashes or
of the pool. `FairDirectSpec` assumes the same of each run and each direct request; a
request may find the row locked by one run after another, which is why weak
fairness would not do. `ProvSpec` assumes weak fairness of each polling task: its sleeps and
its calls end. Nothing is assumed of the preparation, the installers or the
callbacks. `RegSpec` assumes weak fairness of each request that has arrived: one
that can go on does, as asyncio and PostgreSQL see to. `EventSpec`, `TenantSpec` and
`FirmwareSpec` need none. `DirectSpec` is the same
system without fairness, as the proofs and `lost_step` use it. The liveness run of the engine has no crash and a connection for every task: with a
crash, or a timeout of the pool, the code leaves workflows pending for good.

## Proofs

Every invariant, action property and refinement that a passing run checks is stated
by a theorem, for every number of machines, workflows, sessions, runs, requests,
jobs, clients, users and baselines. Each module has an inductive invariant that
implies its properties, a lemma for each action or group of actions, and theorems
that combine them with `PTL`.

`WorkflowEngineProofs`, with the invariant `IInv`:

* `TypeCorrect` (`EngineTypeOK`), `RetriesBounded` (`RetryBound`, however many requests
  race), `DrivesAreExclusive` (`ExclusiveDrive`), `DrivesAreUndisturbed`
  (`UndisturbedDrive`), and `TransientNeverCommitted` (`NoTransientCommitted`, if a custom
  workflow does not itself ask for a transient outcome: `CustomSettles`). None is
  inductive alone: exclusion needs that a session which drives the BMC holds the machine's
  row lock (`LockOK`), which needs that a lifecycle run's first transition has really
  changed its copy, so that the flush writes the row (`CopyOK`); the retry bound
  needs that a copy's counter is bounded wherever a claim may follow (`TaskOK`).
* `EngineImplementsStore`: the engine implements `WorkflowStore` (`ImplementsStore`), if
  custom workflows have steps (`StepsGiven`). One lemma for each kind of step shows which
  action of the store it is, or that readers see nothing. `MarksInv` says what a
  run has marked as changed before it commits: its status from the first step
  on, the machine's state when its type has one.
* `OnlyFaultsStrand` (`NoOrphanedWorkflow`). That an open workflow has some session is not
  inductive: one that has read the row as settled would end without writing it.
  `CarriedInv` asks for a session that is still to claim or write it. That the pool
  cannot time out when it has a connection for every session is a counting argument.
* `OnlySkippersCollide` (`OnlySkippingRunsCollide`) and `TargetsPreventCircles`. `OrderInv`
  gives each run an order: one with a first transition takes the machine's row first, one
  that records a step without such a transition the workflow's, and only a resumed
  custom run that has skipped all it passed comes to the machine's row first without a
  transition. Runs of one workflow have one type; runs of different
  workflows of one machine share only the machine's row.

`CustomRunProofs` (`CustomInv`): `CustomTypesHold`, `CheckpointsLoseNothing` (`NoStepLost`
for every list of steps: a run behind a checkpoint has carried out the steps before
its position, and so has a workflow that committed the checkpoint; names may repeat,
since a resume goes back to the first step of a name), `TargetOrdersLocks`
(`NoCircularWait`, if there is a target state) and `RunImplementsStore` (`RefinesStore`,
if the workflow has steps).

`DirectCallsProofs` (`DirectInv`): `RequestsLeaveRunsAlone` shows that `DirectSpec` implies
`CustomSpec`, which carries the four theorems above over to the system with direct
calls (`CustomTypesBesideRequests`, `NothingLostBesideRequests`, `StoreBesideRequests`,
`NoCircleBesideRequests`); `DirectTypesHold`, for every set of endpoints offered.

`ProvisioningProofs` (`ProvInv`): `ProvisioningTypesHold`, `InstallsArePrepared`,
`CallbacksFindDispatched`, `DeployingIsOrdered` and `EndedStaysEnded`. What
strengthens them says which calls of a tool have been made at each point of its
task, and that MECM's collection has the machine before its deployment is made.

`RegistrationProofs` (`RegInv`): `RegistrationTypesHold`, `AnswersAreHonest`, `EnrollsOwnRows`
and `WaitsAreOrdered`. An address has a row or an open insert, never both; a
discovery's queue is ascending and lies above all it has inserted. That every
set of hosts has such an order is by induction on its size.

`EventManagerProofs` (`EventInv`): `EventTypesHold`, `EventsComeInOrder` (`ProducerOrder`),
`HistoryIsKept` (`HistoryIsNewest`) and `BroadcastsReachAll` (`ReachesAllUnlessRemoved`).
`WalkOK` relates the index of a broadcast to the list that others change under it;
`ReachOK` says that, while nothing was removed, everybody still to be reached stands at
or behind the index. Facts about lists without some of their members are by induction, as
instances of the theorem that a well-founded relation has minimal elements.

`TenantsProofs` (`TenantInv`): `TenantTypesHold`, `OrganisationAppearsWithOwner`,
`DeactivationIsFinal`, `RemovalIsFinal` and `DeactivatedIsFrozen`. Whoever is past the select
of the organisation knows that it exists; who creates it holds the slug.

`FirmwareProofs` (`FirmwareInv`): `FirmwareTypesHold`, `ReportsAreAnchored`, `ScansAreWhole` and
`RulesAreStable`. `KeysOK` says that what a scan has flushed is protected by the foreign
keys, `Covered` that it has judged every steady pair of a machine before its turn,
`RulesKept` that a baseline that is steady for all of its machines stays in the identity map
with the version first read.

Assumptions are those of the modules: named, as weak as the code allows, evaluated by
TLC in every run. Sentinels are no members of the sets they extend; bounds are natural
numbers; `Sessions`, `Addresses` and `MemberIds` are finite; a tool, a type and a state are
among those the code knows; there is some version of the rules. Three hypotheses stand in
the theorems themselves, because they are about what a user asks for:
`CustomSettles`, `StepsGiven` and a target state (`Target # NoState`, `CustomTarget # NoState`). The latter two are necessary, as told
under "What else the models found".

Only model-checked:

* Liveness, which is out of the prover's reach like `ENABLED`: `EveryWorkflowSettles`,
  `EveryRequestAnswered`, `EveryRunEnds`, `JobsLeavePending`, `EveryRequestEnds`.
* Freedom from deadlock in the engine (TLC's own check; what is proved is which circles
  of row locks there are, all of which the database breaks).
* The violated properties, which are shown by their counterexamples.

## Abstractions

* Step payloads (BIOS attributes, inventories, power readings) are left out: a
  call of a run or a request succeeds or raises, a write perhaps after it took
  effect. In `WorkflowEngine`, steps that cannot raise are `SafeSteps`.
* A method of the BMC clients that reads a collection member by member is one call.
* An `UPDATE` writes the changed columns of a row and waits for the row lock;
  reads never wait (READ COMMITTED). A copy stays as it was loaded, because
  sessions are made with `expire_on_commit=False`.
* A broadcast inside a run is a point where the run may raise (`RunRaises`).
* A provisioning job is named by its workflow; callbacks carry the outcome and,
  perhaps, the machine. A payload with another status changes no status.
* Calls of the tools that only look something up raise like the call they prepare; the
  reading of the added host at the end of vCenter's flow is part of the last call.
  MECM, with its shared collection, is code outside `src/`, modelled from the calls.
* In `WorkflowEngine`, custom workflows have a fixed list of steps, the first of a known
  type, and a known target and final state; a resumed run may skip any number of them.
  `CustomRun` has the lists and the checkpoints.
* Whether a machine in ERROR still has an error message when a resume would clear it is
  not followed: `ResumeRead` may go either way.
* In `Provisioning`, two tasks that the engine has for one workflow, after racing resumes,
  are not told apart; `WorkflowEngine` has them one by one.
* `TargetState` and `FinalState` of `WorkflowTypes` stand for one line in each runner; the map
  names the branch of the custom runner, which is the only one with a condition, and
  their comments the other lines.
* `Tenants` has one organisation and one project slug; names, descriptions and
  settings are left out.
* `Firmware` leaves out what a machine is found to run and hence the verdict of a
  report: the properties are about which reports there are and by which rules.
  A baseline's `UPDATE` of columns that equal the copy is no step. The machines' own
  vendors and models are fixed; a scan keeps its machines as it first loaded them anyway.

## Not modelled

* Provisioning profiles and the serving of their files: rows that are written in
  one statement and, while a job runs, only read.
* BMC credentials: create, list and delete are one commit each, and no other component
  reads them; their race is listed as a hazard.
* Authentication: token validation is a library's, the role order a comparison
  of two numbers. Every endpoint is guarded alike, before it touches any state.
* Dashboard, metrics, fleet summaries and the compliance summary: reads of committed
  rows, which `WorkflowStore` and `Firmware` say the possible values of.
* The Ansible subprocess: a playbook is a step that ends or raises.
* Settings, router wiring, schema creation, the command line client: no state that
  changes. `max_concurrent_workflows` is read by no code.

## Plan

1. Done: engine, store, provisioning with the tools' calls, events, registration,
   custom runs and direct calls, tenants, firmware compliance; a theorem for every
   invariant, action property and refinement that a passing run checks.
2. What is left to prove: that the rows of `Provisioning` change as `WorkflowStore`
   allows, so that the polls rest on the abstract specification alone; properties of
   `WorkflowStore` (`retry_count` grows by a claim only, a completed workflow stays so
   unless a claim races it) that the refinement theorems then carry to the
   engine and to custom runs; that a freed machine's row is always left in the state
   which the last commit gave it.
3. Components that are only described: credentials, provisioning profiles.
