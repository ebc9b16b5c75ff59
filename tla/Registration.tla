---------------------------- MODULE Registration ----------------------------
(***************************************************************************)
(* How machines come into the database: one by one (register_machine of     *)
(* app/api/machines.py) or a subnet at a time (app/api/discovery.py, with   *)
(* discover_subnet of app/redfish/discovery.py). Both look whether an       *)
(* address is registered and insert the machine later, in a transaction     *)
(* that other requests do not see before it commits; machines.bmc_ip is     *)
(* unique.                                                                  *)
(***************************************************************************)
EXTENDS Naturals, FiniteSets, SequencesExt

CONSTANTS
  Addresses,   \* BMC addresses; the order is that of network.hosts()
  Requests,    \* the requests that are made
  Discovers,   \* those that discover; the others register one machine
  Scope,       \* the subnet of a discovery, the address of a registration
  NoRequest,
  MaxCrashes   \* bound on crashes of the server process

ASSUME AddressesAssumption == Addresses \subseteq Nat /\ IsFiniteSet(Addresses)
ASSUME RequestsAssumption ==
  NoRequest \notin Requests /\ Discovers \subseteq Requests
ASSUME ScopeAssumption ==
  /\ Scope \in [Requests -> SUBSET Addresses]
  /\ \A r \in Requests \ Discovers : Cardinality(Scope[r]) = 1

VARIABLES
  row,     \* the request that committed the machine of an address
  entry,   \* the request whose open transaction has inserted it
  pc,      \* program counter of a request
  todo,    \* the addresses it has still to handle, in order
  added,   \* the addresses it has inserted
  known,   \* the addresses it reports as already registered
  tasks,   \* the enroll workflows started, by request and address
  crashes

regVars == <<row, entry, pc, todo, added, known, tasks, crashes>>

Ended == {"done", "refused", "failed", "lost"}
PCs == {"new", "check", "insert", "respond"} \cup Ended

RegInit ==
  /\ row = [a \in Addresses |-> NoRequest]
  /\ entry = [a \in Addresses |-> NoRequest]
  /\ pc = [r \in Requests |-> "new"]
  /\ todo = [r \in Requests |-> << >>]
  /\ added = [r \in Requests |-> {}]
  /\ known = [r \in Requests |-> {}]
  /\ tasks = {}
  /\ crashes = 0

Step(r, from, to) == pc[r] = from /\ pc' = [pc EXCEPT ![r] = to]

(* Mutant: the hosts in the order in which they answered.                   *)
AsAnswered(hosts) ==
  {s \in [1..Cardinality(hosts) -> hosts] : ToSet(s) = hosts}

(* discover_subnet: any of the hosts answers; gather keeps their order.     *)
InOrder(hosts) ==
  {s \in [1..Cardinality(hosts) -> hosts] :
     ToSet(s) = hosts /\ \A i, k \in DOMAIN s : i < k => s[i] < s[k]}

Arrive(r) ==
  /\ Step(r, "new", "check")
  /\ \E hosts \in IF r \in Discovers THEN SUBSET Scope[r] ELSE {Scope[r]} :
       \E s \in InOrder(hosts) : todo' = [todo EXCEPT ![r] = s]
  /\ UNCHANGED <<row, entry, added, known, tasks, crashes>>

Current(r) == Head(todo[r])
Handled(r) == todo' = [todo EXCEPT ![r] = Tail(todo[r])]

(* select(Machine).where(Machine.bmc_ip == ip) sees committed rows.         *)
FoundRegistered(r) ==
  /\ todo[r] # << >>
  /\ row[Current(r)] # NoRequest
  /\ IF r \in Discovers
     THEN /\ pc[r] = "check"
          /\ known' = [known EXCEPT ![r] = known[r] \cup {Current(r)}]
          /\ Handled(r)
          /\ UNCHANGED pc
     ELSE /\ Step(r, "check", "refused")
          /\ UNCHANGED <<known, todo>>
  /\ UNCHANGED <<row, entry, added, tasks, crashes>>

FoundNew(r) ==
  /\ todo[r] # << >>
  /\ row[Current(r)] = NoRequest
  /\ Step(r, "check", "insert")
  /\ UNCHANGED <<row, entry, todo, added, known, tasks, crashes>>

(* Mutant: the workflow's task is created at once.                          *)
InsertAndStart(r) ==
  /\ Step(r, "insert", "check")
  /\ entry[Current(r)] = NoRequest
  /\ row[Current(r)] = NoRequest
  /\ entry' = [entry EXCEPT ![Current(r)] = r]
  /\ added' = [added EXCEPT ![r] = added[r] \cup {Current(r)}]
  /\ tasks' = tasks \cup {<<r, Current(r)>>}
  /\ Handled(r)
  /\ UNCHANGED <<row, known, crashes>>

(* The INSERT waits for the open transaction that has inserted the same     *)
(* address. The enroll workflow is inserted with it, its task is only       *)
(* handed to BackgroundTasks.                                               *)
Insert(r) ==
  /\ Step(r, "insert", "check")
  /\ entry[Current(r)] = NoRequest
  /\ row[Current(r)] = NoRequest
  /\ entry' = [entry EXCEPT ![Current(r)] = r]
  /\ added' = [added EXCEPT ![r] = added[r] \cup {Current(r)}]
  /\ Handled(r)
  /\ UNCHANGED <<row, known, tasks, crashes>>

Release(r) ==
  entry' = [a \in Addresses |-> IF entry[a] = r THEN NoRequest ELSE entry[a]]

(* Mutants: the session is not closed when the insert raises; a conflict is *)
(* taken for a success (ON CONFLICT DO NOTHING).                            *)
InsertConflictsKeeping(r) ==
  /\ Step(r, "insert", "failed")
  /\ entry[Current(r)] = NoRequest
  /\ row[Current(r)] # NoRequest
  /\ added' = [added EXCEPT ![r] = {}]
  /\ UNCHANGED <<row, entry, todo, known, tasks, crashes>>
ConflictIgnored(r) ==
  /\ Step(r, "insert", "check")
  /\ entry[Current(r)] = NoRequest
  /\ row[Current(r)] # NoRequest
  /\ added' = [added EXCEPT ![r] = added[r] \cup {Current(r)}]
  /\ Handled(r)
  /\ UNCHANGED <<row, entry, known, tasks, crashes>>

(* The request fails with a 500, and all it has inserted is rolled back.    *)
RollBack(r, from) ==
  /\ Step(r, from, "failed")
  /\ Release(r)
  /\ added' = [added EXCEPT ![r] = {}]
  /\ UNCHANGED <<row, todo, known, tasks, crashes>>

(* The address was committed since the select: IntegrityError.              *)
InsertConflicts(r) ==
  /\ RollBack(r, "insert")
  /\ entry[Current(r)] = NoRequest
  /\ row[Current(r)] # NoRequest

(* The host is new, but its answer is JSON and no object, which has no      *)
(* vendor: raises before the INSERT.                                        *)
HostRaises(r) ==
  /\ r \in Discovers
  /\ todo[r] # << >>
  /\ row[Current(r)] = NoRequest
  /\ RollBack(r, "check")

CommitRows(r) ==
  /\ todo[r] = << >>
  /\ Step(r, "check", "respond")
  /\ row' = [a \in Addresses |-> IF entry[a] = r THEN r ELSE row[a]]
  /\ Release(r)
  /\ UNCHANGED <<todo, added, known, tasks, crashes>>

(* The background tasks run after the response.                             *)
StartTasks(r) ==
  /\ Step(r, "respond", "done")
  /\ tasks' = tasks \cup {<<r, a>> : a \in added[r]}
  /\ UNCHANGED <<row, entry, todo, added, known, crashes>>

(* The process dies: open transactions roll back, and the workflows of the  *)
(* rows just committed are never started.                                   *)
RegCrash ==
  /\ crashes < MaxCrashes
  /\ crashes' = crashes + 1
  /\ pc' = [r \in Requests |->
              IF pc[r] \in Ended \cup {"new"} THEN pc[r] ELSE "lost"]
  /\ entry' = [a \in Addresses |-> NoRequest]
  /\ UNCHANGED <<row, todo, added, known, tasks>>

Handle(r) ==
  \/ FoundRegistered(r) \/ FoundNew(r) \/ Insert(r) \/ InsertConflicts(r)
  \/ HostRaises(r) \/ CommitRows(r) \/ StartTasks(r)

RegNext == (\E r \in Requests : Arrive(r) \/ Handle(r)) \/ RegCrash

(* asyncio and PostgreSQL let every request that can go on do so.           *)
RegSpec ==
  /\ RegInit
  /\ [][RegNext]_regVars
  /\ \A r \in Requests : WF_regVars(Handle(r))

-----------------------------------------------------------------------------
(* Properties                                                               *)

(* The variables have their types; an open insert belongs to a request that *)
(* is being handled, and a handled request has every row it has added.      *)
RegTypeOK ==
  /\ row \in [Addresses -> Requests \cup {NoRequest}]
  /\ entry \in [Addresses -> Requests \cup {NoRequest}]
  /\ pc \in [Requests -> PCs]
  /\ added \in [Requests -> SUBSET Addresses]
  /\ known \in [Requests -> SUBSET Addresses]
  /\ \A r \in Requests : ToSet(todo[r]) \subseteq Scope[r]
  /\ \A a \in Addresses : entry[a] # NoRequest =>
       pc[entry[a]] \in {"check", "insert"} /\ a \in added[entry[a]]
  /\ tasks \subseteq Requests \X Addresses

(* The answer of a request is true: what it says it has registered is its   *)
(* own, committed, and what it says was known was someone else's.           *)
HonestAnswer ==
  \A r \in Requests : pc[r] \in {"respond", "done"} =>
    /\ \A a \in added[r] : row[a] = r
    /\ \A a \in known[r] : row[a] \notin {NoRequest, r}

(* An enroll workflow is started only for a committed machine, once, however *)
(* the request ends.                                                        *)
TaskHasRow == \A t \in tasks : row[t[2]] = t[1]

(* A request that waits for an address holds only lower ones: requests with *)
(* overlapping subnets never wait for each other in a circle.               *)
WaitsUpwards ==
  \A r \in Requests : pc[r] = "insert" =>
    \A a \in Addresses : entry[a] = r => a < Current(r)

(* Every request that has arrived is answered or dies with the server.      *)
EveryRequestEnds ==
  \A r \in Requests : pc[r] # "new" ~> pc[r] \in Ended
=============================================================================
