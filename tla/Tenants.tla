------------------------------- MODULE Tenants -------------------------------
(***************************************************************************)
(* Organisations, their members and their projects (app/api/tenants.py,     *)
(* app/models/tenant.py). A request reads row after row - the organisation, *)
(* the caller's membership, what it is about - and then writes and commits: *)
(* whatever it has checked may have changed by then. One organisation and   *)
(* one project slug; rows that are deactivated stay and keep their slug,    *)
(* members are deleted. An UPDATE carries the columns that differ from the  *)
(* copy, finds the row by its id and raises when the row is gone.           *)
(***************************************************************************)
EXTENDS Naturals, FiniteSets

CONSTANTS
  Users,          \* subjects of the callers' tokens
  SystemAdmins,   \* users with Role.ADMIN
  GivenRoles,     \* the roles that requests give to members
  MemberIds,      \* primary keys of org_members, given out in order
  TenantRequests, \* slots for concurrent requests
  NoOne           \* no request, no user

ASSUME SystemAdminsAssumption == SystemAdmins \subseteq Users
ASSUME GivenRolesAssumption == GivenRoles \subseteq STRING
ASSUME MemberIdsAssumption == MemberIds \in SUBSET Nat /\ IsFiniteSet(MemberIds)
ASSUME NoOneAssumption == NoOne \notin TenantRequests \cup Users

VARIABLES
  org,      \* "none", "active" or "inactive"
  entry,    \* the request whose uncommitted INSERT holds the slug
  project,  \* "none", "active" or "inactive"
  member,   \* the rows of org_members by id
  used,     \* ids given out so far
  ask       \* the requests

tenantVars == <<org, entry, project, member, used, ask>>

(* role_hierarchy; a role that is not in it counts nothing.                 *)
Rank(role) ==
  CASE role = "owner" -> 4 [] role = "admin" -> 3 [] role = "operator" -> 2
    [] role = "viewer" -> 1 [] OTHER -> 0

(* required_role of the endpoints; get_org and the lists require none.      *)
Required(op) ==
  CASE op = "delete_org" -> 4
    [] op \in {"update_org", "delete_project", "add_member", "update_member",
               "remove_member"} -> 3
    [] op \in {"create_project", "update_project"} -> 2
    [] op = "get_org" -> 0

ProjectOps == {"update_project", "delete_project"}
MemberOps == {"update_member", "remove_member"}
Ops == {"get_org", "update_org", "delete_org", "create_project", "add_member"}
         \cup ProjectOps \cup MemberOps

NoRow == [user |-> NoOne, role |-> "none"]
NoAsk == [pc |-> "idle", op |-> "none", user |-> NoOne, id |-> 0,
          other |-> NoOne, role |-> "none", active |-> TRUE, seen |-> "none"]

TenantInit ==
  /\ org = "none"
  /\ entry = NoOne
  /\ project = "none"
  /\ member = [i \in MemberIds |-> NoRow]
  /\ used = {}
  /\ ask = [q \in TenantRequests |-> NoAsk]

Asks(q, pc) == ask[q].pc = pc
Go(q, pc) == ask' = [ask EXCEPT ![q].pc = pc]
Answer(q) == ask' = [ask EXCEPT ![q] = NoAsk]
TablesUnchanged == UNCHANGED <<org, entry, project, member, used>>

RowsOf(u) == {i \in MemberIds : member[i].user = u}

-----------------------------------------------------------------------------
(* create_org                                                               *)

(* The flush of the organisation takes the slug; another request with the   *)
(* same slug waits for the transaction to end.                              *)
CreateOrg(q, u) ==
  /\ Asks(q, "idle")
  /\ org = "none" /\ entry = NoOne              \* else waits, then raises
  /\ entry' = q
  /\ ask' = [ask EXCEPT ![q] = [NoAsk EXCEPT !.pc = "create", !.user = u]]
  /\ UNCHANGED <<org, project, member, used>>

NextId(i) == i \in MemberIds \ used /\ \A j \in MemberIds \ used : i <= j

(* Mutant: the owner is added in a transaction of its own.                  *)
CommitOrgAlone(q) ==
  /\ Asks(q, "create")
  /\ org' = "active"
  /\ entry' = NoOne
  /\ Answer(q)
  /\ UNCHANGED <<project, member, used>>

(* The creator's membership is inserted, and both rows are committed.       *)
CommitOrg(q) ==
  /\ Asks(q, "create")
  /\ \E i \in MemberIds :
       /\ NextId(i)
       /\ used' = used \cup {i}
       /\ member' = [member EXCEPT ![i] = [user |-> ask[q].user, role |-> "owner"]]
  /\ org' = "active"
  /\ entry' = NoOne
  /\ Answer(q)
  /\ UNCHANGED project

-----------------------------------------------------------------------------
(* The other endpoints                                                      *)

(* A call and its payload: the member it is about, the role to give, and    *)
(* is_active, which the two updates accept (unset counts as TRUE).          *)
Call(q, op, u) ==
  /\ Asks(q, "idle")
  /\ \E i \in IF op \in MemberOps THEN MemberIds ELSE {0},
        v \in IF op = "add_member" THEN Users ELSE {NoOne},
        r \in IF op \in {"add_member", "update_member"} THEN GivenRoles ELSE {"none"},
        a \in IF op \in {"update_org", "update_project"} THEN BOOLEAN ELSE {TRUE} :
       ask' = [ask EXCEPT ![q] = [pc |-> "org", op |-> op, user |-> u, id |-> i,
                                  other |-> v, role |-> r, active |-> a,
                                  seen |-> "none"]]
  /\ TablesUnchanged

(* After the checks: the row the request is about, or straight to writing.  *)
AfterAccess(op) ==
  CASE op \in ProjectOps \cup MemberOps -> "target"
    [] op = "get_org" -> "idle"
    [] OTHER -> "write"

(* Mutant: the organisation is found whether or not it is active.           *)
SelectAnyOrg(q) ==
  /\ Asks(q, "org")
  /\ IF org = "none" THEN Answer(q)
     ELSE Go(q, IF ask[q].user \in SystemAdmins THEN AfterAccess(ask[q].op)
                ELSE "member")
  /\ TablesUnchanged

(* _get_org_and_check_access: the organisation, and for everyone but system *)
(* administrators ...                                                       *)
SelectOrg(q) ==
  /\ Asks(q, "org")
  /\ IF org # "active" THEN Answer(q)                                  \* 404
     ELSE Go(q, IF ask[q].user \in SystemAdmins THEN AfterAccess(ask[q].op)
                ELSE "member")
  /\ TablesUnchanged

(* ... the membership and its rank.                                         *)
SelectMembership(q) ==
  /\ Asks(q, "member")
  /\ IF \E i \in RowsOf(ask[q].user) :
          Rank(member[i].role) >= Required(ask[q].op)
     THEN Go(q, AfterAccess(ask[q].op))
     ELSE Answer(q)                                                    \* 403
  /\ TablesUnchanged

(* The project, which has to be active, or the member by its id.            *)
SelectTarget(q) ==
  /\ Asks(q, "target")
  /\ IF IF ask[q].op \in ProjectOps THEN project = "active"
        ELSE member[ask[q].id] # NoRow
     THEN ask' = [ask EXCEPT ![q].pc = "write",
                    ![q].seen = IF ask[q].op \in MemberOps
                                THEN member[ask[q].id].role ELSE "none"]
     ELSE Answer(q)                                                    \* 404
  /\ TablesUnchanged

Writes(q, op) == Asks(q, "write") /\ ask[q].op = op /\ Answer(q)

(* Mutant: the UPDATE carries every column of the copy.                     *)
UpdateOrgWholeRow(q) ==
  /\ Writes(q, "update_org")
  /\ org' = IF ask[q].active THEN "active" ELSE "inactive"
  /\ UNCHANGED <<entry, project, member, used>>

(* The copy says that the organisation is active.                           *)
UpdateOrg(q) ==
  /\ Writes(q, "update_org")
  /\ org' = IF ask[q].active THEN org ELSE "inactive"
  /\ UNCHANGED <<entry, project, member, used>>

DeleteOrg(q) ==
  /\ Writes(q, "delete_org")
  /\ org' = "inactive"
  /\ UNCHANGED <<entry, project, member, used>>

(* The slug of a project is taken for good: a second INSERT raises.         *)
CreateProject(q) ==
  /\ Writes(q, "create_project")
  /\ project' = IF project = "none" THEN "active" ELSE project
  /\ UNCHANGED <<org, entry, member, used>>

UpdateProject(q) ==
  /\ Writes(q, "update_project")
  /\ project' = IF ask[q].active THEN project ELSE "inactive"
  /\ UNCHANGED <<org, entry, member, used>>

DeleteProject(q) ==
  /\ Writes(q, "delete_project")
  /\ project' = "inactive"
  /\ UNCHANGED <<org, entry, member, used>>

(* The second membership of a user raises; MemberIds bounds the others.     *)
AddMember(q) ==
  /\ Writes(q, "add_member")
  /\ \/ /\ RowsOf(ask[q].other) = {}
        /\ \E i \in MemberIds :
             /\ NextId(i)
             /\ used' = used \cup {i}
             /\ member' = [member EXCEPT ![i] =
                             [user |-> ask[q].other, role |-> ask[q].role]]
     \/ /\ RowsOf(ask[q].other) # {}
        /\ UNCHANGED <<member, used>>
  /\ UNCHANGED <<org, entry, project>>

(* Mutant: the row is merged, and inserted when it is gone.                 *)
UpsertMember(q) ==
  /\ Writes(q, "update_member")
  /\ member' = [member EXCEPT ![ask[q].id] =
       [user |-> IF @ = NoRow THEN ask[q].user ELSE @.user, role |-> ask[q].role]]
  /\ UNCHANGED <<org, entry, project, used>>

(* A row that is gone raises, in the UPDATE or, when the role is the one of *)
(* the copy and no UPDATE is sent, in the refresh.                          *)
UpdateMember(q) ==
  /\ Writes(q, "update_member")
  /\ member' = IF member[ask[q].id] = NoRow \/ ask[q].role = ask[q].seen
               THEN member
               ELSE [member EXCEPT ![ask[q].id].role = ask[q].role]
  /\ UNCHANGED <<org, entry, project, used>>

RemoveMember(q) ==
  /\ Writes(q, "remove_member")
  /\ member' = [member EXCEPT ![ask[q].id] = NoRow]
  /\ UNCHANGED <<org, entry, project, used>>

(* Mutant: the slug of an uncommitted organisation stays taken.             *)
CrashKeepsSlug ==
  /\ \E q \in TenantRequests : ~Asks(q, "idle")
  /\ ask' = [q \in TenantRequests |-> NoAsk]
  /\ UNCHANGED <<org, entry, project, member, used>>

(* The server dies and rolls back what the requests had not committed.      *)
TenantCrash ==
  /\ \E q \in TenantRequests : ~Asks(q, "idle")
  /\ ask' = [q \in TenantRequests |-> NoAsk]
  /\ entry' = NoOne
  /\ UNCHANGED <<org, project, member, used>>

TenantRequest(q) ==
  \/ \E u \in Users : CreateOrg(q, u) \/ \E op \in Ops : Call(q, op, u)
  \/ CommitOrg(q)
  \/ SelectOrg(q) \/ SelectMembership(q) \/ SelectTarget(q)
  \/ UpdateOrg(q) \/ DeleteOrg(q)
  \/ CreateProject(q) \/ UpdateProject(q) \/ DeleteProject(q)
  \/ AddMember(q) \/ UpdateMember(q) \/ RemoveMember(q)

TenantNext == (\E q \in TenantRequests : TenantRequest(q)) \/ TenantCrash

TenantSpec == TenantInit /\ [][TenantNext]_tenantVars

-----------------------------------------------------------------------------
(* Properties                                                               *)

(* The requests that have got past the select of the organisation.          *)
Past == {q \in TenantRequests : ask[q].pc \in {"member", "target", "write"}}

(* The rows have their types, ids are given out before they are used, and   *)
(* only a request that is creating the organisation holds its slug.         *)
TenantTypeOK ==
  /\ {org, project} \subseteq {"none", "active", "inactive"}
  /\ entry \in TenantRequests \cup {NoOne}
  /\ used \subseteq MemberIds
  /\ member \in [MemberIds -> [user : Users, role : GivenRoles \cup {"owner"}]
                                \cup {NoRow}]
  /\ \A i \in MemberIds \ used : member[i] = NoRow
  /\ entry # NoOne => Asks(entry, "create")

(* An organisation appears with an owner, or not at all: neither a crash    *)
(* nor a request for the same slug separates the two inserts.               *)
AppearsWithOwner ==
  [][org = "none" /\ org' # "none" =>
       \E i \in MemberIds : member'[i].role = "owner"]_tenantVars

(* What is deactivated stays so: a request that has loaded the row while it *)
(* was active, and may even set is_active, does not bring it back.          *)
DeactivatedStays ==
  [][/\ org = "inactive" => org' = "inactive"
     /\ project = "inactive" => project' = "inactive"]_tenantVars

(* A membership that was removed is not brought back by a request that had  *)
(* found it before, and the id does not come to mean another user.          *)
RemovedStaysRemoved ==
  [][\A i \in used : member'[i].user \in {member[i].user, NoOne}]_tenantVars

(* Once an organisation is deactivated, only the requests that had found it *)
(* before still write, and their number shrinks: after them it is frozen.   *)
Frozen ==
  [][org = "inactive" =>
       /\ Past' \subseteq Past
       /\ Past = {} => UNCHANGED <<project, member>>]_tenantVars
=============================================================================
