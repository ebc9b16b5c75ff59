---------------------------- MODULE TenantsProofs ----------------------------
(***************************************************************************)
(* Proofs about Tenants for any number of users, members and concurrent     *)
(* requests. The inductive invariant TenantInv says what a request knows at *)
(* each of its steps: nothing of what it has selected is a fact any more,   *)
(* except that an organisation that exists does not cease to, and that the  *)
(* slug of one being created is held by its creator alone.                  *)
(***************************************************************************)
EXTENDS Tenants, TLAPS

Past3 == {"member", "target", "write"}

Ask == [pc : {"idle", "create", "org"} \cup Past3, op : Ops \cup {"none"},
        user : Users \cup {NoOne}, id : MemberIds \cup {0},
        other : Users \cup {NoOne}, role : GivenRoles \cup {"none"},
        active : BOOLEAN, seen : GivenRoles \cup {"owner", "none"}]

(* A request in progress has a caller and the payload of its endpoint.      *)
PayloadOK(q) ==
  /\ Asks(q, "create") => ask[q].user \in Users
  /\ ask[q].pc \in {"org"} \cup Past3 =>
       /\ ask[q].op \in Ops
       /\ ask[q].op \in MemberOps => ask[q].id \in MemberIds
       /\ ask[q].op = "add_member" => ask[q].other \in Users
       /\ ask[q].op \in {"add_member", "update_member"} => ask[q].role \in GivenRoles

(* Whoever is past the select of the organisation knows that it exists; who *)
(* creates it holds the slug, and it does not exist.                        *)
OrgKnown(q) ==
  /\ ask[q].pc \in Past3 => org # "none"
  /\ Asks(q, "create") => entry = q /\ org = "none"

TenantInv ==
  /\ TenantTypeOK
  /\ ask \in [TenantRequests -> Ask]
  /\ \A q \in TenantRequests : PayloadOK(q) /\ OrgKnown(q)

USE NoOneAssumption, SystemAdminsAssumption

-----------------------------------------------------------------------------
(* What a step does to the requests                                         *)

LEMMA NoAskType == NoAsk \in Ask
  BY DEF NoAsk, Ask, Past3

LEMMA GoType ==
  ASSUME TenantInv, NEW q \in TenantRequests,
         NEW pc \in {"idle"} \cup Past3, Go(q, pc)
  PROVE  /\ ask' \in [TenantRequests -> Ask]
         /\ ask'[q].pc = pc /\ ask'[q].op = ask[q].op /\ ask'[q].id = ask[q].id
         /\ ask'[q].other = ask[q].other /\ ask'[q].role = ask[q].role
         /\ \A p \in TenantRequests \ {q} : ask'[p] = ask[p]
  BY DEF TenantInv, Go, Ask

LEMMA AnswerType ==
  ASSUME TenantInv, NEW q \in TenantRequests, Answer(q)
  PROVE  /\ ask' \in [TenantRequests -> Ask]
         /\ ask'[q] = NoAsk
         /\ \A p \in TenantRequests \ {q} : ask'[p] = ask[p]
  BY NoAskType DEF TenantInv, Answer

(* A request on which a step of another has no effect: an organisation      *)
(* stays, and the slug changes hands only when nobody is creating one.      *)
LEMMA OtherRequest ==
  ASSUME TenantInv, NEW p \in TenantRequests, ask'[p] = ask[p],
         org # "none" => org' # "none",
         Asks(p, "create") => UNCHANGED <<entry, org>>
  PROVE  PayloadOK(p)' /\ OrgKnown(p)'
  BY DEF TenantInv, PayloadOK, OrgKnown, Asks

(* A request that answers writes nothing of the organisation but that it is *)
(* inactive, holds no slug and keeps the members' types.                    *)
LEMMA AnsweringStep ==
  ASSUME TenantInv, NEW q \in TenantRequests, Answer(q), ~Asks(q, "create"),
         UNCHANGED entry,
         org' = org \/ (org # "none" /\ org' = "inactive"),
         project' \in {"none", "active", "inactive"},
         used' \subseteq MemberIds,
         member' \in [MemberIds -> [user : Users, role : GivenRoles \cup {"owner"}]
                                     \cup {NoRow}],
         \A i \in MemberIds \ used' : member'[i] = NoRow
  PROVE  TenantInv'
  <1>1. ask' \in [TenantRequests -> Ask]
    BY AnswerType
  <1>2. TenantTypeOK'
    BY AnswerType DEF TenantInv, TenantTypeOK, Asks
  <1>3. PayloadOK(q)' /\ OrgKnown(q)'
    BY AnswerType DEF PayloadOK, OrgKnown, Asks, NoAsk, Past3
  <1>4. ASSUME NEW p \in TenantRequests, p # q
        PROVE  PayloadOK(p)' /\ OrgKnown(p)'
    <2>1. Asks(p, "create") => UNCHANGED <<entry, org>>
      BY DEF TenantInv, OrgKnown
    <2> QED BY <1>4, <2>1, AnswerType, OtherRequest
  <1> QED BY <1>1, <1>2, <1>3, <1>4 DEF TenantInv

-----------------------------------------------------------------------------
LEMMA InitTenantInv == TenantInit => TenantInv
  <1> SUFFICES ASSUME TenantInit PROVE TenantInv OBVIOUS
  <1>1. ask \in [TenantRequests -> Ask]
    BY NoAskType DEF TenantInit
  <1>2. TenantTypeOK
    BY DEF TenantInit, TenantTypeOK
  <1>3. \A q \in TenantRequests : PayloadOK(q) /\ OrgKnown(q)
    BY DEF TenantInit, PayloadOK, OrgKnown, Asks, NoAsk, Past3
  <1> QED BY <1>1, <1>2, <1>3 DEF TenantInv

LEMMA CreateOrgInv ==
  ASSUME TenantInv, NEW q \in TenantRequests, NEW u \in Users, CreateOrg(q, u)
  PROVE  TenantInv'
  <1> DEFINE r == [NoAsk EXCEPT !.pc = "create", !.user = u]
  <1>1. r \in Ask
    BY DEF NoAsk, Ask, Past3
  <1>2. /\ ask' \in [TenantRequests -> Ask] /\ ask'[q] = r
        /\ \A p \in TenantRequests \ {q} : ask'[p] = ask[p]
    BY <1>1 DEF CreateOrg, TenantInv
  <1>3. r.pc = "create" /\ r.user = u
    BY DEF NoAsk
  <1> HIDE DEF r
  <1>4. TenantTypeOK'
    BY <1>2, <1>3 DEF CreateOrg, TenantInv, TenantTypeOK, Asks
  <1>5. PayloadOK(q)' /\ OrgKnown(q)'
    BY <1>2, <1>3 DEF CreateOrg, PayloadOK, OrgKnown, Asks, Past3
  <1>6. ASSUME NEW p \in TenantRequests, p # q
        PROVE  PayloadOK(p)' /\ OrgKnown(p)'
    <2>1. ~Asks(p, "create")
      BY DEF CreateOrg, TenantInv, OrgKnown
    <2> QED BY <1>2, <1>6, <2>1, OtherRequest DEF CreateOrg
  <1> QED BY <1>2, <1>4, <1>5, <1>6 DEF TenantInv

LEMMA CommitOrgInv ==
  ASSUME TenantInv, NEW q \in TenantRequests, CommitOrg(q)
  PROVE  TenantInv'
  <1>1. ask' \in [TenantRequests -> Ask]
    BY AnswerType DEF CommitOrg
  <1>2. TenantTypeOK'
    <2>1. PICK i \in MemberIds :
            /\ NextId(i)
            /\ used' = used \cup {i}
            /\ member' = [member EXCEPT ![i] = [user |-> ask[q].user, role |-> "owner"]]
      BY DEF CommitOrg
    <2>2. ask[q].user \in Users
      BY DEF CommitOrg, TenantInv, PayloadOK
    <2>3. member' \in [MemberIds -> [user : Users, role : GivenRoles \cup {"owner"}]
                                       \cup {NoRow}]
      BY <2>1, <2>2 DEF TenantInv, TenantTypeOK
    <2>4. \A j \in MemberIds \ used' : member'[j] = NoRow
      BY <2>1 DEF TenantInv, TenantTypeOK
    <2> QED BY <2>1, <2>3, <2>4 DEF CommitOrg, TenantInv, TenantTypeOK
  <1>3. ASSUME NEW p \in TenantRequests, p # q
        PROVE  PayloadOK(p)' /\ OrgKnown(p)'
    <2>1. ~Asks(p, "create")
      BY <1>3 DEF CommitOrg, TenantInv, OrgKnown
    <2> QED BY <1>3, <2>1, AnswerType, OtherRequest DEF CommitOrg
  <1>4. PayloadOK(q)' /\ OrgKnown(q)'
    BY AnswerType DEF CommitOrg, PayloadOK, OrgKnown, Asks, NoAsk, Past3
  <1> QED BY <1>1, <1>2, <1>3, <1>4 DEF TenantInv

LEMMA CallInv ==
  ASSUME TenantInv, NEW q \in TenantRequests, NEW op \in Ops, NEW u \in Users,
         Call(q, op, u)
  PROVE  TenantInv'
  <1>1. PICK i \in IF op \in MemberOps THEN MemberIds ELSE {0},
             v \in IF op = "add_member" THEN Users ELSE {NoOne},
             r \in IF op \in {"add_member", "update_member"} THEN GivenRoles ELSE {"none"},
             a \in IF op \in {"update_org", "update_project"} THEN BOOLEAN ELSE {TRUE} :
           ask' = [ask EXCEPT ![q] = [pc |-> "org", op |-> op, user |-> u, id |-> i,
                                      other |-> v, role |-> r, active |-> a,
                                      seen |-> "none"]]
    BY DEF Call
  <1> DEFINE rec == [pc |-> "org", op |-> op, user |-> u, id |-> i, other |-> v,
                     role |-> r, active |-> a, seen |-> "none"]
  <1>2. a \in BOOLEAN /\ i \in MemberIds \cup {0} /\ v \in Users \cup {NoOne}
        /\ r \in GivenRoles \cup {"none"}
    OBVIOUS
  <1>3. rec \in Ask
    BY <1>2 DEF Ask
  <1>4. /\ ask' \in [TenantRequests -> Ask] /\ ask'[q] = rec
        /\ \A p \in TenantRequests \ {q} : ask'[p] = ask[p]
    BY <1>1, <1>3 DEF TenantInv
  <1>5. TenantTypeOK'
    BY <1>4 DEF Call, TablesUnchanged, TenantInv, TenantTypeOK, Asks
  <1>6. PayloadOK(q)' /\ OrgKnown(q)'
    BY <1>4 DEF PayloadOK, OrgKnown, Asks, Past3
  <1>7. ASSUME NEW p \in TenantRequests, p # q
        PROVE  PayloadOK(p)' /\ OrgKnown(p)'
    BY <1>4, <1>7, OtherRequest DEF Call, TablesUnchanged
  <1> QED BY <1>4, <1>5, <1>6, <1>7 DEF TenantInv

(* A select sends the request on, or answers it.                            *)
LEMMA SelectInv ==
  ASSUME TenantInv, NEW q \in TenantRequests,
         SelectOrg(q) \/ SelectMembership(q) \/ SelectTarget(q)
  PROVE  TenantInv'
  <1> USE DEF TablesUnchanged
  <1>1. CASE Answer(q)
    BY <1>1, AnsweringStep DEF SelectOrg, SelectMembership, SelectTarget, TenantInv,
       TenantTypeOK, Asks
  <1>2. ASSUME NEW pc \in {"idle"} \cup Past3, Go(q, pc), org # "none",
               ask[q].pc \in {"org"} \cup Past3
        PROVE  TenantInv'
    <2>1. TenantTypeOK'
      BY <1>2, GoType DEF SelectOrg, SelectMembership, SelectTarget, TenantInv,
         TenantTypeOK, Asks, Past3
    <2>2. PayloadOK(q)' /\ OrgKnown(q)'
      <3>1. org' # "none"
        BY <1>2 DEF SelectOrg, SelectMembership, SelectTarget
      <3>2. ask[q].pc # "create" /\ PayloadOK(q)
        BY <1>2 DEF TenantInv, Past3
      <3> QED BY <1>2, <3>1, <3>2, GoType DEF PayloadOK, OrgKnown, Asks, Past3
    <2>3. ASSUME NEW p \in TenantRequests, p # q
          PROVE  PayloadOK(p)' /\ OrgKnown(p)'
      BY <1>2, <2>3, GoType, OtherRequest DEF SelectOrg, SelectMembership, SelectTarget
    <2> QED BY <1>2, <2>1, <2>2, <2>3, GoType DEF TenantInv
  <1>3. AfterAccess(ask[q].op) \in {"idle"} \cup Past3
    BY DEF AfterAccess, Past3
  <1>4. CASE SelectOrg(q) /\ ~Answer(q)
    BY <1>2, <1>3, <1>4 DEF SelectOrg, Asks, Past3
  <1>5. CASE SelectMembership(q) /\ ~Answer(q)
    BY <1>2, <1>3, <1>5 DEF SelectMembership, Asks, Past3, TenantInv, OrgKnown
  <1>6. CASE SelectTarget(q) /\ ~Answer(q)
    <2> DEFINE s == IF ask[q].op \in MemberOps THEN member[ask[q].id].role ELSE "none"
    <2> DEFINE rec == [ask[q] EXCEPT !.pc = "write", !.seen = s]
    <2>0. Asks(q, "target") /\ org # "none"
      BY <1>6 DEF SelectTarget, TenantInv, OrgKnown, Asks, Past3
    <2>1. s \in GivenRoles \cup {"owner", "none"}
      <3>1. CASE ask[q].op \in MemberOps
        <4>1. ask[q].id \in MemberIds
          BY <2>0, <3>1 DEF TenantInv, PayloadOK, Asks, Past3
        <4>2. member[ask[q].id] \in [user : Users, role : GivenRoles \cup {"owner"}]
                                      \cup {NoRow}
          BY <4>1 DEF TenantInv, TenantTypeOK
        <4> QED BY <4>2 DEF NoRow
      <3> QED BY <3>1
    <2>2. ask' = [ask EXCEPT ![q] = rec]
      BY <1>6 DEF SelectTarget
    <2>3. rec \in Ask /\ rec = [ask[q] EXCEPT !.pc = "write", !.seen = s]
      BY <2>1 DEF TenantInv, Ask, Past3
    <2> HIDE DEF s
    <2>4. /\ rec.pc = "write" /\ rec.op = ask[q].op /\ rec.id = ask[q].id
          /\ rec.other = ask[q].other /\ rec.role = ask[q].role
      BY DEF TenantInv, Ask
    <2> HIDE DEF rec
    <2>5. /\ ask' \in [TenantRequests -> Ask] /\ ask'[q] = rec
          /\ \A p \in TenantRequests \ {q} : ask'[p] = ask[p]
      BY <2>2, <2>3 DEF TenantInv
    <2>6. TenantTypeOK'
      BY <1>6, <2>0, <2>5 DEF SelectTarget, TenantInv, TenantTypeOK, Asks
    <2>7. PayloadOK(q)' /\ OrgKnown(q)'
      BY <1>6, <2>0, <2>4, <2>5 DEF SelectTarget, TenantInv, PayloadOK, OrgKnown, Asks, Past3
    <2>8. ASSUME NEW p \in TenantRequests, p # q
          PROVE  PayloadOK(p)' /\ OrgKnown(p)'
      BY <1>6, <2>5, <2>8, OtherRequest DEF SelectTarget
    <2> QED BY <2>5, <2>6, <2>7, <2>8 DEF TenantInv
  <1> QED BY <1>1, <1>4, <1>5, <1>6

LEMMA WriteInv ==
  ASSUME TenantInv, NEW q \in TenantRequests,
         \/ UpdateOrg(q) \/ DeleteOrg(q)
         \/ CreateProject(q) \/ UpdateProject(q) \/ DeleteProject(q)
         \/ AddMember(q) \/ UpdateMember(q) \/ RemoveMember(q)
  PROVE  TenantInv'
  <1> DEFINE Members == [MemberIds -> [user : Users, role : GivenRoles \cup {"owner"}]
                                        \cup {NoRow}]
  <1> USE DEF Writes
  <1>1. ask[q].pc = "write" /\ Answer(q) /\ org # "none"
    BY DEF UpdateOrg, DeleteOrg, CreateProject, UpdateProject, DeleteProject,
       AddMember, UpdateMember, RemoveMember, Asks, TenantInv, OrgKnown, Past3
  <1>2. CASE UpdateOrg(q) \/ DeleteOrg(q)
    BY <1>1, <1>2, AnsweringStep DEF UpdateOrg, DeleteOrg, TenantInv, TenantTypeOK, Asks
  <1>3. CASE CreateProject(q) \/ UpdateProject(q) \/ DeleteProject(q)
    BY <1>1, <1>3, AnsweringStep DEF CreateProject, UpdateProject, DeleteProject,
       TenantInv, TenantTypeOK, Asks
  <1>4. CASE AddMember(q)
    <2>1. CASE UNCHANGED <<member, used>>
      BY <1>1, <1>4, <2>1, AnsweringStep DEF AddMember, TenantInv, TenantTypeOK, Asks
    <2>2. CASE ~UNCHANGED <<member, used>>
      <3>1. PICK i \in MemberIds :
              /\ NextId(i)
              /\ used' = used \cup {i}
              /\ member' = [member EXCEPT ![i] =
                              [user |-> ask[q].other, role |-> ask[q].role]]
        BY <1>4, <2>2 DEF AddMember
      <3>2. ask[q].other \in Users /\ ask[q].role \in GivenRoles
        BY <1>1, <1>4 DEF AddMember, TenantInv, PayloadOK, Past3
      <3>3. member' \in Members /\ \A j \in MemberIds \ used' : member'[j] = NoRow
        BY <3>1, <3>2 DEF TenantInv, TenantTypeOK
      <3> QED
        BY <1>1, <1>4, <3>1, <3>3, AnsweringStep DEF AddMember, TenantInv, TenantTypeOK, Asks
    <2> QED BY <2>1, <2>2
  <1>5. CASE UpdateMember(q) \/ RemoveMember(q)
    <2>1. ask[q].id \in MemberIds /\ (UpdateMember(q) => ask[q].role \in GivenRoles)
      BY <1>1, <1>5 DEF UpdateMember, RemoveMember, MemberOps, TenantInv, PayloadOK, Past3
    <2>2. member' \in Members /\ \A j \in MemberIds \ used : member'[j] = NoRow
      <3>1. CASE RemoveMember(q)
        BY <2>1, <3>1 DEF RemoveMember, TenantInv, TenantTypeOK
      <3>2. CASE UpdateMember(q) /\ member' = member
        BY <3>2 DEF TenantInv, TenantTypeOK
      <3>3. CASE UpdateMember(q) /\ member' # member
        <4>1. /\ member[ask[q].id] # NoRow
              /\ member' = [member EXCEPT ![ask[q].id].role = ask[q].role]
          BY <3>3 DEF UpdateMember
        <4>2. member[ask[q].id] \in [user : Users, role : GivenRoles \cup {"owner"}]
          BY <2>1, <4>1 DEF TenantInv, TenantTypeOK
        <4>3. ask[q].id \in used
          BY <2>1, <4>1 DEF TenantInv, TenantTypeOK
        <4> QED BY <2>1, <3>3, <4>1, <4>2, <4>3 DEF TenantInv, TenantTypeOK
      <3> QED BY <1>5, <3>1, <3>2, <3>3
    <2>3. UNCHANGED <<org, entry, project, used>>
      BY <1>5 DEF UpdateMember, RemoveMember
    <2> QED BY <1>1, <2>2, <2>3, AnsweringStep DEF TenantInv, TenantTypeOK, Asks
  <1> QED BY <1>2, <1>3, <1>4, <1>5

LEMMA CrashInv == TenantInv /\ TenantCrash => TenantInv'
  <1> SUFFICES ASSUME TenantInv, TenantCrash PROVE TenantInv' OBVIOUS
  <1>1. ask' \in [TenantRequests -> Ask]
    BY NoAskType DEF TenantCrash
  <1>2. TenantTypeOK'
    BY DEF TenantCrash, TenantInv, TenantTypeOK
  <1>3. \A q \in TenantRequests : PayloadOK(q)' /\ OrgKnown(q)'
    BY DEF TenantCrash, PayloadOK, OrgKnown, Asks, NoAsk, Past3
  <1> QED BY <1>1, <1>2, <1>3 DEF TenantInv

LEMMA NextTenantInv == TenantInv /\ [TenantNext]_tenantVars => TenantInv'
  <1> SUFFICES ASSUME TenantInv, [TenantNext]_tenantVars PROVE TenantInv'
    OBVIOUS
  <1>1. ASSUME NEW q \in TenantRequests, TenantRequest(q)
        PROVE  TenantInv'
    BY <1>1, CreateOrgInv, CommitOrgInv, CallInv, SelectInv, WriteInv DEF TenantRequest
  <1>2. CASE UNCHANGED tenantVars
    BY <1>2 DEF tenantVars, TenantInv, TenantTypeOK, PayloadOK, OrgKnown, Asks
  <1> QED BY <1>1, <1>2, CrashInv DEF TenantNext

LEMMA Inductive == TenantSpec => []TenantInv
  BY InitTenantInv, NextTenantInv, PTL DEF TenantSpec

-----------------------------------------------------------------------------
(* The rows keep their types, ids are given out before they are used, and   *)
(* only a request that is creating the organisation holds its slug, however *)
(* many requests race.                                                      *)
THEOREM TenantTypesHold == TenantSpec => []TenantTypeOK
  <1>1. TenantInv => TenantTypeOK
    BY DEF TenantInv
  <1> QED BY <1>1, Inductive, PTL

(* The organisation appears with an owner among its members, never alone:   *)
(* create_org commits both rows, and no update creates one.                 *)
THEOREM OrganisationAppearsWithOwner == TenantSpec => AppearsWithOwner
  <1> DEFINE A == org = "none" /\ org' # "none" =>
                    \E i \in MemberIds : member'[i].role = "owner"
  <1>1. TenantInv /\ [TenantNext]_tenantVars => A
    <2> SUFFICES ASSUME TenantInv, TenantNext, org = "none", org' # "none"
                 PROVE  \E i \in MemberIds : member'[i].role = "owner"
      BY DEF tenantVars
    <2>1. PICK q \in TenantRequests : TenantRequest(q)
      BY DEF TenantNext, TenantCrash
    <2>2. ~Asks(q, "write")
      BY DEF TenantInv, OrgKnown, Asks, Past3
    <2>3. CommitOrg(q)
      BY <2>1, <2>2 DEF TenantRequest, CreateOrg, Call, SelectOrg, SelectMembership,
         SelectTarget, TablesUnchanged, UpdateOrg, DeleteOrg, CreateProject,
         UpdateProject, DeleteProject, AddMember, UpdateMember, RemoveMember, Writes
    <2>4. PICK i \in MemberIds :
            member' = [member EXCEPT ![i] = [user |-> ask[q].user, role |-> "owner"]]
      BY <2>3 DEF CommitOrg
    <2>5. member'[i].role = "owner"
      BY <2>4 DEF TenantInv, TenantTypeOK
    <2> QED BY <2>5
  <1>2. TenantSpec => [][A]_tenantVars
    BY <1>1, Inductive, PTL DEF TenantSpec
  <1> QED BY <1>2 DEF AppearsWithOwner

(* What delete_org, delete_project or an update has deactivated is never    *)
(* active again: an UPDATE carries is_active only when it changes the copy, *)
(* and the copy was active.                                                 *)
THEOREM DeactivationIsFinal == TenantSpec => DeactivatedStays
  <1> DEFINE A == /\ org = "inactive" => org' = "inactive"
                  /\ project = "inactive" => project' = "inactive"
  <1>1. TenantInv /\ [TenantNext]_tenantVars => A
    <2> SUFFICES ASSUME TenantInv, TenantNext PROVE A
      BY DEF tenantVars
    <2>1. CASE TenantCrash
      BY <2>1 DEF TenantCrash
    <2>2. ASSUME NEW q \in TenantRequests, TenantRequest(q) PROVE A
      <3>1. CASE CommitOrg(q)
        BY <3>1 DEF CommitOrg, TenantInv, OrgKnown
      <3>2. CASE ~CommitOrg(q)
        BY <2>2, <3>2 DEF TenantRequest, CreateOrg, Call, SelectOrg, SelectMembership,
           SelectTarget, TablesUnchanged, UpdateOrg, DeleteOrg, CreateProject,
           UpdateProject, DeleteProject, AddMember, UpdateMember, RemoveMember
      <3> QED BY <3>1, <3>2
    <2> QED BY <2>1, <2>2 DEF TenantNext
  <1>2. TenantSpec => [][A]_tenantVars
    BY <1>1, Inductive, PTL DEF TenantSpec
  <1> QED BY <1>2 DEF DeactivatedStays

(* The id of a membership never comes to mean another user, and a removed   *)
(* one is not brought back by update_member, however the two race.          *)
THEOREM RemovalIsFinal == TenantSpec => RemovedStaysRemoved
  <1> DEFINE A == \A i \in used : member'[i].user \in {member[i].user, NoOne}
  <1>1. TenantInv /\ [TenantNext]_tenantVars => A
    <2> SUFFICES ASSUME TenantInv, [TenantNext]_tenantVars, NEW i \in used
                 PROVE  member'[i].user \in {member[i].user, NoOne}
      OBVIOUS
    <2>0. /\ i \in MemberIds
          /\ member \in [MemberIds -> [user : Users, role : GivenRoles \cup {"owner"}]
                                         \cup {NoRow}]
      BY DEF TenantInv, TenantTypeOK
    <2>1. CASE member' = member
      BY <2>1
    <2>2. ASSUME NEW q \in TenantRequests, CommitOrg(q) \/ AddMember(q)
          PROVE  member'[i].user = member[i].user
      <3>1. CASE member' = member
        BY <3>1
      <3>2. CASE member' # member
        <4>1. PICK j \in MemberIds : NextId(j) /\ \E r : member' = [member EXCEPT ![j] = r]
          BY <2>2, <3>2 DEF CommitOrg, AddMember
        <4> QED BY <2>0, <4>1 DEF NextId
      <3> QED BY <3>1, <3>2
    <2>3. ASSUME NEW q \in TenantRequests, UpdateMember(q)
          PROVE  member'[i].user = member[i].user
      <3>1. member[i].user = [member[i] EXCEPT !.role = ask[q].role].user
        BY <2>0 DEF NoRow
      <3> QED BY <2>0, <2>3, <3>1 DEF UpdateMember
    <2>4. ASSUME NEW q \in TenantRequests, RemoveMember(q)
          PROVE  member'[i].user \in {member[i].user, NoOne}
      BY <2>0, <2>4 DEF RemoveMember, NoRow
    <2>5. ASSUME NEW q \in TenantRequests, TenantRequest(q), ~CommitOrg(q),
                 ~AddMember(q), ~UpdateMember(q), ~RemoveMember(q)
          PROVE  member' = member
      BY <2>5 DEF TenantRequest, CreateOrg, Call, SelectOrg, SelectMembership,
         SelectTarget, TablesUnchanged, UpdateOrg, DeleteOrg, CreateProject,
         UpdateProject, DeleteProject
    <2>6. TenantCrash \/ UNCHANGED tenantVars => member' = member
      BY DEF TenantCrash, tenantVars
    <2> QED BY <2>1, <2>2, <2>3, <2>4, <2>5, <2>6 DEF TenantNext
  <1>2. TenantSpec => [][A]_tenantVars
    BY <1>1, Inductive, PTL DEF TenantSpec
  <1> QED BY <1>2 DEF RemovedStaysRemoved

(* After an organisation is deactivated no request gets past its select any *)
(* more; when those that had are answered, its project and members are      *)
(* frozen.                                                                  *)
THEOREM DeactivatedIsFrozen == TenantSpec => Frozen
  <1> DEFINE A == org = "inactive" => /\ Past' \subseteq Past
                                      /\ Past = {} => UNCHANGED <<project, member>>
  <1>1. TenantInv /\ [TenantNext]_tenantVars => A
    <2> SUFFICES ASSUME TenantInv, TenantNext, org = "inactive"
                 PROVE  /\ Past' \subseteq Past
                        /\ Past = {} => UNCHANGED <<project, member>>
      BY DEF tenantVars, Past
    <2>1. CASE TenantCrash
      BY <2>1 DEF TenantCrash, Past, NoAsk
    <2>2. ASSUME NEW q \in TenantRequests, TenantRequest(q)
          PROVE  /\ Past' \subseteq Past
                 /\ Past = {} => UNCHANGED <<project, member>>
      <3>0. ~CommitOrg(q) /\ (\A u \in Users : ~CreateOrg(q, u))
        BY DEF CommitOrg, CreateOrg, TenantInv, OrgKnown
      <3>1. CASE Answer(q)
        <4>1. Past' \subseteq Past
          BY <3>1, AnswerType DEF Past, NoAsk
        <4>2. Past = {} => UNCHANGED <<project, member>>
          BY <2>2, <3>0 DEF Past, TenantRequest, Call, SelectOrg, SelectMembership,
             SelectTarget, TablesUnchanged, UpdateOrg, DeleteOrg, CreateProject,
             UpdateProject, DeleteProject, AddMember, UpdateMember, RemoveMember,
             Writes, Asks
        <4> QED BY <4>1, <4>2
      <3>2. CASE ~Answer(q)
        <4>1. /\ \/ \E u \in Users, op \in Ops : Call(q, op, u)
                 \/ SelectMembership(q) \/ SelectTarget(q)
              /\ UNCHANGED <<project, member>>
          BY <2>2, <3>0, <3>2 DEF TenantRequest, Call, SelectOrg, SelectMembership,
             SelectTarget, TablesUnchanged, UpdateOrg, DeleteOrg, CreateProject,
             UpdateProject, DeleteProject, AddMember, UpdateMember, RemoveMember, Writes
        <4>2. \A p \in TenantRequests \ {q} : ask'[p] = ask[p]
          BY <3>2, <4>1 DEF Call, SelectMembership, SelectTarget, Go, TenantInv
        <4>3. q \in Past' => q \in Past
          <5>1. CASE \E u \in Users, op \in Ops : Call(q, op, u)
            <6>1. ask'[q].pc = "org"
              BY <5>1 DEF Call, TenantInv
            <6> QED BY <6>1 DEF Past
          <5>2. CASE SelectMembership(q) \/ SelectTarget(q)
            BY <5>2 DEF SelectMembership, SelectTarget, Past, Asks
          <5> QED BY <4>1, <5>1, <5>2
        <4> QED BY <4>1, <4>2, <4>3 DEF Past
      <3> QED BY <3>1, <3>2
    <2> QED BY <2>1, <2>2 DEF TenantNext
  <1>2. TenantSpec => [][A]_tenantVars
    BY <1>1, Inductive, PTL DEF TenantSpec
  <1> QED BY <1>2 DEF Frozen
=============================================================================
