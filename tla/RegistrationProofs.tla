-------------------------- MODULE RegistrationProofs --------------------------
(***************************************************************************)
(* Proofs about Registration for any addresses, requests and subnets, which *)
(* may overlap in any way. The inductive invariant RegInv ties the open     *)
(* inserts, which only their own transaction sees, to what a request        *)
(* remembers having done.                                                   *)
(***************************************************************************)
EXTENDS Registration, TLAPS, SequenceTheorems, FiniteSetTheorems,
        WellFoundedInduction

(* The types of what RegTypeOK leaves open.                                 *)
QueueTypes ==
  /\ todo \in [Requests -> Seq(Addresses)]
  /\ \A r \in Requests : added[r] \subseteq Scope[r]

(* The addresses left are in ascending order, above all that are held.      *)
TodoOK(r) ==
  /\ \A i, k \in DOMAIN todo[r] : i < k => todo[r][i] < todo[r][k]
  /\ \A a \in Addresses : entry[a] = r => \A i \in DOMAIN todo[r] : a < todo[r][i]

(* What a request has added is an open insert until it commits, and a row   *)
(* of its own after that.                                                   *)
RequestOK(r) ==
  /\ pc[r] = "new" => added[r] = {}
  /\ pc[r] \in {"check", "insert"} => \A a \in added[r] : entry[a] = r
  /\ pc[r] = "insert" => todo[r] # << >>
  /\ pc[r] \in {"respond", "done"} => \A a \in added[r] : row[a] = r

(* The unique constraint: an address has a row or an open insert. A row     *)
(* belongs to a request that has committed.                                 *)
RowOK(a) ==
  /\ entry[a] # NoRequest => row[a] = NoRequest
  /\ row[a] # NoRequest => pc[row[a]] \in {"respond", "done", "lost"}

KnownOK(r) == \A a \in known[r] : row[a] \notin {NoRequest, r}

RegInv ==
  /\ RegTypeOK
  /\ QueueTypes
  /\ \A r \in Requests : TodoOK(r) /\ RequestOK(r) /\ KnownOK(r)
  /\ \A a \in Addresses : RowOK(a)
  /\ TaskHasRow

USE AddressesAssumption, RequestsAssumption, ScopeAssumption

-----------------------------------------------------------------------------
(* A subnet in order is a queue of its addresses.                           *)
LEMMA InOrderType ==
  ASSUME NEW hosts \in SUBSET Addresses, NEW s \in InOrder(hosts)
  PROVE  /\ s \in Seq(Addresses) /\ ToSet(s) \subseteq hosts
         /\ \A i, k \in DOMAIN s : i < k => s[i] < s[k]
  <1>1. Cardinality(hosts) \in Nat
    BY FS_Subset, FS_CardinalityType
  <1>2. s \in [1..Cardinality(hosts) -> Addresses]
    BY DEF InOrder
  <1> QED BY <1>1, <1>2 DEF InOrder

(* Any hosts that answer have an order, by induction on how many they are:  *)
(* the lowest comes first.                                                  *)
LEMMA OrderExists ==
  ASSUME NEW hosts \in SUBSET Addresses
  PROVE  InOrder(hosts) # {}
  <1> DEFINE T == {n \in Nat : \E h \in SUBSET Addresses :
                                 Cardinality(h) = n /\ InOrder(h) = {}}
  <1>0. \A h \in SUBSET Addresses :
          IsFiniteSet(h) /\ Cardinality(h) \in Nat /\ (Cardinality(h) = 0 <=> h = {})
    BY FS_Subset, FS_CardinalityType, FS_EmptySet
  <1>1. ASSUME T # {} PROVE FALSE
    <2>1. PICK n \in T : \A m \in T : ~(<<m, n>> \in OpToRel(<, Nat))
      <3>1. T \subseteq Nat
        OBVIOUS
      <3> HIDE DEF T
      <3> QED BY <1>1, <3>1, NatLessThanWellFounded, WFMin
    <2>2. \A m \in T : ~(m < n)
      BY <2>1 DEF OpToRel
    <2>3. PICK h \in SUBSET Addresses : Cardinality(h) = n /\ InOrder(h) = {}
      OBVIOUS
    <2>4. CASE h = {}
      <3>1. n = 0
        BY <1>0, <2>3, <2>4
      <3>2. << >> \in [1..0 -> {}] /\ ToSet(<< >>) = {}
        BY DEF ToSet
      <3>3. << >> \in InOrder({})
        BY <2>3, <2>4, <3>1, <3>2 DEF InOrder
      <3> QED BY <2>3, <2>4, <3>3
    <2>5. CASE h # {}
      <3>1. PICK x \in h : \A y \in h : ~(<<y, x>> \in OpToRel(<, Nat))
        BY <2>5, NatLessThanWellFounded, WFMin
      <3>2. \A y \in h \ {x} : x < y
        <4>1. h \subseteq Nat
          OBVIOUS
        <4>2. \A y \in h : ~(y < x)
          BY <3>1, <4>1 DEF OpToRel
        <4> QED BY <4>1, <4>2
      <3>3. Cardinality(h \ {x}) = n - 1 /\ h \ {x} \in SUBSET Addresses
            /\ n \in Nat /\ n - 1 \in Nat
        BY <1>0, <2>3, <2>5, FS_RemoveElement
      <3>4. n - 1 \notin T
        BY <2>2, <3>3
      <3>5. PICK s \in InOrder(h \ {x}) : TRUE
        BY <3>3, <3>4
      <3>6. /\ s \in [1..n - 1 -> h \ {x}]
            /\ \A y \in h \ {x} : \E i \in 1..n - 1 : s[i] = y
            /\ \A i, k \in 1..n - 1 : i < k => s[i] < s[k]
        BY <3>3 DEF InOrder, ToSet
      <3> DEFINE t == [i \in 1..n |-> IF i = 1 THEN x ELSE s[i - 1]]
      <3>7. t \in [1..n -> h]
        BY <3>3, <3>6
      <3>8. ToSet(t) = h
        <4>1. t[1] = x /\ 1 \in DOMAIN t
          BY <3>3
        <4>2. \A i \in 1..n - 1 : i + 1 \in DOMAIN t /\ t[i + 1] = s[i]
          BY <3>3
        <4>3. \A y \in h : \E i \in DOMAIN t : t[i] = y
          <5> TAKE y \in h
          <5>1. CASE y = x
            BY <4>1, <5>1
          <5>2. CASE y # x
            <6>1. PICK i \in 1..n - 1 : s[i] = y
              BY <3>6, <5>2
            <6> QED BY <4>2, <6>1
          <5> QED BY <5>1, <5>2
        <4>4. \A i \in DOMAIN t : t[i] \in h
          BY <3>7
        <4> HIDE DEF t
        <4>5. \A y : y \in ToSet(t) <=> \E i \in DOMAIN t : t[i] = y
          BY DEF ToSet
        <4>6. ToSet(t) \subseteq h
          BY <4>4, <4>5
        <4>7. h \subseteq ToSet(t)
          BY <4>3, <4>5
        <4> QED BY <4>6, <4>7
      <3>9. ASSUME NEW i \in 1..n, NEW k \in 1..n, i < k PROVE t[i] < t[k]
        <4>1. t[k] = s[k - 1] /\ k - 1 \in 1..n - 1
          BY <3>3, <3>9
        <4>2. CASE i = 1
          BY <3>2, <3>6, <4>1, <4>2
        <4>3. CASE i # 1
          <5>1. t[i] = s[i - 1] /\ i - 1 \in 1..n - 1 /\ i - 1 < k - 1
            BY <3>3, <3>9, <4>3
          <5> QED BY <3>6, <4>1, <5>1
        <4> QED BY <4>2, <4>3
      <3> HIDE DEF t
      <3>10. t \in InOrder(h)
        BY <2>3, <3>7, <3>8, <3>9 DEF InOrder
      <3> QED BY <2>3, <3>10
    <2> QED BY <2>4, <2>5
  <1> QED BY <1>0, <1>1

(* Handling the address at the head of the queue.                           *)
LEMMA HandledQueue ==
  ASSUME RegInv, NEW r \in Requests, todo[r] # << >>, Handled(r)
  PROVE  /\ todo' \in [Requests -> Seq(Addresses)]
         /\ Current(r) \in Scope[r] /\ Current(r) \in Addresses
         /\ ToSet(todo'[r]) \subseteq ToSet(todo[r])
         /\ \A i \in DOMAIN todo'[r] : Current(r) < todo'[r][i]
         /\ \A i \in DOMAIN todo'[r] : \E k \in DOMAIN todo[r] : todo'[r][i] = todo[r][k]
         /\ \A i, k \in DOMAIN todo'[r] : i < k => todo'[r][i] < todo'[r][k]
         /\ \A p \in Requests \ {r} : todo'[p] = todo[p]
  <1>0. /\ todo \in [Requests -> Seq(Addresses)] /\ todo[r] \in Seq(Addresses)
        /\ \A i, k \in DOMAIN todo[r] : i < k => todo[r][i] < todo[r][k]
    BY DEF RegInv, QueueTypes, TodoOK
  <1>1. todo' = [todo EXCEPT ![r] = Tail(todo[r])]
    BY DEF Handled
  <1>2. /\ Tail(todo[r]) \in Seq(Addresses) /\ Head(todo[r]) = todo[r][1]
        /\ Len(todo[r]) \in Nat /\ Len(todo[r]) >= 1 /\ DOMAIN todo[r] = 1..Len(todo[r])
        /\ Len(Tail(todo[r])) = Len(todo[r]) - 1
        /\ DOMAIN Tail(todo[r]) = 1..Len(todo[r]) - 1
        /\ \A i \in 1..Len(todo[r]) - 1 : Tail(todo[r])[i] = todo[r][i + 1]
    BY <1>0, HeadTailProperties
  <1>3. \A i \in DOMAIN Tail(todo[r]) :
          i + 1 \in DOMAIN todo[r] /\ Tail(todo[r])[i] = todo[r][i + 1] /\ 1 < i + 1
    BY <1>2
  <1>4. todo'[r] = Tail(todo[r]) /\ \A p \in Requests \ {r} : todo'[p] = todo[p]
    BY <1>0, <1>1
  <1>5. Current(r) = todo[r][1] /\ 1 \in DOMAIN todo[r]
    BY <1>2 DEF Current
  <1>6. Current(r) \in Scope[r] /\ Current(r) \in Addresses
    BY <1>0, <1>5 DEF RegInv, RegTypeOK, ToSet
  <1>7. \A i \in DOMAIN todo'[r] : Current(r) < todo'[r][i]
    BY <1>0, <1>3, <1>4, <1>5
  <1>8. \A i, k \in DOMAIN todo'[r] : i < k => todo'[r][i] < todo'[r][k]
    <2> TAKE i, k \in DOMAIN todo'[r]
    <2> HAVE i < k
    <2>1. i \in Nat /\ k \in Nat /\ i + 1 < k + 1
      BY <1>2, <1>4
    <2> QED BY <1>0, <1>3, <1>4, <2>1
  <1>9. \A i \in DOMAIN todo'[r] : \E k \in DOMAIN todo[r] : todo'[r][i] = todo[r][k]
    BY <1>3, <1>4
  <1>10. ToSet(todo'[r]) \subseteq ToSet(todo[r])
    BY <1>9 DEF ToSet
  <1> QED BY <1>0, <1>1, <1>2, <1>4, <1>6, <1>7, <1>8, <1>9, <1>10

(* A step of r to a point of its code: it takes no row and no open insert   *)
(* of another request, and r itself is again as its parts of the invariant  *)
(* say.                                                                     *)
StepTo(r, to) ==
  /\ to \in PCs
  /\ pc' = [pc EXCEPT ![r] = to]
  /\ todo' \in [Requests -> Seq(Addresses)]
  /\ added' \in [Requests -> SUBSET Addresses]
  /\ known' \in [Requests -> SUBSET Addresses]
  /\ row' \in [Addresses -> Requests \cup {NoRequest}]
  /\ entry' \in [Addresses -> Requests \cup {NoRequest}]
  /\ \A p \in Requests \ {r} : todo'[p] = todo[p]
  /\ \A p \in Requests \ {r} : added'[p] = added[p]
  /\ \A p \in Requests \ {r} : known'[p] = known[p]
  /\ \A a \in Addresses : row'[a] = row[a] \/ (row[a] = NoRequest /\ row'[a] = r)
  /\ \A a \in Addresses :
       \/ entry'[a] = entry[a]
       \/ entry[a] \in {r, NoRequest} /\ entry'[a] \in {r, NoRequest}
  /\ \A a \in Addresses : row'[a] = r => to \in {"respond", "done", "lost"}
  /\ \A a \in Addresses : entry'[a] # NoRequest => row'[a] = NoRequest
  /\ \A a \in Addresses : entry'[a] = r => to \in {"check", "insert"} /\ a \in added'[r]
  /\ ToSet(todo'[r]) \subseteq Scope[r] /\ added'[r] \subseteq Scope[r]
  /\ TodoOK(r)' /\ RequestOK(r)' /\ KnownOK(r)'
  /\ TaskHasRow' /\ tasks' \subseteq Requests \X Addresses

LEMMA RegStep ==
  ASSUME RegInv, NEW r \in Requests, NEW to, StepTo(r, to)
  PROVE  RegInv'
  <1> USE DEF StepTo
  <1>0. /\ pc \in [Requests -> PCs] /\ row \in [Addresses -> Requests \cup {NoRequest}]
        /\ entry \in [Addresses -> Requests \cup {NoRequest}]
    BY DEF RegInv, RegTypeOK
  <1>1. pc'[r] = to /\ \A p \in Requests \ {r} : pc'[p] = pc[p]
    BY <1>0
  <1>2. \A a \in Addresses : \A p \in Requests \ {r} : entry'[a] = p <=> entry[a] = p
    OBVIOUS
  <1>3. RegTypeOK'
    <2>1. \A p \in Requests : ToSet(todo'[p]) \subseteq Scope[p]
      BY DEF RegInv, RegTypeOK
    <2>2. ASSUME NEW a \in Addresses, entry'[a] # NoRequest
          PROVE  pc'[entry'[a]] \in {"check", "insert"} /\ a \in added'[entry'[a]]
      <3>1. CASE entry'[a] = r
        BY <1>1, <3>1
      <3>2. CASE entry'[a] # r
        <4>1. entry'[a] = entry[a] /\ entry[a] \in Requests \ {r}
          BY <1>0, <2>2, <3>2
        <4> QED BY <1>1, <4>1 DEF RegInv, RegTypeOK
      <3> QED BY <3>1, <3>2
    <2>3. pc' \in [Requests -> PCs]
      BY <1>0
    <2> QED BY <2>1, <2>2, <2>3 DEF RegTypeOK
  <1>4. QueueTypes'
    BY DEF RegInv, QueueTypes
  <1>5. ASSUME NEW p \in Requests, p # r PROVE TodoOK(p)' /\ RequestOK(p)' /\ KnownOK(p)'
    <2>1. TodoOK(p) /\ RequestOK(p) /\ KnownOK(p) /\ pc'[p] = pc[p]
          /\ added[p] \subseteq Addresses /\ known[p] \subseteq Addresses
      BY <1>1, <1>5 DEF RegInv, RegTypeOK
    <2>0. /\ todo'[p] = todo[p] /\ added'[p] = added[p] /\ known'[p] = known[p]
          /\ \A a \in Addresses : entry'[a] = p <=> entry[a] = p
          /\ \A a \in Addresses : row[a] = p => row'[a] = p
      BY <1>2, <1>5
    <2>2. TodoOK(p)'
      BY <2>0, <2>1 DEF TodoOK
    <2>3. RequestOK(p)'
      BY <2>0, <2>1 DEF RequestOK
    <2>4. KnownOK(p)'
      <3> SUFFICES ASSUME NEW a \in known[p] PROVE row'[a] \notin {NoRequest, p}
        BY <1>5 DEF KnownOK
      <3> QED BY <1>5, <2>1 DEF KnownOK
    <2> QED BY <2>2, <2>3, <2>4
  <1>6. ASSUME NEW a \in Addresses PROVE RowOK(a)'
    <2>1. RowOK(a)
      BY DEF RegInv
    <2>2. CASE row'[a] = r
      BY <1>1, <2>1, <2>2 DEF RowOK
    <2>3. CASE row'[a] # r
      <3>1. row'[a] = row[a]
        BY <2>3
      <3> QED BY <1>0, <1>1, <2>1, <2>3, <3>1 DEF RowOK
    <2> QED BY <2>2, <2>3
  <1> QED BY <1>3, <1>4, <1>5, <1>6 DEF RegInv
-----------------------------------------------------------------------------
LEMMA InitRegInv == RegInit => RegInv
  <1> SUFFICES ASSUME RegInit PROVE RegInv OBVIOUS
  <1> USE DEF RegInit
  <1>1. RegTypeOK
    BY DEF RegTypeOK, PCs, ToSet
  <1>2. QueueTypes
    BY DEF QueueTypes
  <1>3. \A r \in Requests : TodoOK(r) /\ RequestOK(r) /\ KnownOK(r)
    BY DEF TodoOK, RequestOK, KnownOK
  <1>4. \A a \in Addresses : RowOK(a)
    BY DEF RowOK
  <1>5. TaskHasRow
    BY DEF TaskHasRow
  <1> QED BY <1>1, <1>2, <1>3, <1>4, <1>5 DEF RegInv

(* What the invariant says of one request.                                  *)
LEMMA OneRequest ==
  ASSUME RegInv, NEW r \in Requests
  PROVE  /\ TodoOK(r) /\ RequestOK(r) /\ KnownOK(r)
         /\ todo \in [Requests -> Seq(Addresses)]
         /\ added \in [Requests -> SUBSET Addresses]
         /\ known \in [Requests -> SUBSET Addresses]
         /\ row \in [Addresses -> Requests \cup {NoRequest}]
         /\ entry \in [Addresses -> Requests \cup {NoRequest}]
         /\ pc \in [Requests -> PCs]
         /\ \A a \in Addresses :
              /\ entry[a] = r => pc[r] \in {"check", "insert"} /\ a \in added[r]
              /\ entry[a] # NoRequest => row[a] = NoRequest
              /\ row[a] = r => pc[r] \in {"respond", "done", "lost"}
         /\ ToSet(todo[r]) \subseteq Scope[r] /\ added[r] \subseteq Scope[r]
         /\ TaskHasRow /\ tasks \subseteq Requests \X Addresses
  BY DEF RegInv, RegTypeOK, QueueTypes, RowOK

LEMMA ArriveInv ==
  ASSUME RegInv, NEW r \in Requests, Arrive(r)
  PROVE  RegInv'
  <1> USE DEF Arrive, Step
  <1>0. PICK hosts \in SUBSET Scope[r] :
          \E s \in InOrder(hosts) : todo' = [todo EXCEPT ![r] = s]
    OBVIOUS
  <1>1. PICK s \in InOrder(hosts) : todo' = [todo EXCEPT ![r] = s]
    BY <1>0
  <1>2. s \in Seq(Addresses) /\ ToSet(s) \subseteq Scope[r]
        /\ \A i, k \in DOMAIN s : i < k => s[i] < s[k]
    <2>1. hosts \in SUBSET Addresses
      OBVIOUS
    <2> QED BY <2>1, InOrderType
  <1>3. /\ todo' \in [Requests -> Seq(Addresses)] /\ todo'[r] = s
        /\ \A p \in Requests \ {r} : todo'[p] = todo[p]
    BY <1>1, <1>2, OneRequest
  <1>4. pc[r] = "new" /\ pc' = [pc EXCEPT ![r] = "check"]
        /\ UNCHANGED <<row, entry, added, known, tasks>>
    OBVIOUS
  <1> HIDE DEF Arrive, Step
  <1>7. /\ added[r] = {} /\ pc'[r] = "check"
        /\ \A a \in Addresses : entry[a] # r
        /\ \A a \in Addresses : row[a] # r
    <2>1. RequestOK(r) /\ pc \in [Requests -> PCs]
      BY OneRequest
    <2>2. \A a \in Addresses : entry[a] # r
      BY <1>4, OneRequest
    <2>3. \A a \in Addresses : row[a] # r
      BY <1>4, OneRequest
    <2> QED BY <1>4, <2>1, <2>2, <2>3 DEF RequestOK
  <1>5. TodoOK(r)' /\ RequestOK(r)' /\ KnownOK(r)'
    BY <1>2, <1>3, <1>4, <1>7, OneRequest DEF TodoOK, RequestOK, KnownOK
  <1>6. TaskHasRow'
    BY <1>4, OneRequest DEF TaskHasRow
  <1>8. StepTo(r, "check")
    BY <1>2, <1>3, <1>4, <1>5, <1>6, <1>7, OneRequest DEF StepTo, PCs
  <1> QED BY <1>8, RegStep

LEMMA FoundRegisteredInv ==
  ASSUME RegInv, NEW r \in Requests, FoundRegistered(r)
  PROVE  RegInv'
  <1> USE DEF FoundRegistered
  <1>0. TaskHasRow'
    BY OneRequest DEF TaskHasRow
  <1>1. CASE r \in Discovers
    <2>1. pc[r] = "check" /\ pc' = [pc EXCEPT ![r] = "check"] /\ Handled(r)
          /\ known' = [known EXCEPT ![r] = known[r] \cup {Current(r)}]
      BY <1>1, OneRequest
    <2>2. row[Current(r)] \notin {NoRequest, r} /\ Current(r) \in Addresses
      BY <2>1, HandledQueue, OneRequest
    <2>3. known' \in [Requests -> SUBSET Addresses]
          /\ known'[r] = known[r] \cup {Current(r)}
          /\ \A p \in Requests \ {r} : known'[p] = known[p]
      BY <2>1, <2>2, OneRequest
    <2>4. KnownOK(r)'
      BY <2>2, <2>3, OneRequest DEF KnownOK
    <2>5. TodoOK(r)'
      BY <2>1, HandledQueue, OneRequest DEF TodoOK
    <2>6. RequestOK(r)'
      BY <2>1, OneRequest DEF RequestOK
    <2>7. /\ todo' \in [Requests -> Seq(Addresses)]
          /\ \A p \in Requests \ {r} : todo'[p] = todo[p]
          /\ ToSet(todo'[r]) \subseteq Scope[r]
      BY <2>1, HandledQueue, OneRequest
    <2>8. \A a \in Addresses : row[a] # r
      BY <2>1, OneRequest
    <2>9. UNCHANGED <<row, entry, added, tasks>>
      OBVIOUS
    <2> HIDE DEF FoundRegistered
    <2>10. StepTo(r, "check")
      BY <1>0, <2>1, <2>3, <2>4, <2>5, <2>6, <2>7, <2>8, <2>9, OneRequest DEF StepTo, PCs
    <2> QED BY <2>10, RegStep
  <1>2. CASE r \notin Discovers
    <2>1. pc[r] = "check" /\ pc' = [pc EXCEPT ![r] = "refused"] /\ UNCHANGED <<known, todo>>
      BY <1>2 DEF Step
    <2>2. \A a \in Addresses : entry[a] # r
      <3> SUFFICES ASSUME NEW a \in Addresses, entry[a] = r PROVE FALSE
        OBVIOUS
      <3>1. PICK x : Scope[r] = {x}
        <4>1. IsFiniteSet(Scope[r]) /\ Cardinality(Scope[r]) = 1
          BY <1>2, FS_Subset
        <4> QED BY <4>1, FS_Singleton
      <3>2. 1 \in DOMAIN todo[r]
        BY OneRequest, EmptySeq
      <3>3. todo[r][1] \in Scope[r] /\ a \in Scope[r]
        BY <3>2, OneRequest DEF ToSet
      <3>4. a < todo[r][1]
        BY <3>2, OneRequest DEF TodoOK
      <3> QED BY <3>1, <3>3, <3>4
    <2>3. TodoOK(r)' /\ RequestOK(r)' /\ KnownOK(r)'
      BY <2>1, <2>2, OneRequest DEF TodoOK, RequestOK, KnownOK
    <2>4. StepTo(r, "refused")
      BY <1>0, <2>1, <2>2, <2>3, OneRequest DEF StepTo, PCs, Ended
    <2> QED BY <2>4, RegStep
  <1> QED BY <1>1, <1>2

LEMMA FoundNewInv ==
  ASSUME RegInv, NEW r \in Requests, FoundNew(r)
  PROVE  RegInv'
  <1> USE DEF FoundNew, Step
  <1>1. pc[r] = "check" /\ pc' = [pc EXCEPT ![r] = "insert"]
    OBVIOUS
  <1>2. TodoOK(r)' /\ RequestOK(r)' /\ KnownOK(r)'
    BY <1>1, OneRequest DEF TodoOK, RequestOK, KnownOK
  <1>3. TaskHasRow'
    BY OneRequest DEF TaskHasRow
  <1>4. StepTo(r, "insert")
    BY <1>1, <1>2, <1>3, OneRequest DEF StepTo, PCs
  <1> QED BY <1>4, RegStep

LEMMA InsertInv ==
  ASSUME RegInv, NEW r \in Requests, Insert(r)
  PROVE  RegInv'
  <1> USE DEF Insert, Step
  <1> DEFINE a == Current(r)
  <1>1. pc[r] = "insert" /\ pc' = [pc EXCEPT ![r] = "check"] /\ todo[r] # << >> /\ Handled(r)
    BY OneRequest DEF RequestOK
  <1>2. a \in Addresses /\ a \in Scope[r] /\ row[a] = NoRequest /\ entry[a] = NoRequest
    BY <1>1, HandledQueue
  <1> HIDE DEF a
  <1>3. /\ entry' \in [Addresses -> Requests \cup {NoRequest}]
        /\ entry'[a] = r /\ \A b \in Addresses \ {a} : entry'[b] = entry[b]
        /\ added' \in [Requests -> SUBSET Addresses]
        /\ added'[r] = added[r] \cup {a} /\ \A p \in Requests \ {r} : added'[p] = added[p]
    BY <1>2, OneRequest DEF a
  <1>4. TodoOK(r)'
    <2>1. \A i \in DOMAIN todo'[r] : a < todo'[r][i]
      BY <1>1, HandledQueue DEF a
    <2>2. \A b \in Addresses : entry[b] = r => \A i \in DOMAIN todo'[r] : b < todo'[r][i]
      BY <1>1, HandledQueue, OneRequest DEF TodoOK
    <2>3. \A b \in Addresses : entry'[b] = r => \A i \in DOMAIN todo'[r] : b < todo'[r][i]
      <3> HIDE DEF Insert
      <3> TAKE b \in Addresses
      <3> HAVE entry'[b] = r
      <3> TAKE i \in DOMAIN todo'[r]
      <3>1. CASE b = a
        BY <2>1, <3>1
      <3>2. CASE b # a
        <4>1. entry[b] = r
          BY <1>3, <3>2
        <4> QED BY <2>2, <4>1
      <3> QED BY <3>1, <3>2
    <2>4. \A i, k \in DOMAIN todo'[r] : i < k => todo'[r][i] < todo'[r][k]
      BY <1>1, HandledQueue
    <2> HIDE DEF Insert
    <2> QED BY <2>3, <2>4 DEF TodoOK
  <1>5. RequestOK(r)' /\ KnownOK(r)'
    BY <1>1, <1>2, <1>3, OneRequest DEF RequestOK, KnownOK
  <1>6. TaskHasRow'
    BY OneRequest DEF TaskHasRow
  <1>7. added'[r] \subseteq Scope[r] /\ ToSet(todo'[r]) \subseteq Scope[r]
    BY <1>1, <1>2, <1>3, HandledQueue, OneRequest
  <1>8. \A b \in Addresses : entry'[b] # NoRequest => row[b] = NoRequest
    BY <1>2, <1>3, OneRequest
  <1>9. \A b \in Addresses : entry'[b] = r => b \in added'[r]
    BY <1>3, OneRequest
  <1>10. /\ todo' \in [Requests -> Seq(Addresses)]
         /\ \A p \in Requests \ {r} : todo'[p] = todo[p]
    BY <1>1, HandledQueue
  <1>11. \A b \in Addresses : row[b] # r
    BY <1>1, OneRequest
  <1>12. \A b \in Addresses :
           \/ entry'[b] = entry[b]
           \/ entry[b] \in {r, NoRequest} /\ entry'[b] \in {r, NoRequest}
    BY <1>2, <1>3
  <1>13. UNCHANGED <<row, known, tasks>> /\ tasks \subseteq Requests \X Addresses
         /\ known \in [Requests -> SUBSET Addresses]
         /\ row \in [Addresses -> Requests \cup {NoRequest}]
    BY OneRequest
  <1>14. /\ row' = row /\ tasks' \subseteq Requests \X Addresses
         /\ row' \in [Addresses -> Requests \cup {NoRequest}]
         /\ known' \in [Requests -> SUBSET Addresses]
         /\ \A p \in Requests \ {r} : known'[p] = known[p]
         /\ "check" \in PCs
    BY <1>13 DEF PCs
  <1>15. /\ \A b \in Addresses :
              row'[b] = row[b] \/ (row[b] = NoRequest /\ row'[b] = r)
         /\ \A b \in Addresses : row'[b] = r => "check" \in {"respond", "done", "lost"}
         /\ \A b \in Addresses : entry'[b] # NoRequest => row'[b] = NoRequest
         /\ \A b \in Addresses :
              entry'[b] = r => "check" \in {"check", "insert"} /\ b \in added'[r]
    BY <1>8, <1>9, <1>11, <1>14
  <1>16. /\ pc' = [pc EXCEPT ![r] = "check"]
         /\ entry' \in [Addresses -> Requests \cup {NoRequest}]
         /\ added' \in [Requests -> SUBSET Addresses]
         /\ \A p \in Requests \ {r} : added'[p] = added[p]
    BY <1>1, <1>3
  <1> HIDE DEF Insert, Step
  <1>17. StepTo(r, "check")
    BY <1>4, <1>5, <1>6, <1>7, <1>10, <1>12, <1>14, <1>15, <1>16 DEF StepTo
  <1> QED BY <1>17, RegStep

LEMMA RollBackInv ==
  ASSUME RegInv, NEW r \in Requests, NEW from \in {"check", "insert"},
         RollBack(r, from)
  PROVE  RegInv'
  <1> USE DEF RollBack, Step, Release
  <1>1. pc[r] \in {"check", "insert"} /\ pc' = [pc EXCEPT ![r] = "failed"]
    OBVIOUS
  <1>2. /\ entry' \in [Addresses -> Requests \cup {NoRequest}]
        /\ \A b \in Addresses : entry'[b] # r
        /\ \A b \in Addresses :
             entry'[b] = entry[b] \/ (entry[b] = r /\ entry'[b] = NoRequest)
    BY OneRequest
  <1>3. /\ added' \in [Requests -> SUBSET Addresses]
        /\ added'[r] = {} /\ \A p \in Requests \ {r} : added'[p] = added[p]
    BY OneRequest
  <1>4. TodoOK(r)' /\ RequestOK(r)' /\ KnownOK(r)'
    BY <1>1, <1>2, <1>3, OneRequest DEF TodoOK, RequestOK, KnownOK
  <1>5. TaskHasRow'
    BY OneRequest DEF TaskHasRow
  <1>6. /\ UNCHANGED <<row, todo, known, tasks>>
        /\ \A b \in Addresses : entry'[b] # NoRequest => row[b] = NoRequest
        /\ \A b \in Addresses : row[b] # r
    BY <1>1, <1>2, OneRequest
  <1>7. /\ "failed" \in PCs /\ pc' = [pc EXCEPT ![r] = "failed"]
        /\ ToSet(todo'[r]) \subseteq Scope[r] /\ added'[r] \subseteq Scope[r]
        /\ tasks' \subseteq Requests \X Addresses
        /\ todo' \in [Requests -> Seq(Addresses)]
        /\ known' \in [Requests -> SUBSET Addresses]
        /\ row' \in [Addresses -> Requests \cup {NoRequest}]
    BY <1>1, <1>3, <1>6, OneRequest DEF PCs, Ended
  <1>8. /\ \A b \in Addresses : row'[b] = row[b] /\ row'[b] # r /\ entry'[b] # r
        /\ \A b \in Addresses : entry'[b] # NoRequest => row'[b] = NoRequest
        /\ \A b \in Addresses :
             \/ entry'[b] = entry[b]
             \/ entry[b] \in {r, NoRequest} /\ entry'[b] \in {r, NoRequest}
        /\ \A p \in Requests \ {r} : todo'[p] = todo[p] /\ known'[p] = known[p]
    BY <1>2, <1>6
  <1> HIDE DEF RollBack, Step, Release
  <1>9. StepTo(r, "failed")
    BY <1>2, <1>3, <1>4, <1>5, <1>7, <1>8 DEF StepTo
  <1> QED BY <1>9, RegStep

LEMMA CommitRowsInv ==
  ASSUME RegInv, NEW r \in Requests, CommitRows(r)
  PROVE  RegInv'
  <1> USE DEF CommitRows, Step, Release
  <1>1. pc[r] = "check" /\ pc' = [pc EXCEPT ![r] = "respond"]
    OBVIOUS
  <1>2. /\ entry' \in [Addresses -> Requests \cup {NoRequest}]
        /\ \A b \in Addresses : entry'[b] # r
        /\ \A b \in Addresses :
             entry'[b] = entry[b] \/ (entry[b] = r /\ entry'[b] = NoRequest)
    BY OneRequest
  <1>3. /\ row' \in [Addresses -> Requests \cup {NoRequest}]
        /\ \A b \in Addresses : entry[b] = r => row'[b] = r
        /\ \A b \in Addresses :
             row'[b] = row[b] \/ (row[b] = NoRequest /\ entry[b] = r /\ row'[b] = r)
    BY OneRequest
  <1>4. \A b \in Addresses : entry'[b] # NoRequest => row'[b] = NoRequest
    BY <1>2, <1>3, OneRequest
  <1>5. TodoOK(r)'
    BY <1>2, OneRequest DEF TodoOK
  <1>6. RequestOK(r)'
    BY <1>1, <1>3, OneRequest DEF RequestOK
  <1>7. KnownOK(r)'
    BY <1>3, OneRequest DEF KnownOK
  <1>8. TaskHasRow'
    <2> SUFFICES ASSUME NEW t \in tasks PROVE row'[t[2]] = t[1]
      BY DEF TaskHasRow
    <2>1. t[1] \in Requests /\ t[2] \in Addresses /\ row[t[2]] = t[1]
      BY OneRequest DEF TaskHasRow
    <2> QED BY <1>3, <2>1
  <1>9. StepTo(r, "respond")
    BY <1>1, <1>2, <1>3, <1>4, <1>5, <1>6, <1>7, <1>8, OneRequest DEF StepTo, PCs
  <1> QED BY <1>9, RegStep

LEMMA StartTasksInv ==
  ASSUME RegInv, NEW r \in Requests, StartTasks(r)
  PROVE  RegInv'
  <1> USE DEF StartTasks, Step
  <1>1. pc[r] = "respond" /\ pc' = [pc EXCEPT ![r] = "done"]
    OBVIOUS
  <1>2. \A a \in added[r] : a \in Addresses /\ row[a] = r
    BY <1>1, OneRequest DEF RequestOK
  <1>3. TaskHasRow' /\ tasks' \subseteq Requests \X Addresses
    BY <1>2, OneRequest DEF TaskHasRow
  <1>4. TodoOK(r)' /\ RequestOK(r)' /\ KnownOK(r)'
    BY <1>1, <1>2, OneRequest DEF TodoOK, RequestOK, KnownOK
  <1>5. /\ UNCHANGED <<row, entry, todo, added, known>>
        /\ \A a \in Addresses : entry[a] # r
        /\ \A a \in Addresses : entry[a] # NoRequest => row[a] = NoRequest
        /\ ToSet(todo[r]) \subseteq Scope[r] /\ added[r] \subseteq Scope[r]
    BY <1>1, OneRequest
  <1>6. /\ todo \in [Requests -> Seq(Addresses)]
        /\ added \in [Requests -> SUBSET Addresses]
        /\ known \in [Requests -> SUBSET Addresses]
        /\ row \in [Addresses -> Requests \cup {NoRequest}]
        /\ entry \in [Addresses -> Requests \cup {NoRequest}]
    BY OneRequest
  <1> HIDE DEF StartTasks
  <1>7. StepTo(r, "done")
    BY <1>1, <1>3, <1>4, <1>5, <1>6 DEF StepTo, PCs, Ended
  <1> QED BY <1>7, RegStep

(* Whoever was being handled is lost, with what it had inserted; the rows   *)
(* that were committed stay.                                                *)
LEMMA RegCrashInv ==
  ASSUME RegInv, RegCrash
  PROVE  RegInv'
  <1> USE DEF RegCrash
  <1>1. \A r \in Requests :
          /\ pc'[r] \in PCs
          /\ pc'[r] = "lost" \/ (pc'[r] = pc[r] /\ pc[r] \notin {"check", "insert", "respond"})
          /\ pc[r] \in {"respond", "done", "lost"} => pc'[r] \in {"done", "lost"}
    BY DEF RegInv, RegTypeOK, PCs, Ended
  <1>2. RegTypeOK'
    <2>1. pc' \in [Requests -> PCs]
      BY <1>1
    <2> QED BY <2>1 DEF RegInv, RegTypeOK
  <1>3. QueueTypes'
    BY DEF RegInv, QueueTypes
  <1>4. ASSUME NEW r \in Requests PROVE TodoOK(r)' /\ RequestOK(r)' /\ KnownOK(r)'
    <2>1. \A a \in Addresses : entry'[a] # r
      OBVIOUS
    <2>2. TodoOK(r)'
      BY <2>1, OneRequest DEF TodoOK
    <2>3. RequestOK(r)'
      BY <1>1, OneRequest DEF RequestOK
    <2> QED BY <2>2, <2>3, OneRequest DEF KnownOK
  <1>5. \A a \in Addresses : RowOK(a)'
    <2> TAKE a \in Addresses
    <2>1. row[a] # NoRequest => row[a] \in Requests /\ pc[row[a]] \in {"respond", "done", "lost"}
      BY DEF RegInv, RegTypeOK, RowOK
    <2> QED BY <1>1, <2>1 DEF RowOK
  <1>6. TaskHasRow'
    BY DEF RegInv, TaskHasRow
  <1> QED BY <1>2, <1>3, <1>4, <1>5, <1>6 DEF RegInv

LEMMA NextRegInv == RegInv /\ [RegNext]_regVars => RegInv'
  <1> SUFFICES ASSUME RegInv, [RegNext]_regVars PROVE RegInv' OBVIOUS
  <1>1. ASSUME NEW r \in Requests, Handle(r) PROVE RegInv'
    BY <1>1, FoundRegisteredInv, FoundNewInv, InsertInv, RollBackInv,
       CommitRowsInv, StartTasksInv DEF Handle, InsertConflicts, HostRaises
  <1>2. CASE UNCHANGED regVars
    BY <1>2 DEF regVars, RegInv, RegTypeOK, QueueTypes, TodoOK, RequestOK, KnownOK,
       RowOK, TaskHasRow
  <1> QED BY <1>1, <1>2, ArriveInv, RegCrashInv DEF RegNext

-----------------------------------------------------------------------------
(* The theorems                                                             *)

LEMMA RegInvHolds == RegSpec => []RegInv
  BY InitRegInv, NextRegInv, PTL DEF RegSpec

(* An open insert belongs to a request that is still being handled, and is  *)
(* among what that request will answer to have registered.                  *)
THEOREM RegistrationTypesHold == RegSpec => []RegTypeOK
  <1>1. RegInv => RegTypeOK
    BY DEF RegInv
  <1> QED BY <1>1, RegInvHolds, PTL

(* No interleaving of requests, conflicts and crashes makes an answer claim *)
(* a machine that it has not committed or that was its own before.          *)
THEOREM AnswersAreHonest == RegSpec => []HonestAnswer
  <1>1. RegInv => HonestAnswer
    BY DEF RegInv, RequestOK, KnownOK, HonestAnswer
  <1> QED BY <1>1, RegInvHolds, PTL

(* Nothing is enrolled that another request has registered or that was      *)
(* rolled back.                                                             *)
THEOREM EnrollsOwnRows == RegSpec => []TaskHasRow
  <1>1. RegInv => TaskHasRow
    BY DEF RegInv
  <1> QED BY <1>1, RegInvHolds, PTL

(* The waits of the unique index follow the addresses upwards, so that no   *)
(* two of any number of overlapping discoveries deadlock.                   *)
THEOREM WaitsAreOrdered == RegSpec => []WaitsUpwards
  <1>1. RegInv => WaitsUpwards
    <2> SUFFICES ASSUME RegInv, NEW r \in Requests, pc[r] = "insert",
                        NEW a \in Addresses, entry[a] = r
                 PROVE  a < Current(r)
      BY DEF WaitsUpwards
    <2>1. todo[r] \in Seq(Addresses) /\ todo[r] # << >>
      BY OneRequest DEF RequestOK
    <2>2. Current(r) = todo[r][1] /\ 1 \in DOMAIN todo[r]
      BY <2>1 DEF Current
    <2> QED BY <2>2, OneRequest DEF TodoOK
  <1> QED BY <1>1, RegInvHolds, PTL
=============================================================================
