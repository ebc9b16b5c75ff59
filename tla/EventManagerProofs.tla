-------------------------- MODULE EventManagerProofs --------------------------
(***************************************************************************)
(* Proofs about EventManager for any number of clients, producers and       *)
(* events and any length of the history. The heart of them is what a walk   *)
(* by index over a list that changes under it can and cannot miss.          *)
(***************************************************************************)
EXTENDS EventManager, TLAPS, SequenceTheorems, WellFoundedInduction

IsDead(c) == peer[c] \in {"closed", "gone"}

BcRow ==
  [event : [by : Producers, no : 0..MaxEvents], to : Clients \cup {NoClient},
   next : Nat \ {0}, dead : Seq(Clients), targets : SUBSET Clients]

EventRows ==
  /\ peer \in [Clients -> {"absent", "connected", "closed", "gone"}]
  /\ conns \in Seq(Clients)
  /\ history \in Seq(Event)
  /\ bc \in [Producers -> BcRow]
  /\ received \in [Clients -> Seq(Event)]

ConnsOK ==
  /\ \A i \in DOMAIN conns : peer[conns[i]] # "absent"
  /\ \A i, k \in DOMAIN conns : conns[i] = conns[k] => i = k

(* What EventTypeOK says of one broadcast.                                  *)
BcTypeOK(p) ==
  /\ bc[p].event \in [by : {p}, no : 0..count]
  /\ bc[p].to \in IF Busy(p) THEN bc[p].targets \cup ToSet(conns) \cup
       {c \in Clients : peer[c] \in {"closed", "gone"}} ELSE {NoClient}
  /\ \A c \in ToSet(bc[p].dead) : peer[c] \in {"closed", "gone"}

(* The connection being sent to is behind the index; it and the targets     *)
(* have been connected, so none of them can be a new connection.            *)
WalkOK(p) == Busy(p) =>
  /\ bc[p].to \in Clients /\ peer[bc[p].to] # "absent"
  /\ \A c \in bc[p].targets : peer[c] # "absent"
  /\ \A k \in DOMAIN conns : k >= bc[p].next => conns[k] # bc[p].to

(* Of the events of a producer a client has the current one as the last,    *)
(* and then the walk does not come to that client again.                    *)
GotOK(p, c) == Busy(p) => \A i \in DOMAIN received[c] : received[c][i].by = p =>
  /\ received[c][i].no <= bc[p].event.no
  /\ received[c][i].no = bc[p].event.no =>
       /\ c # bc[p].to
       /\ \A k \in DOMAIN conns : k >= bc[p].next => conns[k] # c

ReceivedOK(c) ==
  /\ peer[c] = "absent" => received[c] = << >>
  /\ \A i \in DOMAIN received[c] : received[c][i].no <= count

(* As long as no target has been removed they are the first in the list, and *)
(* a target that has not got the event is still ahead.                      *)
ReachOK(p) == Busy(p) /\ bc[p].targets \subseteq ToSet(conns) =>
  /\ \A i, k \in DOMAIN conns :
       i < k /\ conns[k] \in bc[p].targets => conns[i] \in bc[p].targets
  /\ \A c \in bc[p].targets : peer[c] = "connected" =>
       \/ c = bc[p].to
       \/ bc[p].event \in ToSet(received[c])
       \/ \E k \in DOMAIN conns : k >= bc[p].next /\ conns[k] = c

EventInv ==
  /\ EventRows
  /\ ConnsOK
  /\ count \in 0..MaxEvents
  /\ \A p \in Producers : BcTypeOK(p) /\ WalkOK(p) /\ ReachOK(p)
  /\ \A c \in Clients : ReceivedOK(c) /\ \A p \in Producers : GotOK(p, c)
  /\ ProducerOrder
  /\ HistoryIsNewest

USE NoClientAssumption, MaxHistoryAssumption, MaxEventsAssumption

-----------------------------------------------------------------------------
(* Lemmas about lists                                                       *)

(* Induction, for a set: the provers cannot instantiate NatInduction.       *)
LEMMA SetInduction ==
  ASSUME NEW T \in SUBSET Nat, 0 \in T, \A n \in T : n + 1 \in T
  PROVE  T = Nat
  <1> SUFFICES ASSUME Nat \ T # {} PROVE FALSE OBVIOUS
  <1>1. PICK n \in Nat \ T : \A m \in Nat \ T : ~(<<m, n>> \in OpToRel(<, Nat))
    BY NatLessThanWellFounded, WFMin
  <1>2. \A m \in Nat \ T : ~(m < n)
    BY <1>1 DEF OpToRel
  <1>3. n # 0 /\ n - 1 \in Nat /\ n - 1 < n /\ (n - 1) + 1 = n
    OBVIOUS
  <1> QED BY <1>2, <1>3

(* Without, as its recursion reads.                                         *)
Keeps(f, s, gone, n) ==
  /\ f \in [0..n -> Seq(Clients)]
  /\ f[0] = << >>
  /\ \A i \in 1..n : f[i] = IF s[i] \in gone THEN f[i - 1] ELSE Append(f[i - 1], s[i])

LEMMA KeepsExists ==
  ASSUME NEW s \in Seq(Clients), NEW gone
  PROVE  \E f : Keeps(f, s, gone, Len(s))
  <1> DEFINE T == {n \in Nat : n <= Len(s) => \E f : Keeps(f, s, gone, n)}
  <1>1. 0 \in T
    <2>1. Keeps([i \in 0..0 |-> << >>], s, gone, 0)
      BY DEF Keeps
    <2> QED BY <2>1
  <1>2. ASSUME NEW n \in T PROVE n + 1 \in T
    <2> SUFFICES ASSUME n + 1 <= Len(s) PROVE \E f : Keeps(f, s, gone, n + 1)
      OBVIOUS
    <2>1. PICK f : Keeps(f, s, gone, n)
      BY <1>2
    <2> DEFINE last == IF s[n + 1] \in gone THEN f[n] ELSE Append(f[n], s[n + 1])
               g == [i \in 0..n + 1 |-> IF i = n + 1 THEN last ELSE f[i]]
    <2>2. last \in Seq(Clients)
      <3>1. f[n] \in Seq(Clients) /\ s[n + 1] \in Clients
        BY <2>1 DEF Keeps
      <3> QED BY <3>1
    <2> HIDE DEF last
    <2>3. g \in [0..n + 1 -> Seq(Clients)] /\ g[0] = << >>
      BY <2>1, <2>2 DEF Keeps
    <2>4. \A i \in 0..n : g[i] = f[i]
      OBVIOUS
    <2>5. g[n + 1] = last
      OBVIOUS
    <2> HIDE DEF g
    <2>6. ASSUME NEW i \in 1..n + 1
          PROVE  g[i] = IF s[i] \in gone THEN g[i - 1] ELSE Append(g[i - 1], s[i])
      <3>1. CASE i = n + 1
        BY <2>4, <2>5, <3>1 DEF last
      <3>2. CASE i # n + 1
        <4>1. i \in 1..n /\ i - 1 \in 0..n /\ i \in 0..n
          BY <3>2
        <4> QED BY <2>1, <2>4, <4>1 DEF Keeps
      <3> QED BY <3>1, <3>2
    <2> QED BY <2>3, <2>6 DEF Keeps
  <1>3. T = Nat
    <2> HIDE DEF T
    <2>1. T \subseteq Nat
      BY DEF T
    <2> QED BY <1>1, <1>2, <2>1, SetInduction
  <1>4. Len(s) \in T
    <2> HIDE DEF T
    <2> QED BY <1>3
  <1> QED BY <1>4

LEMMA WithoutKeeps ==
  ASSUME NEW s \in Seq(Clients), NEW gone
  PROVE  \E f : Keeps(f, s, gone, Len(s)) /\ Without(s, gone) = f[Len(s)]
  <1> DEFINE Step(f) == [n \in 0..Len(s) |->
                           IF n = 0 THEN << >>
                           ELSE IF s[n] \in gone THEN f[n - 1] ELSE Append(f[n - 1], s[n])]
             kept == CHOOSE f : f = Step(f)
  <1>0. Len(s) \in Nat
    OBVIOUS
  <1>1. PICK f : Keeps(f, s, gone, Len(s))
    BY KeepsExists
  <1>2. f = Step(f)
    <2>1. \A n \in 0..Len(s) : f[n] = Step(f)[n]
      <3> TAKE n \in 0..Len(s)
      <3>1. CASE n = 0
        BY <1>1, <3>1 DEF Keeps
      <3>2. CASE n # 0
        <4>1. n \in 1..Len(s)
          BY <1>0, <3>2
        <4> QED BY <1>1, <3>2, <4>1 DEF Keeps
      <3> QED BY <3>1, <3>2
    <2>2. f \in [0..Len(s) -> Seq(Clients)]
      BY <1>1 DEF Keeps
    <2> QED BY <2>1, <2>2
  <1>3. kept = Step(kept)
    BY <1>2
  <1>4. Without(s, gone) = kept[Len(s)]
    BY DEF Without
  <1> HIDE DEF kept
  <1> DEFINE T == {n \in Nat : n <= Len(s) => kept[n] = f[n]}
  <1>5. 0 \in T
    BY <1>1, <1>3 DEF Keeps
  <1>6. ASSUME NEW n \in T PROVE n + 1 \in T
    <2> SUFFICES ASSUME n + 1 <= Len(s) PROVE kept[n + 1] = f[n + 1]
      OBVIOUS
    <2>1. kept[n] = f[n] /\ n + 1 \in 1..Len(s) /\ n + 1 \in 0..Len(s) /\ n + 1 # 0 /\ (n + 1) - 1 = n
      BY <1>0
    <2>2. kept[n + 1] = IF s[n + 1] \in gone THEN kept[n] ELSE Append(kept[n], s[n + 1])
      BY <1>3, <2>1
    <2> QED BY <1>1, <2>1, <2>2 DEF Keeps
  <1>7. Len(s) \in T
    <2>1. T \subseteq Nat
      OBVIOUS
    <2> HIDE DEF T
    <2> QED BY <1>0, <1>5, <1>6, <2>1, SetInduction
  <1> QED BY <1>1, <1>4, <1>7

(* How a list follows from one that somebody walks by index: what stays has *)
(* not moved up, and has not moved at all while all before it stays; what   *)
(* is new is a connection that had been absent.                             *)
Follows(s, t) ==
  /\ t \in Seq(Clients)
  /\ \A i, k \in DOMAIN t : t[i] = t[k] => i = k
  /\ \A i \in DOMAIN t :
       peer[t[i]] = "absent" \/ \E k \in DOMAIN s : i <= k /\ t[i] = s[k]
  /\ \A k \in DOMAIN s : (\A i \in 1..k : s[i] \in ToSet(t)) => k \in DOMAIN t /\ t[k] = s[k]

(* What the recursion of Without has come to after n elements.              *)
Kept(s, gone, n, t) ==
  /\ t \in Seq(Clients)
  /\ \A i \in DOMAIN t : \E k \in i..n : t[i] = s[k] /\ s[k] \notin gone
  /\ \A i, k \in DOMAIN t : t[i] = t[k] => i = k
  /\ \A k \in 1..n : s[k] \notin gone => \E i \in DOMAIN t : t[i] = s[k]
  /\ \A m \in 1..n : (\A k \in 1..m : s[k] \notin gone) => m \in DOMAIN t /\ t[m] = s[m]

LEMMA KeptStep ==
  ASSUME NEW s \in Seq(Clients), NEW gone, \A i, k \in DOMAIN s : s[i] = s[k] => i = k,
         NEW n \in Nat, n + 1 <= Len(s), NEW t, Kept(s, gone, n, t)
  PROVE  Kept(s, gone, n + 1, IF s[n + 1] \in gone THEN t ELSE Append(t, s[n + 1]))
  <1>0. /\ t \in Seq(Clients) /\ Len(t) \in Nat /\ DOMAIN t = 1..Len(t)
        /\ DOMAIN s = 1..Len(s) /\ Len(s) \in Nat /\ n + 1 \in 1..Len(s) /\ s[n + 1] \in Clients
    BY DEF Kept
  <1>1. CASE s[n + 1] \in gone
    <2>1. \A i \in DOMAIN t : \E k \in i..n + 1 : t[i] = s[k] /\ s[k] \notin gone
      BY <1>0 DEF Kept
    <2>2. \A k \in 1..n + 1 : s[k] \notin gone => \E i \in DOMAIN t : t[i] = s[k]
      <3> TAKE k \in 1..n + 1
      <3> HAVE s[k] \notin gone
      <3>1. k \in 1..n
        BY <1>1
      <3> QED BY <3>1 DEF Kept
    <2>3. \A m \in 1..n + 1 : (\A k \in 1..m : s[k] \notin gone) => m \in DOMAIN t /\ t[m] = s[m]
      <3> TAKE m \in 1..n + 1
      <3> HAVE \A k \in 1..m : s[k] \notin gone
      <3>1. m \in 1..n
        BY <1>1
      <3> QED BY <3>1 DEF Kept
    <2> QED BY <1>1, <2>1, <2>2, <2>3 DEF Kept
  <1>2. CASE s[n + 1] \notin gone
    <2> DEFINE u == Append(t, s[n + 1])
    <2>1. /\ u \in Seq(Clients) /\ DOMAIN u = 1..Len(t) + 1
          /\ \A i \in DOMAIN t : i \in DOMAIN u /\ u[i] = t[i]
          /\ Len(t) + 1 \in DOMAIN u /\ u[Len(t) + 1] = s[n + 1]
          /\ \A i \in DOMAIN u : i \in DOMAIN t \/ i = Len(t) + 1
      BY <1>0, AppendProperties
    <2> HIDE DEF u
    <2>2. Len(t) <= n
      <3>1. CASE Len(t) = 0
        BY <3>1
      <3>2. CASE Len(t) # 0
        <4>1. Len(t) \in DOMAIN t
          BY <1>0, <3>2
        <4>2. PICK k \in Len(t)..n : TRUE
          BY <4>1 DEF Kept
        <4> QED BY <1>0, <4>2
      <3> QED BY <3>1, <3>2
    <2>3. \A i \in DOMAIN u : \E k \in i..n + 1 : u[i] = s[k] /\ s[k] \notin gone
      <3> TAKE i \in DOMAIN u
      <3>1. CASE i \in DOMAIN t
        <4>1. PICK k \in i..n : t[i] = s[k] /\ s[k] \notin gone
          BY <3>1 DEF Kept
        <4> QED BY <1>0, <2>1, <3>1, <4>1
      <3>2. CASE i = Len(t) + 1
        <4>1. n + 1 \in i..n + 1
          BY <1>0, <2>2, <3>2
        <4> QED BY <1>2, <2>1, <3>2, <4>1
      <3> QED BY <2>1, <3>1, <3>2
    <2>4. \A i \in DOMAIN t : t[i] # s[n + 1]
      <3> TAKE i \in DOMAIN t
      <3>1. PICK k \in i..n : t[i] = s[k]
        BY DEF Kept
      <3>2. k \in DOMAIN s /\ k # n + 1 /\ n + 1 \in DOMAIN s
        BY <1>0, <3>1
      <3> QED BY <3>1, <3>2
    <2>5. \A i, k \in DOMAIN u : u[i] = u[k] => i = k
      BY <2>1, <2>4 DEF Kept
    <2>6. \A k \in 1..n + 1 : s[k] \notin gone => \E i \in DOMAIN u : u[i] = s[k]
      <3> TAKE k \in 1..n + 1
      <3> HAVE s[k] \notin gone
      <3>1. CASE k = n + 1
        BY <2>1, <3>1
      <3>2. CASE k # n + 1
        <4>1. k \in 1..n
          BY <3>2
        <4>2. PICK i \in DOMAIN t : t[i] = s[k]
          BY <4>1 DEF Kept
        <4> QED BY <2>1, <4>2
      <3> QED BY <3>1, <3>2
    <2>7. \A m \in 1..n + 1 : (\A k \in 1..m : s[k] \notin gone) => m \in DOMAIN u /\ u[m] = s[m]
      <3> TAKE m \in 1..n + 1
      <3> HAVE \A k \in 1..m : s[k] \notin gone
      <3>1. CASE m \in 1..n
        BY <2>1, <3>1 DEF Kept
      <3>2. CASE m = n + 1
        <4>1. n # 0 => n \in DOMAIN t
          <5> HAVE n # 0
          <5>1. n \in 1..n /\ \A k \in 1..n : s[k] \notin gone
            BY <3>2
          <5> QED BY <5>1 DEF Kept
        <4>2. Len(t) = n
          <5>1. CASE n = 0
            BY <1>0, <2>2, <5>1
          <5>2. CASE n # 0
            <6>1. n \in 1..Len(t)
              BY <1>0, <4>1, <5>2
            <6>2. Len(t) \in Nat
              BY <1>0
            <6> QED BY <2>2, <6>1, <6>2
          <5> QED BY <5>1, <5>2
        <4> QED BY <2>1, <3>2, <4>2
      <3> QED BY <3>1, <3>2
    <2> QED BY <1>2, <2>1, <2>3, <2>5, <2>6, <2>7 DEF Kept, u
  <1> QED BY <1>1, <1>2

(* Removing dead connections, whichever they are.                           *)
LEMMA WithoutKept ==
  ASSUME NEW s \in Seq(Clients), NEW gone, \A i, k \in DOMAIN s : s[i] = s[k] => i = k
  PROVE  Kept(s, gone, Len(s), Without(s, gone))
  <1>0. PICK f : Keeps(f, s, gone, Len(s)) /\ Without(s, gone) = f[Len(s)]
    BY WithoutKeeps
  <1>1. Len(s) \in Nat
    OBVIOUS
  <1> DEFINE T == {n \in Nat : n <= Len(s) => Kept(s, gone, n, f[n])}
  <1>2. 0 \in T
    <2>1. f[0] = << >> /\ DOMAIN << >> = {}
      BY <1>0 DEF Keeps
    <2>2. << >> \in Seq(Clients)
      OBVIOUS
    <2>3. Kept(s, gone, 0, f[0])
      BY <2>1, <2>2 DEF Kept
    <2> QED BY <2>3
  <1>3. ASSUME NEW n \in T PROVE n + 1 \in T
    <2> SUFFICES ASSUME n + 1 <= Len(s) PROVE Kept(s, gone, n + 1, f[n + 1])
      OBVIOUS
    <2>1. n + 1 \in 1..Len(s) /\ (n + 1) - 1 = n /\ Kept(s, gone, n, f[n])
      BY <1>1
    <2>2. f[n + 1] = IF s[n + 1] \in gone THEN f[n] ELSE Append(f[n], s[n + 1])
      BY <1>0, <2>1 DEF Keeps
    <2> QED BY <2>1, <2>2, KeptStep
  <1>4. Len(s) \in T
    <2>1. T \subseteq Nat
      OBVIOUS
    <2> HIDE DEF T
    <2> QED BY <1>1, <1>2, <1>3, <2>1, SetInduction
  <1> QED BY <1>0, <1>1, <1>4

LEMMA WithoutFollows ==
  ASSUME NEW s \in Seq(Clients), NEW gone, \A i, k \in DOMAIN s : s[i] = s[k] => i = k
  PROVE  /\ Follows(s, Without(s, gone))
         /\ ToSet(Without(s, gone)) \subseteq ToSet(s)
         /\ \A k \in DOMAIN s : s[k] \in ToSet(Without(s, gone)) \/ s[k] \in gone
  <1> DEFINE t == Without(s, gone)
  <1>1. Kept(s, gone, Len(s), t) /\ DOMAIN s = 1..Len(s) /\ Len(s) \in Nat
    BY WithoutKept
  <1> HIDE DEF t
  <1>2. \A c : c \in ToSet(t) <=> \E i \in DOMAIN t : t[i] = c
    BY DEF ToSet
  <1>3. \A i \in DOMAIN t : \E k \in DOMAIN s : i <= k /\ t[i] = s[k]
    <2> TAKE i \in DOMAIN t
    <2>1. i \in Nat /\ i >= 1
      BY <1>1 DEF Kept
    <2>2. PICK k \in i..Len(s) : t[i] = s[k]
      BY <1>1 DEF Kept
    <2> QED BY <1>1, <2>1, <2>2
  <1>4. \A k \in DOMAIN s : s[k] \in ToSet(t) => s[k] \notin gone
    BY <1>1, <1>2 DEF Kept
  <1>5. \A k \in DOMAIN s : (\A i \in 1..k : s[i] \in ToSet(t)) => k \in DOMAIN t /\ t[k] = s[k]
    <2> TAKE k \in DOMAIN s
    <2> HAVE \A i \in 1..k : s[i] \in ToSet(t)
    <2>1. k \in 1..Len(s) /\ \A i \in 1..k : i \in DOMAIN s
      BY <1>1
    <2>2. \A i \in 1..k : s[i] \notin gone
      BY <1>4, <2>1
    <2> QED BY <1>1, <2>1, <2>2 DEF Kept
  <1>6. \A k \in DOMAIN s : s[k] \in ToSet(t) \/ s[k] \in gone
    BY <1>1, <1>2 DEF Kept
  <1>7. ToSet(t) \subseteq ToSet(s)
    BY <1>3 DEF ToSet
  <1> QED BY <1>1, <1>3, <1>5, <1>6, <1>7 DEF Follows, Kept, t

(* list.remove of a connection that is listed once, or not at all.          *)
LEMMA RemoveFirstFollows ==
  ASSUME NEW s \in Seq(Clients), NEW e, \A i, k \in DOMAIN s : s[i] = s[k] => i = k
  PROVE  /\ Follows(s, RemoveFirst(s, e))
         /\ ToSet(RemoveFirst(s, e)) \subseteq ToSet(s)
         /\ \A k \in DOMAIN s : s[k] \in ToSet(RemoveFirst(s, e)) \/ s[k] = e
  <1> DEFINE t == RemoveFirst(s, e)
  <1>0. DOMAIN s = 1..Len(s) /\ Len(s) \in Nat
    OBVIOUS
  <1>1. CASE \A i \in 1..Len(s) : s[i] # e
    <2>1. t = s
      BY <1>1 DEF RemoveFirst
    <2> HIDE DEF t
    <2>2. \A k \in DOMAIN s : s[k] \in ToSet(s)
      BY DEF ToSet
    <2>3. \A i \in DOMAIN s : i <= i
      BY <1>0
    <2> QED BY <2>1, <2>2, <2>3 DEF Follows, t
  <1>2. CASE \E i \in 1..Len(s) : s[i] = e
    <2>1. PICK j \in 1..Len(s) : s[j] = e
      BY <1>2
    <2>2. {k \in 1..Len(s) : s[k] = e} = {j}
      BY <1>0, <2>1
    <2>3. SelectInSeq(s, LAMBDA v : v = e) = j
      <3>1. Min({j}) = j
        BY <1>0 DEF Min
      <3> QED BY <2>2, <3>1 DEF SelectInSeq
    <2>4. t = SubSeq(s, 1, j - 1) \o SubSeq(s, j + 1, Len(s))
      BY <1>2, <2>3 DEF RemoveFirst, RemoveAt
    <2> HIDE DEF t
    <2>5. /\ t \in Seq(Clients) /\ DOMAIN t = 1..Len(s) - 1
          /\ \A i \in 1..Len(s) - 1 : t[i] = IF i < j THEN s[i] ELSE s[i + 1]
      <3> DEFINE u == SubSeq(s, 1, j - 1)
                 v == SubSeq(s, j + 1, Len(s))
      <3>1. u \in Seq(Clients) /\ Len(u) = j - 1 /\ \A i \in 1..j - 1 : u[i] = s[i]
        <4>1. \A i \in 1..j - 1 : s[i] \in Clients
          BY <1>0
        <4>2. j - 1 \in Int
          BY <1>0
        <4> HIDE DEF u
        <4>3. /\ u \in Seq(Clients) /\ Len(u) = IF 1 <= j - 1 THEN j - 1 - 1 + 1 ELSE 0
              /\ \A i \in 1..j - 1 - 1 + 1 : u[i] = s[1 + i - 1]
          BY <4>1, <4>2, SubSeqProperties DEF u
        <4> QED BY <1>0, <4>3
      <3>2. v \in Seq(Clients) /\ Len(v) = Len(s) - j /\ \A i \in 1..Len(s) - j : v[i] = s[j + i]
        <4>1. \A i \in j + 1..Len(s) : s[i] \in Clients
          BY <1>0
        <4>2. j + 1 \in Int
          BY <1>0
        <4> HIDE DEF v
        <4>3. /\ v \in Seq(Clients)
              /\ Len(v) = IF j + 1 <= Len(s) THEN Len(s) - (j + 1) + 1 ELSE 0
              /\ \A i \in 1..Len(s) - (j + 1) + 1 : v[i] = s[j + 1 + i - 1]
          BY <1>0, <4>1, <4>2, SubSeqProperties DEF v
        <4>4. ASSUME NEW i \in 1..Len(s) - j PROVE v[i] = s[j + i]
          <5>1. i \in 1..Len(s) - (j + 1) + 1 /\ j + 1 + i - 1 = j + i
            BY <1>0
          <5> QED BY <4>3, <5>1
        <4>5. Len(s) \in Nat
          BY <1>0
        <4> QED BY <4>3, <4>4, <4>5
      <3> HIDE DEF u, v
      <3>3. /\ u \o v \in Seq(Clients) /\ Len(u \o v) = Len(s) - 1
            /\ \A i \in 1..Len(s) - 1 : (u \o v)[i] = IF i <= j - 1 THEN u[i] ELSE v[i - (j - 1)]
        <4>1. /\ u \o v \in Seq(Clients) /\ Len(u \o v) = Len(u) + Len(v)
              /\ \A i \in 1..Len(u) + Len(v) :
                   (u \o v)[i] = IF i <= Len(u) THEN u[i] ELSE v[i - Len(u)]
          <5>1. u \in Seq(Clients) /\ v \in Seq(Clients)
            BY <3>1, <3>2
          <5> QED BY <5>1, ConcatProperties
        <4>2. Len(u) + Len(v) = Len(s) - 1
          BY <1>0, <3>1, <3>2
        <4> QED BY <3>1, <4>1, <4>2
      <3>4. ASSUME NEW i \in 1..Len(s) - 1 PROVE t[i] = IF i < j THEN s[i] ELSE s[i + 1]
        <4>1. t[i] = IF i <= j - 1 THEN u[i] ELSE v[i - (j - 1)]
          BY <1>0, <2>4, <3>3 DEF u, v
        <4>2. CASE i < j
          BY <1>0, <3>1, <4>1, <4>2 DEF u
        <4>3. CASE ~(i < j)
          <5>1. i - (j - 1) \in 1..Len(s) - j /\ j + (i - (j - 1)) = i + 1
            BY <1>0, <4>3
          <5> QED BY <1>0, <3>2, <4>1, <4>3, <5>1 DEF v
        <4> QED BY <4>2, <4>3
      <3>5. Len(t) = Len(s) - 1 /\ t \in Seq(Clients)
        BY <1>0, <2>4, <3>3 DEF u, v
      <3> QED BY <3>4, <3>5
    <2>6. \A c : c \in ToSet(t) <=> \E i \in DOMAIN t : t[i] = c
      BY DEF ToSet
    <2>7. \A i \in DOMAIN t : \E k \in DOMAIN s :
            i <= k /\ t[i] = s[k] /\ k # j /\ k = IF i < j THEN i ELSE i + 1
      BY <1>0, <2>5
    <2>8. \A i, k \in DOMAIN t : t[i] = t[k] => i = k
      <3> TAKE i, k \in DOMAIN t
      <3> HAVE t[i] = t[k]
      <3>1. PICK a \in DOMAIN s : t[i] = s[a] /\ a = IF i < j THEN i ELSE i + 1
        BY <2>7
      <3>2. PICK b \in DOMAIN s : t[k] = s[b] /\ b = IF k < j THEN k ELSE k + 1
        BY <2>7
      <3>3. a = b
        BY <3>1, <3>2
      <3> QED BY <1>0, <2>5, <3>1, <3>2, <3>3
    <2>9. e \notin ToSet(t)
      BY <1>0, <2>1, <2>6, <2>7
    <2>10. \A k \in DOMAIN s : (\A i \in 1..k : s[i] \in ToSet(t)) => k \in DOMAIN t /\ t[k] = s[k]
      <3> TAKE k \in DOMAIN s
      <3> HAVE \A i \in 1..k : s[i] \in ToSet(t)
      <3>1. k < j
        BY <1>0, <2>1, <2>9
      <3> QED BY <1>0, <2>5, <3>1
    <2>11. \A k \in DOMAIN s : s[k] \in ToSet(t) \/ s[k] = e
      <3> TAKE k \in DOMAIN s
      <3>1. CASE k < j
        <4>1. k \in DOMAIN t /\ t[k] = s[k]
          BY <1>0, <2>5, <3>1
        <4> QED BY <2>6, <4>1
      <3>2. CASE k > j
        <4>1. k - 1 \in DOMAIN t /\ t[k - 1] = s[k]
          BY <1>0, <2>5, <3>2
        <4> QED BY <2>6, <4>1
      <3>3. CASE k = j
        BY <2>1, <3>3
      <3> QED BY <1>0, <3>1, <3>2, <3>3
    <2>12. ToSet(t) \subseteq ToSet(s)
      BY <2>7 DEF ToSet
    <2> QED BY <2>5, <2>7, <2>8, <2>10, <2>11, <2>12 DEF Follows, t
  <1> QED BY <1>1, <1>2

(* A new connection is put at the end.                                      *)
LEMMA AppendFollows ==
  ASSUME NEW s \in Seq(Clients), NEW c \in Clients, peer[c] = "absent",
         \A i, k \in DOMAIN s : s[i] = s[k] => i = k,
         \A i \in DOMAIN s : peer[s[i]] # "absent"
  PROVE  Follows(s, Append(s, c))
  <1> DEFINE t == Append(s, c)
  <1>1. /\ t \in Seq(Clients) /\ Len(s) \in Nat /\ DOMAIN s = 1..Len(s)
        /\ DOMAIN t = 1..Len(s) + 1
        /\ \A i \in DOMAIN s : i \in DOMAIN t /\ t[i] = s[i] /\ i <= i
        /\ t[Len(s) + 1] = c
        /\ \A i \in DOMAIN t : i \in DOMAIN s \/ i = Len(s) + 1
    BY AppendProperties
  <1>2. \A i \in DOMAIN s : s[i] # c
    OBVIOUS
  <1> HIDE DEF t
  <1>3. \A i, k \in DOMAIN t : t[i] = t[k] => i = k
    BY <1>1, <1>2
  <1>4. \A i \in DOMAIN t : peer[t[i]] = "absent" \/ \E k \in DOMAIN s : i <= k /\ t[i] = s[k]
    BY <1>1
  <1> QED BY <1>1, <1>3, <1>4 DEF Follows, t

LEMMA SameFollows ==
  ASSUME NEW s \in Seq(Clients), \A i, k \in DOMAIN s : s[i] = s[k] => i = k
  PROVE  Follows(s, s) /\ \A k \in DOMAIN s : s[k] \in ToSet(s)
  <1>1. \A i \in DOMAIN s : i <= i
    OBVIOUS
  <1> QED BY <1>1 DEF Follows, ToSet

-----------------------------------------------------------------------------
(* What a step leaves of the broadcasts that others are in                  *)

(* A connection goes through its life in one direction.                     *)
PeersMove ==
  /\ peer' \in [Clients -> {"absent", "connected", "closed", "gone"}]
  /\ \A c \in Clients :
       /\ peer[c] # "absent" => peer'[c] # "absent"
       /\ IsDead(c) => IsDead(c)'
       /\ peer'[c] = "connected" => peer[c] \in {"absent", "connected"}

(* Only dead connections leave the list.                                    *)
ListMoves ==
  /\ Follows(conns, conns')
  /\ \A k \in DOMAIN conns :
       conns[k] \in ToSet(conns') \/ peer'[conns[k]] \in {"closed", "gone"}

(* No event of q arrives, and none is taken back.                           *)
NothingOf(q) ==
  \A c \in Clients :
    /\ \A i \in DOMAIN received'[c] : received'[c][i].by = q =>
         \E k \in DOMAIN received[c] : received'[c][i] = received[c][k]
    /\ ToSet(received[c]) \subseteq ToSet(received'[c])

LEMMA OtherBroadcast ==
  ASSUME EventInv, NEW q \in Producers, bc'[q] = bc[q],
         PeersMove, ListMoves, NothingOf(q), count' \in Nat, count <= count'
  PROVE  /\ BcTypeOK(q)' /\ WalkOK(q)' /\ ReachOK(q)'
         /\ \A c \in Clients : GotOK(q, c)'
  <1>0. /\ bc[q] \in BcRow /\ bc[q].next \in Nat \ {0} /\ bc[q].targets \subseteq Clients
        /\ bc[q].to \in Clients \cup {NoClient}
        /\ conns \in Seq(Clients) /\ Busy(q)' = Busy(q)
        /\ bc[q].dead \in Seq(Clients)
        /\ peer \in [Clients -> {"absent", "connected", "closed", "gone"}]
    BY DEF EventInv, EventRows, BcRow, Busy
  <1>1. BcTypeOK(q) /\ WalkOK(q) /\ ReachOK(q)
    BY DEF EventInv
  <1>2. \A i \in DOMAIN conns' :
          peer[conns'[i]] = "absent" \/ \E k \in DOMAIN conns : i <= k /\ conns'[i] = conns[k]
    BY DEF ListMoves, Follows
  <1>3. DOMAIN conns \subseteq Nat /\ DOMAIN conns' \subseteq Nat
    BY <1>0 DEF ListMoves, Follows
  <1>4. BcTypeOK(q)'
    <2>1. bc[q].event \in [by : {q}, no : 0..count']
      BY <1>1 DEF BcTypeOK, EventInv
    <2>2. \A c \in ToSet(bc[q].dead) : IsDead(c)'
      BY <1>0, <1>1 DEF BcTypeOK, PeersMove, IsDead, ToSet
    <2>3. Busy(q) => bc[q].to \in bc[q].targets \cup ToSet(conns') \cup
                                    {c \in Clients : IsDead(c)'}
      <3> HAVE Busy(q)
      <3>1. CASE bc[q].to \in bc[q].targets
        BY <3>1
      <3>2. CASE bc[q].to \in ToSet(conns)
        <4>1. PICK k \in DOMAIN conns : conns[k] = bc[q].to
          BY <3>2 DEF ToSet
        <4>2. bc[q].to \in Clients
          BY <1>1 DEF WalkOK
        <4>3. conns[k] \in ToSet(conns') \/ peer'[conns[k]] \in {"closed", "gone"}
          BY DEF ListMoves
        <4> QED BY <4>1, <4>2, <4>3 DEF IsDead
      <3>3. CASE bc[q].to \in {c \in Clients : IsDead(c)}
        BY <3>3 DEF PeersMove
      <3> QED BY <1>1, <3>1, <3>2, <3>3 DEF BcTypeOK, IsDead
    <2>4. ~Busy(q) => bc[q].to = NoClient
      BY <1>1 DEF BcTypeOK
    <2> QED BY <1>0, <2>1, <2>2, <2>3, <2>4 DEF BcTypeOK, IsDead
  <1>5. WalkOK(q)'
    <2> SUFFICES ASSUME Busy(q) PROVE WalkOK(q)'
      BY <1>0 DEF WalkOK
    <2>1. /\ bc[q].to \in Clients /\ peer[bc[q].to] # "absent"
          /\ \A c \in bc[q].targets : peer[c] # "absent"
          /\ \A k \in DOMAIN conns : k >= bc[q].next => conns[k] # bc[q].to
      BY <1>1 DEF WalkOK
    <2>2. peer'[bc[q].to] # "absent" /\ \A c \in bc[q].targets : peer'[c] # "absent"
      BY <1>0, <2>1 DEF PeersMove
    <2>3. \A i \in DOMAIN conns' : i >= bc[q].next => conns'[i] # bc[q].to
      <3> TAKE i \in DOMAIN conns'
      <3> HAVE i >= bc[q].next
      <3>1. CASE peer[conns'[i]] = "absent"
        BY <2>1, <3>1
      <3>2. ASSUME NEW k \in DOMAIN conns, i <= k, conns'[i] = conns[k]
            PROVE  conns'[i] # bc[q].to
        <4>1. k >= bc[q].next
          BY <1>0, <1>3, <3>2
        <4> QED BY <2>1, <3>2, <4>1
      <3> QED BY <1>2, <3>1, <3>2
    <2> QED BY <2>1, <2>2, <2>3 DEF WalkOK
  <1>6. ReachOK(q)'
    <2> SUFFICES ASSUME Busy(q), bc[q].targets \subseteq ToSet(conns')
                 PROVE  /\ \A i, k \in DOMAIN conns' :
                             i < k /\ conns'[k] \in bc[q].targets => conns'[i] \in bc[q].targets
                        /\ \A c \in bc[q].targets : peer'[c] = "connected" =>
                             \/ c = bc[q].to
                             \/ bc[q].event \in ToSet(received'[c])
                             \/ \E k \in DOMAIN conns' : k >= bc[q].next /\ conns'[k] = c
      BY <1>0 DEF ReachOK
    <2>1. \A c \in bc[q].targets : peer[c] # "absent"
      BY <1>1 DEF WalkOK
    <2>2. ASSUME NEW c \in bc[q].targets
          PROVE  \E k \in DOMAIN conns : conns[k] = c
      <3>1. PICK i \in DOMAIN conns' : conns'[i] = c
        BY DEF ToSet
      <3> QED BY <1>2, <2>1, <3>1
    <2>3. bc[q].targets \subseteq ToSet(conns)
      BY <2>2 DEF ToSet
    <2>4. /\ \A i, k \in DOMAIN conns :
               i < k /\ conns[k] \in bc[q].targets => conns[i] \in bc[q].targets
          /\ \A c \in bc[q].targets : peer[c] = "connected" =>
               \/ c = bc[q].to
               \/ bc[q].event \in ToSet(received[c])
               \/ \E k \in DOMAIN conns : k >= bc[q].next /\ conns[k] = c
      BY <1>1, <2>3 DEF ReachOK
    <2>5. ASSUME NEW k \in DOMAIN conns, conns[k] \in bc[q].targets
          PROVE  k \in DOMAIN conns' /\ conns'[k] = conns[k]
      <3>1. \A i \in 1..k : i \in DOMAIN conns /\ (i = k \/ i < k)
        BY <1>0
      <3>2. \A i \in 1..k : conns[i] \in ToSet(conns')
        BY <2>4, <2>5, <3>1
      <3> QED BY <3>2 DEF ListMoves, Follows
    <2>6. ASSUME NEW i \in DOMAIN conns', NEW k \in DOMAIN conns',
                 i < k, conns'[k] \in bc[q].targets
          PROVE  conns'[i] \in bc[q].targets
      <3>1. PICK j \in DOMAIN conns : conns[j] = conns'[k]
        BY <2>2, <2>6
      <3>2. j \in DOMAIN conns' /\ conns'[j] = conns'[k]
        BY <2>5, <2>6, <3>1
      <3>3. j = k
        BY <3>2 DEF ListMoves, Follows
      <3>4. i \in DOMAIN conns /\ conns[i] \in bc[q].targets
        <4>1. i \in DOMAIN conns
          <5>1. k \in DOMAIN conns /\ i \in 1..k
            BY <2>6, <3>1, <3>3 DEF ListMoves, Follows
          <5> QED BY <1>0, <5>1
        <4> QED BY <2>4, <2>6, <3>1, <3>3, <4>1
      <3> QED BY <2>5, <3>4
    <2>7. ASSUME NEW c \in bc[q].targets, peer'[c] = "connected"
          PROVE  \/ c = bc[q].to
                 \/ bc[q].event \in ToSet(received'[c])
                 \/ \E k \in DOMAIN conns' : k >= bc[q].next /\ conns'[k] = c
      <3>1. peer[c] = "connected" /\ c \in Clients
        BY <1>0, <2>1, <2>7 DEF PeersMove
      <3>2. bc[q].event \in ToSet(received[c]) => bc[q].event \in ToSet(received'[c])
        BY <3>1 DEF NothingOf
      <3>3. ASSUME NEW k \in DOMAIN conns, k >= bc[q].next, conns[k] = c
            PROVE  k \in DOMAIN conns' /\ conns'[k] = c
        BY <2>5, <3>3
      <3> QED BY <2>4, <3>1, <3>2, <3>3
    <2> QED BY <2>6, <2>7
  <1>7. ASSUME NEW c \in Clients PROVE GotOK(q, c)'
    <2> SUFFICES ASSUME Busy(q), NEW i \in DOMAIN received'[c], received'[c][i].by = q
                 PROVE  /\ received'[c][i].no <= bc[q].event.no
                        /\ received'[c][i].no = bc[q].event.no =>
                             /\ c # bc[q].to
                             /\ \A k \in DOMAIN conns' : k >= bc[q].next => conns'[k] # c
      BY <1>0 DEF GotOK
    <2>1. PICK j \in DOMAIN received[c] : received'[c][i] = received[c][j]
      BY DEF NothingOf
    <2>2. /\ received[c][j].no <= bc[q].event.no
          /\ received[c][j].no = bc[q].event.no =>
               /\ c # bc[q].to
               /\ \A k \in DOMAIN conns : k >= bc[q].next => conns[k] # c
      BY <2>1 DEF EventInv, GotOK
    <2>3. peer[c] # "absent"
      <3>1. ReceivedOK(c) /\ DOMAIN << >> = {}
        BY DEF EventInv
      <3> QED BY <2>1, <3>1 DEF ReceivedOK
    <2>4. ASSUME NEW k \in DOMAIN conns', k >= bc[q].next, received[c][j].no = bc[q].event.no
          PROVE  conns'[k] # c
      <3>1. ASSUME NEW m \in DOMAIN conns, k <= m, conns'[k] = conns[m] PROVE conns[m] # c
        <4>1. m >= bc[q].next
          BY <1>0, <1>3, <2>4, <3>1
        <4> QED BY <2>2, <2>4, <4>1
      <3> QED BY <1>2, <2>3, <3>1
    <2> QED BY <2>1, <2>2, <2>4
  <1> QED BY <1>4, <1>5, <1>6, <1>7

-----------------------------------------------------------------------------
(* The steps                                                                *)

LEMMA InitEventInv == EventInit => EventInv
  <1> SUFFICES ASSUME EventInit PROVE EventInv
    OBVIOUS
  <1> USE DEF EventInit
  <1>1. /\ DOMAIN conns = {} /\ DOMAIN history = {} /\ Len(history) = 0
        /\ \A c \in Clients : received[c] = << >> /\ DOMAIN received[c] = {}
        /\ \A p \in Producers : bc[p] = Idle(p) /\ ~Busy(p)
    BY DEF Busy, Idle
  <1>2. EventRows
    <2>1. \A p \in Producers : Idle(p) \in BcRow
      BY DEF Idle, BcRow
    <2> QED BY <2>1 DEF EventRows
  <1>3. ConnsOK /\ count \in 0..MaxEvents /\ ProducerOrder /\ HistoryIsNewest
    BY <1>1 DEF ConnsOK, ProducerOrder, HistoryIsNewest
  <1>4. \A p \in Producers : BcTypeOK(p)
    BY <1>1 DEF BcTypeOK, Idle, ToSet
  <1>5. \A p \in Producers : WalkOK(p) /\ ReachOK(p) /\ \A c \in Clients : GotOK(p, c)
    BY <1>1 DEF WalkOK, ReachOK, GotOK
  <1>6. \A c \in Clients : ReceivedOK(c)
    BY <1>1 DEF ReceivedOK
  <1> QED BY <1>2, <1>3, <1>4, <1>5, <1>6 DEF EventInv

(* The endpoint changes a peer and perhaps the list.                        *)
LEMMA EndpointStep ==
  ASSUME EventInv, PeersMove, ListMoves,
         \A i \in DOMAIN conns' : peer'[conns'[i]] # "absent",
         UNCHANGED <<history, count, bc, received>>
  PROVE  EventInv'
  <1>1. EventRows'
    BY DEF EventInv, EventRows, PeersMove, ListMoves, Follows, BcRow, Event
  <1>2. ConnsOK'
    BY DEF ConnsOK, ListMoves, Follows
  <1>3. count' \in 0..MaxEvents /\ count' \in Nat /\ count <= count'
    BY DEF EventInv
  <1>4. \A q \in Producers : NothingOf(q)
    BY DEF NothingOf
  <1>5. \A q \in Producers : BcTypeOK(q)' /\ WalkOK(q)' /\ ReachOK(q)'
                             /\ \A c \in Clients : GotOK(q, c)'
    BY <1>3, <1>4, OtherBroadcast
  <1>6. \A c \in Clients : ReceivedOK(c)'
    <2> TAKE c \in Clients
    <2>1. ReceivedOK(c) /\ (peer[c] # "absent" => peer'[c] # "absent")
      BY DEF EventInv, PeersMove
    <2> QED BY <2>1 DEF ReceivedOK
  <1>7. ProducerOrder' /\ HistoryIsNewest'
    BY DEF EventInv, ProducerOrder, HistoryIsNewest
  <1> QED BY <1>1, <1>2, <1>3, <1>5, <1>6, <1>7 DEF EventInv

LEMMA EndpointInv ==
  ASSUME EventInv, NEW c \in Clients, Endpoint(c)
  PROVE  EventInv'
  <1>1. /\ peer \in [Clients -> {"absent", "connected", "closed", "gone"}]
        /\ conns \in Seq(Clients)
        /\ \A i \in DOMAIN conns : peer[conns[i]] # "absent"
        /\ \A i, k \in DOMAIN conns : conns[i] = conns[k] => i = k
    BY DEF EventInv, EventRows, ConnsOK
  <1>2. PeersMove
    BY <1>1 DEF PeersMove, IsDead, Endpoint, Connect, PeerCloses, Disconnect, EndpointRaises
  <1>3. UNCHANGED <<history, count, bc, received>>
    BY DEF Endpoint, Connect, PeerCloses, Disconnect, EndpointRaises
  <1>4. ASSUME ToSet(conns') \subseteq ToSet(conns), ListMoves
        PROVE  \A i \in DOMAIN conns' : peer'[conns'[i]] # "absent"
    <2> TAKE i \in DOMAIN conns'
    <2>1. PICK k \in DOMAIN conns : conns[k] = conns'[i]
      BY <1>4 DEF ToSet
    <2>2. conns[k] \in Clients
      BY <1>1
    <2> QED BY <1>1, <1>2, <2>1, <2>2 DEF PeersMove
  <1>5. ListMoves /\ \A i \in DOMAIN conns' : peer'[conns'[i]] # "absent"
    <2>1. CASE Connect(c)
      <3>1. conns' = Append(conns, c) /\ peer[c] = "absent" /\ peer' = [peer EXCEPT ![c] = "connected"]
        BY <2>1 DEF Connect
      <3>2. Follows(conns, conns')
        BY <1>1, <3>1, AppendFollows
      <3>3. /\ DOMAIN conns = 1..Len(conns) /\ Len(conns) \in Nat
            /\ DOMAIN conns' = 1..Len(conns) + 1
            /\ \A i \in DOMAIN conns : i \in DOMAIN conns' /\ conns'[i] = conns[i]
            /\ conns'[Len(conns) + 1] = c
            /\ \A i \in DOMAIN conns' : i \in DOMAIN conns \/ i = Len(conns) + 1
        BY <1>1, <3>1, AppendProperties
      <3>4. \A k \in DOMAIN conns : conns[k] \in ToSet(conns')
        BY <3>3 DEF ToSet
      <3>5. \A i \in DOMAIN conns' : peer'[conns'[i]] # "absent"
        <4> TAKE i \in DOMAIN conns'
        <4>1. CASE i \in DOMAIN conns
          <5>1. conns[i] \in Clients /\ peer[conns[i]] # "absent" /\ conns'[i] = conns[i]
            BY <1>1, <3>3, <4>1
          <5> QED BY <1>2, <5>1 DEF PeersMove
        <4>2. CASE i = Len(conns) + 1
          BY <1>1, <3>1, <3>3, <4>2
        <4> QED BY <3>3, <4>1, <4>2
      <3> QED BY <3>2, <3>4, <3>5 DEF ListMoves
    <2>2. CASE PeerCloses(c) \/ EndpointRaises(c)
      <3>1. conns' = conns
        BY <2>2 DEF PeerCloses, EndpointRaises
      <3>2. ListMoves
        BY <1>1, <3>1, SameFollows DEF ListMoves
      <3> QED BY <1>4, <3>1, <3>2
    <2>3. CASE Disconnect(c)
      <3>1. conns' = RemoveFirst(conns, c) /\ peer'[c] = "gone"
        BY <1>1, <2>3 DEF Disconnect
      <3>2. /\ Follows(conns, conns') /\ ToSet(conns') \subseteq ToSet(conns)
            /\ \A k \in DOMAIN conns : conns[k] \in ToSet(conns') \/ conns[k] = c
        BY <1>1, <3>1, RemoveFirstFollows
      <3>3. ListMoves
        BY <3>1, <3>2 DEF ListMoves
      <3> QED BY <1>4, <3>2, <3>3
    <2> QED BY <2>1, <2>2, <2>3 DEF Endpoint
  <1> QED BY <1>2, <1>3, <1>5, EndpointStep

(* The slice that is kept, after one more event.                            *)
LEMMA NewestKeeps ==
  ASSUME NEW e \in Event, history \in Seq(Event), count \in Nat, HistoryIsNewest,
         e.no = count + 1
  PROVE  LET h == Newest(Append(history, e))
         IN  /\ h \in Seq(Event)
             /\ Len(h) = IF count + 1 < MaxHistory THEN count + 1 ELSE MaxHistory
             /\ \A i \in DOMAIN h : h[i].no = (count + 1) - Len(h) + i
  <1> DEFINE a == Append(history, e)
             n == Len(history)
  <1>1. /\ a \in Seq(Event) /\ Len(a) = n + 1 /\ n \in Nat
        /\ \A i \in 1..n : a[i] = history[i]
        /\ a[n + 1] = e
    BY AppendProperties
  <1>2. /\ n = IF count < MaxHistory THEN count ELSE MaxHistory
        /\ \A i \in 1..n : history[i].no = count - n + i
    BY DEF HistoryIsNewest
  <1> HIDE DEF a, n
  <1>3. \A i \in 1..n + 1 : a[i].no = count - n + i
    <2> TAKE i \in 1..n + 1
    <2>1. CASE i \in 1..n
      BY <1>1, <1>2, <2>1
    <2>2. CASE i = n + 1
      BY <1>1, <1>2, <2>2
    <2> QED BY <1>1, <2>1, <2>2
  <1>4. CASE n + 1 > MaxHistory
    <2>1. n = MaxHistory /\ n + 1 - MaxHistory + 1 = 2 /\ count >= MaxHistory
      BY <1>1, <1>2, <1>4
    <2> DEFINE h == SubSeq(a, 2, n + 1)
    <2>2. /\ h \in Seq(Event) /\ Len(h) = n
          /\ \A i \in 1..n : h[i] = a[(2 + i) - 1]
      <3>1. \A i \in 2..n + 1 : a[i] \in Event
        <4>1. DOMAIN a = 1..n + 1
          BY <1>1
        <4> QED BY <1>1, <4>1
      <3>2. 2 \in Int /\ n + 1 \in Int /\ a \in Seq(Event)
        BY <1>1
      <3> DEFINE m == n + 1
      <3>3. m \in Int /\ 2 \in Int /\ \A i \in 2..m : a[i] \in Event
        BY <3>1, <3>2
      <3> HIDE DEF m
      <3>4. /\ SubSeq(a, 2, m) \in Seq(Event)
            /\ Len(SubSeq(a, 2, m)) = IF 2 <= m THEN (m - 2) + 1 ELSE 0
            /\ \A i \in 1..(m - 2) + 1 : SubSeq(a, 2, m)[i] = a[(2 + i) - 1]
        BY <3>3, SubSeqProperties
      <3>5. (m - 2) + 1 = n /\ m \in Nat /\ m >= 2
        BY <1>1, <2>1 DEF m
      <3>6. SubSeq(a, 2, m) = h
        BY DEF m
      <3> HIDE DEF h
      <3> QED BY <3>4, <3>5, <3>6
    <2>3. Newest(a) = h
      BY <1>1, <1>4, <2>1 DEF Newest
    <2> HIDE DEF h
    <2>4. Len(h) = n /\ DOMAIN h = 1..n
      BY <1>1, <2>1, <2>2
    <2>5. \A i \in 1..n : h[i].no = (count + 1) - n + i
      <3> TAKE i \in 1..n
      <3>1. h[i] = a[i + 1] /\ i + 1 \in 1..n + 1
        BY <1>1, <2>2
      <3>2. a[i + 1].no = count - n + (i + 1)
        BY <1>3, <3>1
      <3> QED BY <1>1, <3>1, <3>2
    <2>6. n = IF count + 1 < MaxHistory THEN count + 1 ELSE MaxHistory
      BY <1>2, <2>1
    <2>7. Newest(a) \in Seq(Event)
      BY <2>2, <2>3
    <2> QED BY <2>3, <2>4, <2>5, <2>6, <2>7 DEF a
  <1>5. CASE ~(n + 1 > MaxHistory)
    <2>1. Newest(a) = a /\ n = count
      BY <1>1, <1>2, <1>5 DEF Newest
    <2>2. DOMAIN a = 1..n + 1
      BY <1>1
    <2>3. n + 1 = IF count + 1 < MaxHistory THEN count + 1 ELSE MaxHistory
      BY <1>1, <1>2, <1>5, <2>1
    <2>4. \A i \in 1..n + 1 : a[i].no = (count + 1) - (n + 1) + i
      <3> TAKE i \in 1..n + 1
      <3>1. a[i].no = count - n + i
        BY <1>3
      <3> QED BY <1>1, <3>1
    <2> QED BY <1>1, <2>1, <2>2, <2>3, <2>4 DEF a
  <1> QED BY <1>4, <1>5

LEMMA StartBroadcastInv ==
  ASSUME EventInv, NEW p \in Producers, StartBroadcast(p)
  PROVE  EventInv'
  <1> DEFINE e == [by |-> p, no |-> count + 1]
             r == [event |-> e, to |-> conns[1], next |-> 2, dead |-> << >>, targets |-> ToSet(conns)]
  <1>0. /\ conns \in Seq(Clients) /\ history \in Seq(Event) /\ count \in Nat
        /\ bc \in [Producers -> BcRow] /\ received \in [Clients -> Seq(Event)]
        /\ peer \in [Clients -> {"absent", "connected", "closed", "gone"}]
        /\ \A i \in DOMAIN conns : peer[conns[i]] # "absent"
        /\ \A i, k \in DOMAIN conns : conns[i] = conns[k] => i = k
    BY DEF EventInv, EventRows, ConnsOK
  <1>1. /\ ~Busy(p) /\ count < MaxEvents /\ count' = count + 1
        /\ peer' = peer /\ conns' = conns /\ received' = received
        /\ history' = Newest(Append(history, e))
        /\ bc' = IF conns = << >> THEN bc ELSE [bc EXCEPT ![p] = r]
    BY DEF StartBroadcast
  <1>2. /\ e \in Event /\ e.no = count + 1 /\ e.by = p
        /\ e.no # 0 /\ e \in [by : {p}, no : 0..count']
        /\ count' \in 0..MaxEvents /\ count' \in Nat /\ count <= count'
    BY <1>0, <1>1 DEF Event
  <1> HIDE DEF e
  <1>3. PeersMove
    BY <1>0, <1>1 DEF PeersMove, IsDead
  <1>4. ListMoves
    BY <1>0, <1>1, SameFollows DEF ListMoves
  <1>5. \A q \in Producers : NothingOf(q)
    BY <1>1 DEF NothingOf
  <1>6. ASSUME NEW q \in Producers, bc'[q] = bc[q]
        PROVE  /\ BcTypeOK(q)' /\ WalkOK(q)' /\ ReachOK(q)'
               /\ \A c \in Clients : GotOK(q, c)'
    BY <1>2, <1>3, <1>4, <1>5, <1>6, OtherBroadcast
  <1>7. HistoryIsNewest' /\ history' \in Seq(Event)
    <2>1. HistoryIsNewest
      BY DEF EventInv
    <2> DEFINE h == Newest(Append(history, e))
    <2>2. /\ h \in Seq(Event)
          /\ Len(h) = IF count + 1 < MaxHistory THEN count + 1 ELSE MaxHistory
          /\ \A i \in DOMAIN h : h[i].no = (count + 1) - Len(h) + i
      BY <1>0, <1>2, <2>1, NewestKeeps
    <2> HIDE DEF h
    <2>3. history' = h /\ count' = count + 1
      BY <1>1 DEF h
    <2>4. Len(history') = IF count' < MaxHistory THEN count' ELSE MaxHistory
      BY <2>2, <2>3
    <2>5. \A i \in DOMAIN history' : history'[i].no = count' - Len(history') + i
      BY <2>2, <2>3
    <2>6. history' \in Seq(Event)
      BY <2>2, <2>3
    <2> HIDE DEF Event
    <2> QED BY <2>4, <2>5, <2>6 DEF HistoryIsNewest
  <1>8. ProducerOrder' /\ ConnsOK'
    BY <1>1 DEF EventInv, ProducerOrder, ConnsOK
  <1>9. \A c \in Clients : ReceivedOK(c)'
    <2> TAKE c \in Clients
    <2>1. /\ ReceivedOK(c)
          /\ \A i \in DOMAIN received[c] : received[c][i] \in Event
      BY <1>0 DEF EventInv
    <2>2. \A i \in DOMAIN received[c] : received[c][i].no \in Nat /\ received[c][i].no <= count
      BY <2>1 DEF ReceivedOK, Event
    <2> QED BY <1>0, <1>1, <2>1, <2>2 DEF ReceivedOK
  <1>10. CASE conns = << >>
    <2>1. bc' = bc
      BY <1>1, <1>10
    <2>2. EventRows'
      BY <1>0, <1>1, <1>7, <2>1 DEF EventRows, BcRow, Event
    <2> QED BY <1>2, <1>6, <1>7, <1>8, <1>9, <2>1, <2>2 DEF EventInv
  <1>11. CASE conns # << >>
    <2>1. /\ 1 \in DOMAIN conns /\ conns[1] \in Clients /\ DOMAIN conns = 1..Len(conns)
          /\ ToSet(conns) \subseteq Clients /\ conns[1] \in ToSet(conns)
          /\ \A k \in DOMAIN conns : conns[k] \in ToSet(conns)
          /\ \A c \in ToSet(conns) : \E k \in DOMAIN conns : conns[k] = c
      <3>1. 1 \in DOMAIN conns /\ DOMAIN conns = 1..Len(conns)
        BY <1>0, <1>11
      <3>2. \A c : c \in ToSet(conns) <=> \E k \in DOMAIN conns : conns[k] = c
        BY DEF ToSet
      <3>3. \A k \in DOMAIN conns : conns[k] \in Clients
        BY <1>0
      <3>4. ToSet(conns) \subseteq Clients
        BY <3>2, <3>3
      <3> QED BY <3>1, <3>2, <3>3, <3>4
    <2>2. bc' = [bc EXCEPT ![p] = r]
      BY <1>1, <1>11
    <2>3. /\ r \in BcRow /\ r.event = e /\ r.to = conns[1] /\ r.next = 2
          /\ r.dead = << >> /\ r.targets = ToSet(conns)
      <3>1. e \in [by : Producers, no : 0..MaxEvents]
        BY <1>2 DEF Event
      <3> QED BY <2>1, <3>1 DEF BcRow
    <2> HIDE DEF r
    <2>4. bc'[p] = r /\ (\A q \in Producers \ {p} : bc'[q] = bc[q]) /\ bc' \in [Producers -> BcRow]
      BY <1>0, <2>2, <2>3
    <2>5. EventRows'
      <3>1. bc' \in [Producers -> BcRow]
        BY <2>4
      <3> QED BY <1>0, <1>1, <1>7, <3>1 DEF EventRows, BcRow, Event
    <2>6. Busy(p)'
      BY <1>2, <2>3, <2>4 DEF Busy
    <2>7. BcTypeOK(p)'
      <3>1. r.dead = << >> /\ ToSet(<< >>) = {}
        BY <2>3 DEF ToSet
      <3>2. bc'[p].to \in ToSet(conns')
        BY <1>1, <2>1, <2>3, <2>4
      <3>3. bc'[p].event \in [by : {p}, no : 0..count']
        BY <1>2, <2>3, <2>4
      <3> QED BY <2>4, <2>6, <3>1, <3>2, <3>3 DEF BcTypeOK
    <2>8. WalkOK(p)'
      <3>1. \A k \in DOMAIN conns : k >= 2 => conns[k] # conns[1]
        <4> TAKE k \in DOMAIN conns
        <4> HAVE k >= 2
        <4>1. 1 \in DOMAIN conns /\ k # 1
          BY <2>1
        <4> QED BY <1>0, <4>1
      <3>2. \A c \in ToSet(conns) : peer[c] # "absent"
        BY <1>0, <2>1
      <3> QED BY <1>0, <1>1, <2>1, <2>3, <2>4, <3>1, <3>2 DEF WalkOK
    <2>9. ReachOK(p)'
      <3>1. ASSUME NEW c \in ToSet(conns) PROVE c = conns[1] \/ \E k \in DOMAIN conns : k >= 2 /\ conns[k] = c
        BY <2>1
      <3> QED BY <1>1, <2>1, <2>3, <2>4, <3>1 DEF ReachOK
    <2>10. ASSUME NEW c \in Clients PROVE GotOK(p, c)'
      <3>1. \A i \in DOMAIN received[c] : received[c][i].no < count + 1
        <4>1. received[c] \in Seq(Event) /\ ReceivedOK(c)
          BY <1>0 DEF EventInv
        <4>2. \A i \in DOMAIN received[c] : received[c][i].no \in Nat
          <5>1. \A i \in DOMAIN received[c] : received[c][i] \in Event
            BY <4>1
          <5> QED BY <5>1 DEF Event
        <4>3. \A i \in DOMAIN received[c] : received[c][i].no <= count
          BY <4>1 DEF ReceivedOK
        <4> QED BY <1>0, <4>2, <4>3
      <3>2. \A i \in DOMAIN received[c] : received[c][i].no \in Nat
        <4>1. \A i \in DOMAIN received[c] : received[c][i] \in Event
          BY <1>0
        <4> QED BY <4>1 DEF Event
      <3> HIDE DEF StartBroadcast
      <3>3. \A i \in DOMAIN received'[c] :
              received'[c][i].no <= bc'[p].event.no /\ received'[c][i].no # bc'[p].event.no
        <4>1. bc'[p].event.no = count + 1 /\ received' = received
          BY <1>1, <1>2, <2>3, <2>4
        <4> QED BY <1>0, <3>1, <3>2, <4>1
      <3> QED BY <3>3 DEF GotOK
    <2>11. \A q \in Producers : BcTypeOK(q)' /\ WalkOK(q)' /\ ReachOK(q)'
      BY <1>6, <2>4, <2>7, <2>8, <2>9
    <2>12. \A q \in Producers, c \in Clients : GotOK(q, c)'
      BY <1>6, <2>4, <2>10
    <2> QED BY <1>2, <1>7, <1>8, <1>9, <2>5, <2>11, <2>12 DEF EventInv
  <1> QED BY <1>10, <1>11

(* What a send adds to what has arrived: the current event, and only at a   *)
(* connected peer.                                                          *)
Arrives(p) ==
  \/ received' = received /\ peer[bc[p].to] # "connected"
  \/ /\ received' = [received EXCEPT ![bc[p].to] = Append(received[bc[p].to], bc[p].event)]
     /\ peer[bc[p].to] = "connected"

LEMMA AppendFacts ==
  ASSUME NEW s \in Seq(Event), NEW e \in Event, NEW a, a = Append(s, e)
  PROVE  /\ a \in Seq(Event) /\ Len(s) \in Nat
         /\ DOMAIN s = 1..Len(s)
         /\ DOMAIN a = 1..Len(s) + 1
         /\ \A i \in DOMAIN s : i \in DOMAIN a /\ a[i] = s[i]
         /\ a[Len(s) + 1] = e
         /\ \A i \in DOMAIN a : i \in DOMAIN s \/ i = Len(s) + 1
  BY AppendProperties

LEMMA NothingIsEmpty ==
  ASSUME NEW s \in Seq(Event), DOMAIN s = {}
  PROVE  s = << >>
  <1> SUFFICES ASSUME s # << >> PROVE FALSE
    OBVIOUS
  <1>1. Len(s) \in Nat \ {0} /\ DOMAIN s = 1..Len(s)
    BY EmptySeq
  <1>2. 1 \in DOMAIN s
    BY <1>1
  <1> QED BY <1>2

LEMMA ArrivesAdds ==
  ASSUME EventInv, NEW p \in Producers, Busy(p), Arrives(p)
  PROVE  /\ received' \in [Clients -> Seq(Event)]
         /\ bc[p].event \in Event /\ bc[p].event.by = p /\ bc[p].to \in Clients
         /\ \A c \in Clients : \A i \in DOMAIN received'[c] :
              \/ i \in DOMAIN received[c] /\ received'[c][i] = received[c][i]
              \/ /\ c = bc[p].to /\ received'[c][i] = bc[p].event
                 /\ peer[c] = "connected" /\ \A k \in DOMAIN received[c] : k < i
         /\ \A c \in Clients : ToSet(received[c]) \subseteq ToSet(received'[c])
         /\ peer[bc[p].to] = "connected" => bc[p].event \in ToSet(received'[bc[p].to])
  <1>1. /\ received \in [Clients -> Seq(Event)] /\ bc \in [Producers -> BcRow]
        /\ BcTypeOK(p) /\ WalkOK(p) /\ count \in 0..MaxEvents
    BY DEF EventInv, EventRows
  <1>2. /\ bc[p].event \in Event /\ bc[p].event.by = p /\ bc[p].to \in Clients
    BY <1>1 DEF BcTypeOK, WalkOK, Busy, Event
  <1>3. CASE received' = received /\ peer[bc[p].to] # "connected"
    BY <1>1, <1>2, <1>3
  <1>4. CASE /\ received' = [received EXCEPT ![bc[p].to] =
                               Append(received[bc[p].to], bc[p].event)]
             /\ peer[bc[p].to] = "connected"
    <2> DEFINE to == bc[p].to
               a == Append(received[to], bc[p].event)
    <2>1. /\ a \in Seq(Event) /\ Len(received[to]) \in Nat
          /\ DOMAIN received[to] = 1..Len(received[to])
          /\ DOMAIN a = 1..Len(received[to]) + 1
          /\ \A i \in DOMAIN received[to] : i \in DOMAIN a /\ a[i] = received[to][i]
          /\ a[Len(received[to]) + 1] = bc[p].event
          /\ \A i \in DOMAIN a : i \in DOMAIN received[to] \/ i = Len(received[to]) + 1
      <3>1. received[to] \in Seq(Event)
        BY <1>1, <1>2
      <3> HIDE DEF a, to
      <3>2. a = Append(received[to], bc[p].event)
        BY DEF a
      <3>3. bc[p].event \in Event
        BY <1>2
      <3> QED BY <3>1, <3>2, <3>3, AppendFacts
    <2>2. \A k \in DOMAIN received[to] : k < Len(received[to]) + 1
      BY <2>1
    <2>3. ToSet(received[to]) \subseteq ToSet(a) /\ bc[p].event \in ToSet(a)
      <3>1. Len(received[to]) + 1 \in DOMAIN a
        BY <2>1
      <3> HIDE DEF a
      <3> QED BY <2>1, <3>1 DEF ToSet
    <2>4. received'[to] = a /\ \A c \in Clients : c # to => received'[c] = received[c]
      BY <1>1, <1>2, <1>4
    <2>5. received' \in [Clients -> Seq(Event)]
      BY <1>1, <1>2, <1>4, <2>1
    <2>6. ASSUME NEW c \in Clients, NEW i \in DOMAIN received'[c]
          PROVE  \/ i \in DOMAIN received[c] /\ received'[c][i] = received[c][i]
                 \/ /\ c = bc[p].to /\ received'[c][i] = bc[p].event
                    /\ peer[c] = "connected" /\ \A k \in DOMAIN received[c] : k < i
      <3> HIDE DEF a
      <3>1. CASE c # to
        <4>1. received'[c] = received[c]
          BY <2>4, <3>1
        <4> QED BY <4>1
      <3>2. CASE c = to
        <4>1. received'[c] = a /\ received[c] = received[to] /\ i \in DOMAIN a
          BY <2>4, <3>2
        <4>2. CASE i \in DOMAIN received[to]
          BY <2>1, <3>2, <4>1, <4>2
        <4>3. CASE i = Len(received[to]) + 1
          BY <1>4, <2>1, <2>2, <3>2, <4>1, <4>3
        <4> QED BY <2>1, <4>1, <4>2, <4>3
      <3> QED BY <3>1, <3>2
    <2>7. ASSUME NEW c \in Clients PROVE ToSet(received[c]) \subseteq ToSet(received'[c])
      <3> HIDE DEF a
      <3> QED BY <2>3, <2>4
    <2> QED BY <1>2, <2>3, <2>4, <2>5, <2>6, <2>7
  <1> QED BY <1>3, <1>4 DEF Arrives

(* The order in which events arrive, whatever becomes of the loop.          *)
LEMMA ArrivesInOrder ==
  ASSUME EventInv, NEW p \in Producers, Busy(p), Arrives(p), UNCHANGED <<peer, count>>
  PROVE  /\ ProducerOrder'
         /\ \A c \in Clients : ReceivedOK(c)'
         /\ \A q \in Producers : q # p => NothingOf(q)
  <1>1. /\ bc[p].event \in Event /\ bc[p].event.by = p /\ bc[p].to \in Clients
        /\ \A c \in Clients : \A i \in DOMAIN received'[c] :
              \/ i \in DOMAIN received[c] /\ received'[c][i] = received[c][i]
              \/ /\ c = bc[p].to /\ received'[c][i] = bc[p].event
                 /\ peer[c] = "connected" /\ \A k \in DOMAIN received[c] : k < i
        /\ \A c \in Clients : ToSet(received[c]) \subseteq ToSet(received'[c])
    BY ArrivesAdds
  <1>2. /\ received \in [Clients -> Seq(Event)] /\ BcTypeOK(p) /\ count \in Nat
        /\ ProducerOrder /\ \A c \in Clients : ReceivedOK(c) /\ GotOK(p, c)
    BY DEF EventInv, EventRows
  <1>3. \A c \in Clients : \A i \in DOMAIN received[c] :
          received[c][i].no \in Nat /\ i \in Nat
    <2> TAKE c \in Clients
    <2> TAKE i \in DOMAIN received[c]
    <2>1. received[c][i] \in Event /\ i \in Nat
      BY <1>2
    <2> QED BY <2>1 DEF Event
  <1>4. bc[p].event.no \in Nat /\ bc[p].event.no <= count
    BY <1>2 DEF BcTypeOK
  <1>5. \A i \in DOMAIN received[bc[p].to] :
          received[bc[p].to][i].by = p => received[bc[p].to][i].no < bc[p].event.no
    <2> TAKE i \in DOMAIN received[bc[p].to]
    <2> HAVE received[bc[p].to][i].by = p
    <2>1. GotOK(p, bc[p].to)
      BY <1>1, <1>2
    <2>2. /\ received[bc[p].to][i].no <= bc[p].event.no
          /\ received[bc[p].to][i].no # bc[p].event.no
      BY <2>1 DEF GotOK
    <2> QED BY <1>1, <1>3, <1>4, <2>2
  <1>6. ProducerOrder'
    <2> SUFFICES ASSUME NEW c \in Clients, NEW i \in DOMAIN received'[c], NEW k \in DOMAIN received'[c],
                        i < k, received'[c][i].by = received'[c][k].by
                 PROVE  received'[c][i].no < received'[c][k].no
      BY DEF ProducerOrder
    <2>1. CASE /\ i \in DOMAIN received[c] /\ received'[c][i] = received[c][i]
               /\ k \in DOMAIN received[c] /\ received'[c][k] = received[c][k]
      BY <1>2, <2>1 DEF ProducerOrder
    <2>2. CASE /\ i \in DOMAIN received[c] /\ received'[c][i] = received[c][i]
               /\ c = bc[p].to /\ received'[c][k] = bc[p].event
      BY <1>1, <1>5, <2>2
    <2>3. CASE /\ received'[c][i] = bc[p].event /\ \A m \in DOMAIN received[c] : m < i
               /\ k \in DOMAIN received[c]
      <3>1. k < i /\ i \in Nat /\ k \in Nat
        <4>1. received' \in [Clients -> Seq(Event)]
          BY ArrivesAdds
        <4> QED BY <2>3, <4>1
      <3> QED BY <3>1
    <2>4. CASE /\ \A m \in DOMAIN received[c] : m < i
               /\ \A m \in DOMAIN received[c] : m < k
      <3>0. i \in Nat /\ k \in Nat
        <4>1. received' \in [Clients -> Seq(Event)]
          BY ArrivesAdds
        <4> QED BY <4>1
      <3>1. CASE received' = received
        BY <2>4, <3>0, <3>1
      <3>2. CASE received' = [received EXCEPT ![bc[p].to] =
                                Append(received[bc[p].to], bc[p].event)]
        <4>1. DOMAIN received[c] = 1..Len(received[c]) /\ Len(received[c]) \in Nat
          BY <1>2
        <4>2. received'[c] = received[c] \/ DOMAIN received'[c] = 1..Len(received[c]) + 1
          <5>1. c # bc[p].to => received'[c] = received[c]
            BY <1>2, <3>2
          <5>2. c = bc[p].to => received'[c] = Append(received[c], bc[p].event)
            BY <1>2, <3>2
          <5>3. /\ received[c] \in Seq(Event)
            BY <1>2
          <5>4. DOMAIN Append(received[c], bc[p].event) = 1..Len(received[c]) + 1
            BY <1>1, <5>3, AppendProperties
          <5> QED BY <5>1, <5>2, <5>4
        <4>3. \A n \in DOMAIN received'[c] :
                (\A m \in DOMAIN received[c] : m < n) => n = Len(received[c]) + 1
          <5> TAKE n \in DOMAIN received'[c]
          <5> HAVE \A m \in DOMAIN received[c] : m < n
          <5>1. n \notin DOMAIN received[c]
            BY <4>1
          <5>2. n \in 1..Len(received[c]) + 1
            BY <4>2, <5>1
          <5> QED BY <4>1, <5>1, <5>2
        <4>4. i = k
          BY <2>4, <4>3
        <4> QED BY <3>0, <4>4
      <3> QED BY <2>4, <3>1, <3>2 DEF Arrives
    <2> QED BY <1>1, <2>1, <2>2, <2>3, <2>4
  <1>7. \A c \in Clients : ReceivedOK(c)'
    <2> TAKE c \in Clients
    <2>1. ReceivedOK(c)
      BY <1>2
    <2>2. peer[c] = "absent" => received'[c] = << >>
      <3> HAVE peer[c] = "absent"
      <3>1. received[c] = << >> /\ DOMAIN << >> = {}
        BY <2>1 DEF ReceivedOK
      <3>2. DOMAIN received'[c] = {}
        BY <1>1, <3>1
      <3>3. received'[c] \in Seq(Event)
        BY ArrivesAdds
      <3> QED BY <3>2, <3>3, NothingIsEmpty
    <2>3. \A i \in DOMAIN received'[c] : received'[c][i].no <= count
      BY <1>1, <1>4, <2>1 DEF ReceivedOK
    <2> QED BY <2>2, <2>3 DEF ReceivedOK
  <1>8. ASSUME NEW q \in Producers, q # p PROVE NothingOf(q)
    BY <1>1, <1>8 DEF NothingOf
  <1> QED BY <1>6, <1>7, <1>8

(* A send, with what it does to the list of the dead.                       *)
Sends(p, dead) ==
  /\ Busy(p) /\ Arrives(p) /\ Loop(p, dead)
  /\ dead \in Seq(Clients) /\ \A c \in ToSet(dead) : IsDead(c)
  /\ UNCHANGED <<peer, history, count>>

LEMMA LoopGoesOnInv ==
  ASSUME EventInv, NEW p \in Producers, NEW dead, Sends(p, dead), LoopGoesOn(p, dead)
  PROVE  EventInv' /\ ~Ends(p)
  <1> DEFINE next == conns[bc[p].next]
             r == [bc[p] EXCEPT !.to = next, !.next = bc[p].next + 1, !.dead = dead]
  <1>0. /\ conns \in Seq(Clients) /\ history \in Seq(Event) /\ count \in 0..MaxEvents
        /\ bc \in [Producers -> BcRow] /\ received \in [Clients -> Seq(Event)]
        /\ peer \in [Clients -> {"absent", "connected", "closed", "gone"}]
        /\ \A i \in DOMAIN conns : peer[conns[i]] # "absent"
        /\ \A i, k \in DOMAIN conns : conns[i] = conns[k] => i = k
        /\ BcTypeOK(p) /\ WalkOK(p) /\ ReachOK(p) /\ \A c \in Clients : GotOK(p, c)
    BY DEF EventInv, EventRows, ConnsOK
  <1>1. /\ Busy(p) /\ Arrives(p) /\ dead \in Seq(Clients) /\ \A c \in ToSet(dead) : IsDead(c)
    BY DEF Sends
  <1>2. /\ peer' = peer /\ history' = history /\ count' = count /\ conns' = conns
        /\ bc' = [bc EXCEPT ![p] = r] /\ bc[p].next <= Len(conns)
    BY <1>0 DEF Sends, LoopGoesOn
  <1>3. bc[p] \in BcRow
    BY <1>0
  <1>4. /\ bc[p].next \in DOMAIN conns /\ bc[p].next \in Nat \ {0} /\ next \in Clients
        /\ next \in ToSet(conns) /\ DOMAIN conns \subseteq Nat
    <2>1. bc[p].next \in Nat \ {0}
      BY <1>3 DEF BcRow
    <2>2. DOMAIN conns = 1..Len(conns) /\ Len(conns) \in Nat
      BY <1>0
    <2>3. bc[p].next \in DOMAIN conns
      BY <1>2, <2>1, <2>2
    <2> QED BY <1>0, <2>1, <2>2, <2>3 DEF ToSet
  <1> HIDE DEF next
  <1>5. /\ r \in BcRow /\ r.event = bc[p].event /\ r.to = next /\ r.next = bc[p].next + 1
        /\ r.dead = dead /\ r.targets = bc[p].targets
    <2>1. bc[p].next + 1 \in Nat \ {0}
      BY <1>4
    <2> QED BY <1>1, <1>3, <1>4, <2>1 DEF BcRow
  <1> HIDE DEF r
  <1>6. bc'[p] = r /\ (\A q \in Producers \ {p} : bc'[q] = bc[q]) /\ bc' \in [Producers -> BcRow]
    BY <1>0, <1>2, <1>5
  <1>7. /\ received' \in [Clients -> Seq(Event)]
        /\ bc[p].event \in Event /\ bc[p].event.by = p /\ bc[p].to \in Clients
        /\ \A c \in Clients : \A i \in DOMAIN received'[c] :
             \/ i \in DOMAIN received[c] /\ received'[c][i] = received[c][i]
             \/ /\ c = bc[p].to /\ received'[c][i] = bc[p].event
                /\ peer[c] = "connected" /\ \A k \in DOMAIN received[c] : k < i
        /\ \A c \in Clients : ToSet(received[c]) \subseteq ToSet(received'[c])
        /\ peer[bc[p].to] = "connected" => bc[p].event \in ToSet(received'[bc[p].to])
    BY <1>1, ArrivesAdds
  <1>8. /\ ProducerOrder' /\ \A c \in Clients : ReceivedOK(c)'
    BY <1>1, <1>2, ArrivesInOrder
  <1>9. \A q \in Producers : q # p => NothingOf(q)
    BY <1>1, <1>2, ArrivesInOrder
  <1>10. Busy(p)'
    BY <1>1, <1>5, <1>6 DEF Busy
  <1>11. EventRows'
    BY <1>0, <1>2, <1>6, <1>7 DEF EventRows, BcRow, Event
  <1>12. ConnsOK' /\ HistoryIsNewest' /\ count' \in 0..MaxEvents
    BY <1>2 DEF EventInv, ConnsOK, HistoryIsNewest
  <1>13. PeersMove /\ ListMoves
    BY <1>0, <1>2, SameFollows DEF PeersMove, ListMoves, IsDead
  <1>14. ASSUME NEW q \in Producers, q # p
         PROVE  /\ BcTypeOK(q)' /\ WalkOK(q)' /\ ReachOK(q)'
                /\ \A c \in Clients : GotOK(q, c)'
    <2>1. bc'[q] = bc[q] /\ NothingOf(q) /\ count' \in Nat /\ count <= count'
      BY <1>0, <1>2, <1>6, <1>9, <1>14
    <2> QED BY <1>13, <2>1, OtherBroadcast
  <1>15. BcTypeOK(p)'
    <2>1. bc'[p].event \in [by : {p}, no : 0..count']
      BY <1>0, <1>2, <1>5, <1>6 DEF BcTypeOK
    <2>2. bc'[p].to \in ToSet(conns')
      BY <1>2, <1>4, <1>5, <1>6
    <2>3. \A c \in ToSet(bc'[p].dead) : peer'[c] \in {"closed", "gone"}
      BY <1>1, <1>2, <1>5, <1>6 DEF IsDead
    <2> QED BY <1>10, <2>1, <2>2, <2>3 DEF BcTypeOK
  <1>16. WalkOK(p)'
    <2>1. next \in Clients /\ peer[next] # "absent"
      BY <1>0, <1>4 DEF next
    <2>2. \A c \in bc[p].targets : peer[c] # "absent"
      BY <1>0, <1>1 DEF WalkOK
    <2>3. \A k \in DOMAIN conns : k >= bc[p].next + 1 => conns[k] # next
      <3> TAKE k \in DOMAIN conns
      <3> HAVE k >= bc[p].next + 1
      <3>1. k # bc[p].next
        BY <1>4
      <3> QED BY <1>0, <1>4, <3>1 DEF next
    <2> QED BY <1>2, <1>5, <1>6, <2>1, <2>2, <2>3 DEF WalkOK
  <1>17. ReachOK(p)'
    <2> SUFFICES ASSUME bc[p].targets \subseteq ToSet(conns)
                 PROVE  /\ \A i, k \in DOMAIN conns :
                             i < k /\ conns[k] \in bc[p].targets => conns[i] \in bc[p].targets
                        /\ \A c \in bc[p].targets : peer[c] = "connected" =>
                             \/ c = next
                             \/ bc[p].event \in ToSet(received'[c])
                             \/ \E k \in DOMAIN conns : k >= bc[p].next + 1 /\ conns[k] = c
      BY <1>2, <1>5, <1>6 DEF ReachOK
    <2>1. /\ \A i, k \in DOMAIN conns :
               i < k /\ conns[k] \in bc[p].targets => conns[i] \in bc[p].targets
          /\ \A c \in bc[p].targets : peer[c] = "connected" =>
               \/ c = bc[p].to
               \/ bc[p].event \in ToSet(received[c])
               \/ \E k \in DOMAIN conns : k >= bc[p].next /\ conns[k] = c
      BY <1>0, <1>1 DEF ReachOK
    <2>2. ASSUME NEW c \in bc[p].targets, peer[c] = "connected"
          PROVE  \/ c = next
                 \/ bc[p].event \in ToSet(received'[c])
                 \/ \E k \in DOMAIN conns : k >= bc[p].next + 1 /\ conns[k] = c
      <3>1. CASE c = bc[p].to
        BY <1>7, <2>2, <3>1
      <3>2. CASE bc[p].event \in ToSet(received[c])
        <4>1. c \in Clients
          BY <1>3 DEF BcRow
        <4> QED BY <1>7, <3>2, <4>1
      <3>3. ASSUME NEW k \in DOMAIN conns, k >= bc[p].next, conns[k] = c
            PROVE  c = next \/ \E m \in DOMAIN conns : m >= bc[p].next + 1 /\ conns[m] = c
        <4>1. CASE k = bc[p].next
          BY <3>3, <4>1 DEF next
        <4>2. CASE k # bc[p].next
          <5>1. k >= bc[p].next + 1
            BY <1>4, <3>3, <4>2
          <5> QED BY <3>3, <5>1
        <4> QED BY <4>1, <4>2
      <3> QED BY <2>1, <2>2, <3>1, <3>2, <3>3
    <2> QED BY <2>1, <2>2
  <1>18. ASSUME NEW c \in Clients PROVE GotOK(p, c)'
    <2> SUFFICES ASSUME NEW i \in DOMAIN received'[c], received'[c][i].by = p
                 PROVE  /\ received'[c][i].no <= bc[p].event.no
                        /\ received'[c][i].no = bc[p].event.no =>
                             /\ c # next
                             /\ \A k \in DOMAIN conns : k >= bc[p].next + 1 => conns[k] # c
      BY <1>2, <1>5, <1>6 DEF GotOK
    <2>1. \A k \in DOMAIN conns : k >= bc[p].next + 1 => k >= bc[p].next
      BY <1>4
    <2>2. /\ bc[p].next \in DOMAIN conns /\ bc[p].next >= bc[p].next
          /\ conns[bc[p].next] = next
      BY <1>4 DEF next
    <2>3. ASSUME i \in DOMAIN received[c], received'[c][i] = received[c][i]
          PROVE  /\ received'[c][i].no <= bc[p].event.no
                 /\ received'[c][i].no = bc[p].event.no =>
                      \A k \in DOMAIN conns : k >= bc[p].next => conns[k] # c
      <3>1. GotOK(p, c)
        BY <1>0
      <3> QED BY <1>1, <2>3, <3>1 DEF GotOK
    <2>4. ASSUME c = bc[p].to, received'[c][i] = bc[p].event
          PROVE  /\ received'[c][i].no <= bc[p].event.no
                 /\ \A k \in DOMAIN conns : k >= bc[p].next => conns[k] # c
      <3>1. bc[p].event.no \in Nat
        BY <1>7 DEF Event
      <3>2. \A k \in DOMAIN conns : k >= bc[p].next => conns[k] # bc[p].to
        BY <1>0, <1>1 DEF WalkOK
      <3> QED BY <2>4, <3>1, <3>2
    <2>5. /\ received'[c][i].no <= bc[p].event.no
          /\ received'[c][i].no = bc[p].event.no =>
               \A k \in DOMAIN conns : k >= bc[p].next => conns[k] # c
      BY <1>7, <2>3, <2>4
    <2> QED BY <2>1, <2>2, <2>5
  <1>19. ~Ends(p)
    <2>1. Idle(p).next = 1 /\ bc'[p].next # 1
      BY <1>4, <1>5, <1>6 DEF Idle
    <2> QED BY <2>1 DEF Ends
  <1>20. \A q \in Producers : BcTypeOK(q)' /\ WalkOK(q)' /\ ReachOK(q)'
    BY <1>14, <1>15, <1>16, <1>17
  <1>21. \A c \in Clients : \A q \in Producers : GotOK(q, c)'
    BY <1>14, <1>18
  <1> QED BY <1>8, <1>11, <1>12, <1>19, <1>20, <1>21 DEF EventInv

LEMMA LoopEndsInv ==
  ASSUME EventInv, NEW p \in Producers, NEW dead, Sends(p, dead),
         bc[p].next > Len(conns), LoopEnds(p, dead)
  PROVE  /\ EventInv'
         /\ bc[p].targets \subseteq ToSet(conns) =>
              \A c \in bc[p].targets : peer[c] = "connected" => Got(c, bc[p].event)
  <1>0. /\ conns \in Seq(Clients) /\ history \in Seq(Event) /\ count \in 0..MaxEvents
        /\ bc \in [Producers -> BcRow] /\ received \in [Clients -> Seq(Event)]
        /\ peer \in [Clients -> {"absent", "connected", "closed", "gone"}]
        /\ \A i \in DOMAIN conns : peer[conns[i]] # "absent"
        /\ \A i, k \in DOMAIN conns : conns[i] = conns[k] => i = k
        /\ ReachOK(p)
    BY DEF EventInv, EventRows, ConnsOK
  <1>1. /\ Busy(p) /\ Arrives(p) /\ dead \in Seq(Clients) /\ \A c \in ToSet(dead) : IsDead(c)
    BY DEF Sends
  <1>2. /\ peer' = peer /\ history' = history /\ count' = count
        /\ conns' = Without(conns, Removed(dead))
        /\ bc' = [bc EXCEPT ![p] = Idle(p)]
    BY DEF Sends, LoopEnds
  <1>3. Idle(p) \in BcRow /\ Idle(p).event = [by |-> p, no |-> 0]
        /\ Idle(p).dead = << >> /\ Idle(p).to = NoClient
    BY DEF Idle, BcRow
  <1>4. bc'[p] = Idle(p) /\ (\A q \in Producers \ {p} : bc'[q] = bc[q])
        /\ bc' \in [Producers -> BcRow]
    BY <1>0, <1>2, <1>3
  <1>5. /\ received' \in [Clients -> Seq(Event)]
        /\ \A c \in Clients : ToSet(received[c]) \subseteq ToSet(received'[c])
        /\ peer[bc[p].to] = "connected" => bc[p].event \in ToSet(received'[bc[p].to])
    BY <1>1, ArrivesAdds
  <1>6. /\ ProducerOrder' /\ \A c \in Clients : ReceivedOK(c)'
    BY <1>1, <1>2, ArrivesInOrder
  <1>7. \A q \in Producers : q # p => NothingOf(q)
    BY <1>1, <1>2, ArrivesInOrder
  <1>8. /\ Follows(conns, conns') /\ ToSet(conns') \subseteq ToSet(conns)
        /\ \A k \in DOMAIN conns : conns[k] \in ToSet(conns') \/ conns[k] \in Removed(dead)
    BY <1>0, <1>2, WithoutFollows
  <1>9. ASSUME NEW c \in Removed(dead) PROVE IsDead(c)
    <2>1. c \in ToSet(dead)
      BY <1>9 DEF Removed, ToSet
    <2> QED BY <1>1, <2>1
  <1>10. PeersMove
    BY <1>0, <1>2 DEF PeersMove, IsDead
  <1>11. ListMoves
    BY <1>2, <1>8, <1>9 DEF ListMoves, IsDead
  <1>12. EventRows' /\ ConnsOK'
    <2>1. conns' \in Seq(Clients) /\ \A i, k \in DOMAIN conns' : conns'[i] = conns'[k] => i = k
      BY <1>8 DEF Follows
    <2>2. \A i \in DOMAIN conns' : peer'[conns'[i]] # "absent"
      <3> TAKE i \in DOMAIN conns'
      <3>1. PICK k \in DOMAIN conns : conns[k] = conns'[i]
        BY <1>8 DEF ToSet
      <3> QED BY <1>0, <1>2, <3>1
    <2>3. EventRows'
      BY <1>0, <1>2, <1>4, <1>5, <2>1 DEF EventRows, BcRow, Event
    <2> QED BY <2>1, <2>2, <2>3 DEF ConnsOK
  <1>13. HistoryIsNewest' /\ count' \in 0..MaxEvents
    BY <1>2 DEF EventInv, HistoryIsNewest
  <1>14. ASSUME NEW q \in Producers, q # p
         PROVE  /\ BcTypeOK(q)' /\ WalkOK(q)' /\ ReachOK(q)'
                /\ \A c \in Clients : GotOK(q, c)'
    <2>1. bc'[q] = bc[q] /\ NothingOf(q) /\ count' \in Nat /\ count <= count'
      BY <1>0, <1>2, <1>4, <1>7, <1>14
    <2> QED BY <1>10, <1>11, <2>1, OtherBroadcast
  <1>15. ~Busy(p)'
    BY <1>3, <1>4 DEF Busy
  <1>16. BcTypeOK(p)'
    <2>1. ToSet(bc'[p].dead) = {}
      BY <1>3, <1>4 DEF ToSet
    <2>2. bc'[p].event \in [by : {p}, no : 0..count'] /\ bc'[p].to = NoClient
      BY <1>0, <1>2, <1>3, <1>4
    <2> QED BY <1>15, <2>1, <2>2 DEF BcTypeOK
  <1>17. WalkOK(p)' /\ ReachOK(p)' /\ \A c \in Clients : GotOK(p, c)'
    BY <1>15 DEF WalkOK, ReachOK, GotOK
  <1>18. ASSUME bc[p].targets \subseteq ToSet(conns), NEW c \in bc[p].targets, peer[c] = "connected"
         PROVE  Got(c, bc[p].event)
    <2>1. \/ c = bc[p].to
          \/ bc[p].event \in ToSet(received[c])
          \/ \E k \in DOMAIN conns : k >= bc[p].next /\ conns[k] = c
      BY <1>0, <1>1, <1>18 DEF ReachOK
    <2>2. bc[p] \in BcRow
      BY <1>0
    <2>3. bc[p].next \in Nat /\ c \in Clients
      BY <2>2 DEF BcRow
    <2>4. \A k \in DOMAIN conns : ~(k >= bc[p].next)
      BY <1>0, <2>3
    <2> QED BY <1>5, <1>18, <2>1, <2>3, <2>4 DEF Got
  <1>19. \A q \in Producers : BcTypeOK(q)' /\ WalkOK(q)' /\ ReachOK(q)'
    BY <1>14, <1>16, <1>17
  <1>20. \A c \in Clients : \A q \in Producers : GotOK(q, c)'
    BY <1>14, <1>17
  <1>21. EventInv'
    BY <1>6, <1>12, <1>13, <1>19, <1>20 DEF EventInv
  <1> QED BY <1>18, <1>21

(* What ReachesAllUnlessRemoved says of a step.                             *)
ReachesAll(p) ==
  Ends(p) /\ bc[p].targets \subseteq ToSet(conns) =>
    \A c \in bc[p].targets : peer[c] = "connected" => Got(c, bc[p].event)

LEMMA BroadcastInv ==
  ASSUME EventInv, NEW p \in Producers, Broadcast(p)
  PROVE  EventInv' /\ ReachesAll(p) /\ \A q \in Producers : q # p => bc'[q] = bc[q]
  <1>0. /\ bc \in [Producers -> BcRow] /\ BcTypeOK(p) /\ WalkOK(p)
        /\ peer \in [Clients -> {"absent", "connected", "closed", "gone"}]
    BY DEF EventInv, EventRows
  <1>1. bc[p].dead \in Seq(Clients) /\ \A c \in ToSet(bc[p].dead) : IsDead(c)
    <2>1. bc[p] \in BcRow
      BY <1>0
    <2> QED BY <1>0, <2>1 DEF BcTypeOK, BcRow, IsDead
  <1>2. CASE StartBroadcast(p)
    <2>1. ~Busy(p)
      BY <1>2 DEF StartBroadcast
    <2>2. \A q \in Producers : q # p => bc'[q] = bc[q]
      BY <1>0, <1>2 DEF StartBroadcast
    <2> QED BY <1>2, <2>1, <2>2, StartBroadcastInv DEF ReachesAll, Ends
  <1>3. ASSUME NEW dead, Sends(p, dead)
        PROVE  EventInv' /\ ReachesAll(p) /\ \A q \in Producers : q # p => bc'[q] = bc[q]
    <2>1. CASE LoopGoesOn(p, dead)
      <3>1. \A q \in Producers : q # p => bc'[q] = bc[q]
        BY <1>0, <2>1 DEF LoopGoesOn
      <3> QED BY <1>3, <2>1, <3>1, LoopGoesOnInv DEF ReachesAll
    <2>2. CASE bc[p].next > Len(conns) /\ LoopEnds(p, dead)
      <3>1. \A q \in Producers : q # p => bc'[q] = bc[q]
        BY <1>0, <2>2 DEF LoopEnds
      <3> QED BY <1>3, <2>2, <3>1, LoopEndsInv DEF ReachesAll
    <2> QED BY <1>3, <2>1, <2>2 DEF Sends, Loop
  <1>4. CASE Delivered(p)
    <2>1. Sends(p, bc[p].dead)
      BY <1>1, <1>4 DEF Sends, Delivered, Arrives
    <2> QED BY <1>3, <2>1
  <1>5. CASE Lost(p)
    <2>1. Sends(p, bc[p].dead)
      BY <1>1, <1>5 DEF Sends, Lost, Arrives
    <2> QED BY <1>3, <2>1
  <1>6. CASE SendRaises(p)
    <2> DEFINE dead == Append(bc[p].dead, bc[p].to)
    <2>1. bc[p].to \in Clients /\ IsDead(bc[p].to)
      BY <1>0, <1>6 DEF SendRaises, WalkOK, IsDead
    <2>2. dead \in Seq(Clients) /\ \A c \in ToSet(dead) : IsDead(c)
      <3>1. /\ dead \in Seq(Clients) /\ DOMAIN dead = 1..Len(bc[p].dead) + 1
            /\ Len(bc[p].dead) \in Nat /\ DOMAIN bc[p].dead = 1..Len(bc[p].dead)
            /\ \A i \in 1..Len(bc[p].dead) : dead[i] = bc[p].dead[i]
            /\ dead[Len(bc[p].dead) + 1] = bc[p].to
        BY <1>1, <2>1, AppendProperties
      <3> HIDE DEF dead
      <3>2. ASSUME NEW i \in DOMAIN dead PROVE IsDead(dead[i])
        <4>1. CASE i \in 1..Len(bc[p].dead)
          <5>1. dead[i] \in ToSet(bc[p].dead)
            BY <3>1, <4>1 DEF ToSet
          <5> QED BY <1>1, <5>1
        <4>2. CASE i = Len(bc[p].dead) + 1
          BY <2>1, <3>1, <4>2
        <4> QED BY <3>1, <4>1, <4>2
      <3>3. ASSUME NEW c \in ToSet(dead) PROVE IsDead(c)
        <4>1. PICK i \in DOMAIN dead : dead[i] = c
          BY <3>3 DEF ToSet
        <4> QED BY <3>2, <4>1
      <3> QED BY <3>1, <3>3
    <2> HIDE DEF dead
    <2>3. Sends(p, dead)
      BY <1>6, <2>2 DEF Sends, SendRaises, Arrives, dead
    <2> QED BY <1>3, <2>3
  <1> QED BY <1>2, <1>4, <1>5, <1>6 DEF Broadcast

-----------------------------------------------------------------------------
(* The theorems                                                             *)

LEMMA EventInductive == EventInv /\ [EventNext]_eventVars => EventInv'
  <1> SUFFICES ASSUME EventInv, [EventNext]_eventVars PROVE EventInv'
    OBVIOUS
  <1>1. CASE UNCHANGED eventVars
    <2>1. PeersMove /\ ListMoves
      <3>1. /\ conns \in Seq(Clients) /\ \A i, k \in DOMAIN conns : conns[i] = conns[k] => i = k
            /\ peer \in [Clients -> {"absent", "connected", "closed", "gone"}]
        BY DEF EventInv, EventRows, ConnsOK
      <3> QED BY <1>1, <3>1, SameFollows DEF PeersMove, ListMoves, IsDead, eventVars
    <2>2. \A i \in DOMAIN conns' : peer'[conns'[i]] # "absent"
      BY <1>1 DEF EventInv, ConnsOK, eventVars
    <2> QED BY <1>1, <2>1, <2>2, EndpointStep DEF eventVars
  <1>2. ASSUME NEW c \in Clients, Endpoint(c) PROVE EventInv'
    BY <1>2, EndpointInv
  <1>3. ASSUME NEW p \in Producers, Broadcast(p) PROVE EventInv'
    BY <1>3, BroadcastInv
  <1> QED BY <1>1, <1>2, <1>3 DEF EventNext

LEMMA EventInvariant == EventSpec => []EventInv
  BY InitEventInv, EventInductive, PTL DEF EventSpec

(* The types of the event manager; a connection is listed once, and only a  *)
(* peer that is not connected is found dead.                                *)
THEOREM EventTypesHold == EventSpec => []EventTypeOK
  <1>1. EventInv => EventTypeOK
    <2> SUFFICES ASSUME EventInv PROVE EventTypeOK
      OBVIOUS
    <2>1. /\ peer \in [Clients -> {"absent", "connected", "closed", "gone"}]
          /\ received \in [Clients -> Seq(Event)] /\ ConnsOK
          /\ count \in 0..MaxEvents /\ \A p \in Producers : BcTypeOK(p)
      BY DEF EventInv, EventRows
    <2>2. Len(history) <= MaxHistory
      BY <2>1 DEF EventInv, HistoryIsNewest
    <2>3. \A c \in Clients : \A i \in DOMAIN received[c] : received[c][i] \in Event
      BY <2>1
    <2> QED BY <2>1, <2>2, <2>3 DEF EventTypeOK, ConnsOK, BcTypeOK
  <1> QED BY <1>1, EventInvariant, PTL

(* A client gets no event of a producer twice or out of order, although     *)
(* connections come and go while the list is walked by index.               *)
THEOREM EventsComeInOrder == EventSpec => []ProducerOrder
  <1>1. EventInv => ProducerOrder
    BY DEF EventInv
  <1> QED BY <1>1, EventInvariant, PTL

(* The history holds the newest events in the order in which they were      *)
(* broadcast, as many as fit.                                               *)
THEOREM HistoryIsKept == EventSpec => []HistoryIsNewest
  <1>1. EventInv => HistoryIsNewest
    BY DEF EventInv
  <1> QED BY <1>1, EventInvariant, PTL

(* A broadcast that ends has reached every connection that was there from   *)
(* its beginning, if none of them was removed meanwhile.                    *)
THEOREM BroadcastsReachAll == EventSpec => ReachesAllUnlessRemoved
  <1> DEFINE A == \A p \in Producers : Ends(p) /\ bc[p].targets \subseteq ToSet(conns) =>
                    \A c \in bc[p].targets : peer[c] = "connected" => Got(c, bc[p].event)
  <1>1. EventInv /\ [EventNext]_eventVars => [A]_eventVars
    <2> SUFFICES ASSUME EventInv, EventNext, NEW p \in Producers PROVE ReachesAll(p)
      BY DEF ReachesAll
    <2>1. bc'[p] = bc[p] => ~Ends(p)
      BY DEF Ends, Busy, Idle
    <2>2. ASSUME NEW c \in Clients, Endpoint(c) PROVE bc'[p] = bc[p]
      BY <2>2 DEF Endpoint, Connect, PeerCloses, Disconnect, EndpointRaises
    <2>3. ASSUME NEW q \in Producers, Broadcast(q) PROVE ReachesAll(p)
      BY <2>1, <2>3, BroadcastInv DEF ReachesAll
    <2> QED BY <2>1, <2>2, <2>3 DEF EventNext, ReachesAll
  <1>2. EventSpec => [][A]_eventVars
    BY <1>1, EventInvariant, PTL DEF EventSpec
  <1> QED BY <1>2 DEF ReachesAllUnlessRemoved
=============================================================================
