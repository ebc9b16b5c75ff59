---------------------------- MODULE FirmwareProofs ----------------------------
(***************************************************************************)
(* Proofs about Firmware for any number of machines, baselines, versions    *)
(* and scans. The inductive invariant FirmwareInv says how far a scan has   *)
(* come: every machine it has taken up is judged by every steady baseline,  *)
(* but for those still left of the machine in turn, and what has been       *)
(* flushed is protected by the foreign keys.                                *)
(***************************************************************************)
EXTENDS Firmware, TLAPS

Held == UNION {[S -> Versions] : S \in SUBSET Baselines}

ScanRow == [pc : {"idle", "run", "committed", "lost"}, single : BOOLEAN,
            todo : SUBSET Hosts, at : SUBSET Hosts, left : SUBSET Baselines,
            held : Held, pending : SUBSET ReportRows, flushed : SUBSET ReportRows,
            asked : SUBSET Hosts, steady : SUBSET (Hosts \X Baselines)]

(* The reports of an open scan, and those it has committed.                 *)
Open(s) == scan[s].flushed \cup scan[s].pending
Mine(s) == {r \in reports : r.scan = s}

Reported(s, p) == \E r \in Open(s) : r.host = p[1] /\ r.baseline = p[2]

(* The baselines of these pairs are fit to judge the machines.              *)
StillFit(pairs) ==
  \A p \in pairs : p[2] \in Active /\ p[1] \in Fit(rules[p[2]])

FitAfter(pairs) ==
  \A p \in pairs : p[2] \in Active' /\ p[1] \in Fit(rules'[p[2]])

(* A baseline has been fit to judge every machine of the scan.              *)
Universal(s, b) == \A h \in scan[s].asked : <<h, b>> \in scan[s].steady

(* One machine is in turn, and what the scan judges by is referenced.       *)
TurnOK(s) ==
  /\ scan[s].todo \subseteq scan[s].asked
  /\ scan[s].left \subseteq DOMAIN scan[s].held
  /\ \A h, k \in scan[s].at : h = k
  /\ scan[s].left # {} => scan[s].at # {}
  /\ \A r \in Open(s) : r.scan = s
  /\ ~Running(s) => Open(s) = {} /\ scan[s].held = << >> /\ scan[s].left = {}

(* The machines taken up so far are judged by their steady baselines, which *)
(* are fit as they are and as the session knows them.                       *)
Covered(s) ==
  Running(s) =>
    /\ StillFit(scan[s].steady)
    /\ \A p \in scan[s].steady :
         p[2] \in DOMAIN scan[s].held => p[1] \in Fit(scan[s].held[p[2]])
    /\ \A p \in scan[s].steady :
         \/ p[1] \in scan[s].todo
         \/ p[1] \in scan[s].at /\ p[2] \in scan[s].left
         \/ Reported(s, p)

(* A baseline that every machine is judged by stays referenced, with the    *)
(* rules that its first report was made by.                                 *)
RulesKept(s) ==
  \A b \in Baselines : Universal(s, b) =>
    \A r \in Open(s) : r.baseline = b =>
      b \in DOMAIN scan[s].held /\ scan[s].held[b] = r.rules

(* What is committed of a scan is whole and by one version of the rules.    *)
CommittedOK(s) ==
  IF scan[s].pc = "committed"
  THEN /\ \A p \in scan[s].steady :
            \E r \in Mine(s) : r.host = p[1] /\ r.baseline = p[2]
       /\ \A b \in Baselines : Universal(s, b) =>
            \A r1, r2 \in Mine(s) :
              r1.baseline = b /\ r2.baseline = b => r1.rules = r2.rules
  ELSE Mine(s) = {}

(* The foreign keys protect committed reports and those of open inserts.    *)
KeysOK ==
  \A r \in reports \cup UNION {scan[s].flushed : s \in Scans} :
    r.host \in host /\ r.baseline \in Live

TablesOK ==
  /\ host \subseteq Hosts
  /\ baseline \in [Baselines -> {"none", "active", "inactive", "deleted"}]
  /\ rules \in [Baselines -> Versions]
  /\ reports \subseteq ReportRows

FirmwareInv ==
  /\ TablesOK
  /\ scan \in [Scans -> ScanRow]
  /\ KeysOK
  /\ \A s \in Scans : TurnOK(s) /\ Covered(s) /\ RulesKept(s) /\ CommittedOK(s)

USE AppliesAssumption, VersionsAssumption

-----------------------------------------------------------------------------
(* Lemmas about scans                                                       *)

LEMMA EmptyHeld == << >> \in Held /\ DOMAIN << >> = {}
  <1>1. << >> \in [{} -> Versions]
    OBVIOUS
  <1> QED BY <1>1 DEF Held

LEMMA NewScanType == NewScan \in ScanRow
  BY EmptyHeld DEF NewScan, ScanRow

LEMMA HeldType ==
  ASSUME NEW f \in Held
  PROVE  /\ DOMAIN f \subseteq Baselines
         /\ \A b \in DOMAIN f : f[b] \in Versions
  BY DEF Held

(* What _find_matching_baselines leaves referenced: the list it returns,    *)
(* with objects that were referenced as they were.                          *)
LEMMA ReferencesType ==
  ASSUME TablesOK, scan \in [Scans -> ScanRow], NEW s \in Scans,
         NEW list \in SUBSET Baselines, NEW f \in References(s, list)
  PROVE  /\ f \in Held
         /\ list \subseteq DOMAIN f
         /\ \A b \in DOMAIN f : f[b] = Copy(s, b)
  <1>1. scan[s].held \in Held
    BY DEF ScanRow
  <1>2. CASE list # {}
    <2>1. f = [b \in list |-> IF b \in DOMAIN scan[s].held THEN scan[s].held[b] ELSE rules[b]]
      BY <1>2 DEF References, Copy
    <2>2. \A b \in list : f[b] \in Versions
      BY <1>1, <2>1, HeldType DEF TablesOK
    <2>3. f \in [list -> Versions]
      BY <2>1, <2>2
    <2> QED BY <2>1, <2>3 DEF Held, Copy
  <1>3. CASE list = {}
    <2>1. PICK one \in SUBSET DOMAIN scan[s].held : f = Restrict(scan[s].held, one)
      BY <1>3 DEF References
    <2>2. f = [b \in one |-> scan[s].held[b]]
      BY <2>1 DEF Restrict
    <2>3. f \in [one -> Versions] /\ one \in SUBSET Baselines
      BY <1>1, <2>2, HeldType
    <2>4. \A b \in DOMAIN f : f[b] = Copy(s, b)
      BY <2>2 DEF Copy
    <2> QED BY <1>3, <2>3, <2>4 DEF Held
  <1> QED BY <1>2, <1>3

(* A scan that a step leaves as it is, or that forgets a baseline which is  *)
(* not steady any more.                                                     *)
LEMMA ScanKept ==
  ASSUME FirmwareInv, NEW s \in Scans, NEW st \in SUBSET scan[s].steady,
         scan'[s] = [scan[s] EXCEPT !.steady = st],
         Running(s) => FitAfter(st),
         Mine(s)' = Mine(s)
  PROVE  /\ TurnOK(s)' /\ Covered(s)' /\ RulesKept(s)' /\ CommittedOK(s)'
         /\ scan'[s] \in ScanRow /\ scan'[s].flushed = scan[s].flushed
  <1>1. scan[s] \in ScanRow
    BY DEF FirmwareInv
  <1>2. /\ scan'[s].pc = scan[s].pc /\ scan'[s].todo = scan[s].todo
        /\ scan'[s].at = scan[s].at /\ scan'[s].left = scan[s].left
        /\ scan'[s].held = scan[s].held /\ scan'[s].pending = scan[s].pending
        /\ scan'[s].flushed = scan[s].flushed /\ scan'[s].asked = scan[s].asked
        /\ scan'[s].steady = st
    BY <1>1 DEF ScanRow
  <1>3. scan'[s] \in ScanRow
    BY <1>1 DEF ScanRow
  <1>4. TurnOK(s)'
    BY <1>2 DEF FirmwareInv, TurnOK, Open, Running
  <1>5. Covered(s)'
    BY <1>2 DEF FirmwareInv, Covered, Open, Running, Reported, StillFit, FitAfter
  <1>u. \A b \in Baselines : Universal(s, b)' => Universal(s, b)
    BY <1>2 DEF Universal
  <1>6. RulesKept(s)'
    BY <1>2, <1>u DEF FirmwareInv, RulesKept, Open
  <1>7. CommittedOK(s)'
    BY <1>2, <1>u DEF FirmwareInv, CommittedOK
  <1> QED BY <1>2, <1>3, <1>4, <1>5, <1>6, <1>7

LEMMA SameScan ==
  ASSUME FirmwareInv, NEW s \in Scans, scan'[s] = scan[s],
         baseline' = baseline, rules' = rules, Mine(s)' = Mine(s)
  PROVE  TurnOK(s)' /\ Covered(s)' /\ RulesKept(s)' /\ CommittedOK(s)'
  <1>1. scan[s] = [scan[s] EXCEPT !.steady = scan[s].steady]
    BY DEF FirmwareInv, ScanRow
  <1>2. Running(s) => FitAfter(scan[s].steady)
    BY DEF FirmwareInv, Covered, StillFit, FitAfter, Active
  <1> QED BY <1>1, <1>2, ScanKept

(* A step that leaves the scans, but for the baselines they forget, and     *)
(* under which no row that a report refers to disappears.                   *)
LEMMA RowStep ==
  ASSUME FirmwareInv, TablesOK', reports' = reports,
         scan' \in [Scans -> ScanRow],
         \A s \in Scans : \E st \in SUBSET scan[s].steady :
           /\ scan'[s] = [scan[s] EXCEPT !.steady = st]
           /\ Running(s) => FitAfter(st),
         \A r \in reports \cup UNION {scan[s].flushed : s \in Scans} :
           r.host \in host' /\ r.baseline \in Live'
  PROVE  FirmwareInv'
  <1>1. ASSUME NEW s \in Scans
        PROVE  /\ TurnOK(s)' /\ Covered(s)' /\ RulesKept(s)' /\ CommittedOK(s)'
               /\ scan'[s].flushed = scan[s].flushed
    <2>1. PICK st \in SUBSET scan[s].steady :
            /\ scan'[s] = [scan[s] EXCEPT !.steady = st]
            /\ Running(s) => FitAfter(st)
      OBVIOUS
    <2>2. Mine(s)' = Mine(s)
      BY DEF Mine
    <2> QED BY <2>1, <2>2, ScanKept
  <1>2. KeysOK'
    BY <1>1 DEF KeysOK
  <1> QED BY <1>1, <1>2 DEF FirmwareInv

-----------------------------------------------------------------------------
LEMMA InitFirmwareInv == FirmwareInit => FirmwareInv
  <1> SUFFICES ASSUME FirmwareInit PROVE FirmwareInv OBVIOUS
  <1>1. TablesOK
    BY DEF FirmwareInit, TablesOK
  <1>2. scan \in [Scans -> ScanRow]
    BY NewScanType DEF FirmwareInit
  <1>3. KeysOK
    BY DEF FirmwareInit, KeysOK, NewScan
  <1>4. \A s \in Scans : TurnOK(s) /\ Covered(s) /\ RulesKept(s) /\ CommittedOK(s)
    BY DEF FirmwareInit, NewScan, Universal, TurnOK, Covered, RulesKept, CommittedOK, Open, Mine,
       Running
  <1> QED BY <1>1, <1>2, <1>3, <1>4 DEF FirmwareInv

LEMMA FitsOnlyType ==
  ASSUME FirmwareInv, NEW b \in Baselines, NEW hosts, FitsOnly(b, hosts),
         \A c \in Active \ {b} : c \in Active' /\ rules'[c] = rules[c],
         hosts = {} \/ (b \in Active' /\ hosts = Fit(rules'[b]))
  PROVE  /\ scan' \in [Scans -> ScanRow]
         /\ \A s \in Scans : \E st \in SUBSET scan[s].steady :
              /\ scan'[s] = [scan[s] EXCEPT !.steady = st]
              /\ Running(s) => FitAfter(st)
  <1>1. ASSUME NEW s \in Scans
        PROVE  /\ scan'[s] \in ScanRow
               /\ \E st \in SUBSET scan[s].steady :
                    /\ scan'[s] = [scan[s] EXCEPT !.steady = st]
                    /\ Running(s) => FitAfter(st)
    <2> DEFINE st == IF Running(s)
                     THEN {p \in scan[s].steady : p[2] = b => p[1] \in hosts}
                     ELSE scan[s].steady
    <2>1. scan'[s] = [scan[s] EXCEPT !.steady = st]
      BY DEF FitsOnly
    <2>2. st \in SUBSET scan[s].steady
      OBVIOUS
    <2>3. scan[s] \in ScanRow /\ scan[s].steady \in SUBSET (Hosts \X Baselines)
      BY DEF FirmwareInv, ScanRow
    <2>4. st \in SUBSET (Hosts \X Baselines)
      BY <2>2, <2>3
    <2>6. ASSUME Running(s), NEW p \in st PROVE p[2] \in Active' /\ p[1] \in Fit(rules'[p[2]])
      <3>1. /\ p[2] \in Active /\ p[1] \in Fit(rules[p[2]])
            /\ p[2] = b => p[1] \in hosts
        BY <2>6 DEF FirmwareInv, Covered, StillFit
      <3> QED BY <3>1
    <2>7. Running(s) => FitAfter(st)
      BY <2>6 DEF FitAfter
    <2> HIDE DEF st
    <2>5. scan'[s] \in ScanRow
      BY <2>1, <2>3, <2>4 DEF ScanRow
    <2> QED BY <2>1, <2>2, <2>5, <2>7
  <1>2. scan' = [s \in Scans |-> scan'[s]]
    BY DEF FitsOnly
  <1> QED BY <1>1, <1>2

(* Scans that a step leaves alone.                                          *)
LEMMA ScansLeft ==
  ASSUME FirmwareInv, scan' = scan,
         \A b \in Active : b \in Active' /\ rules'[b] = rules[b]
  PROVE  /\ scan' \in [Scans -> ScanRow]
         /\ \A s \in Scans : \E st \in SUBSET scan[s].steady :
              /\ scan'[s] = [scan[s] EXCEPT !.steady = st]
              /\ Running(s) => FitAfter(st)
  <1>1. ASSUME NEW s \in Scans
        PROVE  \E st \in SUBSET scan[s].steady :
                 /\ scan'[s] = [scan[s] EXCEPT !.steady = st]
                 /\ Running(s) => FitAfter(st)
    <2>1. scan'[s] = [scan[s] EXCEPT !.steady = scan[s].steady]
      BY DEF FirmwareInv, ScanRow
    <2>2. Running(s) => FitAfter(scan[s].steady)
      BY DEF FirmwareInv, Covered, StillFit, FitAfter
    <2> QED BY <2>1, <2>2
  <1> QED BY <1>1 DEF FirmwareInv

LEMMA CreateBaselineInv ==
  ASSUME FirmwareInv, NEW b \in Baselines, CreateBaseline(b)
  PROVE  FirmwareInv'
  <1>1. TablesOK'
    BY DEF CreateBaseline, FirmwareInv, TablesOK
  <1>2. /\ \A c \in Active : c \in Active' /\ rules'[c] = rules[c]
        /\ Live \subseteq Live'
    BY DEF CreateBaseline, Active, Live, FirmwareInv, TablesOK
  <1>3. scan' = scan /\ reports' = reports /\ host' = host
    BY DEF CreateBaseline
  <1> QED BY <1>1, <1>2, <1>3, ScansLeft, RowStep DEF FirmwareInv, KeysOK

LEMMA UpdateBaselineInv ==
  ASSUME FirmwareInv, NEW b \in Baselines, UpdateBaseline(b)
  PROVE  FirmwareInv'
  <1>1. PICK status \in {"active", "inactive"}, v \in Versions :
          /\ baseline' = [baseline EXCEPT ![b] = status]
          /\ rules' = [rules EXCEPT ![b] = v]
          /\ FitsOnly(b, IF status = "active" THEN Fit(v) ELSE {})
    BY DEF UpdateBaseline
  <1>2. TablesOK' /\ Live \subseteq Live' /\ reports' = reports /\ host' = host
    BY <1>1 DEF UpdateBaseline, FirmwareInv, TablesOK, Live
  <1>3. /\ \A c \in Active \ {b} : c \in Active' /\ rules'[c] = rules[c]
        /\ status = "active" => b \in Active' /\ rules'[b] = v
    BY <1>1 DEF Active, FirmwareInv, TablesOK
  <1> DEFINE hosts == IF status = "active" THEN Fit(v) ELSE {}
  <1>4. hosts = {} \/ (b \in Active' /\ hosts = Fit(rules'[b]))
    BY <1>3
  <1>5. FitsOnly(b, hosts)
    BY <1>1
  <1> HIDE DEF hosts
  <1> QED BY <1>2, <1>3, <1>4, <1>5, FitsOnlyType, RowStep DEF FirmwareInv, KeysOK

LEMMA DeleteBaselineInv ==
  ASSUME FirmwareInv, NEW b \in Baselines, DeleteBaseline(b)
  PROVE  FirmwareInv'
  <1>1. TablesOK'
    BY DEF DeleteBaseline, FirmwareInv, TablesOK
  <1>2. /\ \A c \in Active \ {b} : c \in Active' /\ rules'[c] = rules[c]
        /\ Live \ {b} \subseteq Live'
    BY DEF DeleteBaseline, Active, Live, FirmwareInv, TablesOK
  <1>3. \A r \in reports \cup UNION {scan[s].flushed : s \in Scans} :
          r.host \in host' /\ r.baseline \in Live'
    BY <1>2 DEF DeleteBaseline, FirmwareInv, KeysOK
  <1> QED BY <1>1, <1>2, <1>3, FitsOnlyType, RowStep DEF DeleteBaseline

LEMMA DeleteHostInv ==
  ASSUME FirmwareInv, NEW h \in Hosts, DeleteHost(h)
  PROVE  FirmwareInv'
  <1>1. TablesOK'
    BY DEF DeleteHost, FirmwareInv, TablesOK
  <1>2. \A r \in reports \cup UNION {scan[s].flushed : s \in Scans} :
          r.host \in host' /\ r.baseline \in Live'
    BY DEF DeleteHost, FirmwareInv, KeysOK, Live
  <1>3. /\ \A b \in Active : b \in Active' /\ rules'[b] = rules[b]
        /\ scan' = scan /\ reports' = reports
    BY DEF DeleteHost, Active
  <1> QED BY <1>1, <1>2, <1>3, ScansLeft, RowStep

-----------------------------------------------------------------------------
(* A step of a scan: the other scans and the tables stay, and nothing is    *)
(* flushed but under the eyes of the foreign keys.                          *)
LEMMA ScanStep ==
  ASSUME FirmwareInv, NEW s \in Scans, NEW r \in ScanRow,
         scan' = [scan EXCEPT ![s] = r],
         UNCHANGED <<host, baseline, rules>>,
         reports' \subseteq ReportRows,
         \A x \in reports' \ reports : x.scan = s,
         reports \subseteq reports',
         \A x \in reports' \cup r.flushed : x.host \in host /\ x.baseline \in Live,
         TurnOK(s)' /\ Covered(s)' /\ RulesKept(s)' /\ CommittedOK(s)'
  PROVE  FirmwareInv'
  <1>1. scan' \in [Scans -> ScanRow] /\ scan'[s] = r
    BY DEF FirmwareInv
  <1>2. TablesOK'
    BY DEF FirmwareInv, TablesOK
  <1>3. KeysOK'
    <2>1. ASSUME NEW x \in reports' \cup UNION {scan'[t].flushed : t \in Scans}
          PROVE  x.host \in host /\ x.baseline \in Live
      BY <1>1 DEF FirmwareInv, KeysOK
    <2> QED BY <2>1 DEF KeysOK, Live
  <1>4. ASSUME NEW t \in Scans, t # s
        PROVE  TurnOK(t)' /\ Covered(t)' /\ RulesKept(t)' /\ CommittedOK(t)'
    <2>1. Mine(t)' = Mine(t)
      BY <1>4 DEF Mine
    <2>2. scan'[t] = scan[t]
      BY <1>4 DEF FirmwareInv
    <2> QED BY <2>1, <2>2, SameScan
  <1> QED BY <1>1, <1>2, <1>3, <1>4 DEF FirmwareInv

LEMMA BeginInv ==
  ASSUME FirmwareInv, NEW s \in Scans, NEW hosts \in SUBSET Hosts, NEW single \in BOOLEAN,
         Begin(s, hosts, single)
  PROVE  FirmwareInv'
  <1> DEFINE fit == {p \in hosts \X Active : p[1] \in Fit(rules[p[2]])}
             r == [NewScan EXCEPT !.pc = "run", !.single = single, !.todo = hosts,
                                  !.asked = hosts, !.steady = fit]
  <1>f. fit \in SUBSET (Hosts \X Baselines)
        /\ \A p \in fit : p[1] \in hosts /\ p[2] \in Active /\ p[1] \in Fit(rules[p[2]])
    BY DEF Active
  <1> HIDE DEF fit
  <1>1. r \in ScanRow
    BY <1>f, NewScanType DEF ScanRow
  <1>2. /\ r.pc = "run" /\ r.todo = hosts /\ r.asked = hosts /\ r.steady = fit
        /\ r.at = {} /\ r.left = {} /\ r.pending = {} /\ r.flushed = {}
        /\ r.held = << >>
    BY DEF NewScan
  <1>3. scan' = [scan EXCEPT ![s] = r]
    BY DEF Begin, fit
  <1> HIDE DEF r
  <1>4. scan'[s] = r
    BY <1>3 DEF FirmwareInv
  <1>5. TurnOK(s)'
    BY <1>2, <1>4 DEF TurnOK, Open, Running
  <1>6. Covered(s)'
    <2>1. FitAfter(fit)
      BY <1>f DEF FitAfter, Active, Begin
    <2> QED BY <1>f, <1>2, <1>4, <2>1, EmptyHeld DEF Covered, StillFit, FitAfter
  <1>7. RulesKept(s)'
    BY <1>2, <1>4 DEF RulesKept, Open
  <1>8. CommittedOK(s)'
    <2>1. scan[s].pc = "idle" /\ reports' = reports
      BY DEF Begin
    <2>2. Mine(s) = {}
      BY <2>1 DEF FirmwareInv, CommittedOK
    <2> QED BY <1>2, <1>4, <2>1, <2>2 DEF CommittedOK, Mine
  <1> QED
    BY <1>1, <1>2, <1>3, <1>5, <1>6, <1>7, <1>8, ScanStep
    DEF Begin, FirmwareInv, TablesOK, KeysOK

(* The session is gone, and its inserts with it.                            *)
LEMMA LostScan ==
  ASSUME FirmwareInv, NEW s \in Scans, Running(s), reports' = reports,
         scan'[s] = [NewScan EXCEPT !.pc = "lost"]
  PROVE  /\ TurnOK(s)' /\ Covered(s)' /\ RulesKept(s)' /\ CommittedOK(s)'
         /\ scan'[s] \in ScanRow /\ scan'[s].flushed = {}
  <1> DEFINE r == [NewScan EXCEPT !.pc = "lost"]
  <1>1. r \in ScanRow
    BY NewScanType DEF ScanRow
  <1>2. /\ r.pc = "lost" /\ r.todo = {} /\ r.asked = {} /\ r.steady = {}
        /\ r.at = {} /\ r.left = {} /\ r.pending = {} /\ r.flushed = {}
        /\ r.held = << >>
    BY DEF NewScan
  <1>3. scan'[s] = r
    OBVIOUS
  <1> HIDE DEF r
  <1>4. TurnOK(s)' /\ Covered(s)' /\ RulesKept(s)'
    BY <1>2, <1>3 DEF TurnOK, Covered, RulesKept, Open, Running
  <1>5. Mine(s) = {}
    BY DEF FirmwareInv, CommittedOK, Running
  <1>6. CommittedOK(s)'
    BY <1>2, <1>3, <1>5 DEF CommittedOK, Mine
  <1> QED BY <1>1, <1>2, <1>3, <1>4, <1>6

LEMMA ScanLostInv ==
  ASSUME FirmwareInv, NEW s \in Scans, Running(s), scan' = ScanLost(s),
         UNCHANGED <<host, baseline, rules, reports>>
  PROVE  FirmwareInv'
  <1> DEFINE r == [NewScan EXCEPT !.pc = "lost"]
  <1>1. scan' = [scan EXCEPT ![s] = r] /\ scan'[s] = r
    BY DEF ScanLost, FirmwareInv
  <1>2. /\ TurnOK(s)' /\ Covered(s)' /\ RulesKept(s)' /\ CommittedOK(s)'
        /\ r \in ScanRow /\ r.flushed = {}
    BY <1>1, LostScan
  <1> HIDE DEF r
  <1> QED BY <1>1, <1>2, ScanStep DEF FirmwareInv, TablesOK, KeysOK

LEMMA FindBaselinesInv ==
  ASSUME FirmwareInv, NEW s \in Scans, FindBaselines(s)
  PROVE  FirmwareInv'
  <1>2. PICK h \in scan[s].todo : \E held \in References(s, Matching(s, h)) :
          scan' = [scan EXCEPT ![s].todo = scan[s].todo \ {h}, ![s].at = {h},
                     ![s].left = Matching(s, h), ![s].held = held,
                     ![s].flushed = scan[s].flushed \cup scan[s].pending,
                     ![s].pending = {}]
    BY DEF FindBaselines, FirmwareInv
  <1>1. PICK held \in References(s, Matching(s, h)) :
          scan' = [scan EXCEPT ![s].todo = scan[s].todo \ {h}, ![s].at = {h},
                     ![s].left = Matching(s, h), ![s].held = held,
                     ![s].flushed = scan[s].flushed \cup scan[s].pending,
                     ![s].pending = {}]
    BY <1>2
  <1> DEFINE list == Matching(s, h)
             r == [scan[s] EXCEPT !.todo = scan[s].todo \ {h}, !.at = {h},
                     !.left = list, !.held = held,
                     !.flushed = scan[s].flushed \cup scan[s].pending,
                     !.pending = {}]
  <1>3. scan[s] \in ScanRow /\ h \in Hosts /\ list \in SUBSET Baselines
    BY DEF FirmwareInv, ScanRow, Active, Matching
  <1>4. scan' = [scan EXCEPT ![s] = r]
    BY <1>1 DEF FirmwareInv
  <1>5. /\ held \in Held /\ list \subseteq DOMAIN held
        /\ \A b \in DOMAIN held : held[b] = Copy(s, b)
    BY <1>3, ReferencesType DEF FirmwareInv
  <1>6. r \in ScanRow
    BY <1>3, <1>5 DEF ScanRow
  <1>7. /\ scan'[s] = r /\ r.pc = scan[s].pc /\ r.todo = scan[s].todo \ {h}
        /\ r.at = {h} /\ r.left = list /\ r.held = held
        /\ r.flushed = Open(s) /\ r.pending = {}
        /\ r.asked = scan[s].asked /\ r.steady = scan[s].steady
    BY <1>3, <1>4 DEF FirmwareInv, ScanRow, Open
  <1> HIDE DEF r
  <1>8. Running(s) /\ scan[s].left = {} /\ Open(s)' = Open(s) /\ Running(s)'
    <2>1. scan'[s].pc = scan[s].pc /\ scan'[s].flushed = Open(s) /\ scan'[s].pending = {}
      BY <1>7
    <2> QED BY <2>1 DEF FindBaselines, Open, Running
  <1>9. /\ scan'[s].todo = scan[s].todo \ {h} /\ scan'[s].at = {h}
        /\ scan'[s].left = list /\ scan'[s].held = held
        /\ scan'[s].asked = scan[s].asked /\ scan'[s].steady = scan[s].steady
        /\ scan'[s].pc = "run" /\ r.flushed = Open(s)
    BY <1>7, <1>8 DEF Running
  <1>10. UNCHANGED <<host, baseline, rules, reports>> /\ Inserts(s)
    BY DEF FindBaselines
  (* What the session sees of a steady baseline is fit, held or not.        *)
  <1>f. ASSUME NEW p \in scan[s].steady
        PROVE  p[2] \in Active /\ p[1] \in Fit(rules[p[2]]) /\ p[1] \in Fit(Copy(s, p[2]))
    BY <1>8, <1>f DEF FirmwareInv, Covered, StillFit, Copy
  <1>m. ASSUME NEW b, <<h, b>> \in scan[s].steady PROVE b \in list
    <2>1. b \in Active /\ h \in Fit(Copy(s, b))
      BY <1>f, <1>m
    <2> QED BY <2>1 DEF Matching, Fit
  <1>11. TurnOK(s)'
    BY <1>5, <1>8, <1>9 DEF FirmwareInv, TurnOK
  <1> HIDE DEF list
  <1>12. Covered(s)'
    <2>1. StillFit(scan[s].steady)'
      <3>1. FitAfter(scan[s].steady)
        BY <1>f, <1>10 DEF FitAfter, Active
      <3> QED BY <1>9, <3>1 DEF StillFit, FitAfter
    <2>2. ASSUME NEW p \in scan[s].steady
          PROVE  \/ p[1] \in scan[s].todo \ {h}
                 \/ p[1] \in {h} /\ p[2] \in list
                 \/ Reported(s, p)
      <3>1. p = <<p[1], p[2]>>
        BY <1>3 DEF ScanRow
      <3>2. p[1] = h => p[2] \in list
        BY <1>m, <2>2, <3>1
      <3> QED BY <1>8, <2>2, <3>2 DEF FirmwareInv, Covered
    <2>3. \A p \in scan[s].steady : Reported(s, p) => Reported(s, p)'
      BY <1>8 DEF Reported
    <2> QED BY <1>5, <1>8, <1>9, <1>f, <2>1, <2>2, <2>3 DEF Covered, StillFit
  <1>13. RulesKept(s)'
    <2>1. ASSUME NEW b \in Baselines, Universal(s, b), NEW x \in Open(s), x.baseline = b
          PROVE  b \in DOMAIN held /\ held[b] = x.rules
      <3>1. b \in DOMAIN scan[s].held /\ scan[s].held[b] = x.rules
        BY <2>1 DEF FirmwareInv, RulesKept
      <3>2. b \in list
        BY <1>m, <2>1 DEF FirmwareInv, TurnOK, Universal
      <3> QED BY <1>5, <3>1, <3>2 DEF Copy
    <2>2. \A b \in Baselines : Universal(s, b)' => Universal(s, b)
      BY <1>9 DEF Universal
    <2> QED BY <1>8, <1>9, <2>1, <2>2 DEF RulesKept
  <1>14. CommittedOK(s)'
    BY <1>8, <1>9, <1>10 DEF FirmwareInv, CommittedOK, Mine, Running
  <1>15. \A x \in reports \cup r.flushed : x.host \in host /\ x.baseline \in Live
    BY <1>9, <1>10 DEF FirmwareInv, KeysOK, Inserts, Open
  <1> QED
    BY <1>4, <1>6, <1>10, <1>11, <1>12, <1>13, <1>14, <1>15, ScanStep
    DEF FirmwareInv, TablesOK

(* The machine in turn is judged by b, or cannot be: new is what is added.  *)
LEMMA JudgedStep ==
  ASSUME FirmwareInv, NEW s \in Scans, Running(s), NEW b \in scan[s].left,
         NEW h \in scan[s].at, NEW new \in SUBSET ReportRows,
         scan' = [scan EXCEPT ![s].left = scan[s].left \ {b},
                              ![s].pending = scan[s].pending \cup new],
         \A x \in new : /\ x.scan = s /\ x.host = h /\ x.baseline = b
                        /\ x.rules = scan[s].held[b],
         new = {} => scan[s].held[b] \in NoRules,
         UNCHANGED <<host, baseline, rules, reports>>
  PROVE  FirmwareInv'
  <1> DEFINE r == [scan[s] EXCEPT !.left = scan[s].left \ {b},
                                  !.pending = scan[s].pending \cup new]
  <1>2. scan[s] \in ScanRow /\ h \in Hosts /\ b \in Baselines /\ b \in DOMAIN scan[s].held
    BY DEF FirmwareInv, ScanRow, TurnOK
  <1>5. scan' = [scan EXCEPT ![s] = r]
    BY DEF FirmwareInv, ScanRow
  <1>6. r \in ScanRow
    BY <1>2 DEF ScanRow
  <1>7. /\ r.pc = scan[s].pc /\ r.todo = scan[s].todo /\ r.at = scan[s].at
        /\ r.left = scan[s].left \ {b} /\ r.held = scan[s].held
        /\ r.pending = scan[s].pending \cup new /\ r.flushed = scan[s].flushed
        /\ r.asked = scan[s].asked /\ r.steady = scan[s].steady
    BY <1>2 DEF ScanRow
  <1> HIDE DEF r
  <1>8. scan'[s] = r
    BY <1>5 DEF FirmwareInv
  <1>9. Open(s)' = Open(s) \cup new /\ Running(s)'
    BY <1>2, <1>7, <1>8 DEF Open, Running
  <1>10. TurnOK(s)'
    BY <1>7, <1>8, <1>9 DEF FirmwareInv, TurnOK
  <1>11. Covered(s)'
    <2>1. FitAfter(scan[s].steady)
      BY DEF FirmwareInv, Covered, StillFit, FitAfter, Active
    <2>2. ASSUME NEW p \in scan[s].steady
          PROVE  \/ p[1] \in scan[s].todo
                 \/ p[1] \in scan[s].at /\ p[2] \in scan[s].left \ {b}
                 \/ Reported(s, p)'
      <3>1. \/ p[1] \in scan[s].todo
            \/ p[1] \in scan[s].at /\ p[2] \in scan[s].left
            \/ Reported(s, p)
        BY <2>2 DEF FirmwareInv, Covered
      <3>2. p[1] \in scan[s].at => p[1] = h
        BY DEF FirmwareInv, TurnOK
      <3>3. p[2] \in DOMAIN scan[s].held => p[1] \in Fit(scan[s].held[p[2]])
        BY <2>2 DEF FirmwareInv, Covered
      <3>4. ASSUME p[1] = h, p[2] = b PROVE new # {}
        BY <1>2, <3>3, <3>4 DEF Fit
      <3>5. Reported(s, p) => Reported(s, p)'
        BY <1>9 DEF Reported
      <3>6. p[1] = h /\ p[2] = b => Reported(s, p)'
        BY <1>9, <3>4 DEF Reported
      <3> QED BY <3>1, <3>2, <3>5, <3>6
    <2>3. \A p \in scan[s].steady :
            p[2] \in DOMAIN scan[s].held => p[1] \in Fit(scan[s].held[p[2]])
      BY DEF FirmwareInv, Covered
    <2> QED BY <1>7, <1>8, <2>1, <2>2, <2>3 DEF Covered, StillFit, FitAfter
  <1>12. RulesKept(s)'
    <2>1. \A c \in Baselines : Universal(s, c)' => Universal(s, c)
      BY <1>7, <1>8 DEF Universal
    <2> QED BY <1>2, <1>7, <1>8, <1>9, <2>1 DEF FirmwareInv, RulesKept
  <1>14. CommittedOK(s)'
    BY <1>9 DEF FirmwareInv, CommittedOK, Mine, Running
  <1>15. \A x \in reports \cup r.flushed : x.host \in host /\ x.baseline \in Live
    BY <1>7 DEF FirmwareInv, KeysOK
  <1> QED
    BY <1>5, <1>6, <1>10, <1>11, <1>12, <1>14, <1>15, ScanStep DEF FirmwareInv, TablesOK

LEMMA JudgeInv ==
  ASSUME FirmwareInv, NEW s \in Scans, Judge(s)
  PROVE  FirmwareInv'
  <1>1. PICK b \in scan[s].left, h \in scan[s].at :
          scan' = [scan EXCEPT ![s].left = scan[s].left \ {b},
                     ![s].pending = scan[s].pending \cup
                       {[scan |-> s, host |-> h, baseline |-> b,
                         rules |-> scan[s].held[b]]}]
    BY DEF Judge, FirmwareInv
  <1> DEFINE new == [scan |-> s, host |-> h, baseline |-> b, rules |-> scan[s].held[b]]
  <1>2. scan[s] \in ScanRow /\ h \in Hosts /\ b \in Baselines /\ Running(s)
        /\ b \in DOMAIN scan[s].held
    BY DEF Judge, FirmwareInv, ScanRow, TurnOK
  <1>3. scan[s].held[b] \in Versions
    BY <1>2, HeldType DEF ScanRow
  <1>4. new \in ReportRows /\ new.scan = s /\ new.host = h /\ new.baseline = b
        /\ new.rules = scan[s].held[b]
    BY <1>2, <1>3 DEF ReportRows
  <1> HIDE DEF new
  <1> DEFINE added == {new}
  <1>5. /\ added \in SUBSET ReportRows /\ added # {}
        /\ \A x \in added : /\ x.scan = s /\ x.host = h /\ x.baseline = b
                            /\ x.rules = scan[s].held[b]
    BY <1>4
  <1>6. scan' = [scan EXCEPT ![s].left = scan[s].left \ {b},
                             ![s].pending = scan[s].pending \cup added]
    BY <1>1 DEF new
  <1>7. UNCHANGED <<host, baseline, rules, reports>>
    BY DEF Judge
  <1> HIDE DEF added
  <1> QED BY <1>2, <1>5, <1>6, <1>7, JudgedStep

LEMMA JudgeRaisesInv ==
  ASSUME FirmwareInv, NEW s \in Scans, JudgeRaises(s)
  PROVE  FirmwareInv'
  <1>1. PICK b \in scan[s].left :
          /\ scan[s].held[b] \in NoRules
          /\ scan' = IF scan[s].single THEN ScanLost(s)
                     ELSE [scan EXCEPT ![s].left = scan[s].left \ {b}]
    BY DEF JudgeRaises, FirmwareInv
  <1>2. Running(s) /\ UNCHANGED <<host, baseline, rules, reports>>
    BY DEF JudgeRaises
  <1>3. CASE scan[s].single
    BY <1>1, <1>2, <1>3, ScanLostInv
  <1>4. CASE ~scan[s].single
    <2>1. scan[s] \in ScanRow /\ scan \in [Scans -> ScanRow]
      BY DEF FirmwareInv
    <2>2. PICK h \in scan[s].at : TRUE
      BY <1>1, <1>2 DEF FirmwareInv, TurnOK
    <2> DEFINE none == {}
    <2>3. /\ none \in SUBSET ReportRows /\ scan[s].pending = scan[s].pending \cup none
          /\ \A x \in none : /\ x.scan = s /\ x.host = h /\ x.baseline = b
                             /\ x.rules = scan[s].held[b]
      BY <2>1 DEF ScanRow
    <2>4. scan' = [scan EXCEPT ![s].left = scan[s].left \ {b},
                               ![s].pending = scan[s].pending \cup none]
      <3> HIDE DEF none
      <3> QED BY <1>1, <1>4, <2>1, <2>3 DEF ScanRow
    <2> HIDE DEF none
    <2>5. UNCHANGED <<host, baseline, rules, reports>>
      BY <1>2
    <2>6. scan[s].held[b] \in NoRules
      BY <1>1
    <2> QED BY <1>2, <2>3, <2>4, <2>5, <2>6, JudgedStep
  <1> QED BY <1>3, <1>4

LEMMA CommitScanInv ==
  ASSUME FirmwareInv, NEW s \in Scans, CommitScan(s)
  PROVE  FirmwareInv'
  <1> DEFINE r == [NewScan EXCEPT !.pc = "committed", !.asked = scan[s].asked,
                                  !.steady = scan[s].steady]
  <1>1. scan' = [scan EXCEPT ![s] = r] /\ scan'[s] = r
    BY DEF CommitScan, FirmwareInv
  <1>2. r \in ScanRow
    BY NewScanType DEF FirmwareInv, ScanRow
  <1>3. /\ r.pc = "committed" /\ r.todo = {} /\ r.at = {} /\ r.left = {}
        /\ r.held = << >> /\ r.pending = {} /\ r.flushed = {}
        /\ r.asked = scan[s].asked /\ r.steady = scan[s].steady
    BY DEF NewScan
  <1> HIDE DEF r
  <1>4. /\ Running(s) /\ scan[s].left = {} /\ scan[s].todo = {} /\ Inserts(s)
        /\ reports' = reports \cup Open(s) /\ UNCHANGED <<host, baseline, rules>>
    BY DEF CommitScan, Open
  <1>5. Mine(s) = {} /\ \A x \in Open(s) : x.scan = s
    BY <1>4 DEF FirmwareInv, CommittedOK, TurnOK, Running
  <1>6. Mine(s)' = Open(s)
    BY <1>4, <1>5 DEF Mine
  <1>7. TurnOK(s)' /\ Covered(s)' /\ RulesKept(s)'
    BY <1>1, <1>3 DEF TurnOK, Covered, RulesKept, Open, Running
  <1>8. CommittedOK(s)'
    <2>1. \A p \in scan[s].steady :
            \E x \in Open(s) : x.host = p[1] /\ x.baseline = p[2]
      BY <1>4 DEF FirmwareInv, Covered, Reported
    <2>2. \A b \in Baselines : Universal(s, b) =>
            \A r1, r2 \in Open(s) :
              r1.baseline = b /\ r2.baseline = b => r1.rules = r2.rules
      BY DEF FirmwareInv, RulesKept
    <2>3. \A b \in Baselines : Universal(s, b)' => Universal(s, b)
      BY <1>1, <1>3 DEF Universal
    <2> QED BY <1>1, <1>3, <1>6, <2>1, <2>2, <2>3 DEF CommittedOK
  <1>9. Open(s) \subseteq ReportRows
    BY DEF FirmwareInv, ScanRow, Open
  <1>10. \A x \in reports' \cup r.flushed : x.host \in host /\ x.baseline \in Live
    BY <1>3, <1>4 DEF FirmwareInv, KeysOK, Inserts, Open
  <1>11. reports' \subseteq ReportRows /\ reports \subseteq reports'
         /\ \A x \in reports' \ reports : x.scan = s
    BY <1>4, <1>5, <1>9 DEF FirmwareInv, TablesOK
  <1> QED BY <1>1, <1>2, <1>4, <1>7, <1>8, <1>10, <1>11, ScanStep

LEMMA FirmwareCrashInv == FirmwareInv /\ FirmwareCrash => FirmwareInv'
  <1> SUFFICES ASSUME FirmwareInv, FirmwareCrash PROVE FirmwareInv' OBVIOUS
  <1>1. UNCHANGED <<host, baseline, rules, reports>>
    BY DEF FirmwareCrash
  <1>2. ASSUME NEW s \in Scans
        PROVE  /\ TurnOK(s)' /\ Covered(s)' /\ RulesKept(s)' /\ CommittedOK(s)'
               /\ scan'[s] \in ScanRow /\ scan'[s].flushed \subseteq scan[s].flushed
    <2>1. CASE Running(s)
      BY <1>1, <2>1, LostScan DEF FirmwareCrash
    <2>2. CASE ~Running(s)
      <3>1. scan'[s] = scan[s] /\ Mine(s)' = Mine(s)
        BY <1>1, <2>2 DEF FirmwareCrash, Mine
      <3> QED BY <1>1, <3>1, SameScan DEF FirmwareInv
    <2> QED BY <2>1, <2>2
  <1>3. scan' \in [Scans -> ScanRow]
    <2>1. scan' = [s \in Scans |-> scan'[s]]
      BY DEF FirmwareCrash
    <2> QED BY <1>2, <2>1
  <1>4. KeysOK'
    BY <1>1, <1>2 DEF FirmwareInv, KeysOK, Live
  <1> QED BY <1>1, <1>2, <1>3, <1>4 DEF FirmwareInv, TablesOK

LEMMA NextFirmwareInv == FirmwareInv /\ [FirmwareNext]_firmwareVars => FirmwareInv'
  <1> SUFFICES ASSUME FirmwareInv, [FirmwareNext]_firmwareVars PROVE FirmwareInv'
    OBVIOUS
  <1>1. ASSUME NEW b \in Baselines,
               CreateBaseline(b) \/ UpdateBaseline(b) \/ DeleteBaseline(b)
        PROVE  FirmwareInv'
    BY <1>1, CreateBaselineInv, UpdateBaselineInv, DeleteBaselineInv
  <1>2. ASSUME NEW s \in Scans, Scan(s)
        PROVE  FirmwareInv'
    <2>1. ASSUME NEW h \in Hosts, CheckOne(s, h) PROVE FirmwareInv'
      BY <2>1, BeginInv DEF CheckOne
    <2>2. CASE CheckAll(s)
      BY <2>2, BeginInv DEF CheckAll, FirmwareInv, TablesOK
    <2> QED
      BY <1>2, <2>1, <2>2, FindBaselinesInv, JudgeInv, JudgeRaisesInv, ScanLostInv,
         CommitScanInv DEF Scan, FlushFails
  <1>3. CASE UNCHANGED firmwareVars
    <2>1. \A s \in Scans : TurnOK(s)' /\ Covered(s)' /\ RulesKept(s)' /\ CommittedOK(s)'
      BY <1>3, SameScan DEF firmwareVars, Mine
    <2> QED BY <1>3, <2>1 DEF firmwareVars, FirmwareInv, TablesOK, KeysOK, Live
  <1> QED BY <1>1, <1>2, <1>3, DeleteHostInv, FirmwareCrashInv DEF FirmwareNext

LEMMA FirmwareInductive == FirmwareSpec => []FirmwareInv
  BY InitFirmwareInv, NextFirmwareInv, PTL DEF FirmwareSpec

-----------------------------------------------------------------------------
(* The rows and the scans keep their types, and a session that has ended    *)
(* has nothing left, whatever is edited or deleted meanwhile.               *)
THEOREM FirmwareTypesHold == FirmwareSpec => []FirmwareTypeOK
  <1>1. FirmwareInv => FirmwareTypeOK
    <2> SUFFICES ASSUME FirmwareInv PROVE FirmwareTypeOK OBVIOUS
    <2>1. ASSUME NEW s \in Scans
          PROVE  /\ scan[s].pc \in {"idle", "run", "committed", "lost"}
                 /\ scan[s].todo \subseteq scan[s].asked /\ scan[s].asked \subseteq Hosts
                 /\ scan[s].left \subseteq DOMAIN scan[s].held
                 /\ scan[s].pending \cup scan[s].flushed \subseteq ReportRows
                 /\ ~Running(s) => scan[s].flushed = {} /\ scan[s].held = << >>
      <3>1. scan[s] \in ScanRow /\ TurnOK(s)
        BY DEF FirmwareInv
      <3> QED BY <3>1 DEF ScanRow, TurnOK, Open
    <2> QED BY <2>1 DEF FirmwareInv, TablesOK, FirmwareTypeOK
  <1> QED BY <1>1, FirmwareInductive, PTL

(* Reports never outlive or precede the machine and the baseline they are   *)
(* about, however a deletion falls between the steps of a scan.             *)
THEOREM ReportsAreAnchored == FirmwareSpec => []ReportsKeepTheirRows
  <1>1. FirmwareInv => ReportsKeepTheirRows
    BY DEF FirmwareInv, KeysOK, ReportsKeepTheirRows
  <1> QED BY <1>1, FirmwareInductive, PTL

(* A scan's reports come as a whole or not at all: trigger_compliance_check *)
(* commits once, after the last machine.                                    *)
THEOREM ScansAreWhole == FirmwareSpec => []ScanIsComplete
  <1>1. FirmwareInv => ScanIsComplete
    BY DEF FirmwareInv, CommittedOK, Mine, ScanIsComplete
  <1> QED BY <1>1, FirmwareInductive, PTL

(* A scan judges by one version of the rules of a baseline that applies to  *)
(* every machine, however often it is edited under way.                     *)
THEOREM RulesAreStable == FirmwareSpec => []OneRuleSet
  <1>1. FirmwareInv => OneRuleSet
    <2> SUFFICES ASSUME FirmwareInv, NEW s \in Scans, NEW b \in Baselines,
                        Universal(s, b),
                        NEW r1 \in reports \cup Open(s), NEW r2 \in reports \cup Open(s),
                        r1.scan = s, r2.scan = s, r1.baseline = b, r2.baseline = b
                 PROVE  r1.rules = r2.rules
      BY DEF OneRuleSet, Universal, Open
    <2>1. CASE Running(s)
      <3>1. Mine(s) = {}
        BY <2>1 DEF FirmwareInv, CommittedOK, Running
      <3>2. r1 \in Open(s) /\ r2 \in Open(s)
        BY <3>1 DEF Mine
      <3> QED BY <3>2 DEF FirmwareInv, RulesKept
    <2>2. CASE ~Running(s)
      <3>1. r1 \in Mine(s) /\ r2 \in Mine(s)
        BY <2>2 DEF FirmwareInv, TurnOK, Mine
      <3> QED BY <3>1 DEF FirmwareInv, CommittedOK
    <2> QED BY <2>1, <2>2
  <1> QED BY <1>1, FirmwareInductive, PTL
=============================================================================
