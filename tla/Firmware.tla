------------------------------ MODULE Firmware ------------------------------
(***************************************************************************)
(* Firmware compliance (app/api/firmware.py): a scan judges machines by the *)
(* baselines that apply to them and commits its reports together. It runs  *)
(* for minutes, calling BMCs, while baselines are edited and rows deleted.  *)
(* Its session writes a machine's reports when it selects the baselines of  *)
(* the next (autoflush), and keeps an object that is still referenced as it *)
(* was first loaded (identity map). A baseline is seen through is_active    *)
(* and the version of its filters and rules; what a machine is found to run *)
(* is left out.                                                             *)
(***************************************************************************)
EXTENDS Naturals, FiniteSets, Functions

CONSTANTS
  Hosts,      \* machines
  Baselines,  \* primary keys of firmware_baselines, never given out again
  Versions,   \* versions of what a baseline says: filters and rules
  Applies,    \* the pairs that vendor_filter and model_filter let match
  NoRules,    \* the versions whose rules a PATCH has set to null
  Scans       \* scans, each run once

ASSUME AppliesAssumption == Applies \subseteq Hosts \X Versions
ASSUME VersionsAssumption == NoRules \subseteq Versions /\ Versions \ NoRules # {}

VARIABLES
  host,      \* the machines that exist
  baseline,  \* "none", "active", "inactive" or "deleted"
  rules,     \* the version of its filters and rules
  reports,   \* the committed rows of compliance_reports
  scan       \* the scans

firmwareVars == <<host, baseline, rules, reports, scan>>

ReportRows == [scan : Scans, host : Hosts, baseline : Baselines, rules : Versions]

(* single: checks one machine, as the answer to a request; todo: the        *)
(* machines still to check; at, left: the machine in turn and its baselines *)
(* still to judge; held: the versions of the baselines that the session     *)
(* references; pending and flushed: reports not yet committed; asked: the   *)
(* machines of the scan; steady: those of them, each with the baselines     *)
(* that have been fit to judge it ever since the scan began.                *)
NewScan == [pc |-> "idle", single |-> FALSE, todo |-> {}, at |-> {}, left |-> {},
            held |-> << >>, pending |-> {}, flushed |-> {}, asked |-> {},
            steady |-> {}]

Live == {b \in Baselines : baseline[b] \in {"active", "inactive"}}
Active == {b \in Baselines : baseline[b] = "active"}
Running(s) == scan[s].pc = "run"

Matched(v) == {h \in Hosts : <<h, v>> \in Applies}
Fit(v) == IF v \in NoRules THEN {} ELSE Matched(v)

FirmwareInit ==
  /\ host = Hosts
  /\ baseline = [b \in Baselines |-> "none"]
  /\ rules = [b \in Baselines |-> CHOOSE v \in Versions \ NoRules : TRUE]
  /\ reports = {}
  /\ scan = [s \in Scans |-> NewScan]

-----------------------------------------------------------------------------
(* Baselines and machines                                                   *)

CreateBaseline(b) ==
  /\ baseline[b] = "none"
  /\ \E status \in {"active", "inactive"}, v \in Versions \ NoRules :
       /\ baseline' = [baseline EXCEPT ![b] = status]
       /\ rules' = [rules EXCEPT ![b] = v]
  /\ UNCHANGED <<host, reports, scan>>

(* From now on b is fit to judge these machines only.                       *)
FitsOnly(b, hosts) ==
  scan' = [s \in Scans |-> [scan[s] EXCEPT !.steady =
             IF Running(s) THEN {p \in @ : p[2] = b => p[1] \in hosts} ELSE @]]

(* Each field of the payload is optional; what equals the copy that the     *)
(* request has loaded is not written. A null for the rules is stored as     *)
(* JSON null, which the column accepts.                                     *)
UpdateBaseline(b) ==
  /\ b \in Live
  /\ \E status \in {"active", "inactive"}, v \in Versions :
       /\ baseline' = [baseline EXCEPT ![b] = status]
       /\ rules' = [rules EXCEPT ![b] = v]
       /\ FitsOnly(b, IF status = "active" THEN Fit(v) ELSE {})
  /\ UNCHANGED <<host, reports>>

(* Mutant: the foreign key does not count rows of open transactions.        *)
DeleteBaselineAtOnce(b) ==
  /\ b \in Live
  /\ \A r \in reports : r.baseline # b
  /\ baseline' = [baseline EXCEPT ![b] = "deleted"]
  /\ FitsOnly(b, {})
  /\ UNCHANGED <<host, rules, reports>>

(* The DELETE waits for the transactions that have inserted reports of the  *)
(* row, and raises when there is one.                                       *)
DeleteBaseline(b) ==
  /\ b \in Live
  /\ \A s \in Scans : \A r \in scan[s].flushed : r.baseline # b
  /\ \A r \in reports : r.baseline # b                           \* else a 500
  /\ baseline' = [baseline EXCEPT ![b] = "deleted"]
  /\ FitsOnly(b, {})
  /\ UNCHANGED <<host, rules, reports>>

(* delete_machine, for which the same holds, of a machine whose state lets  *)
(* it be deleted.                                                           *)
DeleteHost(h) ==
  /\ h \in host
  /\ \A s \in Scans : \A r \in scan[s].flushed : r.host # h
  /\ \A r \in reports : r.host # h
  /\ host' = host \ {h}
  /\ UNCHANGED <<baseline, rules, reports, scan>>

-----------------------------------------------------------------------------
(* A scan                                                                   *)

Begin(s, hosts, single) ==
  /\ scan[s].pc = "idle"
  /\ scan' = [scan EXCEPT ![s] =
       [NewScan EXCEPT !.pc = "run", !.single = single, !.todo = hosts,
          !.asked = hosts,
          !.steady = {p \in hosts \X Active : p[1] \in Fit(rules[p[2]])}]]
  /\ UNCHANGED <<host, baseline, rules, reports>>

(* run_compliance_check, which answers 404 when no active baseline matches. *)
CheckOne(s, h) ==
  /\ h \in host
  /\ \E b \in Active : h \in Matched(rules[b])
  /\ Begin(s, {h}, TRUE)

(* trigger_compliance_check_all: the machines that are enrolled or ready,   *)
(* whichever they are.                                                      *)
CheckAll(s) == \E hosts \in SUBSET host : Begin(s, hosts, FALSE)

Inserts(s) == \A r \in scan[s].pending : r.host \in host /\ r.baseline \in Live

(* The INSERT of a report whose machine or baseline is gone raises, outside *)
(* of the try: the transaction is rolled back with the whole scan.          *)
ScanLost(s) == [scan EXCEPT ![s] = [NewScan EXCEPT !.pc = "lost"]]

FlushFails(s) ==
  /\ Running(s) /\ scan[s].left = {}
  /\ ~Inserts(s)
  /\ scan' = ScanLost(s)
  /\ UNCHANGED <<host, baseline, rules, reports>>

(* A select returns objects that are referenced as they are, filters and    *)
(* all; only is_active is asked of the database.                            *)
Copy(s, b) == IF b \in DOMAIN scan[s].held THEN scan[s].held[b] ELSE rules[b]
Matching(s, h) == {b \in Active : h \in Matched(Copy(s, b))}

(* _find_matching_baselines for the next machine. Until it returns, the     *)
(* list of the machine before is referenced; when there is none to judge,   *)
(* the loop variable still references the one judged last.                  *)
References(s, list) ==
  LET held == scan[s].held
  IN IF list # {}
     THEN {[b \in list |-> Copy(s, b)]}
     ELSE {Restrict(held, one) : one \in {o \in SUBSET DOMAIN held :
             Cardinality(o) = (IF held = << >> THEN 0 ELSE 1)}}

(* Mutant: every select reads the rows anew.                                *)
FindBaselinesAnew(s) ==
  /\ Running(s) /\ scan[s].left = {}
  /\ Inserts(s)
  /\ \E h \in scan[s].todo :
       LET list == {b \in Active : h \in Matched(rules[b])}
       IN scan' = [scan EXCEPT ![s].todo = @ \ {h}, ![s].at = {h}, ![s].left = list,
                     ![s].held = [b \in list |-> rules[b]],
                     ![s].flushed = @ \cup scan[s].pending, ![s].pending = {}]
  /\ UNCHANGED <<host, baseline, rules, reports>>

FindBaselines(s) ==
  /\ Running(s) /\ scan[s].left = {}
  /\ Inserts(s)
  /\ \E h \in scan[s].todo : \E held \in References(s, Matching(s, h)) :
       scan' = [scan EXCEPT ![s].todo = @ \ {h}, ![s].at = {h},
                  ![s].left = Matching(s, h), ![s].held = held,
                  ![s].flushed = @ \cup scan[s].pending, ![s].pending = {}]
  /\ UNCHANGED <<host, baseline, rules, reports>>

(* Mutant: a machine whose BMC does not answer gets no report.              *)
JudgeUnlessUnreachable(s) ==
  /\ Running(s)
  /\ \E b \in scan[s].left, h \in scan[s].at, answers \in BOOLEAN :
       /\ scan[s].held[b] \notin NoRules
       /\ scan' = [scan EXCEPT ![s].left = @ \ {b},
                     ![s].pending = IF answers
                       THEN @ \cup {[scan |-> s, host |-> h, baseline |-> b,
                                     rules |-> scan[s].held[b]]} ELSE @]
  /\ UNCHANGED <<host, baseline, rules, reports>>

(* _check_machine_compliance: a report, compliant or not, also when the BMC *)
(* does not answer.                                                         *)
Judge(s) ==
  /\ Running(s)
  /\ \E b \in scan[s].left, h \in scan[s].at :
       /\ scan[s].held[b] \notin NoRules
       /\ scan' = [scan EXCEPT ![s].left = @ \ {b},
                     ![s].pending = @ \cup {[scan |-> s, host |-> h, baseline |-> b,
                                             rules |-> scan[s].held[b]]}]
  /\ UNCHANGED <<host, baseline, rules, reports>>

(* Without rules it raises. A scan of the fleet logs that and goes on, a    *)
(* request fails with a 500.                                                *)
JudgeRaises(s) ==
  /\ Running(s)
  /\ \E b \in scan[s].left :
       /\ scan[s].held[b] \in NoRules
       /\ scan' = IF scan[s].single THEN ScanLost(s)
                  ELSE [scan EXCEPT ![s].left = @ \ {b}]
  /\ UNCHANGED <<host, baseline, rules, reports>>

(* Mutant: the references survive the session.                              *)
CommitKeepsScan(s) ==
  /\ Running(s) /\ scan[s].left = {} /\ scan[s].todo = {}
  /\ Inserts(s)
  /\ reports' = reports \cup scan[s].flushed \cup scan[s].pending
  /\ scan' = [scan EXCEPT ![s].pc = "committed"]
  /\ UNCHANGED <<host, baseline, rules>>

CommitScan(s) ==
  /\ Running(s) /\ scan[s].left = {} /\ scan[s].todo = {}
  /\ Inserts(s)
  /\ reports' = reports \cup scan[s].flushed \cup scan[s].pending
  /\ scan' = [scan EXCEPT ![s] = [NewScan EXCEPT !.pc = "committed",
                                    !.asked = scan[s].asked,
                                    !.steady = scan[s].steady]]
  /\ UNCHANGED <<host, baseline, rules>>

(* The server dies, and the open transactions with it.                      *)
FirmwareCrash ==
  /\ \E s \in Scans : Running(s)
  /\ scan' = [s \in Scans |->
                IF Running(s) THEN [NewScan EXCEPT !.pc = "lost"] ELSE scan[s]]
  /\ UNCHANGED <<host, baseline, rules, reports>>

Scan(s) ==
  \/ \E h \in Hosts : CheckOne(s, h)
  \/ CheckAll(s)
  \/ FindBaselines(s) \/ Judge(s) \/ JudgeRaises(s) \/ FlushFails(s) \/ CommitScan(s)

FirmwareNext ==
  \/ \E b \in Baselines : CreateBaseline(b) \/ UpdateBaseline(b) \/ DeleteBaseline(b)
  \/ \E h \in Hosts : DeleteHost(h)
  \/ \E s \in Scans : Scan(s)
  \/ FirmwareCrash

FirmwareSpec == FirmwareInit /\ [][FirmwareNext]_firmwareVars

-----------------------------------------------------------------------------
(* Properties                                                               *)

(* The rows and the scans have their types; a session that has ended has    *)
(* nothing left.                                                            *)
FirmwareTypeOK ==
  /\ host \subseteq Hosts
  /\ baseline \in [Baselines -> {"none", "active", "inactive", "deleted"}]
  /\ rules \in [Baselines -> Versions]
  /\ reports \subseteq ReportRows
  /\ \A s \in Scans :
       /\ scan[s].pc \in {"idle", "run", "committed", "lost"}
       /\ scan[s].todo \subseteq scan[s].asked /\ scan[s].asked \subseteq Hosts
       /\ scan[s].left \subseteq DOMAIN scan[s].held
       /\ scan[s].pending \cup scan[s].flushed \subseteq ReportRows
       /\ ~Running(s) => scan[s].flushed = {} /\ scan[s].held = << >>

(* A scan leaves reports only when it has come to its end, and then one for *)
(* every machine it was asked about and every baseline that was fit to      *)
(* judge it all along: neither BMCs that do not answer, nor baselines that  *)
(* raise, nor edits, deletions and crashes in the middle leave a part of it.*)
ScanIsComplete ==
  \A s \in Scans :
    LET mine == {r \in reports : r.scan = s}
    IN IF scan[s].pc = "committed"
       THEN \A p \in scan[s].steady :
              \E r \in mine : r.host = p[1] /\ r.baseline = p[2]
       ELSE mine = {}

(* Every report is about a machine and a baseline that exist, however a     *)
(* deletion falls between the steps of a scan.                              *)
ReportsKeepTheirRows == \A r \in reports : r.host \in host /\ r.baseline \in Live

(* A scan judges all its machines by the same version of a baseline that    *)
(* was fit to judge every one of them all along, though it is edited while  *)
(* the scan runs. (A baseline that skips a machine may be loaded anew for   *)
(* the one after it.)                                                       *)
OneRuleSet ==
  \A s \in Scans : \A b \in Baselines :
    (\A h \in scan[s].asked : <<h, b>> \in scan[s].steady) =>
      \A r1, r2 \in reports \cup scan[s].flushed \cup scan[s].pending :
        r1.scan = s /\ r2.scan = s /\ r1.baseline = b /\ r2.baseline = b
          => r1.rules = r2.rules
=============================================================================
