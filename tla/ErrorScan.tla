----------------------------- MODULE ErrorScan -----------------------------
(***************************************************************************)
(* The error alerts: run_error_scan of sentinel/scan_errors.py asks Loki   *)
(* for the newest QueryLimit error lines of a window that reaches back     *)
(* over the last scans, and apply_findings announces at most MaxSends new  *)
(* fingerprints a cycle.  Fingerprints of critical lines are followed one  *)
(* by one; the others are a crowd of any size.                             *)
(***************************************************************************)
EXTENDS Integers, FiniteSets

CONSTANTS
  Criticals,      \* fingerprints of critical lines
  ErrorWindow,    \* sentinel_error_window_minutes
  ErrorInterval,  \* sentinel_error_alert_interval
  Drift,          \* bound: how much longer than the interval a round of the job takes
  QueryLimit,     \* sentinel_error_query_limit
  MaxSends,       \* sentinel_error_max_per_cycle
  Crowd,          \* bound: other new fingerprints in a scan
  ErrorCooldown   \* sentinel_event_cooldown_hours

ASSUME ErrorAssumption ==
  /\ {ErrorWindow, ErrorInterval, QueryLimit, MaxSends} \subseteq Nat \ {0}
  /\ {Drift, Crowd, ErrorCooldown} \subseteq Nat
  /\ IsFiniteSet(Criticals)
  /\ ErrorInterval + Drift <= ErrorWindow

VARIABLES
  lineAge,    \* the age of the last line of a fingerprint
  newer,      \* lines of any kind logged after it, counted up to QueryLimit
  cooling,    \* time left of its cooldown
  sinceScan,  \* time since the last scan
  fate        \* history: whether a scan dealt with that line, or passed it over

errorVars == <<lineAge, newer, cooling, sinceScan, fate>>

ErrorTypeOK ==
  /\ lineAge \in [Criticals -> 0..ErrorWindow + 1]
  /\ newer \in [Criticals -> 0..QueryLimit]
  /\ cooling \in [Criticals -> 0..ErrorCooldown]
  /\ sinceScan \in 0..(ErrorInterval + Drift)
  /\ fate \in [Criticals -> {"new", "passed", "dealt"}]

ErrorInit ==
  /\ lineAge = [f \in Criticals |-> ErrorWindow + 1] /\ newer = [f \in Criticals |-> 0]
  /\ cooling = [f \in Criticals |-> 0] /\ sinceScan = 0
  /\ fate = [f \in Criticals |-> "dealt"]

Shorter(m, n) == IF m < n THEN m ELSE n

Buries(fs) == [f \in Criticals |-> IF f \in fs THEN Shorter(newer[f] + 1, QueryLimit) ELSE 0]

(* The newest line of the fingerprint is the one followed.                  *)
LineLogged(f) ==
  /\ lineAge' = [lineAge EXCEPT ![f] = 0] /\ newer' = Buries(Criticals \ {f})
  /\ fate' = [fate EXCEPT ![f] = "new"]
  /\ UNCHANGED <<cooling, sinceScan>>

(* Any other line that the query matches.                                   *)
OtherLogged == newer' = Buries(Criticals) /\ UNCHANGED <<lineAge, cooling, sinceScan, fate>>

Minute ==
  /\ sinceScan < ErrorInterval + Drift /\ sinceScan' = sinceScan + 1
  /\ lineAge' = [f \in Criticals |-> Shorter(lineAge[f] + 1, ErrorWindow + 1)]
  /\ cooling' = [f \in Criticals |-> IF cooling[f] > 0 THEN cooling[f] - 1 ELSE 0]
  /\ UNCHANGED <<newer, fate>>

(* The query answers backward, from the newest line on.                     *)
InWindow == {f \in Criticals : lineAge[f] <= ErrorWindow}
Found == {f \in InWindow : newer[f] < QueryLimit}

(* How many of the crowd are announced before the critical ones: the        *)
(* findings are sorted.                                                     *)
(* Mutant: they come as they were found.                                    *)
AheadUnsorted(crowd) == crowd
Ahead(crowd) == 0

(* What a scan makes of the lines: of those it told of or found cooling,    *)
(* and of those it lost, did not see, or kept back with the cap full.       *)
Passed(fs) == [f \in Criticals |-> IF f \in fs /\ fate[f] = "new" THEN "passed" ELSE fate[f]]

Scanned(sent, lost, full) ==
  LET over == lost \cup (InWindow \ Found) \cup (IF full THEN Found ELSE {})
  IN [f \in Criticals |-> IF f \in sent \/ (f \in Found /\ cooling[f] > 0) THEN "dealt"
                          ELSE Passed(over)[f]]

(* Lost messages do not count against the cap, an event whose insert fails  *)
(* does.                                                                    *)
ErrorScanned ==
  /\ sinceScan >= ErrorInterval /\ sinceScan' = 0
  /\ \E lost \in SUBSET {f \in Found : cooling[f] = 0}, crowd \in 0..Crowd :
       LET fresh == {f \in Found : cooling[f] = 0} \ lost
       IN \E sent \in SUBSET fresh : \E stored \in SUBSET sent :
            /\ Cardinality(sent)
                 = Shorter(Cardinality(fresh), MaxSends - Shorter(Ahead(crowd), MaxSends))
            /\ cooling' = [f \in Criticals |-> IF f \in stored THEN ErrorCooldown ELSE cooling[f]]
            /\ fate' = Scanned(sent, lost, Cardinality(sent) = MaxSends)
  /\ UNCHANGED <<lineAge, newer>>

ErrorScanFails ==
  /\ sinceScan >= ErrorInterval /\ sinceScan' = 0
  /\ fate' = Passed(InWindow)
  /\ UNCHANGED <<lineAge, newer, cooling>>

ErrorNext ==
  (\E f \in Criticals : LineLogged(f)) \/ OtherLogged \/ Minute \/ ErrorScanned \/ ErrorScanFails

-----------------------------------------------------------------------------
(* No critical line leaves the window before a scan dealt with it, told of  *)
(* it or found it in its cooldown, or passed it over for a reason of its    *)
(* own: it failed, lost the message, told of as many critical ones as it    *)
(* may, or had QueryLimit newer lines to read.  Neither a late round of the *)
(* job nor any number of other fingerprints makes one slip through.         *)
NoLineSlips == \A f \in Criticals : lineAge[f] > ErrorWindow => fate[f] # "new"
=============================================================================
