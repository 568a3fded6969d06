----------------------------- MODULE PatrolJobs -----------------------------
(***************************************************************************)
(* The patrol ticks of sentinel/app.py as callers of the event machine:    *)
(* what a tick scans, what it puts in scope, what it holds, and the        *)
(* consecutive-failure counters that turn a blind data source into an      *)
(* event of its own (the scan_failed rules).                               *)
(*                                                                         *)
(* A scan is one step: its findings are the condition of the subjects at   *)
(* one instant, now_ts is up to MaxLag older.  Point rules have no         *)
(* recovery and no bearing on scopes; they are left to EventEngine.        *)
(***************************************************************************)
EXTENDS EventEngine, SequencesExt

CONSTANTS
  Counted,   \* jobs with a failure counter: metrics, logs, docker
  Piecewise, \* jobs whose rules are evaluated one by one: hygiene
  FailKey,   \* for a counted job, the key of its scan_failed rule
  Fragile,   \* counted jobs with store calls after the scan: docker
  Optional,  \* rules a configuration may leave out: middleware_down, backup_stale
  Losable,   \* keys whose subject a successful scan may not see
  Holding,   \* rules whose tick holds the subjects it did not see
  Threshold  \* sentinel_scan_fail_threshold

ASSUME PatrolAssumption ==
  /\ Counted \subseteq Jobs /\ Piecewise \subseteq Jobs \ Counted
  /\ FailKey \in [Counted -> Keys]
  /\ \A j \in Counted : Owner[RuleOf[FailKey[j]]] = j /\ RuleOf[FailKey[j]] \notin Optional
  /\ \A j \in Counted, k \in Keys : RuleOf[k] = RuleOf[FailKey[j]] => k = FailKey[j]
  /\ Fragile \subseteq Counted
  /\ Optional \subseteq Rules /\ Holding \subseteq Rules
  /\ Losable \subseteq Keys \ {FailKey[j] : j \in Counted}
  /\ Threshold \in Nat \ {0}
  /\ IsFiniteSet(Keys)
  /\ \A j \in Jobs : Cardinality({k \in Keys : Owner[RuleOf[k]] = j}) <= MaxFindings

VARIABLES
  bad,     \* keys whose condition is violated in the world
  up,      \* jobs whose data source answers
  visible, \* keys whose subject can be evaluated (container listed, handshake made)
  off,     \* optional rules this process is not configured to check
  fails,   \* scan_fails: consecutive failures, counted up to Threshold
  seen     \* history: what the last evaluation of a key found

world == <<bad, up, visible>>
patrol == <<world, off, fails, seen>>
patrolVars == <<vars, patrol>>

Conditions == Keys \ {FailKey[j] : j \in Counted}
OpenKeys == {r.key : r \in rows}

PatrolTypeOK ==
  /\ bad \subseteq Conditions
  /\ up \subseteq Jobs
  /\ visible \subseteq Conditions
  /\ off \subseteq Optional
  /\ fails \in [Counted -> 0..Threshold]
  /\ seen \in [Keys -> {"never", "ok", "bad", "gone"}]

PatrolInit ==
  /\ Init
  /\ bad = {} /\ up = Jobs /\ visible = Conditions
  /\ off \in SUBSET Optional
  /\ fails = [j \in Counted |-> 0]
  /\ seen = [k \in Keys |-> "never"]

-----------------------------------------------------------------------------
(* Ticks.                                                                  *)

OwnRules(j) == {r \in Rules : Owner[r] = j}

(* What a whole scan checks, and what its tick then puts in scope: both    *)
(* leave out what is not configured.                                       *)
Checked(j) == OwnRules(j) \ off
ScopeOf(j) == OwnRules(j) \ off

Evaluated(rules) == {k \in visible : RuleOf[k] \in rules}

Findings(keys) ==
  LET order == SetToSeq(keys) IN
  [i \in DOMAIN order |-> [key |-> order[i], immediate |-> TRUE \in Urgency[order[i]]]]

HoldOpen(rules) == {k \in OpenKeys \cap Losable : RuleOf[k] \in rules} \* mutant
(* hold: the open events of evaluated rules whose subject was not seen.    *)
Hold(rules) == {k \in (OpenKeys \cap Losable) \ visible : RuleOf[k] \in rules \cap Holding}

(* Subjects that a successful check of the rules did not list.             *)
Unlisted(rules) == {k \in Losable \ visible : RuleOf[k] \in rules}

(* What a scan found of the keys it evaluated; and those that are gone for *)
(* it: not listed, by a tick that does not hold what is not listed.        *)
Sees(keys, gone) ==
  seen' = [k \in Keys |-> IF k \in gone THEN "gone"
                          ELSE IF k \notin keys THEN seen[k]
                          ELSE IF k \in bad THEN "bad" ELSE "ok"]

ScanOk(j) ==
  /\ j \in Counted /\ j \in up
  /\ \E age \in 0..MaxLag :
       Begin(j, ScopeOf(j), Hold(ScopeOf(j)), Findings(Evaluated(Checked(j)) \cap bad), age)
  /\ fails' = [fails EXCEPT ![j] = 0]
  /\ Sees(Evaluated(Checked(j)) \cup {FailKey[j]}, Unlisted(Checked(j) \ Holding))
  /\ UNCHANGED <<world, off>>

CountAnew(n) == 1 \* mutant: reset by the failure itself
Count(n) == IF n < Threshold THEN n + 1 ELSE Threshold

FailScopeAlways(j, n) == {RuleOf[FailKey[j]]} \* mutant: below the threshold too
FailScopeNever(j, n) == {} \* mutant: scope.add forgotten
FailScope(j, n) == IF n >= Threshold THEN {RuleOf[FailKey[j]]} ELSE {}
FailKeys(j, n) == IF n >= Threshold THEN {FailKey[j]} ELSE {}

ScanError(j) ==
  /\ j \in Counted /\ j \notin up
  /\ LET n == Count(fails[j]) IN
     /\ fails' = [fails EXCEPT ![j] = n]
     /\ \E age \in 0..MaxLag : Begin(j, FailScope(j, n), {}, Findings(FailKeys(j, n)), age)
  /\ seen' = [seen EXCEPT ![FailKey[j]] = "bad"]
  /\ UNCHANGED <<world, off>>

(* docker_tick: the scan is done and its rules are in scope when the store *)
(* fails, in the crash-loop detection with the holds made, or before, when *)
(* the open events to hold are read; the counter, reset, goes to 1.        *)
ScanBreaks(j) ==
  LET hits == Evaluated(Checked(j)) \cap bad IN
  /\ j \in Fragile /\ j \in up
  /\ \E holding \in {Holding, {}}, age \in 0..MaxLag :
       /\ Begin(j, ScopeOf(j), Hold(ScopeOf(j) \cap holding),
                Findings(hits) \o Findings(FailKeys(j, 1)), age)
       /\ Sees(Evaluated(Checked(j)) \cup {FailKey[j]}, Unlisted(Checked(j) \ holding))
  /\ fails' = [fails EXCEPT ![j] = 1]
  /\ UNCHANGED <<world, off>>

(* run_hygiene: a check that fails, or is not enabled, takes its rule out  *)
(* of the scope; no counter.                                               *)
ScanPieces(j) ==
  /\ j \in Piecewise
  /\ \E rules \in SUBSET Checked(j) :
       /\ j \in up => rules = Checked(j)
       /\ \E age \in 0..MaxLag :
            Begin(j, rules, Hold(rules), Findings(Evaluated(rules) \cap bad), age)
       /\ Sees(Evaluated(rules), Unlisted(rules \ Holding))
  /\ UNCHANGED <<world, off, fails>>

(* The process restarts with fresh counters, perhaps configured otherwise. *)
Restart ==
  /\ Crash
  /\ off' \in SUBSET Optional
  /\ fails' = [j \in Counted |-> 0]
  /\ UNCHANGED <<world, seen>>

World ==
  /\ loop = NoJob
  /\ \/ \E k \in Conditions : bad' = SymDiff(bad, {k}) /\ UNCHANGED <<up, visible>>
     \/ \E j \in Jobs : up' = SymDiff(up, {j}) /\ UNCHANGED <<bad, visible>>
     \/ \E k \in Losable : visible' = SymDiff(visible, {k}) /\ UNCHANGED <<bad, up>>
  /\ UNCHANGED <<vars, off, fails, seen>>

Scan(j) == ScanOk(j) \/ ScanError(j) \/ ScanBreaks(j) \/ ScanPieces(j)

PatrolNext ==
  \/ \E j \in Jobs : Scan(j) \/ (Step(j) /\ UNCHANGED patrol)
  \/ Tick /\ UNCHANGED patrol
  \/ DigestSent /\ UNCHANGED patrol
  \/ Restart
  \/ World

PatrolSpec == PatrolInit /\ [][PatrolNext]_patrolVars

(* Every job is scheduled and its store calls and broadcasts do not fail   *)
(* for ever: an operation tried again and again succeeds in the end.       *)
Fairness ==
  /\ SF_patrolVars(Tick /\ UNCHANGED patrol)
  /\ \A j \in Jobs :
       /\ WF_patrolVars(Scan(j))
       /\ WF_patrolVars(Step(j) /\ UNCHANGED patrol)
       /\ SF_patrolVars(SendAlert(j) /\ UNCHANGED patrol)
       /\ SF_patrolVars(AlertDelivered(j) /\ UNCHANGED patrol)
       /\ SF_patrolVars(Enqueue(j) /\ UNCHANGED patrol)
       /\ SF_patrolVars(Insert(j) /\ UNCHANGED patrol)
       /\ SF_patrolVars(RecoveryDelivered(j) /\ UNCHANGED patrol)
       /\ SF_patrolVars(DeferRecovery(j) /\ UNCHANGED patrol)
       /\ SF_patrolVars(Resolve(j) /\ UNCHANGED patrol)

FairPatrolSpec == PatrolSpec /\ Fairness

-----------------------------------------------------------------------------
(* Properties.                                                             *)

(* An event is closed only on the word of a scan that succeeded, the last  *)
(* one of its rule: it found the subject in order, or it did not list the  *)
(* subject and the tick holds no such events, or could not read them.  A   *)
(* failing source, a check switched off, a held subject and a restart that *)
(* resets the failure counters close nothing ("not evaluated is not        *)
(* recovered", the README, of a source that fails or is switched off).     *)
NotScannedIsNotRecovered ==
  [][\A r \in rows \ rows' : seen[r.key] \in {"ok", "gone"}]_patrolVars

(* The ticks call the event machine only as it demands: findings and holds *)
(* of the scope, one cycle of a rule family at a time.                     *)
UsesEngineAsSpecified == Spec

(* A condition that is violated for good, and can be evaluated for good,   *)
(* is an open event in the end, over lost messages, failing store calls,   *)
(* and the cooldown of earlier events.                                     *)
OutageReported ==
  \A k \in Conditions :
    <>[](k \in bad \cap visible /\ Owner[RuleOf[k]] \in up /\ RuleOf[k] \notin off)
      => <>[](k \in OpenKeys)

(* A condition that is in order for good has no open event in the end.     *)
RecoveryReported ==
  \A k \in Conditions :
    <>[](k \in visible \ bad /\ Owner[RuleOf[k]] \in up /\ RuleOf[k] \notin off)
      => <>[](k \notin OpenKeys)

(* "The sentinel does not go blind in silence" (README): a data source     *)
(* that is down for good is an open scan_failed event in the end.          *)
BlindnessReported ==
  \A j \in Counted : <>[](j \notin up) => <>[](FailKey[j] \in OpenKeys)
=============================================================================
