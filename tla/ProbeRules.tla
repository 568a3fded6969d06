---------------------------- MODULE ProbeRules ----------------------------
(***************************************************************************)
(* The probe of one internal service: run_probe_cycle of sentinel/probe.py *)
(* and evaluate_probe_rules of sentinel/probe_rules.py over the samples of *)
(* the last hour, with the open events apply_findings makes of the         *)
(* findings and the hold.  Time is counted in probe intervals.             *)
(***************************************************************************)
EXTENDS Integers, Sequences, SequencesExt

CONSTANTS
  Hour,        \* the window of the rules, in probe intervals
  Streak,      \* sentinel_probe_fail_streak
  MinSamples,  \* sentinel_latency_min_samples
  Ratio,       \* sentinel_latency_ratio
  Margin,      \* sentinel_latency_margin_ms
  Latencies,   \* latencies of an answer
  Baselines    \* means of the daily 95th percentiles

ASSUME ProbeAssumption ==
  /\ {Hour, Streak, MinSamples} \subseteq Nat \ {0} /\ {Ratio, Margin} \subseteq Nat
  /\ Latencies \subseteq Nat \ {0} /\ Baselines \subseteq Nat \ {0}

VARIABLES
  samples,   \* probe_samples of the last hour, oldest first, with their age
  daily,     \* the mean of the last days in probe_daily, 0 for no row
  probeOpen  \* open events of the service

probeVars == <<samples, daily, probeOpen>>

Failed == 0  \* the latency of a sample that is not ok
Rules == {"service_down", "latency_degraded"}

ProbeTypeOK ==
  /\ \A n \in DOMAIN samples : /\ samples[n].age \in 0..Hour
                               /\ samples[n].latency \in Latencies \cup {Failed}
  /\ Len(samples) <= Hour + 1
  /\ daily \in Baselines \cup {0} /\ probeOpen \subseteq Rules

ProbeInit == samples = <<>> /\ daily = 0 /\ probeOpen = {}

-----------------------------------------------------------------------------
(* The rules, over the samples s of the service.                            *)

Ok(s) == s.latency # Failed
Suffix(s, n) == SubSeq(s, Len(s) - n + 1, Len(s))
Down(s) == Len(s) >= Streak /\ \A n \in DOMAIN Suffix(s, Streak) : ~Ok(Suffix(s, Streak)[n])
Answers(s) == SelectSeq(s, Ok)
TooFew(a) == Len(a) < MinSamples

(* The nearest rank.                                                        *)
Percentile95(a) ==
  LET AtMost(v) == Len(SelectSeq(a, LAMBDA s : s.latency <= v))
      enough == {v \in {a[n].latency : n \in DOMAIN a} : 100 * AtMost(v) >= 95 * Len(a)}
  IN CHOOSE v \in enough : \A w \in enough : v <= w

Greater(m, n) == IF m < n THEN n ELSE m
TooSlow(a) == Percentile95(a) > Greater(daily * Ratio, daily + Margin)

(* What a cycle finds, and what it has not determined.                      *)
FoundIn(s) ==
  IF Down(s) THEN {"service_down"}
  ELSE IF ~TooFew(Answers(s)) /\ daily # 0 /\ TooSlow(Answers(s))
       THEN {"latency_degraded"} ELSE {}

(* Mutant: what is down is not slow.                                        *)
HoldUnlessDown(s) ==
  (IF ~Down(s) /\ TooFew(Answers(s)) THEN {"latency_degraded"} ELSE {})
    \cup (IF ~Down(s) /\ ~Ok(Last(s)) THEN {"service_down"} ELSE {})

Hold(s) ==
  (IF Down(s) \/ TooFew(Answers(s)) THEN {"latency_degraded"} ELSE {})
    \cup (IF ~Down(s) /\ ~Ok(Last(s)) THEN {"service_down"} ELSE {})

Aged == SelectSeq([n \in DOMAIN samples |-> [samples[n] EXCEPT !.age = @ + 1]],
                  LAMBDA s : s.age <= Hour)

(* A cycle: the probe, its sample, the rules.  A finding opens an event     *)
(* unless its message is lost or its key is cooling down, and what is       *)
(* neither found nor held is closed unless the message is lost.             *)
ProbeTick ==
  \E latency \in Latencies \cup {Failed} :
    LET s == Append(Aged, [age |-> 0, latency |-> latency])
    IN /\ samples' = s
       /\ \E opened \in SUBSET (FoundIn(s) \ probeOpen) :
          \E closed \in SUBSET (probeOpen \ (FoundIn(s) \cup Hold(s))) :
            probeOpen' = (probeOpen \cup opened) \ closed
       /\ UNCHANGED daily

(* The process is down, or in another job, for an interval.                 *)
Gap == samples # <<>> /\ samples' = Aged /\ UNCHANGED <<daily, probeOpen>>

(* The row of a day, from samples the report keeps; it moves the mean.      *)
DayEnds == daily' \in Baselines /\ daily' # daily /\ UNCHANGED <<samples, probeOpen>>

ProbeNext == ProbeTick \/ Gap \/ DayEnds

-----------------------------------------------------------------------------
(* "Not evaluated is not recovered": an outage is closed only by a probe    *)
(* that was answered, a slow service only by enough answers of the hour     *)
(* that are fast against a baseline, although the case without a baseline   *)
(* holds nothing, and whatever samples a gap or an outage leaves.           *)
Recovered ==
  /\ "service_down" \in probeOpen \ probeOpen' => Ok(Last(samples'))
  /\ "latency_degraded" \in probeOpen \ probeOpen' =>
       /\ daily # 0 /\ ~Down(samples') /\ ~TooFew(Answers(samples'))
       /\ ~TooSlow(Answers(samples'))
RecoveryIsSeen == [][Recovered]_probeVars
=============================================================================
