----------------------------- MODULE CrashLoop -----------------------------
(***************************************************************************)
(* detect_crashloops of sentinel/scan_docker.py for one container: its     *)
(* RestartCount against a baseline that is kept over the scans.  Ages, not *)
(* dates, are kept, and the clock moves from scan to scan.                 *)
(***************************************************************************)
EXTENDS Integers

CONSTANTS
  LoopThreshold,  \* sentinel_docker_crashloop_threshold
  LoopWindow,     \* sentinel_docker_crashloop_window
  Period,         \* sentinel_docker_scan_interval
  Lifetime,       \* max(_BASELINE_TTL, window)
  MaxCount        \* bound: restarts of one container

ASSUME CrashAssumption ==
  /\ {LoopThreshold, Period} \subseteq Nat \ {0} /\ {LoopWindow, Lifetime, MaxCount} \subseteq Nat
  /\ LoopWindow <= Lifetime

VARIABLES
  restartCount,  \* RestartCount of the container, as docker tells it
  present,       \* it is running, so a scan lists it
  baseline,      \* its row in container_restart_baseline, with the age of its window
  scanned,       \* the scan of this interval is over
  looping,       \* the last scan reported a crash loop
  restartAges,   \* history: the ages of its last restarts, the latest first
  steady,        \* history: intervals in a row with a restart and a good scan
  told           \* history: a scan reported a loop in that time

crashVars == <<restartCount, present, baseline, scanned, looping, restartAges, steady, told>>

NoBaseline == [count |-> 0, age |-> -1]
Known == baseline # NoBaseline
Capped(n, m) == IF n < m THEN n ELSE m
Loops == LoopWindow \div Period + 1 + LoopThreshold

CrashTypeOK ==
  /\ restartCount \in 0..MaxCount
  /\ baseline \in [count : 0..MaxCount, age : 0..Lifetime + 1] \cup {NoBaseline}
  /\ {present, scanned, looping, told} \subseteq BOOLEAN
  /\ restartAges \in [1..LoopThreshold -> 0..LoopWindow + 1]
  /\ steady \in 0..Loops

CrashInit ==
  /\ restartCount = 0 /\ present = TRUE /\ baseline = NoBaseline /\ scanned = FALSE
  /\ looping = FALSE /\ restartAges = [n \in 1..LoopThreshold |-> LoopWindow + 1]
  /\ steady = 0 /\ told = FALSE

-----------------------------------------------------------------------------
(* The container: its restart policy brings it back, somebody creates it    *)
(* anew, it stops or runs again.                                            *)

RestartPolicy ==
  /\ present /\ ~scanned /\ restartCount < MaxCount /\ restartCount' = restartCount + 1
  /\ restartAges' = [n \in 1..LoopThreshold |-> IF n = 1 THEN 0 ELSE restartAges[n - 1]]
  /\ UNCHANGED <<present, baseline, scanned, looping, steady, told>>

Recreated ==
  /\ restartCount > 0 /\ restartCount' = 0 /\ steady' = 0 /\ told' = FALSE
  /\ UNCHANGED <<present, baseline, scanned, looping, restartAges>>

Stopped ==
  /\ present' = ~present /\ steady' = 0 /\ told' = FALSE
  /\ UNCHANGED <<restartCount, baseline, scanned, looping, restartAges>>

-----------------------------------------------------------------------------
(* The scan, one disjunct per branch of the loop.                           *)

Rise == restartCount - baseline.count
Replaced == Known /\ Rise < 0
Enough == Known /\ Rise >= LoopThreshold

(* Mutant: without the test that the window is still open.                  *)
LoopFoundStale == Enough
LoopFound == Enough /\ baseline.age <= LoopWindow
Expired == Known /\ baseline.age >= LoopWindow

Rebase == baseline' = [count |-> restartCount, age |-> 0] /\ looping' = FALSE

(* Mutant: the baseline follows the counter.                                *)
AccumulateRebased == Rebase
Accumulate == baseline' = baseline /\ looping' = FALSE

Judge ==
  \/ ~Known /\ Rebase
  \/ Replaced /\ Rebase
  \/ ~Replaced /\ LoopFound /\ looping' = TRUE /\ baseline' = baseline
  \/ ~Replaced /\ ~LoopFound /\ Expired /\ Rebase
  \/ Known /\ ~Replaced /\ ~LoopFound /\ ~Expired /\ Accumulate

(* A restart in this interval, with every scan good since.                  *)
Scan ==
  /\ ~scanned /\ present /\ Judge /\ scanned' = TRUE
  /\ steady' = IF restartAges[1] = 0 THEN Capped(steady + 1, Loops) ELSE 0
  /\ told' = (steady' > 0 /\ (told \/ looping'))
  /\ UNCHANGED <<restartCount, present, restartAges>>

(* The container is not listed: its row stays until it is too old.          *)
Unlisted ==
  /\ ~scanned /\ ~present /\ scanned' = TRUE /\ steady' = 0 /\ told' = FALSE
  /\ baseline' = IF baseline.age > Lifetime THEN NoBaseline ELSE baseline
  /\ UNCHANGED <<restartCount, present, looping, restartAges>>

(* The scan fails, or prometheus answers and the detection is left to it.   *)
NoScan ==
  /\ ~scanned /\ scanned' = TRUE /\ steady' = 0 /\ told' = FALSE
  /\ UNCHANGED <<restartCount, present, baseline, looping, restartAges>>

(* Time passes until the next scan.                                         *)
NextInterval ==
  /\ scanned /\ scanned' = FALSE /\ looping' = FALSE
  /\ restartAges' = [n \in 1..LoopThreshold |-> Capped(restartAges[n] + Period, LoopWindow + 1)]
  /\ baseline' = IF Known THEN [baseline EXCEPT !.age = Capped(@ + Period, Lifetime + 1)]
                 ELSE baseline
  /\ UNCHANGED <<restartCount, present, steady, told>>

CrashNext ==
  RestartPolicy \/ Recreated \/ Stopped \/ Scan \/ Unlisted \/ NoScan \/ NextInterval

-----------------------------------------------------------------------------
(* A reported loop is real: the container did restart that often within the *)
(* window, though it may have been created anew, or not been listed for a   *)
(* while.  A restart is up to a period older than the scan that saw it.     *)
LoopIsReal == looping => restartAges[LoopThreshold] + Period <= LoopWindow

(* A container that keeps restarting, once in every interval, is reported,  *)
(* wherever in its life the windows of the detection begin, if the window   *)
(* has that many intervals.                                                 *)
LoopIsReported ==
  LoopThreshold * Period <= LoopWindow /\ steady = Loops => told
=============================================================================
