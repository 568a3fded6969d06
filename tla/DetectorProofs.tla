---------------------------- MODULE DetectorProofs ----------------------------
(***************************************************************************)
(* Proofs about the detectors, for any intervals, windows, thresholds and  *)
(* bounds that meet the assumptions: the crash loops, the banked resets,   *)
(* the probe rules, the error lines of the logs and the OOM kills.  Each   *)
(* has an inductive invariant, a conjunction of named parts, which gives   *)
(* the properties the run of Parts checks.                                 *)
(***************************************************************************)
EXTENDS CrashLoop, BankedBalance, ProbeRules, ErrorScan, OomHandover, FiniteSetTheorems, TLAPS

(* CrashLoop.                                                               *)

(* A baseline of a window that is open has an interval behind it when the   *)
(* container is looked at again, and each restart counted since lies in it. *)
WindowIsAged == Known /\ ~scanned /\ baseline.age <= LoopWindow => baseline.age >= Period

RiseIsInWindow ==
  Known /\ baseline.age <= LoopWindow =>
    \A n \in 1..LoopThreshold : n <= Rise => restartAges[n] + Period <= baseline.age

LoopIsNews == looping => scanned

(* In a steady run that no loop was reported of: the window began in the    *)
(* run, which is not too long by then, and each interval since has its      *)
(* restart; or the window is older than the run.                            *)
Phase == IF scanned THEN 0 ELSE Period

BegunInRun ==
  /\ baseline.age <= LoopThreshold * Period
  /\ (steady + LoopThreshold - Loops) * Period <= baseline.age - Phase
  /\ Rise * Period >= baseline.age - Phase
  /\ scanned => Rise < LoopThreshold
  /\ ~scanned /\ restartAges[1] = 0 => Rise * Period >= baseline.age

BegunBefore ==
  /\ steady * Period < LoopWindow
  /\ steady * Period + Phase <= baseline.age \/ (~scanned /\ baseline.age > LoopWindow)
  /\ scanned => baseline.age < LoopWindow

RunIsWatched ==
  LoopThreshold * Period <= LoopWindow /\ steady > 0 /\ ~told =>
    Known /\ (BegunInRun \/ BegunBefore)

CrashInv ==
  /\ CrashTypeOK /\ WindowIsAged /\ RiseIsInWindow /\ LoopIsNews /\ RunIsWatched
  /\ LoopIsReal

LEMMA CrashConstants ==
  /\ LoopThreshold \in Nat /\ LoopThreshold > 0 /\ Period \in Nat /\ Period > 0
  /\ LoopWindow \in Nat /\ Lifetime \in Nat /\ MaxCount \in Nat /\ LoopWindow <= Lifetime
  BY CrashAssumption

LEMMA TimesIsMonotone ==
  ASSUME NEW a \in Int, NEW b \in Int, NEW p \in Nat, a <= b PROVE a * p <= b * p
  OBVIOUS

LEMMA OneMore ==
  ASSUME NEW a \in Int, NEW p \in Nat
  PROVE  (a + 1) * p = a * p + p /\ (a - 1) * p = a * p - p /\ a * p \in Int
  OBVIOUS

LEMMA LoopsIsLong ==
  /\ Loops \in Nat /\ Loops > LoopThreshold
  /\ Loops * Period > LoopWindow
  /\ \A s \in Nat : s * Period < LoopWindow => s + 1 + LoopThreshold <= Loops
  <1> DEFINE q == LoopWindow \div Period
  <1>1. q \in Nat /\ LoopWindow < (q + 1) * Period
    BY CrashConstants
  <1>2. Loops = q + 1 + LoopThreshold
    BY DEF Loops
  <1> HIDE DEF q
  <1>3. Loops * Period = (q + 1) * Period + LoopThreshold * Period /\ LoopThreshold * Period >= 0
    BY <1>1, <1>2, CrashConstants
  <1>4. ASSUME NEW s \in Nat, s * Period < LoopWindow PROVE s + 1 + LoopThreshold <= Loops
    <2>1. s * Period < (q + 1) * Period
      BY <1>1, <1>4, CrashConstants
    <2>2. s < q + 1
      BY <2>1, <1>1, CrashConstants
    <2> QED BY <2>2, <1>1, <1>2, CrashConstants
  <1> QED BY <1>1, <1>2, <1>3, <1>4, CrashConstants

WindowRow == [count : 0..MaxCount, age : 0..Lifetime + 1]

LEMMA KnownIsRow ==
  ASSUME CrashTypeOK
  PROVE  Known => baseline \in WindowRow /\ baseline.count \in 0..MaxCount /\ baseline.age \in 0..Lifetime + 1
  BY DEF CrashTypeOK, Known, WindowRow

LEMMA RowIsKnown ==
  ASSUME NEW r \in WindowRow PROVE r # NoBaseline
  BY DEF WindowRow, NoBaseline

LEMMA CrashStarts == CrashInit => CrashInv
  <1> SUFFICES ASSUME CrashInit PROVE CrashInv
    OBVIOUS
  <1> USE CrashConstants, LoopsIsLong
  <1>1. baseline = NoBaseline /\ looping = FALSE /\ scanned = FALSE /\ steady = 0 /\ ~Known
    BY DEF CrashInit, Known
  <1>2. restartAges \in [1..LoopThreshold -> 0..LoopWindow + 1]
    BY DEF CrashInit
  <1>3. {present, scanned, looping, told} \subseteq BOOLEAN
    BY DEF CrashInit
  <1>4. restartCount \in 0..MaxCount /\ steady \in 0..Loops
    BY <1>1 DEF CrashInit
  <1>5. CrashTypeOK
    BY <1>1, <1>2, <1>3, <1>4 DEF CrashTypeOK
  <1> QED
    BY <1>1, <1>5
    DEF CrashInv, WindowIsAged, RiseIsInWindow, LoopIsNews, RunIsWatched, LoopIsReal

(* What the scan makes of the baseline, in numbers.                         *)
LEMMA RowIsTyped ==
  ASSUME CrashTypeOK, Known
  PROVE  /\ baseline \in WindowRow
         /\ baseline.count \in 0..MaxCount /\ baseline.age \in 0..Lifetime + 1
         /\ Rise \in Int /\ restartCount \in 0..MaxCount
  BY CrashConstants, KnownIsRow DEF CrashTypeOK, Rise

LEMMA RebaseIsTyped ==
  ASSUME CrashTypeOK, Rebase
  PROVE  /\ baseline' \in WindowRow /\ baseline'.count = restartCount /\ baseline'.age = 0
         /\ Known' /\ looping' = FALSE
  <1>1. [count |-> restartCount, age |-> 0] \in WindowRow
    BY CrashConstants DEF CrashTypeOK, WindowRow
  <1> QED BY <1>1, RowIsKnown DEF Rebase, Known, NoBaseline

(* A step that only counts the run anew, and may lower the counter.         *)
LEMMA RunIsBroken ==
  ASSUME CrashInv, baseline' = baseline, scanned' = scanned, looping' = looping,
         restartAges' = restartAges, steady' = 0, told' = FALSE, present' \in BOOLEAN,
         restartCount' \in 0..MaxCount, restartCount' <= restartCount
  PROVE  CrashInv'
  <1> USE CrashConstants DEF CrashInv
  <1>0. {present', scanned', looping', told'} \subseteq BOOLEAN
    BY DEF CrashTypeOK
  <1>c. steady' \in 0..Loops
    BY LoopsIsLong
  <1>1. CrashTypeOK'
    BY <1>0, <1>c DEF CrashTypeOK
  <1>2. Known' <=> Known
    BY DEF Known, NoBaseline
  <1>3. RiseIsInWindow'
    <2> SUFFICES ASSUME Known, baseline.age <= LoopWindow, NEW n \in 1..LoopThreshold,
                        n <= Rise'
                 PROVE  restartAges[n] + Period <= baseline.age
      BY <1>2 DEF RiseIsInWindow, NoBaseline
    <2>0. Rise \in Int /\ baseline.count \in Int /\ restartCount \in Int /\ restartCount' \in Int
          /\ Rise' = restartCount' - baseline.count /\ Rise = restartCount - baseline.count
      BY RowIsTyped DEF Rise, CrashTypeOK
    <2>1. n <= Rise
      BY <2>0
    <2> QED BY <2>1 DEF RiseIsInWindow
  <1>4. WindowIsAged' /\ LoopIsNews' /\ LoopIsReal' /\ RunIsWatched'
    BY <1>2 DEF WindowIsAged, LoopIsNews, LoopIsReal, RunIsWatched
  <1> QED BY <1>1, <1>3, <1>4

LEMMA RestartStep ==
  ASSUME CrashInv, RestartPolicy PROVE CrashInv'
  <1> USE CrashConstants DEF CrashInv
  <1>0. /\ ~scanned /\ ~scanned' /\ restartCount' = restartCount + 1 /\ restartCount < MaxCount
        /\ restartAges' = [n \in 1..LoopThreshold |-> IF n = 1 THEN 0 ELSE restartAges[n - 1]]
        /\ UNCHANGED <<present, baseline, scanned, looping, steady, told>>
    BY DEF RestartPolicy
  <1>1. restartAges' \in [1..LoopThreshold -> 0..LoopWindow + 1]
    BY <1>0 DEF CrashTypeOK
  <1>2. CrashTypeOK' /\ (Known' <=> Known) /\ restartAges'[1] = 0
    BY <1>0, <1>1 DEF CrashTypeOK, Known, NoBaseline
  <1>3. WindowIsAged' /\ LoopIsNews' /\ LoopIsReal'
    BY <1>0, <1>2 DEF WindowIsAged, LoopIsNews, LoopIsReal
  <1>4. Known => Rise' = Rise + 1
    BY <1>0, RowIsTyped, SMTT(30) DEF Rise, CrashTypeOK
  <1>5. RiseIsInWindow'
    <2> SUFFICES ASSUME Known, baseline.age <= LoopWindow, NEW n \in 1..LoopThreshold,
                        n <= Rise + 1
                 PROVE  restartAges'[n] + Period <= baseline.age
      BY <1>0, <1>2, <1>4 DEF RiseIsInWindow
    <2>1. baseline.age >= Period /\ baseline.age \in Int
      BY <1>0, RowIsTyped DEF WindowIsAged
    <2>2. CASE n = 1
      BY <1>0, <2>1, <2>2
    <2>3. CASE n # 1
      <3>1. n - 1 \in 1..LoopThreshold /\ n - 1 <= Rise
        BY <2>3, RowIsTyped
      <3> QED BY <1>0, <2>3, <3>1 DEF RiseIsInWindow
    <2> QED BY <2>2, <2>3
  <1>6. RunIsWatched'
    <2> SUFFICES ASSUME LoopThreshold * Period <= LoopWindow, steady > 0, ~told
                 PROVE  Known /\ (BegunInRun' \/ BegunBefore')
      BY <1>0, <1>2 DEF RunIsWatched, CrashTypeOK
    <2>1. Known /\ (BegunInRun \/ BegunBefore)
      BY DEF RunIsWatched
    <2>2. ASSUME BegunBefore PROVE BegunBefore'
      BY <1>0, <2>2 DEF BegunBefore, Phase
    <2>3. ASSUME BegunInRun PROVE BegunInRun'
      <3>1. Rise \in Int /\ baseline.age \in Int /\ (Rise + 1) * Period = Rise * Period + Period
        BY <2>1, RowIsTyped
      <3>2. Rise * Period >= baseline.age - Period
        BY <1>0, <2>3 DEF BegunInRun, Phase
      <3>3. (Rise + 1) * Period >= baseline.age
        BY <3>1, <3>2
      <3> QED BY <1>0, <2>1, <2>3, <1>4, <3>1, <3>3 DEF BegunInRun, Phase
    <2> QED BY <2>1, <2>2, <2>3
  <1> QED BY <1>2, <1>3, <1>5, <1>6

LEMMA IntervalStep ==
  ASSUME CrashInv, NextInterval PROVE CrashInv'
  <1> USE CrashConstants DEF CrashInv
  <1>0. /\ scanned /\ ~scanned' /\ looping' = FALSE /\ scanned' = FALSE
        /\ restartAges' = [n \in 1..LoopThreshold |-> Capped(restartAges[n] + Period, LoopWindow + 1)]
        /\ UNCHANGED <<restartCount, present, steady, told>>
        /\ baseline' = IF Known THEN [baseline EXCEPT !.age = Capped(@ + Period, Lifetime + 1)]
                       ELSE baseline
    BY DEF NextInterval
  <1>1. /\ restartAges' \in [1..LoopThreshold -> 0..LoopWindow + 1]
        /\ restartAges'[1] # 0
        /\ \A n \in 1..LoopThreshold : restartAges'[n] <= restartAges[n] + Period
    <2>1. ASSUME NEW n \in 1..LoopThreshold
          PROVE  LET new == Capped(restartAges[n] + Period, LoopWindow + 1)
                 IN  new \in 0..LoopWindow + 1 /\ new > 0 /\ new <= restartAges[n] + Period
      <3>1. restartAges[n] \in 0..LoopWindow + 1
        BY DEF CrashTypeOK
      <3> QED BY <3>1 DEF Capped
    <2>2. \A n \in 1..LoopThreshold :
            restartAges'[n] = Capped(restartAges[n] + Period, LoopWindow + 1)
      BY <1>0
    <2>3. 1 \in 1..LoopThreshold
      OBVIOUS
    <2> HIDE DEF CrashInv
    <2>4. restartAges' \in [1..LoopThreshold -> 0..LoopWindow + 1]
      BY <1>0, <2>1
    <2> QED BY <2>1, <2>2, <2>3, <2>4
  <1>2. ~Known => baseline' = NoBaseline /\ ~Known'
    BY <1>0 DEF Known, NoBaseline
  <1>3. ASSUME Known
        PROVE  /\ Known' /\ baseline' \in WindowRow /\ baseline'.count = baseline.count
               /\ baseline'.age = Capped(baseline.age + Period, Lifetime + 1)
               /\ Rise' = Rise
    <2>1. baseline \in WindowRow /\ Capped(baseline.age + Period, Lifetime + 1) \in 0..Lifetime + 1
      BY <1>3, RowIsTyped DEF Capped
    <2>2. baseline' = [baseline EXCEPT !.age = Capped(baseline.age + Period, Lifetime + 1)]
      BY <1>0, <1>3
    <2>3. /\ baseline' \in WindowRow /\ baseline'.count = baseline.count
          /\ baseline'.age = Capped(baseline.age + Period, Lifetime + 1)
      BY <2>1, <2>2 DEF WindowRow
    <2> QED BY <1>0, <2>3, RowIsKnown DEF Known, NoBaseline, Rise
  <1>4. CrashTypeOK'
    BY <1>0, <1>1, <1>2, <1>3 DEF CrashTypeOK, WindowRow
  <1>5. WindowIsAged' /\ LoopIsNews' /\ LoopIsReal'
    BY <1>0, <1>2, <1>3, RowIsTyped DEF WindowIsAged, LoopIsNews, LoopIsReal, Capped
  <1>6. RiseIsInWindow'
    <2> SUFFICES ASSUME Known, baseline'.age <= LoopWindow, NEW n \in 1..LoopThreshold,
                        n <= Rise
                 PROVE  restartAges'[n] + Period <= baseline'.age
      BY <1>2, <1>3 DEF RiseIsInWindow
    <2>1. baseline'.age = baseline.age + Period /\ baseline.age \in Int
      BY <1>3, RowIsTyped DEF Capped
    <2>2. restartAges[n] + Period <= baseline.age
      BY <2>1 DEF RiseIsInWindow
    <2>3. restartAges[n] \in Int /\ restartAges'[n] \in Int /\ restartAges'[n] <= restartAges[n] + Period
      BY <1>1 DEF CrashTypeOK
    <2> QED BY <2>1, <2>2, <2>3
  <1>7. RunIsWatched'
    <2> SUFFICES ASSUME LoopThreshold * Period <= LoopWindow, steady > 0, ~told
                 PROVE  Known' /\ (BegunInRun' \/ BegunBefore')
      BY <1>0 DEF RunIsWatched
    <2>1. Known /\ (BegunInRun \/ BegunBefore) /\ steady \in Int
      BY DEF RunIsWatched, CrashTypeOK
    <2>2. /\ baseline.age \in Int /\ Rise \in Int /\ Known' /\ Rise' = Rise
          /\ baseline'.age = Capped(baseline.age + Period, Lifetime + 1) /\ baseline'.age \in Int
      BY <2>1, <1>3, RowIsTyped DEF Capped
    <2>3. ASSUME BegunBefore PROVE BegunBefore'
      <3>1. steady * Period < LoopWindow /\ steady * Period <= baseline.age
            /\ baseline.age < LoopWindow /\ steady * Period \in Int
        BY <1>0, <2>1, <2>3 DEF BegunBefore, Phase
      <3>2. steady * Period + Period <= baseline'.age \/ baseline'.age > LoopWindow
        BY <3>1, <2>2 DEF Capped
      <3> QED BY <1>0, <3>1, <3>2 DEF BegunBefore, Phase
    <2>4. ASSUME BegunInRun PROVE BegunInRun'
      <3>1. /\ Rise * Period >= baseline.age /\ Rise <= LoopThreshold - 1
            /\ (steady + LoopThreshold - Loops) * Period <= baseline.age
        BY <1>0, <2>4, <2>2 DEF BegunInRun, Phase
      <3>2. Rise * Period <= (LoopThreshold - 1) * Period
        BY <3>1, <2>2
      <3>3. (LoopThreshold - 1) * Period = LoopThreshold * Period - Period
        OBVIOUS
      <3>4. baseline.age + Period <= LoopThreshold * Period
        BY <3>1, <3>2, <3>3, <2>2
      <3>5. baseline'.age = baseline.age + Period
        BY <3>4, <2>2 DEF Capped
      <3> QED BY <1>0, <1>1, <2>2, <3>1, <3>4, <3>5, LoopsIsLong, SMTT(30) DEF BegunInRun, Phase
    <2> QED BY <2>1, <2>2, <2>3, <2>4
  <1> QED BY <1>4, <1>5, <1>6, <1>7

LEMMA ScanStep ==
  ASSUME CrashInv, Scan PROVE CrashInv'
  <1> USE CrashConstants DEF CrashInv
  <1>0. /\ ~scanned /\ scanned' /\ scanned' = TRUE /\ Judge
        /\ steady' = IF restartAges[1] = 0 THEN Capped(steady + 1, Loops) ELSE 0
        /\ told' = (steady' > 0 /\ (told \/ looping'))
        /\ UNCHANGED <<restartCount, present, restartAges>>
    BY DEF Scan
  <1>1. steady' \in 0..Loops /\ steady \in 0..Loops /\ restartAges[1] \in Int
    BY <1>0, LoopsIsLong DEF CrashTypeOK, Capped
  (* The judgement in three: the row is as it was and no loop, the row is   *)
  (* new, or a loop is found.                                               *)
  <1>2. /\ Rebase => baseline' \in WindowRow /\ baseline'.count = restartCount /\ baseline'.age = 0
                     /\ Known' /\ looping' = FALSE
        /\ baseline' = baseline => (Known' <=> Known)
    BY RebaseIsTyped DEF Known, NoBaseline
  <1>3. \/ Rebase
        \/ /\ baseline' = baseline /\ Known /\ looping' = FALSE
           /\ ~Replaced /\ ~LoopFound /\ ~Expired
        \/ baseline' = baseline /\ Known /\ looping' = TRUE /\ LoopFound
    BY <1>0 DEF Judge, Accumulate, LoopFound, Enough
  <1>4. CrashTypeOK' /\ WindowIsAged' /\ LoopIsNews'
    <2>1. {present', scanned', looping', told'} \subseteq BOOLEAN
      BY <1>0, <1>2, <1>3 DEF CrashTypeOK
    <2> QED BY <1>0, <1>1, <1>2, <1>3, <2>1 DEF CrashTypeOK, WindowRow, WindowIsAged, LoopIsNews
  <1>5. RiseIsInWindow'
    <2>1. CASE Rebase
      <3>1. Rise' = 0
        BY <2>1, <1>0, <1>2 DEF Rise, CrashTypeOK
      <3> QED BY <3>1 DEF RiseIsInWindow
    <2>2. CASE baseline' = baseline
      BY <2>2, <1>0, <1>2 DEF RiseIsInWindow, Rise
    <2> QED BY <1>3, <2>1, <2>2
  <1>6. LoopIsReal'
    <2> SUFFICES ASSUME baseline' = baseline, Known, LoopFound
                 PROVE  restartAges[LoopThreshold] + Period <= LoopWindow
      BY <1>0, <1>2, <1>3 DEF LoopIsReal
    <2>1. LoopThreshold <= Rise /\ baseline.age <= LoopWindow /\ LoopThreshold \in 1..LoopThreshold
          /\ baseline.age \in Int /\ Rise \in Int
      BY RowIsTyped DEF LoopFound, Enough
    <2>2. restartAges[LoopThreshold] + Period <= baseline.age
      BY <2>1 DEF RiseIsInWindow
    <2>3. restartAges[LoopThreshold] \in Int
      BY <2>1 DEF CrashTypeOK
    <2> QED BY <2>1, <2>2, <2>3
  <1>7. RunIsWatched'
    <2>a. SUFFICES ASSUME LoopThreshold * Period <= LoopWindow, steady' > 0, ~told'
                 PROVE  Known' /\ (BegunInRun' \/ BegunBefore')
      BY DEF RunIsWatched
    <2>0. /\ Phase = Period /\ Phase' = 0
      BY <1>0 DEF Phase
    <2>1. /\ restartAges[1] = 0 /\ steady' = Capped(steady + 1, Loops) /\ ~told /\ ~looping'
      <3>1. restartAges[1] = 0 /\ steady' = Capped(steady + 1, Loops)
        BY <1>0, <2>a
      <3>2. told \in BOOLEAN /\ looping' \in BOOLEAN
        BY <1>4 DEF CrashTypeOK
      <3> QED BY <1>0, <2>a, <3>1, <3>2
    <2>s. PICK run \in Nat : steady' = run /\ run <= steady + 1
      BY <2>1, <1>1 DEF Capped
    <2>2. /\ run <= steady + 1 /\ run \in Nat /\ steady \in Nat
          /\ LoopThreshold < Loops /\ Loops \in Nat
      BY <2>s, <1>1, LoopsIsLong
    <2>m. /\ (steady + 1) * Period = steady * Period + Period
          /\ run * Period <= (steady + 1) * Period
          /\ steady * Period \in Int /\ run * Period \in Int
      <3>1. (steady + 1) * Period = steady * Period + Period
        BY <2>2
      <3>2. run * Period <= (steady + 1) * Period
        BY <2>2
      <3>3. steady * Period \in Int /\ run * Period \in Int
        BY <2>2
      <3> QED BY <3>1, <3>2, <3>3
    <2>k. Known => /\ baseline.count \in Int /\ baseline.age \in Int /\ baseline.age >= 0
                   /\ Rise \in Int
      BY RowIsTyped
    <2>3. CASE Rebase /\ (steady = 0 \/ (steady + 1) * Period < LoopWindow + Period)
      (* The window begins in the run, young enough for what is left of it. *)
      <3>1. run + LoopThreshold <= Loops
        <4>1. CASE steady = 0
          BY <4>1, <2>2
        <4>2. CASE steady * Period < LoopWindow
          <5>1. steady + 1 + LoopThreshold <= Loops
            BY <4>2, <2>2, LoopsIsLong
          <5> QED BY <5>1, <2>2
        <4> QED BY <2>3, <2>m, <4>1, <4>2
      <3>2. baseline'.age = 0 /\ Rise' = 0 /\ Known'
        BY <2>3, <1>0, <1>2 DEF Rise, CrashTypeOK
      <3>3. (run + LoopThreshold - Loops) * Period <= 0
        <4>1. run + LoopThreshold - Loops \in Int /\ run + LoopThreshold - Loops <= 0
          BY <3>1, <2>2
        <4> QED BY <4>1
      <3>4. LoopThreshold * Period >= 0
        OBVIOUS
      <3> QED BY <2>s, <3>2, <3>3, <3>4, <2>0, <1>0 DEF BegunInRun
    <2>4. CASE baseline' = baseline /\ steady = 0 /\ ~Rebase
      <3>1. Known /\ ~Expired /\ Known'
        BY <2>4, <1>2, <1>3, <2>1
      <3>2. baseline.age < LoopWindow /\ baseline.age >= Period
        BY <3>1, <2>k, <1>0 DEF Expired, WindowIsAged
      <3>3. run * Period <= Period /\ run * Period \in Int
        <4>1. (steady + 1) * Period = Period
          BY <2>4
        <4> QED BY <4>1, <2>m
      <3>4. run * Period < LoopWindow /\ run * Period <= baseline.age
        <4> HIDE DEF CrashInv
        <4> QED BY <3>1, <3>2, <3>3, <2>k
      <3> QED BY <2>s, <2>4, <3>1, <3>2, <3>4, <2>0, <1>0 DEF BegunBefore
    <2>5. CASE steady > 0 /\ BegunInRun
      <3>1. Known
        BY <2>a, <2>5, <2>1 DEF RunIsWatched
      <3>2. /\ baseline.age <= LoopWindow /\ Rise * Period >= baseline.age /\ Rise >= 0
            /\ (steady + LoopThreshold - Loops) * Period <= baseline.age - Period
        <4>1. Rise * Period >= baseline.age /\ baseline.age <= LoopThreshold * Period
              /\ (steady + LoopThreshold - Loops) * Period <= baseline.age - Period
          BY <2>0, <2>1, <2>5, <1>0 DEF BegunInRun
        <4>2. Rise >= 0
          BY <4>1, <3>1, <2>k
        <4> QED BY <4>1, <4>2, <3>1, <2>k, <2>a
      <3>3. ~Replaced
        BY <3>1, <3>2, <2>k DEF Replaced
      <3>4. ~LoopFound
        BY <1>0, <3>1, <3>3, <2>1 DEF Judge, Expired, Rebase, Accumulate
      <3>5. Rise < LoopThreshold
        BY <3>1, <3>2, <3>4, <2>k DEF LoopFound, Enough
      <3>6. baseline.age < LoopWindow
        <4>1. Rise * Period <= (LoopThreshold - 1) * Period
          BY <3>5, <2>k, <3>1
        <4>2. (LoopThreshold - 1) * Period = LoopThreshold * Period - Period
          OBVIOUS
        <4> QED BY <4>1, <4>2, <3>2, <3>1, <2>k, <2>a
      <3>7. baseline' = baseline /\ Known'
        BY <1>0, <1>2, <3>1, <3>3, <3>4, <3>6, <2>k DEF Judge, Expired, Accumulate
      <3>8. (run + LoopThreshold - Loops) * Period <= baseline.age
        <4>1. (run + LoopThreshold - Loops) * Period
                <= (steady + 1 + LoopThreshold - Loops) * Period
          <5>1. /\ run + LoopThreshold - Loops \in Int
                /\ steady + 1 + LoopThreshold - Loops \in Int
                /\ run + LoopThreshold - Loops <= steady + 1 + LoopThreshold - Loops
            BY <2>2
          <5> QED BY <5>1
        <4>2. (steady + 1 + LoopThreshold - Loops) * Period
                = (steady + LoopThreshold - Loops) * Period + Period
          <5>1. /\ steady + LoopThreshold - Loops \in Int
                /\ steady + 1 + LoopThreshold - Loops = (steady + LoopThreshold - Loops) + 1
            BY <2>2
          <5> QED BY <5>1
        <4>3. (run + LoopThreshold - Loops) * Period \in Int
              /\ (steady + LoopThreshold - Loops) * Period \in Int
          BY <2>2
        <4> QED BY <4>1, <4>2, <4>3, <3>2, <3>1, <2>k
      <3>9. Rise' = Rise /\ baseline'.age = baseline.age
        BY <3>7, <1>0 DEF Rise
      <3>10. /\ baseline.age <= LoopThreshold * Period /\ baseline.age - 0 = baseline.age
             /\ Rise * Period >= baseline.age
        BY <2>5, <3>1, <3>2, <2>k DEF BegunInRun
      <3>11. BegunInRun'
        <4>1. baseline'.age <= LoopThreshold * Period
          BY <3>9, <3>10
        <4>2. (steady' + LoopThreshold - Loops) * Period <= baseline'.age - Phase'
          BY <3>9, <3>10, <3>8, <2>s, <2>0
        <4>3. Rise' * Period >= baseline'.age - Phase' /\ Rise' < LoopThreshold
          BY <3>9, <3>10, <3>5, <2>0
        <4> QED BY <4>1, <4>2, <4>3, <1>0 DEF BegunInRun
      <3> QED BY <3>7, <3>11
    <2>6. CASE steady > 0 /\ BegunBefore /\ ~Rebase
      <3>1. Known /\ ~Expired /\ baseline' = baseline /\ Known'
        BY <2>6, <1>2, <1>3, <2>1
      <3>2. /\ baseline.age < LoopWindow /\ steady * Period + Period <= baseline.age
        BY <3>1, <2>k, <2>0, <2>6 DEF Expired, BegunBefore
      <3>3. run * Period \in Int /\ run * Period <= steady * Period + Period
            /\ steady * Period \in Int
        BY <2>m
      <3>4. run * Period < LoopWindow /\ run * Period <= baseline.age
        <4> HIDE DEF CrashInv
        <4> QED BY <3>1, <3>2, <3>3, <2>k
      <3> QED BY <2>s, <3>1, <3>2, <3>4, <2>0, <1>0 DEF BegunBefore
    <2> QED
      <3>1. steady = 0 \/ BegunInRun \/ BegunBefore
        BY <2>1, <2>2, <2>a, <1>1 DEF RunIsWatched
      <3>2. BegunBefore => (steady + 1) * Period < LoopWindow + Period
        BY <2>m DEF BegunBefore
      <3> QED BY <1>1, <1>3, <2>1, <2>3, <2>4, <2>5, <2>6, <3>1, <3>2
  <1> QED BY <1>4, <1>5, <1>6, <1>7

LEMMA CrashStep ==
  ASSUME CrashInv, CrashNext PROVE CrashInv'
  <1> USE CrashConstants DEF CrashInv
  <1>1. CASE RestartPolicy
    BY <1>1, RestartStep
  <1>2. CASE Recreated
    <2>1. restartCount' \in 0..MaxCount /\ restartCount' <= restartCount /\ present' \in BOOLEAN
      BY <1>2 DEF Recreated, CrashTypeOK
    <2> QED BY <1>2, <2>1, RunIsBroken DEF Recreated
  <1>3. CASE Stopped
    <2>1. restartCount' \in 0..MaxCount /\ restartCount' <= restartCount /\ present' \in BOOLEAN
      BY <1>3 DEF Stopped, CrashTypeOK
    <2> QED BY <1>3, <2>1, RunIsBroken DEF Stopped
  <1>4. CASE Scan
    BY <1>4, ScanStep
  <1>5. CASE Unlisted \/ NoScan
    <2>1. /\ ~scanned /\ scanned' = TRUE /\ steady' = 0 /\ told' = FALSE /\ ~looping
          /\ baseline' = baseline \/ baseline' = NoBaseline
          /\ UNCHANGED <<restartCount, present, looping, restartAges>>
      BY <1>5 DEF Unlisted, NoScan, LoopIsNews
    <2>2. {present', scanned', looping', told'} \subseteq BOOLEAN
      BY <2>1 DEF CrashTypeOK
    <2>z. 0 \in 0..Loops
      BY LoopsIsLong
    <2>3. CrashTypeOK'
      BY <2>1, <2>2, <2>z DEF CrashTypeOK
    <2>4. WindowIsAged' /\ LoopIsNews' /\ LoopIsReal' /\ RunIsWatched'
      BY <2>1 DEF WindowIsAged, LoopIsNews, LoopIsReal, RunIsWatched
    <2>5. RiseIsInWindow'
      BY <2>1 DEF RiseIsInWindow, Rise, Known, NoBaseline
    <2> QED BY <2>3, <2>4, <2>5
  <1>6. CASE NextInterval
    BY <1>6, IntervalStep
  <1> QED BY <1>1, <1>2, <1>3, <1>4, <1>5, <1>6 DEF CrashNext

(* A run that lasts too long for every place its window may begin at.       *)
LEMMA LongRunIsTold ==
  ASSUME CrashInv PROVE LoopIsReported
  <1> USE CrashConstants DEF CrashInv
  <1> SUFFICES ASSUME LoopThreshold * Period <= LoopWindow, steady = Loops, ~told PROVE FALSE
    BY DEF LoopIsReported
  <1>1. Known /\ (BegunInRun \/ BegunBefore)
    BY LoopsIsLong DEF RunIsWatched
  <1>2. Rise \in Int /\ baseline.age \in Int
    BY <1>1, RowIsTyped
  <1>3. ~BegunBefore
    BY LoopsIsLong DEF BegunBefore
  <1>4. /\ baseline.age <= LoopThreshold * Period
        /\ LoopThreshold * Period <= baseline.age - Phase
        /\ scanned => Rise < LoopThreshold
        /\ Rise * Period >= baseline.age - Phase
    <2>1. steady + LoopThreshold - Loops = LoopThreshold
      BY LoopsIsLong
    <2> QED BY <1>1, <1>3, <2>1 DEF BegunInRun
  <1>5. CASE ~scanned
    BY <1>2, <1>4, <1>5 DEF Phase
  <1>6. CASE scanned
    <2>1. Rise <= LoopThreshold - 1 /\ Rise * Period >= LoopThreshold * Period
      BY <1>2, <1>4, <1>6 DEF Phase
    <2>2. Rise * Period <= (LoopThreshold - 1) * Period
      BY <2>1, <1>2
    <2>3. (LoopThreshold - 1) * Period = LoopThreshold * Period - Period
      OBVIOUS
    <2> QED BY <2>1, <2>2, <2>3, <1>2
  <1> QED BY <1>5, <1>6

(* update_restart_baseline (store.py) and its callers: the window of the    *)
(* baseline and the run of restarts that is observed go together.           *)
THEOREM CrashInvHolds == CrashInit /\ [][CrashNext]_crashVars => []CrashInv
  <1>1. CrashInv /\ [CrashNext]_crashVars => CrashInv'
    <2>1. CASE UNCHANGED crashVars
      BY <2>1
      DEF crashVars, CrashInv, CrashTypeOK, WindowIsAged, RiseIsInWindow, LoopIsNews, RunIsWatched,
          LoopIsReal, Known, Rise, BegunInRun, BegunBefore, Phase
    <2> QED BY <2>1, CrashStep
  <1> QED BY CrashStarts, <1>1, PTL

-----------------------------------------------------------------------------
(* BankedBalance.                                                           *)

ReadRow == [stable : 0..MaxBalance, candidate : -1..MaxBalance, seen : 0..Confirmations]

(* What the account gained over the stored balance is granted and not yet   *)
(* credited, whatever was used or expired meanwhile.                        *)
GainIsGranted ==
  row # NoRead => credited + increase + forgotten + balance <= granted + row.stable

BankedInv ==
  /\ BankedTypeOK /\ balance \in 0..MaxBalance /\ granted \in 0..MaxGrants
  /\ GainIsGranted /\ CreditedOnce

LEMMA BankedConstants ==
  Confirmations \in Nat /\ Confirmations > 0 /\ MaxBalance \in Nat /\ MaxBalance > 0 /\ MaxGrants \in Nat
  BY BankedAssumption

LEMMA RowIsRead ==
  ASSUME BankedTypeOK
  PROVE  /\ row = NoRead \/ row \in ReadRow
         /\ row # NoRead => row.stable \in 0..MaxBalance /\ row.candidate \in -1..MaxBalance
                            /\ row.seen \in 0..Confirmations
  BY DEF BankedTypeOK, ReadRow

LEMMA BankedStarts == BankedInit => BankedInv
  BY BankedConstants DEF BankedInit, BankedInv, BankedTypeOK, GainIsGranted, CreditedOnce

LEMMA BankedStep ==
  ASSUME BankedInv, BankedNext PROVE BankedInv'
  <1> USE BankedConstants DEF BankedInv, GainIsGranted, CreditedOnce
  <1>t. /\ increase \in 0..MaxGrants /\ credited \in 0..MaxGrants /\ forgotten \in 0..MaxGrants
        /\ row \in ReadRow \cup {NoRead}
    BY DEF BankedTypeOK, ReadRow
  <1>1. CASE Granted
    BY <1>1, <1>t, RowIsRead DEF Granted, BankedTypeOK
  <1>2. CASE UsedOrExpired
    BY <1>2, <1>t, RowIsRead DEF UsedOrExpired, BankedTypeOK
  <1>3. CASE Reading
    <2>1. CASE FirstReading
      <3>1. row' \in ReadRow /\ row'.stable = balance
        BY <2>1 DEF FirstReading, StableNow, ReadRow
      <3> QED BY <1>3, <2>1, <3>1, <1>t DEF FirstReading, Reading, BankedTypeOK, ReadRow
    <2>2. CASE Unchanged
      <3>0. row \in ReadRow /\ -1 \in -1..MaxBalance /\ 0 \in 0..Confirmations
        BY <2>2, <1>t DEF Unchanged
      <3>1. row' \in ReadRow /\ row'.stable = row.stable
        BY <2>2, <3>0 DEF Unchanged, ReadRow
      <3> QED BY <1>3, <2>2, <3>1, <1>t DEF Unchanged, Reading, BankedTypeOK, ReadRow
    <2>3. CASE Candidate
      <3>0. row \in ReadRow /\ row.seen \in 0..Confirmations
        BY <2>3, <1>t DEF Candidate, ReadRow
      <3>1. Seen(balance) \in 0..Confirmations
        <4>1. CASE balance = row.candidate
          BY <2>3, <3>0, <4>1 DEF Candidate, Seen, Steady
        <4>2. CASE balance # row.candidate
          BY <4>2 DEF Seen
        <4> QED BY <4>1, <4>2
      <3>2. row' = [row EXCEPT !.candidate = balance, !.seen = Seen(balance)]
            /\ balance \in -1..MaxBalance
        BY <2>3 DEF Candidate
      <3>3. row' \in ReadRow /\ row'.stable = row.stable
        BY <3>0, <3>1, <3>2 DEF ReadRow
      <3> QED BY <1>3, <2>3, <3>3, <1>t DEF Candidate, Reading, BankedTypeOK, ReadRow
    <2>4. CASE Confirmed
      <3>1. row' \in ReadRow /\ row'.stable = balance
        BY <2>4 DEF Confirmed, StableNow, ReadRow
      <3>2. row \in ReadRow
        BY <2>4, <1>t DEF Confirmed
      <3> QED BY <1>3, <2>4, <3>1, <3>2, <1>t DEF Confirmed, Reading, BankedTypeOK, ReadRow
    <2> QED BY <1>3, <2>1, <2>2, <2>3, <2>4 DEF Reading
  <1>4. CASE Filed
    BY <1>4, <1>t DEF Filed, BankedTypeOK
  <1>5. CASE Killed
    BY <1>5, <1>t DEF Killed, BankedTypeOK
  <1> QED BY <1>1, <1>2, <1>3, <1>4, <1>5 DEF BankedNext

(* The row of the balance (store.py) through readings, gaps and kills:      *)
(* nothing is counted as gained that was not granted.                       *)
THEOREM BankedInvHolds == BankedInit /\ [][BankedNext]_bankedVars => []BankedInv
  <1>1. BankedInv /\ [BankedNext]_bankedVars => BankedInv'
    <2>1. CASE UNCHANGED bankedVars
      BY <2>1 DEF bankedVars, BankedInv, BankedTypeOK, GainIsGranted, CreditedOnce
    <2> QED BY <2>1, BankedStep
  <1> QED BY BankedStarts, <1>1, PTL

-----------------------------------------------------------------------------
(* ProbeRules.                                                              *)

(* A slow service has a baseline: it was found against one, and the rows of *)
(* the days stay.                                                           *)
ProbeInv == probeOpen \subseteq Rules /\ ("latency_degraded" \in probeOpen => daily # 0)

LEMMA ProbeStarts == ProbeInit => ProbeInv
  BY DEF ProbeInit, ProbeInv

LEMMA FoundAgainstBaseline ==
  ASSUME NEW s PROVE FoundIn(s) \subseteq Rules /\ ("latency_degraded" \in FoundIn(s) => daily # 0)
  BY DEF FoundIn, Rules

(* What is neither found nor held has recovered.                            *)
LEMMA ClosedHasRecovered ==
  ASSUME NEW s, NEW rule \in Rules, rule \notin FoundIn(s) \cup Hold(s)
  PROVE  /\ rule = "service_down" => Ok(Last(s))
         /\ rule = "latency_degraded" =>
              ~Down(s) /\ ~TooFew(Answers(s)) /\ (daily # 0 => ~TooSlow(Answers(s)))
  BY DEF FoundIn, Hold, Rules

LEMMA ProbeStep ==
  ASSUME ProbeInv, ProbeNext PROVE ProbeInv' /\ Recovered
  <1> USE DEF ProbeInv
  <1>1. CASE ProbeTick
    <2>1. PICK latency \in Latencies \cup {Failed} :
            LET s == Append(Aged, [age |-> 0, latency |-> latency])
            IN /\ samples' = s
               /\ \E opened \in SUBSET (FoundIn(s) \ probeOpen) :
                  \E closed \in SUBSET (probeOpen \ (FoundIn(s) \cup Hold(s))) :
                    probeOpen' = (probeOpen \cup opened) \ closed
               /\ UNCHANGED daily
      BY <1>1 DEF ProbeTick
    <2> DEFINE s == Append(Aged, [age |-> 0, latency |-> latency])
    <2>2. PICK opened \in SUBSET (FoundIn(s) \ probeOpen),
               closed \in SUBSET (probeOpen \ (FoundIn(s) \cup Hold(s))) :
            probeOpen' = (probeOpen \cup opened) \ closed
      BY <2>1
    <2>3. samples' = s /\ daily' = daily
      BY <2>1
    <2> HIDE DEF s
    <2>4. ProbeInv'
      BY <2>2, <2>3, FoundAgainstBaseline DEF Rules
    <2>5. ASSUME NEW rule \in probeOpen \ probeOpen'
          PROVE  rule \in Rules /\ rule \notin FoundIn(s) \cup Hold(s)
      BY <2>2, <2>5
    <2>6. ASSUME NEW rule \in probeOpen \ probeOpen'
          PROVE  /\ rule = "service_down" => Ok(Last(s))
                 /\ rule = "latency_degraded" =>
                      ~Down(s) /\ ~TooFew(Answers(s)) /\ (daily # 0 => ~TooSlow(Answers(s)))
      BY <2>5, <2>6, ClosedHasRecovered
    <2>7. Recovered
      BY <2>3, <2>6 DEF Recovered
    <2> QED BY <2>4, <2>7
  <1>2. CASE Gap
    BY <1>2 DEF Gap, Recovered
  <1>3. CASE DayEnds
    <2>1. 0 \notin Baselines
      BY ProbeAssumption
    <2> QED BY <1>3, <2>1 DEF DayEnds, Recovered
  <1> QED BY <1>1, <1>2, <1>3 DEF ProbeNext

(* evaluate_probe_rules (probe_rules.py:52-106): the rules of a service are  *)
(* closed by what the probes say, over any samples and gaps.                *)
THEOREM ProbeInvHolds == ProbeInit /\ [][ProbeNext]_probeVars => []ProbeInv /\ RecoveryIsSeen
  <1>1. ProbeInv /\ [ProbeNext]_probeVars => ProbeInv' /\ [Recovered]_probeVars
    BY ProbeStep DEF probeVars, ProbeInv
  <1> QED BY ProbeStarts, <1>1, PTL DEF RecoveryIsSeen

-----------------------------------------------------------------------------
(* ErrorScan.                                                               *)

(* A line no scan dealt with or passed over was logged after the last scan. *)
NewIsRecent == \A f \in Criticals : fate[f] = "new" => lineAge[f] <= sinceScan

ErrorInv == ErrorTypeOK /\ NewIsRecent

LEMMA ErrorConstants ==
  /\ ErrorWindow \in Nat /\ ErrorInterval \in Nat /\ Drift \in Nat /\ MaxSends \in Nat
  /\ QueryLimit \in Nat /\ QueryLimit > 0
  /\ MaxSends > 0 /\ ErrorCooldown \in Nat /\ Crowd \in Nat
  /\ ErrorInterval + Drift <= ErrorWindow
  BY ErrorAssumption

LEMMA ErrorStarts == ErrorInit => ErrorInv
  BY ErrorConstants DEF ErrorInit, ErrorInv, ErrorTypeOK, NewIsRecent

LEMMA BuriedIsTyped ==
  ASSUME ErrorTypeOK, NEW fs \in SUBSET Criticals PROVE Buries(fs) \in [Criticals -> 0..QueryLimit]
  <1>1. ASSUME NEW f \in Criticals
        PROVE  (IF f \in fs THEN Shorter(newer[f] + 1, QueryLimit) ELSE 0) \in 0..QueryLimit
    BY ErrorConstants DEF ErrorTypeOK, Shorter
  <1> QED BY <1>1 DEF Buries

(* A new line is in the window of the next scan.                            *)
LEMMA NewIsInWindow ==
  ASSUME ErrorInv, NEW f \in Criticals, fate[f] = "new" PROVE f \in InWindow
  BY ErrorConstants DEF ErrorInv, ErrorTypeOK, NewIsRecent, InWindow

(* The cap keeps a critical line back only if it is full of critical ones.  *)
LEMMA FullOrAllSent ==
  ASSUME NEW fresh \in SUBSET Criticals, NEW sent \in SUBSET fresh, NEW crowd \in 0..Crowd,
         Cardinality(sent) = Shorter(Cardinality(fresh), MaxSends - Shorter(Ahead(crowd), MaxSends))
  PROVE  Cardinality(sent) = MaxSends \/ sent = fresh
  <1>1. IsFiniteSet(fresh) /\ Cardinality(fresh) \in Nat
    BY ErrorAssumption, FS_Subset, FS_CardinalityType
  <1>2. Cardinality(sent) = MaxSends \/ Cardinality(sent) = Cardinality(fresh)
    BY <1>1, ErrorConstants DEF Shorter, Ahead
  <1> QED BY <1>1, <1>2, FS_Subset

LEMMA ErrorStep ==
  ASSUME ErrorInv, ErrorNext PROVE ErrorInv'
  <1> USE ErrorConstants DEF ErrorInv
  <1>1. ASSUME NEW f \in Criticals, LineLogged(f) PROVE ErrorInv'
    <2>1. newer' \in [Criticals -> 0..QueryLimit]
      BY <1>1, BuriedIsTyped DEF LineLogged
    <2>2. ErrorTypeOK'
      BY <1>1, <2>1 DEF LineLogged, ErrorTypeOK
    <2> QED BY <1>1, <2>2 DEF LineLogged, ErrorTypeOK, NewIsRecent
  <1>2. CASE OtherLogged
    <2>1. newer' \in [Criticals -> 0..QueryLimit]
      BY <1>2, BuriedIsTyped DEF OtherLogged
    <2> QED BY <1>2, <2>1 DEF OtherLogged, ErrorTypeOK, NewIsRecent
  <1>3. CASE Minute
    <2>1. ASSUME NEW f \in Criticals
          PROVE  /\ Shorter(lineAge[f] + 1, ErrorWindow + 1) \in 0..ErrorWindow + 1
                 /\ Shorter(lineAge[f] + 1, ErrorWindow + 1) <= lineAge[f] + 1
                 /\ (IF cooling[f] > 0 THEN cooling[f] - 1 ELSE 0) \in 0..ErrorCooldown
      BY DEF ErrorTypeOK, Shorter
    <2>2. ErrorTypeOK'
      BY <1>3, <2>1 DEF Minute, ErrorTypeOK
    <2>3. ASSUME NEW f \in Criticals, fate[f] = "new"
          PROVE  Shorter(lineAge[f] + 1, ErrorWindow + 1) <= sinceScan + 1
      BY <2>1, <2>3 DEF ErrorTypeOK, NewIsRecent
    <2> QED BY <1>3, <2>2, <2>3 DEF Minute, NewIsRecent
  <1>4. CASE ErrorScanned
    <2> DEFINE Fresh(lost) == {f \in Found : cooling[f] = 0} \ lost
    <2>1. PICK lost \in SUBSET {f \in Found : cooling[f] = 0}, crowd \in 0..Crowd :
            \E sent \in SUBSET Fresh(lost) : \E stored \in SUBSET sent :
              /\ Cardinality(sent)
                   = Shorter(Cardinality(Fresh(lost)),
                             MaxSends - Shorter(Ahead(crowd), MaxSends))
              /\ cooling' = [f \in Criticals |-> IF f \in stored THEN ErrorCooldown
                                                 ELSE cooling[f]]
              /\ fate' = Scanned(sent, lost, Cardinality(sent) = MaxSends)
      BY <1>4 DEF ErrorScanned
    <2>s. PICK sent \in SUBSET Fresh(lost) : \E stored \in SUBSET sent :
            /\ Cardinality(sent)
                 = Shorter(Cardinality(Fresh(lost)),
                           MaxSends - Shorter(Ahead(crowd), MaxSends))
            /\ cooling' = [f \in Criticals |-> IF f \in stored THEN ErrorCooldown ELSE cooling[f]]
            /\ fate' = Scanned(sent, lost, Cardinality(sent) = MaxSends)
      BY <2>1
    <2>2. PICK stored \in SUBSET sent :
            /\ Cardinality(sent)
                 = Shorter(Cardinality(Fresh(lost)),
                           MaxSends - Shorter(Ahead(crowd), MaxSends))
            /\ cooling' = [f \in Criticals |-> IF f \in stored THEN ErrorCooldown ELSE cooling[f]]
            /\ fate' = Scanned(sent, lost, Cardinality(sent) = MaxSends)
      BY <2>s
    <2>3. Fresh(lost) \in SUBSET Criticals /\ Found \subseteq InWindow /\ InWindow \subseteq Criticals
      BY DEF Found, InWindow
    <2>4. Cardinality(sent) = MaxSends \/ sent = Fresh(lost)
      BY <2>2, <2>3, FullOrAllSent
    <2>5. ASSUME NEW f \in Criticals PROVE fate'[f] \in {"passed", "dealt"}
      <3>1. CASE f \in sent \/ (f \in Found /\ cooling[f] > 0)
        BY <2>2, <3>1 DEF Scanned
      <3>2. CASE ~(f \in sent \/ (f \in Found /\ cooling[f] > 0))
        <4> DEFINE over == lost \cup (InWindow \ Found)
                             \cup (IF Cardinality(sent) = MaxSends THEN Found ELSE {})
        <4>1. fate'[f] = IF f \in over /\ fate[f] = "new" THEN "passed" ELSE fate[f]
          BY <2>2, <3>2 DEF Scanned, Passed
        <4>2. ASSUME fate[f] = "new" PROVE f \in over
          <5>1. f \in InWindow
            BY <4>2, NewIsInWindow
          <5>2. ASSUME f \in Found PROVE cooling[f] = 0
            BY <3>2, <5>2 DEF ErrorTypeOK
          <5> QED BY <5>1, <5>2, <3>2, <2>4
        <4>3. fate[f] \in {"new", "passed", "dealt"}
          BY DEF ErrorTypeOK
        <4> HIDE DEF over
        <4> QED BY <4>1, <4>2, <4>3
      <3> QED BY <3>1, <3>2
    <2>6. DOMAIN fate' = Criticals /\ fate' = [f \in Criticals |-> fate'[f]]
      BY <2>2 DEF Scanned
    <2>7. ErrorTypeOK'
      <3>1. fate' \in [Criticals -> {"new", "passed", "dealt"}]
        BY <2>5, <2>6
      <3>2. cooling' \in [Criticals -> 0..ErrorCooldown]
        BY <2>2 DEF ErrorTypeOK
      <3> QED BY <1>4, <3>1, <3>2 DEF ErrorScanned, ErrorTypeOK
    <2> QED BY <2>5, <2>7 DEF NewIsRecent
  <1>5. CASE ErrorScanFails
    <2>1. ASSUME NEW f \in Criticals PROVE fate'[f] \in {"passed", "dealt"}
      BY <1>5, NewIsInWindow DEF ErrorScanFails, Passed, ErrorTypeOK
    <2>2. ErrorTypeOK'
      BY <1>5 DEF ErrorScanFails, Passed, ErrorTypeOK
    <2> QED BY <2>1, <2>2 DEF NewIsRecent
  <1> QED BY <1>1, <1>2, <1>3, <1>4, <1>5 DEF ErrorNext

(* Window, query limit and cap of the error alerts (scan_errors.py,         *)
(* engine.py): the invariant holds for any number of critical fingerprints  *)
(* and lines.                                                               *)
THEOREM ErrorInvHolds == ErrorInit /\ [][ErrorNext]_errorVars => []ErrorInv
  <1>1. ErrorInv /\ [ErrorNext]_errorVars => ErrorInv'
    <2>1. CASE UNCHANGED errorVars
      BY <2>1 DEF errorVars, ErrorInv, ErrorTypeOK, NewIsRecent
    <2> QED BY <2>1, ErrorStep
  <1> QED BY ErrorStarts, <1>1, PTL

LEMMA NewIsSeenInTime == ErrorInv => NoLineSlips
  BY ErrorConstants DEF ErrorInv, ErrorTypeOK, NewIsRecent, NoLineSlips

-----------------------------------------------------------------------------
(* OomHandover.                                                             *)

(* The oldest that a kill left to the metrics patrol gets before a scan of  *)
(* its own ends, but for the time of that scan.                             *)
Left(r) == MetricsInterval + (r + 1) * MetricsTime

(* What is left until somebody looks fits.  After a good metrics scan it is *)
(* that patrol; before its first outcome a failure may still hand the kill  *)
(* to docker; then it is docker.  In the order of the arguments, trusted,   *)
(* failing, metrics, gathering, docker, scanning, emit, age and restarts.   *)
InTime(t, f, m, g, d, s, e, a, r) ==
  IF t THEN IF g = None THEN a + m <= Left(r) ELSE a - g <= Left(r)
  ELSE IF ~f
       THEN a + (MetricsTime - (IF g = None THEN 0 ELSE g)) + ScanTime + DockerInterval
              <= Latest(r)
  ELSE IF s = None THEN a + d <= Latest(r)
  ELSE IF e THEN a - s <= Latest(r)
  ELSE a + (ScanTime - s) + DockerInterval <= Latest(r)

Unheard == age # None /\ ~heard /\ ~handed

UnheardIsInTime ==
  Unheard => InTime(trusted, failing, metrics, gathering, docker, scanning, emit, age, restarts)

(* A good outcome is not a failure, and without one there is a scan at once. *)
OutcomeIsKnown ==
  /\ ~(trusted /\ failing)
  /\ ~trusted /\ ~failing /\ gathering = None => metrics = 0

OomInv == OomTypeOK /\ OutcomeIsKnown /\ UnheardIsInTime

LEMMA OomConstants ==
  /\ MetricsInterval \in Nat /\ MetricsInterval > 0 /\ DockerInterval \in Nat /\ DockerInterval > 0
  /\ MetricsTime \in Nat /\ ScanTime \in Nat /\ MaxRestarts \in Nat
  BY HandoverAssumption

(* A multiple of what a restart costs.                                      *)
LEMMA MoreRestarts ==
  ASSUME NEW c \in Nat, NEW r \in Nat, NEW q \in Nat, r <= q
  PROVE  r * c \in Nat /\ (r + 1) * c = r * c + c /\ r * c <= q * c
  <1>1. r * c \in Nat /\ (r + 1) * c = r * c + c
    OBVIOUS
  <1>2. q - r \in Nat /\ (q - r) * c >= 0
    OBVIOUS
  <1>3. q * c = r * c + (q - r) * c
    BY <1>2
  <1> QED BY <1>1, <1>2, <1>3

LEMMA BoundsGrow ==
  ASSUME NEW r \in 0..MaxRestarts
  PROVE  /\ Latest(r) \in Nat /\ Latest(r) >= MetricsTime + ScanTime + DockerInterval
         /\ Latest(r + 1) = Latest(r) + MetricsTime + 2 * ScanTime + DockerInterval
         /\ Latest(r) < DockerWindow /\ Latest(r) + ScanTime < MetricsWindow
         /\ Left(r) \in Nat /\ Left(r) >= MetricsInterval + MetricsTime
         /\ Left(r + 1) = Left(r) + MetricsTime
         /\ Left(r) + MetricsTime < MetricsWindow
  <1> DEFINE c == MetricsTime + 2 * ScanTime + DockerInterval
  <1> DEFINE m == MetricsTime
  <1> DEFINE R == MaxRestarts
  <1>1. c \in Nat /\ m \in Nat /\ r \in Nat /\ R \in Nat /\ r <= R
    BY OomConstants
  <1>2. r * c \in Nat /\ (r + 1) * c = r * c + c /\ r * c <= R * c /\ R * c \in Nat
    BY <1>1, MoreRestarts
  <1>3. r * m \in Nat /\ (r + 1) * m = r * m + m /\ r * m <= R * m /\ R * m \in Nat
    BY <1>1, MoreRestarts
  <1>4. (r + 1 + 1) * m = (r + 1) * m + m /\ (R + 2) * m = R * m + 2 * m
    <2>1. (r + 1 + 1) * m = (r + 1) * m + m
      BY <1>1, MoreRestarts
    <2>2. (R + 2) * m = R * m + 2 * m
      BY <1>1
    <2> QED BY <2>1, <2>2
  <1>5. /\ Latest(r) = MetricsTime + ScanTime + DockerInterval + r * c
        /\ Latest(r + 1) = MetricsTime + ScanTime + DockerInterval + (r + 1) * c
        /\ Latest(R) = MetricsTime + ScanTime + DockerInterval + R * c
    BY DEF Latest
  <1>6. Left(r) = MetricsInterval + (r + 1) * m /\ Left(r + 1) = MetricsInterval + (r + 1 + 1) * m
    BY DEF Left
  <1>7. /\ MetricsInterval + (R + 2) * m < MetricsWindow
        /\ Latest(R) < DockerWindow /\ Latest(R) + ScanTime < MetricsWindow
    <2>1. MetricsInterval + (R + 2) * m < MetricsWindow /\ Latest(R) + ScanTime < MetricsWindow
          /\ (Latest(R) < Floor \/ Latest(R) < 2 * DockerInterval)
      BY HandoverAssumption
    <2>2. Latest(R) \in Nat
      <3> HIDE DEF c
      <3> QED BY <1>5, <1>2, <1>1, OomConstants
    <2> HIDE DEF R, m
    <2> QED BY <2>1, <2>2, OomConstants DEF DockerWindow, Floor
  <1>8. c = MetricsTime + 2 * ScanTime + DockerInterval /\ m = MetricsTime
    OBVIOUS
  <1> HIDE DEF c, m, R
  <1>9. /\ Latest(r) \in Nat /\ Latest(r) >= MetricsTime + ScanTime + DockerInterval
        /\ Latest(r + 1) = Latest(r) + MetricsTime + 2 * ScanTime + DockerInterval
    BY <1>1, <1>2, <1>5, <1>8, OomConstants
  <1>10. /\ Left(r) \in Nat /\ Left(r) >= MetricsInterval + MetricsTime
         /\ Left(r + 1) = Left(r) + MetricsTime
    BY <1>1, <1>3, <1>4, <1>6, <1>8, OomConstants
  <1>11. Latest(r) < DockerWindow /\ Latest(r) + ScanTime < MetricsWindow
    <2>1. Latest(r) <= Latest(R) /\ Latest(R) \in Nat
      BY <1>1, <1>2, <1>5, OomConstants
    <2> QED BY <1>7, <1>9, <2>1, OomConstants DEF MetricsWindow, DockerWindow, Floor
  <1>12. Left(r) + MetricsTime < MetricsWindow
    BY <1>1, <1>3, <1>4, <1>6, <1>7, <1>8, OomConstants DEF MetricsWindow
  <1> QED BY <1>9, <1>10, <1>11, <1>12

LEMMA OomTyped ==
  ASSUME OomTypeOK
  PROVE  /\ metrics \in Nat /\ metrics <= MetricsInterval
         /\ gathering \in Int /\ gathering >= -1 /\ gathering <= MetricsTime
         /\ docker \in Nat /\ docker <= DockerInterval
         /\ scanning \in Int /\ scanning >= -1 /\ scanning <= ScanTime
         /\ age \in Int /\ age >= -1 /\ age <= MetricsWindow
         /\ restarts \in Nat /\ restarts <= MaxRestarts /\ restarts \in 0..MaxRestarts
         /\ failing \in BOOLEAN /\ emit \in BOOLEAN /\ heard \in BOOLEAN
         /\ trusted \in BOOLEAN /\ handed \in BOOLEAN
  BY OomConstants DEF OomTypeOK, None, MetricsWindow

LEMMA OomStarts == OomInit => OomInv
  <1> SUFFICES ASSUME OomInit PROVE OomInv
    OBVIOUS
  <1>1. {failing, emit, heard, trusted, handed} \subseteq BOOLEAN
    BY DEF OomInit
  <1>2. /\ metrics \in 0..MetricsInterval /\ docker \in 0..DockerInterval
        /\ gathering \in None..MetricsTime /\ scanning \in None..ScanTime
        /\ age \in None..MetricsWindow /\ restarts \in 0..MaxRestarts
    BY OomConstants DEF OomInit, None, MetricsWindow
  <1>3. OutcomeIsKnown /\ UnheardIsInTime
    BY DEF OomInit, OutcomeIsKnown, UnheardIsInTime, Unheard
  <1> QED BY <1>1, <1>2, <1>3 DEF OomInv, OomTypeOK

(* A kill that nobody reported is not as old as the window of the metrics.  *)
LEMMA UnheardIsYoung ==
  ASSUME OomInv, Unheard
  PROVE  /\ age \in 0..(MetricsWindow - 1)
         /\ ~trusted => age <= Latest(restarts) + ScanTime
  <1>1. InTime(trusted, failing, metrics, gathering, docker, scanning, emit, age, restarts)
    BY DEF OomInv, UnheardIsInTime
  <1>2. age \in Nat /\ restarts \in 0..MaxRestarts
        /\ metrics \in Nat /\ docker \in Nat
        /\ gathering \in Int /\ gathering >= -1 /\ gathering <= MetricsTime
        /\ scanning \in Int /\ scanning >= -1 /\ scanning <= ScanTime
    BY OomTyped DEF OomInv, Unheard, None
  <1>b. /\ Latest(restarts) \in Nat /\ Left(restarts) \in Nat
        /\ Latest(restarts) + ScanTime < MetricsWindow
        /\ Left(restarts) + MetricsTime < MetricsWindow
    BY <1>2, BoundsGrow
  <1>3. CASE trusted
    <2>1. age <= Left(restarts) + MetricsTime
      BY <1>1, <1>3, <1>2, <1>b, OomConstants DEF InTime, None
    <2> QED BY <1>2, <1>b, <1>3, <2>1, OomConstants DEF MetricsWindow
  <1>4. CASE ~trusted
    <2>1. age <= Latest(restarts) + ScanTime
      BY <1>1, <1>4, <1>2, <1>b, OomConstants DEF InTime, None
    <2> QED BY <1>2, <1>b, <2>1, OomConstants DEF MetricsWindow
  <1> QED BY <1>3, <1>4

LEMMA OomStep ==
  ASSUME OomInv, OomNext PROVE OomInv'
  <1> DEFINE T == Latest(restarts)
  <1> DEFINE U == Left(restarts)
  <1>t. /\ metrics \in Nat /\ metrics <= MetricsInterval
        /\ gathering \in Int /\ gathering >= -1 /\ gathering <= MetricsTime
        /\ docker \in Nat /\ docker <= DockerInterval
        /\ scanning \in Int /\ scanning >= -1 /\ scanning <= ScanTime
        /\ age \in Int /\ age >= -1 /\ age <= MetricsWindow
        /\ restarts \in Nat /\ restarts <= MaxRestarts /\ restarts \in 0..MaxRestarts
        /\ failing \in BOOLEAN /\ emit \in BOOLEAN /\ heard \in BOOLEAN
        /\ trusted \in BOOLEAN /\ handed \in BOOLEAN
    BY OomTyped DEF OomInv
  <1>l. /\ T \in Nat /\ T >= MetricsTime + ScanTime + DockerInterval
        /\ Latest(restarts + 1) = T + MetricsTime + 2 * ScanTime + DockerInterval
        /\ T < DockerWindow
        /\ U \in Nat /\ U >= MetricsInterval + MetricsTime
        /\ Left(restarts + 1) = U + MetricsTime
    BY <1>t, BoundsGrow
  <1> HIDE DEF T, U
  <1>i. Unheard =>
          InTime(trusted, failing, metrics, gathering, docker, scanning, emit, age, restarts)
    BY DEF OomInv, UnheardIsInTime
  <1>o. OutcomeIsKnown /\ OomTypeOK
    BY DEF OomInv
  <1>1. CASE MetricsTick
    <2>1. OomTypeOK' /\ OutcomeIsKnown'
      <3>1. 0 \in None..MetricsTime
        BY OomConstants DEF None
      <3> QED BY <1>1, <1>o, <3>1 DEF MetricsTick, OomTypeOK, OutcomeIsKnown, None
    <2>2. ASSUME Unheard
          PROVE  InTime(trusted, failing, metrics, 0, docker, scanning, emit, age, restarts)
      BY <1>1, <2>2, <1>t, <1>l, <1>i, OomConstants DEF MetricsTick, InTime, None, T, U
    <2>3. UnheardIsInTime'
      BY <1>1, <2>2 DEF MetricsTick, UnheardIsInTime, Unheard
    <2> QED BY <2>1, <2>3 DEF OomInv
  <1>2. ASSUME NEW ok \in BOOLEAN, MetricsScan(ok) PROVE OomInv'
    <2>1. PICK ago \in 0..gathering :
            heard' = (heard \/ (ok /\ age # None /\ age - ago \in 0..(MetricsWindow - 1)))
      BY <1>2 DEF MetricsScan
    <2>2. /\ gathering # None /\ failing' = ~ok /\ trusted' = ok
          /\ handed' = (handed \/ (trusted /\ ~ok /\ age # None))
          /\ gathering' = None /\ metrics' = MetricsInterval
          /\ UNCHANGED <<docker, scanning, emit, age, restarts>>
      BY <1>2 DEF MetricsScan
    <2>3. OomTypeOK'
      <3>1. {failing', emit', heard', trusted', handed'} \subseteq BOOLEAN
        BY <2>1, <2>2, <1>t
      <3>2. metrics' \in 0..MetricsInterval /\ gathering' \in None..MetricsTime
        BY <2>2, OomConstants DEF None
      <3> QED BY <2>2, <1>o, <3>1, <3>2 DEF OomTypeOK
    <2>4. OutcomeIsKnown'
      BY <2>2 DEF OutcomeIsKnown
    <2>5. ASSUME Unheard, ok, ~(age - ago \in 0..(MetricsWindow - 1))
          PROVE  InTime(TRUE, FALSE, MetricsInterval, None, docker, scanning, emit, age, restarts)
      <3>1. age \in 0..(MetricsWindow - 1) /\ ago \in 0..MetricsTime
        <4>1. age \in 0..(MetricsWindow - 1)
          BY <2>5, UnheardIsYoung
        <4>2. ago \in 0..MetricsTime
          BY <1>t, OomConstants
        <4> QED BY <4>1, <4>2
      <3>2. age < ago
        BY <2>5, <3>1, OomConstants DEF MetricsWindow
      <3> QED BY <3>1, <3>2, <1>l, OomConstants DEF InTime, U
    <2>6. ASSUME Unheard, ~trusted, ~ok
          PROVE  InTime(FALSE, TRUE, MetricsInterval, None, docker, scanning, emit, age, restarts)
      <3>1. gathering \in 0..MetricsTime
        BY <2>2, <1>t, OomConstants DEF None
      <3>2. CASE failing
        BY <3>2, <2>6, <1>i DEF InTime
      <3>3. CASE ~failing
        <4>1. age + ScanTime + DockerInterval <= T
          BY <3>1, <3>3, <2>2, <2>6, <1>t, <1>l, <1>i, OomConstants DEF InTime, T
        <4> QED BY <4>1, <1>t, <1>l, OomConstants DEF InTime, T, None
      <3> QED BY <3>2, <3>3
    <2>7. UnheardIsInTime'
      <3> SUFFICES ASSUME Unheard'
                   PROVE  InTime(trusted', failing', metrics', gathering', docker', scanning',
                                 emit', age', restarts')
        BY DEF UnheardIsInTime
      <3>1. Unheard /\ ~(ok /\ age - ago \in 0..(MetricsWindow - 1)) /\ (trusted => ok)
        BY <2>1, <2>2 DEF Unheard
      <3>2. CASE ok
        BY <3>1, <3>2, <2>2, <2>5
      <3>3. CASE ~ok
        BY <3>1, <3>3, <2>2, <2>6
      <3> QED BY <3>2, <3>3
    <2> QED BY <2>3, <2>4, <2>7 DEF OomInv
  <1>3. CASE DockerTick
    <2>1. OomTypeOK' /\ OutcomeIsKnown'
      <3>1. 0 \in None..ScanTime
        BY OomConstants DEF None
      <3> QED BY <1>3, <1>o, <1>t, <3>1 DEF DockerTick, OomTypeOK, OutcomeIsKnown
    <2>2. ASSUME Unheard
          PROVE  InTime(trusted, failing, metrics, gathering, docker, 0, failing, age, restarts)
      BY <1>3, <2>2, <1>t, <1>l, <1>i, OomConstants DEF DockerTick, InTime, None, T, U
    <2>3. UnheardIsInTime'
      BY <1>3, <2>2 DEF DockerTick, UnheardIsInTime, Unheard
    <2> QED BY <2>1, <2>3 DEF OomInv
  <1>4. CASE DockerScan
    <2>1. OomTypeOK' /\ OutcomeIsKnown'
      <3>1. heard' \in BOOLEAN /\ emit' \in BOOLEAN
        BY <1>4 DEF DockerScan
      <3>2. scanning' \in None..ScanTime /\ docker' \in 0..DockerInterval
        BY <1>4, OomConstants DEF DockerScan, None
      <3> QED BY <1>4, <1>o, <3>1, <3>2 DEF DockerScan, OomTypeOK, OutcomeIsKnown
    <2>2. ASSUME Unheard, ~(emit /\ age - scanning \in 0..(DockerWindow - 1))
          PROVE  InTime(trusted, failing, metrics, gathering, DockerInterval, None, FALSE, age,
                        restarts)
      <3>1. CASE trusted \/ ~failing
        BY <3>1, <2>2, <1>i DEF InTime
      <3>2. CASE ~trusted /\ failing /\ emit
        <4>1. age - scanning <= T /\ scanning # None
          BY <3>2, <2>2, <1>4, <1>i DEF DockerScan, InTime, T
        <4>2. age - scanning < 0
          BY <4>1, <3>2, <2>2, <1>t, <1>l, OomConstants DEF DockerWindow, Floor
        <4> QED BY <4>2, <3>2, <1>t, <1>l, OomConstants DEF InTime, T
      <3>3. CASE ~trusted /\ failing /\ ~emit
        BY <3>3, <2>2, <1>4, <1>t, <1>l, <1>i, OomConstants DEF DockerScan, InTime, T
      <3> QED BY <3>1, <3>2, <3>3, <1>t
    <2>3. UnheardIsInTime'
      <3> SUFFICES ASSUME Unheard'
                   PROVE  InTime(trusted', failing', metrics', gathering', docker', scanning',
                                 emit', age', restarts')
        BY DEF UnheardIsInTime
      <3>1. Unheard /\ ~(emit /\ age - scanning \in 0..(DockerWindow - 1))
        BY <1>4 DEF DockerScan, Unheard
      <3> QED BY <1>4, <3>1, <2>2 DEF DockerScan
    <2> QED BY <2>1, <2>3 DEF OomInv
  <1>5. CASE Restart
    <2>1. OomTypeOK' /\ OutcomeIsKnown'
      <3>1. failing' \in BOOLEAN /\ emit' \in BOOLEAN
        BY <1>5 DEF Restart
      <3>2. restarts + 1 \in 0..MaxRestarts
        BY <1>5, <1>t, OomConstants DEF Restart
      <3>3. /\ scanning' \in None..ScanTime /\ docker' \in 0..DockerInterval
            /\ metrics' \in 0..MetricsInterval /\ gathering' \in None..MetricsTime
        BY <1>5, OomConstants DEF Restart, None
      <3> QED BY <1>5, <1>o, <3>1, <3>2, <3>3 DEF Restart, OomTypeOK, OutcomeIsKnown
    <2>2. ASSUME Unheard
          PROVE  InTime(trusted, FALSE, 0, None, 0, None, FALSE, age, restarts + 1)
      <3>1. CASE trusted
        <4>1. age <= U + MetricsTime
          BY <3>1, <2>2, <1>t, <1>i, <1>l, OomConstants DEF InTime, U, None
        <4> QED BY <4>1, <3>1, <1>t, <1>l, OomConstants DEF InTime
      <3>2. CASE ~trusted
        <4>1. age <= T + ScanTime
          BY <3>2, <2>2, UnheardIsYoung DEF T
        <4> QED BY <4>1, <3>2, <1>t, <1>l, OomConstants DEF InTime
      <3> QED BY <3>1, <3>2
    <2>3. UnheardIsInTime'
      BY <1>5, <2>2 DEF Restart, UnheardIsInTime, Unheard
    <2> QED BY <2>1, <2>3 DEF OomInv
  <1>6. CASE Kill
    <2>1. OomTypeOK' /\ OutcomeIsKnown'
      <3>1. 0 \in None..MetricsWindow
        BY DEF None, MetricsWindow
      <3> QED BY <1>6, <1>o, <3>1 DEF Kill, OomTypeOK, OutcomeIsKnown
    <2>2. InTime(trusted, failing, metrics, gathering, docker, scanning, emit, 0, restarts)
      BY <1>t, <1>l, OomConstants DEF InTime, None, T, U
    <2>3. UnheardIsInTime'
      BY <1>6, <2>2 DEF Kill, UnheardIsInTime
    <2> QED BY <2>1, <2>3 DEF OomInv
  <1>7. CASE HalfMinute
    <2> DEFINE Idle == /\ gathering = None /\ metrics > 0 /\ metrics' = metrics - 1
                       /\ gathering' = gathering
    <2> DEFINE Gathers == /\ gathering \in 0..(MetricsTime - 1) /\ gathering' = gathering + 1
                          /\ metrics' = metrics
    <2> DEFINE Waits == /\ scanning = None /\ docker > 0 /\ docker' = docker - 1
                        /\ scanning' = scanning
    <2> DEFINE Scans == /\ scanning \in 0..(ScanTime - 1) /\ scanning' = scanning + 1
                        /\ docker' = docker
    <2>1. /\ Idle \/ Gathers
          /\ Waits \/ Scans
          /\ age' = IF age \in {None, MetricsWindow} THEN age ELSE age + 1
          /\ UNCHANGED <<failing, emit, heard, trusted, handed, restarts>>
      BY <1>7 DEF HalfMinute
    <2>2. age' \in None..MetricsWindow
      BY <2>1, <1>t DEF None, MetricsWindow
    <2>3. /\ metrics' \in 0..MetricsInterval /\ gathering' \in None..MetricsTime
          /\ docker' \in 0..DockerInterval /\ scanning' \in None..ScanTime
      <3>1. metrics' \in 0..MetricsInterval /\ gathering' \in None..MetricsTime
        BY <2>1, <1>t, OomConstants DEF None
      <3>2. docker' \in 0..DockerInterval /\ scanning' \in None..ScanTime
        BY <2>1, <1>t, OomConstants DEF None
      <3> QED BY <3>1, <3>2
    <2>4. OomTypeOK'
      BY <2>1, <2>2, <2>3, <1>o DEF OomTypeOK
    <2>5. OutcomeIsKnown'
      BY <2>1, <1>o, <1>t, OomConstants DEF OutcomeIsKnown, None
    <2>6. ASSUME Unheard
          PROVE  InTime(trusted, failing, metrics', gathering', docker', scanning', emit, age + 1,
                        restarts)
      <3>1. CASE trusted
        <4>1. CASE Idle
          BY <4>1, <3>1, <2>6, <1>t, <1>i, <1>l, OomConstants DEF InTime, U
        <4>2. CASE Gathers
          BY <4>2, <3>1, <2>6, <1>t, <1>i, <1>l, OomConstants DEF InTime, U, None
        <4> QED BY <2>1, <4>1, <4>2
      <3>2. CASE ~trusted /\ ~failing
        <4>1. Gathers
          BY <2>1, <3>2, <1>o, <1>t DEF OutcomeIsKnown
        <4> QED BY <4>1, <3>2, <2>6, <1>t, <1>i, <1>l, OomConstants DEF InTime, T, None
      <3>3. CASE ~trusted /\ failing
        <4>1. CASE Waits
          BY <4>1, <3>3, <2>6, <1>t, <1>i, <1>l, OomConstants DEF InTime, T
        <4>2. CASE Scans
          BY <4>2, <3>3, <2>6, <1>t, <1>i, <1>l, OomConstants DEF InTime, T, None
        <4> QED BY <2>1, <4>1, <4>2
      <3> QED BY <3>1, <3>2, <3>3, <1>t
    <2>7. UnheardIsInTime'
      <3> SUFFICES ASSUME Unheard'
                   PROVE  InTime(trusted', failing', metrics', gathering', docker', scanning',
                                 emit', age', restarts')
        BY DEF UnheardIsInTime
      <3>1. Unheard
        BY <2>1 DEF Unheard
      <3>2. age' = age + 1
        BY <3>1, <2>1, UnheardIsYoung, <1>t DEF MetricsWindow, Unheard
      <3> QED BY <2>1, <2>6, <3>1, <3>2
    <2> QED BY <2>4, <2>5, <2>7 DEF OomInv
  <1> QED BY <1>1, <1>2, <1>3, <1>4, <1>5, <1>6, <1>7 DEF OomNext

(* The handover of OOM kills (app.py, scan_docker.py): a kill that neither  *)
(* patrol has reported yet, and that was not left to a metrics patrol that  *)
(* then failed, is still in the time its report takes at most.              *)
THEOREM OomInvHolds == OomInit /\ [][OomNext]_oomVars => []OomInv
  <1>1. OomInv /\ [OomNext]_oomVars => OomInv'
    <2>1. CASE UNCHANGED oomVars
      BY <2>1 DEF oomVars, OomInv, OomTypeOK, OutcomeIsKnown, UnheardIsInTime, Unheard
    <2> QED BY <2>1, OomStep
  <1> QED BY OomStarts, <1>1, PTL

LEMMA OldIsHeard == OomInv => KillIsReported
  BY UnheardIsYoung, OomTyped DEF KillIsReported, OomInv, Unheard, None, MetricsWindow
=============================================================================
