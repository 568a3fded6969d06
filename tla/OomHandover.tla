---------------------------- MODULE OomHandover ----------------------------
(***************************************************************************)
(* Who reports an OOM kill: the metrics patrol, through Prometheus, as     *)
(* long as its scans succeed, the docker patrol once one failed.  The gate *)
(* (docker_tick of sentinel/app.py) is the outcome of the last metrics     *)
(* scan that ended, read before the docker scan is awaited; both scans     *)
(* take time, and each patrol sees the kill only in a window of its own.   *)
(*                                                                         *)
(* One container is killed once and stays down; times are in half          *)
(* minutes; broadcasts get through (EventEngine has those that do not).    *)
(***************************************************************************)
EXTENDS Integers

CONSTANTS
  MetricsInterval, \* sentinel_scan_interval
  DockerInterval,  \* sentinel_docker_scan_interval
  MetricsTime,     \* bound: how long a metrics scan may take
  ScanTime,        \* bound: how long a docker scan may take
  MaxRestarts      \* bound: restarts of the process

(* increase(container_oom_events_total[1h]); the docker window is          *)
(* max(2 * interval, 300 s).                                               *)
MetricsWindow == 120
Floor == 10
DockerWindowUnfloored == 2 * DockerInterval \* mutant
DockerWindow == IF 2 * DockerInterval > Floor THEN 2 * DockerInterval ELSE Floor

(* The latest that a docker tick which is to report a kill begins after it. *)
Latest(r) ==
  MetricsTime + ScanTime + DockerInterval + r * (MetricsTime + 2 * ScanTime + DockerInterval)

(* Each window reaches over a round of its own patrol and what restarts     *)
(* cost; with the default settings, scans of half a minute and a restart,   *)
(* it does.                                                                 *)
ASSUME HandoverAssumption ==
  /\ MetricsInterval \in Nat \ {0} /\ DockerInterval \in Nat \ {0}
  /\ MetricsTime \in Nat /\ ScanTime \in Nat /\ MaxRestarts \in Nat
  /\ MetricsInterval + (MaxRestarts + 2) * MetricsTime < MetricsWindow
  /\ Latest(MaxRestarts) < Floor \/ Latest(MaxRestarts) < 2 * DockerInterval
  /\ Latest(MaxRestarts) + ScanTime < MetricsWindow

None == -1

VARIABLES
  failing,   \* scan_fails["metrics"] > 0
  metrics,   \* time to the next metrics tick
  gathering, \* time since the start of the metrics scan under way, or None
  docker,    \* time to the next docker tick
  scanning,  \* time since now_ts of the docker tick under way, or None
  emit,      \* emit_oom of that tick
  age,       \* time since the kill, up to MetricsWindow, or None
  heard,     \* history: the kill was reported
  trusted,   \* history: the last metrics scan to end succeeded
  handed,    \* history: since the kill a metrics scan failed after one that succeeded
  restarts

oomVars == <<failing, metrics, gathering, docker, scanning, emit, age, heard, trusted, handed,
             restarts>>

OomTypeOK ==
  /\ {failing, emit, heard, trusted, handed} \subseteq BOOLEAN
  /\ metrics \in 0..MetricsInterval /\ docker \in 0..DockerInterval
  /\ gathering \in None..MetricsTime /\ scanning \in None..ScanTime
  /\ age \in None..MetricsWindow
  /\ restarts \in 0..MaxRestarts

OomInit ==
  /\ failing = FALSE /\ trusted = FALSE /\ handed = FALSE
  /\ metrics = 0 /\ gathering = None /\ docker = 0
  /\ scanning = None /\ emit = FALSE
  /\ age = None /\ heard = FALSE /\ restarts = 0

MetricsTick ==
  /\ metrics = 0 /\ gathering = None
  /\ gathering' = 0
  /\ UNCHANGED <<failing, metrics, docker, scanning, emit, age, heard, trusted, handed, restarts>>

(* The query is asked some time during the scan; a scan that fails, for     *)
(* whatever reason, loses what it found.                                    *)
MetricsScan(ok) ==
  /\ gathering # None
  /\ \E ago \in 0..gathering :
       heard' = (heard \/ (ok /\ age # None /\ age - ago \in 0..(MetricsWindow - 1)))
  /\ failing' = ~ok /\ trusted' = ok
  /\ handed' = (handed \/ (trusted /\ ~ok /\ age # None))
  /\ gathering' = None /\ metrics' = MetricsInterval
  /\ UNCHANGED <<docker, scanning, emit, age, restarts>>

(* metrics_covering is taken from the last metrics scan, then the docker   *)
(* scan is awaited.                                                        *)
DockerTick ==
  /\ docker = 0 /\ scanning = None
  /\ emit' = failing
  /\ scanning' = 0
  /\ UNCHANGED <<failing, metrics, gathering, docker, age, heard, trusted, handed, restarts>>

(* 0 <= now_ts - finished_ts < oom_window, with now_ts of the tick's start. *)
DockerScan ==
  /\ scanning # None
  /\ heard' = (heard \/ (emit /\ age # None /\ age - scanning \in 0..(DockerWindow - 1)))
  /\ scanning' = None
  /\ docker' = DockerInterval
  /\ emit' = FALSE
  /\ UNCHANGED <<failing, metrics, gathering, age, trusted, handed, restarts>>

Restart ==
  /\ restarts < MaxRestarts
  /\ restarts' = restarts + 1
  /\ failing' = FALSE
  /\ metrics' = 0 /\ docker' = 0
  /\ gathering' = None /\ scanning' = None /\ emit' = FALSE
  /\ UNCHANGED <<age, heard, trusted, handed>>

Kill ==
  /\ age = None
  /\ age' = 0
  /\ UNCHANGED <<failing, metrics, gathering, docker, scanning, emit, heard, trusted, handed,
                 restarts>>

HalfMinute ==
  /\ \/ gathering = None /\ metrics > 0 /\ metrics' = metrics - 1 /\ gathering' = gathering
     \/ gathering \in 0..(MetricsTime - 1) /\ gathering' = gathering + 1 /\ metrics' = metrics
  /\ \/ scanning = None /\ docker > 0 /\ docker' = docker - 1 /\ scanning' = scanning
     \/ scanning \in 0..(ScanTime - 1) /\ scanning' = scanning + 1 /\ docker' = docker
  /\ age' = IF age \in {None, MetricsWindow} THEN age ELSE age + 1
  /\ UNCHANGED <<failing, emit, heard, trusted, handed, restarts>>

OomNext ==
  \/ MetricsTick \/ (\E ok \in BOOLEAN : MetricsScan(ok)) \/ DockerTick \/ DockerScan
  \/ Restart \/ Kill \/ HalfMinute

-----------------------------------------------------------------------------
(* Properties.                                                             *)

(* "As soon as the metrics patrol fails, docker takes over the OOM (rather *)
(* twice than not at all)" (docker_tick): a kill that no patrol will look  *)
(* at any more was reported, over late scans, outages that begin and end,  *)
(* and restarts, which forget who is in charge.  Only a kill that was left *)
(* to a metrics patrol whose next scan failed may be lost: the docker      *)
(* window does not reach back to the scan before.                          *)
KillIsReported == age = MetricsWindow => heard \/ handed
=============================================================================
