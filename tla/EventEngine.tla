---------------------------- MODULE EventEngine ----------------------------
(***************************************************************************)
(* The patrol event machine: apply_findings of sentinel/engine.py over the *)
(* events and digest_items tables of sentinel/store.py.                    *)
(*                                                                         *)
(* Every patrol job (probe, metrics, logs, errors, docker, hygiene) is one *)
(* asyncio task that runs a scan and hands the findings of the cycle to    *)
(* apply_findings.  The tasks share one event loop: a task keeps the loop  *)
(* from one await to the next, so the only points where two cycles can     *)
(* interleave are the broadcasts (variable "loop").  Every commit is its   *)
(* own step, so a crash or a store exception may fall between any two.     *)
(*                                                                         *)
(* What the engine of the model does not know is how a cycle obtained its  *)
(* findings: Cycle(j) accepts any findings its caller could legally pass   *)
(* (PatrolJobs restricts them to what the ticks of sentinel/app.py do).    *)
(***************************************************************************)
EXTENDS Integers, Sequences, FiniteSets

CONSTANTS
  Jobs,        \* the tasks that call apply_findings
  NoJob,       \* "nobody holds the event loop"
  Rules,       \* rule names (findings.py)
  Keys,        \* (rule, subject) pairs
  RuleOf,      \* the rule of a key
  Owner,       \* the job that evaluates a rule: scopes are disjoint
  PointKeys,   \* keys of point rules: recorded as resolved, never open
  Urgency,     \* for a key, the values "immediate" can take in its findings
  Cooldown,    \* cooldown_seconds, in clock units
  Cap,         \* max_new_sends of a job (None: any number >= MaxFindings)
  RowIds,      \* ids of rows of the events table that may be in use at once
  MaxFindings, \* bound: findings in one cycle
  MaxLag,      \* bound: clock units one cycle may take
  MayCrash     \* whether the process may crash: liveness assumes it does not

ASSUME EngineAssumption ==
  /\ NoJob \notin Jobs
  /\ RuleOf \in [Keys -> Rules]
  /\ Owner \in [Rules -> Jobs]
  /\ PointKeys \subseteq Keys
  /\ Urgency \in [Keys -> (SUBSET BOOLEAN) \ {{}}]
  /\ Cooldown \in Nat
  /\ Cap \in [Jobs -> Nat]
  /\ MaxFindings \in Nat
  /\ MaxLag \in Nat
  /\ MayCrash \in BOOLEAN

VARIABLES
  rows,     \* events with status "open"; a resolved event only counts in due
  due,      \* MAX(cooldown_until) of a key minus the clock, floored at -MaxLag
  digest,   \* state of the unsent digest item of a key, "none" without one
  loop,     \* the job that runs between two awaits
  pc,       \* where the cycle of a job is
  todo,     \* findings the cycle has not dealt with, Head first
  snap,     \* open_by_key, without the rows the recovery loop is done with
  firing,   \* keys found firing in this cycle
  held,     \* hold: keys exempt from recovery in this cycle
  admitted, \* new events admitted in this cycle
  lag,      \* the clock minus now_ts of the cycle
  view,     \* history: what the recipients were last told of the current incident
  torn      \* history: keys whose recovery was told but could not be recorded

tables == <<rows, due, digest>>
cycle == <<todo, snap, firing, held, admitted, lag>>
vars == <<tables, loop, pc, cycle, view, torn>>

Finding == [key : Keys, immediate : BOOLEAN]
Row == [id : RowIds, key : Keys, notified : BOOLEAN]
Views == {"silent", "queued", "firing", "recovered"}
States == {"idle", "finding", "alerting", "inserting",
           "recovering", "telling", "resolving"}

Max2(a, b) == IF a >= b THEN a ELSE b

KeysOf(scope) == {k \in Keys : RuleOf[k] \in scope}
ScopesOf(j) == SUBSET {r \in Rules : Owner[r] = j}

FindingsOf(scope) ==
  UNION {[1..n -> {f \in Finding : /\ f.key \in KeysOf(scope)
                                   /\ f.immediate \in Urgency[f.key]}] :
         n \in 0..MaxFindings}

(* {(e.rule, e.subject): e}: one open row per key of the scope.            *)
OpenByKey(scope) ==
  {CHOOSE r \in rows : r.key = k :
     k \in {r.key : r \in rows} \cap KeysOf(scope)}

UsedIds == {r.id : r \in rows \cup UNION {snap[j] : j \in Jobs}}
FreeIds == RowIds \ UsedIds

TypeOK ==
  /\ rows \subseteq Row
  /\ due \in [Keys -> (-MaxLag)..Cooldown]
  /\ digest \in [Keys -> {"none", "observed", "resolved"}]
  /\ loop \in Jobs \cup {NoJob}
  /\ pc \in [Jobs -> States]
  /\ todo \in [Jobs -> Seq(Finding)]
  /\ snap \in [Jobs -> SUBSET Row]
  /\ firing \in [Jobs -> SUBSET Keys]
  /\ held \in [Jobs -> SUBSET Keys]
  /\ admitted \in [Jobs -> Nat]
  /\ lag \in [Jobs -> 0..MaxLag]
  /\ view \in [Keys -> Views]
  /\ torn \subseteq Keys

Init ==
  /\ rows = {}
  /\ due = [k \in Keys |-> -MaxLag]
  /\ digest = [k \in Keys |-> "none"]
  /\ loop = NoJob
  /\ pc = [j \in Jobs |-> "idle"]
  /\ todo = [j \in Jobs |-> <<>>]
  /\ snap = [j \in Jobs |-> {}]
  /\ firing = [j \in Jobs |-> {}]
  /\ held = [j \in Jobs |-> {}]
  /\ admitted = [j \in Jobs |-> 0]
  /\ lag = [j \in Jobs |-> 0]
  /\ view = [k \in Keys |-> "silent"]
  /\ torn = {}

-----------------------------------------------------------------------------
(* The call: snapshot of the open events, then the findings in order.      *)

Ready(j) == loop = NoJob /\ pc[j] = "idle"

Begin(j, scope, hold, findings, age) ==
  /\ Ready(j)
  /\ loop' = j
  /\ pc' = [pc EXCEPT ![j] = "finding"]
  /\ todo' = [todo EXCEPT ![j] = findings]
  /\ snap' = [snap EXCEPT ![j] = OpenByKey(scope)]
  /\ firing' = [firing EXCEPT ![j] = {}]
  /\ held' = [held EXCEPT ![j] = hold]
  /\ admitted' = [admitted EXCEPT ![j] = 0]
  /\ lag' = [lag EXCEPT ![j] = age]
  /\ UNCHANGED <<tables, view, torn>>

Cycle(j) ==
  Ready(j) /\ \E scope \in ScopesOf(j) :
    \E hold \in SUBSET KeysOf(scope), findings \in FindingsOf(scope), age \in 0..MaxLag :
      Begin(j, scope, hold, findings, age)

-----------------------------------------------------------------------------
(* One finding.                                                            *)

Running(j, at) == loop = j /\ pc[j] = at

AtFinding(j) == Running(j, "finding") /\ todo[j] # <<>>

IsOpenNotified(j, k) == \E r \in snap[j] : r.key = k /\ r.notified \* mutant
IsOpen(j, k) == \E r \in snap[j] : r.key = k

(* Mutant: the clock instead of now_ts.                                     *)
CoolingByClock(j, k) == due[k] > 0
Cooling(j, k) == due[k] + lag[j] > 0

New(j, k) == ~IsOpen(j, k) /\ ~Cooling(j, k) /\ admitted[j] < Cap[j]

(* Mutant: set down after the checks, so that what was skipped looks over. *)
FiresIfNew(j) ==
  LET k == Head(todo[j]).key
  IN firing' = [firing EXCEPT ![j] = IF New(j, k) THEN @ \cup {k} ELSE @]
Fires(j) == firing' = [firing EXCEPT ![j] = @ \cup {Head(todo[j]).key}]

NextFinding(j) ==
  /\ todo' = [todo EXCEPT ![j] = Tail(@)]
  /\ pc' = [pc EXCEPT ![j] = "finding"]

Skip(j) ==
  /\ AtFinding(j)
  /\ Head(todo[j]).key \in firing[j] \/ ~New(j, Head(todo[j]).key)
  /\ Fires(j)
  /\ NextFinding(j)
  /\ UNCHANGED <<tables, loop, snap, held, admitted, lag, view, torn>>

SendAlert(j) ==
  /\ AtFinding(j)
  /\ Head(todo[j]).key \notin firing[j] /\ New(j, Head(todo[j]).key)
  /\ Head(todo[j]).immediate
  /\ Fires(j)
  /\ pc' = [pc EXCEPT ![j] = "alerting"]
  /\ loop' = NoJob
  /\ UNCHANGED <<tables, todo, snap, held, admitted, lag, view, torn>>

Enqueue(j) ==
  /\ AtFinding(j)
  /\ Head(todo[j]).key \notin firing[j] /\ New(j, Head(todo[j]).key)
  /\ ~Head(todo[j]).immediate
  /\ Fires(j)
  /\ digest' = [digest EXCEPT ![Head(todo[j]).key] = "observed"]
  /\ view' = [view EXCEPT ![Head(todo[j]).key] = "queued"]
  /\ admitted' = [admitted EXCEPT ![j] = @ + 1]
  /\ pc' = [pc EXCEPT ![j] = "inserting"]
  /\ UNCHANGED <<rows, due, loop, todo, snap, held, lag, torn>>

AlertDelivered(j) ==
  /\ loop = NoJob /\ pc[j] = "alerting"
  /\ loop' = j
  /\ view' = [view EXCEPT ![Head(todo[j]).key] = "firing"]
  /\ admitted' = [admitted EXCEPT ![j] = @ + 1]
  /\ pc' = [pc EXCEPT ![j] = "inserting"]
  /\ UNCHANGED <<tables, todo, snap, firing, held, lag, torn>>

AlertLost(j) ==
  /\ loop = NoJob /\ pc[j] = "alerting"
  /\ loop' = j
  /\ NextFinding(j)
  /\ UNCHANGED <<tables, snap, firing, held, admitted, lag, view, torn>>

(* cooldown_until = now_ts + cooldown_seconds, seen from the clock.        *)
Until(j) == Cooldown - lag[j]

(* A point event is stored as resolved: only its cooldown remains.         *)
Insert(j) ==
  LET f == Head(todo[j]) IN
  /\ Running(j, "inserting")
  /\ \/ f.key \in PointKeys /\ rows' = rows
     \/ /\ f.key \notin PointKeys
        /\ FreeIds # {}
        /\ rows' = rows \cup
             {[id |-> CHOOSE i \in FreeIds : TRUE, key |-> f.key, notified |-> f.immediate]}
  /\ due' = [due EXCEPT ![f.key] = Max2(@, Until(j))]
  /\ NextFinding(j)
  /\ UNCHANGED <<digest, loop, snap, firing, held, admitted, lag, view, torn>>

InsertFails(j) ==
  /\ Running(j, "inserting")
  /\ NextFinding(j)
  /\ UNCHANGED <<tables, loop, snap, firing, held, admitted, lag, view, torn>>

-----------------------------------------------------------------------------
(* The recovery loop.  The rows of one snapshot have distinct keys, so the *)
(* order in which they are taken is of no consequence.                     *)

FindingsDone(j) ==
  /\ Running(j, "finding") /\ todo[j] = <<>>
  /\ snap' = [snap EXCEPT ![j] = {r \in @ : r.key \notin firing[j] \cup held[j]}]
  /\ pc' = [pc EXCEPT ![j] = "recovering"]
  /\ UNCHANGED <<tables, loop, todo, firing, held, admitted, lag, view, torn>>

Stale(j) == CHOOSE r \in snap[j] : TRUE

AtRecovery(j) == Running(j, "recovering") /\ snap[j] # {}

NextStale(j) ==
  /\ snap' = [snap EXCEPT ![j] = @ \ {Stale(j)}]
  /\ pc' = [pc EXCEPT ![j] = "recovering"]

SendRecovery(j) ==
  /\ AtRecovery(j) /\ Stale(j).notified
  /\ pc' = [pc EXCEPT ![j] = "telling"]
  /\ loop' = NoJob
  /\ UNCHANGED <<tables, cycle, view, torn>>

(* Mutant: the digest is told of the recovery, the event is not resolved.  *)
DeferRecoveryOnly(j) ==
  /\ AtRecovery(j) /\ ~Stale(j).notified
  /\ digest' = [digest EXCEPT ![Stale(j).key] = "resolved"]
  /\ view' = [view EXCEPT ![Stale(j).key] = "recovered"]
  /\ NextStale(j)
  /\ UNCHANGED <<rows, due, loop, todo, firing, held, admitted, lag, torn>>

DeferRecovery(j) ==
  /\ AtRecovery(j) /\ ~Stale(j).notified
  /\ digest' = [digest EXCEPT ![Stale(j).key] = "resolved"]
  /\ view' = [view EXCEPT ![Stale(j).key] = "recovered"]
  /\ pc' = [pc EXCEPT ![j] = "resolving"]
  /\ UNCHANGED <<rows, due, loop, cycle, torn>>

RecoveryDelivered(j) ==
  /\ loop = NoJob /\ pc[j] = "telling"
  /\ loop' = j
  /\ view' = [view EXCEPT ![Stale(j).key] = "recovered"]
  /\ pc' = [pc EXCEPT ![j] = "resolving"]
  /\ UNCHANGED <<tables, cycle, torn>>

(* Mutant: resolved whatever the broadcast returned.                       *)
RecoveryLostResolves(j) ==
  /\ loop = NoJob /\ pc[j] = "telling"
  /\ loop' = j
  /\ pc' = [pc EXCEPT ![j] = "resolving"]
  /\ UNCHANGED <<tables, cycle, view, torn>>

RecoveryLost(j) ==
  /\ loop = NoJob /\ pc[j] = "telling"
  /\ loop' = j
  /\ NextStale(j)
  /\ UNCHANGED <<tables, todo, firing, held, admitted, lag, view, torn>>

Resolve(j) ==
  /\ Running(j, "resolving")
  /\ rows' = {r \in rows : r.id # Stale(j).id}
  /\ view' = [view EXCEPT ![Stale(j).key] = "silent"]
  /\ torn' = torn \ {Stale(j).key}
  /\ NextStale(j)
  /\ UNCHANGED <<due, digest, loop, todo, firing, held, admitted, lag>>

Forget(js) ==
  /\ pc' = [j \in Jobs |-> IF j \in js THEN "idle" ELSE pc[j]]
  /\ todo' = [j \in Jobs |-> IF j \in js THEN <<>> ELSE todo[j]]
  /\ snap' = [j \in Jobs |-> IF j \in js THEN {} ELSE snap[j]]
  /\ firing' = [j \in Jobs |-> IF j \in js THEN {} ELSE firing[j]]
  /\ held' = [j \in Jobs |-> IF j \in js THEN {} ELSE held[j]]
  /\ admitted' = [j \in Jobs |-> IF j \in js THEN 0 ELSE admitted[j]]
  /\ lag' = [j \in Jobs |-> IF j \in js THEN 0 ELSE lag[j]]
  /\ loop' = NoJob

Done(j) ==
  /\ Running(j, "recovering") /\ snap[j] = {}
  /\ Forget({j})
  /\ UNCHANGED <<tables, view, torn>>

-----------------------------------------------------------------------------
(* Failures.  Only insert_event is guarded by a try: an exception of any   *)
(* other store call leaves apply_findings, _job_loop logs it and sleeps.   *)

Torn(js) == {Stale(j).key : j \in {i \in js : pc[i] = "resolving"}}

Raise(j) ==
  /\ \/ AtFinding(j)
     \/ AtRecovery(j) /\ ~Stale(j).notified
     \/ Running(j, "resolving")
  /\ Forget({j})
  /\ torn' = torn \cup Torn({j})
  /\ UNCHANGED <<tables, view>>

Crash ==
  /\ MayCrash
  /\ Forget(Jobs)
  /\ torn' = torn \cup Torn(Jobs)
  /\ UNCHANGED <<tables, view>>

-----------------------------------------------------------------------------
(* The environment: the clock, and the scheduled report or digest that     *)
(* marks the items it read sent (how, is the matter of DigestReport).      *)

Busy(j) == pc[j] # "idle"

Tick ==
  /\ loop = NoJob
  /\ \A j \in Jobs : Busy(j) => lag[j] < MaxLag
  /\ due' = [k \in Keys |-> Max2(due[k] - 1, -MaxLag)]
  /\ lag' = [j \in Jobs |-> IF Busy(j) THEN lag[j] + 1 ELSE 0]
  /\ UNCHANGED <<rows, digest, loop, pc, todo, snap, firing, held, admitted, view, torn>>

DigestSent ==
  /\ loop = NoJob
  /\ \E sent \in (SUBSET {k \in Keys : digest[k] # "none"}) \ {{}} :
       digest' = [k \in Keys |-> IF k \in sent THEN "none" ELSE digest[k]]
  /\ UNCHANGED <<rows, due, loop, pc, cycle, view, torn>>

Step(j) ==
  \/ Skip(j) \/ SendAlert(j) \/ Enqueue(j) \/ AlertDelivered(j) \/ AlertLost(j)
  \/ Insert(j) \/ InsertFails(j) \/ FindingsDone(j) \/ SendRecovery(j)
  \/ DeferRecovery(j) \/ RecoveryDelivered(j) \/ RecoveryLost(j) \/ Resolve(j)
  \/ Done(j) \/ Raise(j)

Environment == Tick \/ DigestSent \/ Crash

Next == (\E j \in Jobs : Cycle(j) \/ Step(j)) \/ Environment

Spec == Init /\ [][Next]_vars

-----------------------------------------------------------------------------
(* Properties.                                                             *)

(* No two open events of one (rule, subject), although the snapshot that   *)
(* rules out the second one is read before the awaits that precede the     *)
(* insert and other jobs run in between.                                   *)
AtMostOneOpen == \A r, q \in rows : r.key = q.key => r = q

(* What a cycle still has to recover is still open: nobody else closed it  *)
(* while the cycle was waiting for a broadcast, so no recovery card is     *)
(* sent for an event that is no longer open.                               *)
SnapshotIsOpen == \A j \in Jobs : snap[j] \subseteq rows

(* "The store never holds an event that was not sent": an open event was   *)
(* told to the recipients of its incident, by alert or digest item.        *)
OpenIsTold ==
  \A r \in rows :
    view[r.key] \in {"recovered", IF r.notified THEN "firing" ELSE "queued"}

(* The recipients believe an incident over that is open in the store only  *)
(* while its row is being resolved, or after a crash or a store exception  *)
(* struck between the recovery message and the commit.                     *)
NotMisled ==
  \A r \in rows : view[r.key] = "recovered" =>
    \/ r.key \in torn
    \/ \E j \in Jobs : pc[j] = "resolving" /\ Stale(j) = r

(* No alert for an incident that is already open ("open: not sent again"), *)
(* even with no cooldown and with findings repeated within a cycle.        *)
NoRepeatedAlert ==
  \A j \in Jobs : pc[j] = "alerting" =>
    \A r \in rows : r.key # Head(todo[j]).key

(* A new event of a key is dated (now_ts) no earlier than the end of the   *)
(* cooldown of the previous one, although the cooldown is read before the  *)
(* broadcast and the row is written after it.                              *)
CooldownRespected ==
  [][\A k \in Keys : due'[k] > due[k] => due[k] + (Cooldown - due'[k]) <= 0]_vars

(* A hard finding of a point rule is suppressed only if the recipients     *)
(* were alerted of the same (rule, subject) before (notification_policy:   *)
(* hard alerts must be notified at once).                                  *)
HardAlertIsTold ==
  \A j \in Jobs : AtFinding(j) =>
    LET f == Head(todo[j]) IN
    /\ f.immediate /\ f.key \in PointKeys
    /\ f.key \notin firing[j] /\ admitted[j] < Cap[j] /\ ~New(j, f.key)
    => view[f.key] = "firing"

(* The machine implements Incidents: opened after an announcement, closed  *)
(* after the announcement of the recovery, by one row per key.             *)
Board == INSTANCE Incidents WITH open <- {r.key : r \in rows}
ImplementsIncidents == Board!Spec
=============================================================================
