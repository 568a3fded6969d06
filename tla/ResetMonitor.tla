---------------------------- MODULE ResetMonitor ----------------------------
(***************************************************************************)
(* The reset monitor: ResetMonitor.tick of sentinel/codex_reset/engine.py  *)
(* over the tables of codex_reset/store.py, in processes that share them.  *)
(*                                                                         *)
(* A tick takes the lease, reads the sources, files the evidence item by   *)
(* item, forecasts first, advances the events it touched, queues a message *)
(* for each stage an event reached, and sends the messages due.  Every     *)
(* commit is a step, and so is every query a later statement rests on: the *)
(* other process may run and this one may be killed between any two.  What *)
(* a tick has read and not used yet is in its hand.                        *)
(*                                                                         *)
(* Nothing holds a tick to the term of its lease, so two may be under way. *)
(* The rows of an event are written without a look at what they are now:   *)
(* an UPDATE may put back a stage, an INSERT may fail.  One that fails     *)
(* leaves the transaction of its connection open, and nobody else writes   *)
(* to the database until that process is gone.                             *)
(***************************************************************************)
EXTENDS ResetStore

CONSTANTS
  Instances,     \* processes that run the monitor on one database
  NoOne,         \* no lease, or the lease of a process that is gone
  Items,         \* the items of the sources, recognised by their key
  Sources,       \* the sources; the last resort among them is Fallback
  Fallback,
  LeaseTtl,      \* sentinel_codex_reset_lease_seconds
  TickTime,      \* bound: how long a tick may take
  DelayGrace,    \* sentinel_codex_reset_delay_grace_seconds
  ReferenceAge,  \* sentinel_codex_reset_reference_max_reset_age_seconds
  RetryBase, RetryMax, MaxAttempts,
  MaxTime,       \* bound: where the clock stops; no lease lapses there
  MaxFaults      \* bound: processes killed, and leases run out under their tick

ASSUME MonitorAssumption ==
  /\ NoOne \notin Instances /\ \A i \in Items : IsItem(i) /\ i.source \in Sources
  /\ LeaseTtl > 0 /\ {LeaseTtl, TickTime, DelayGrace, ReferenceAge, RetryBase, RetryMax} \subseteq Nat
  /\ \A n \in 0..MaxAttempts : 2^n \in Nat
  /\ MaxAttempts \in Nat \ {0} /\ MaxTime \in Nat \ {0} /\ MaxFaults \in Nat

VARIABLES
  evidence,   \* codex_reset_evidence
  events,     \* codex_reset_events
  deliveries, \* codex_reset_deliveries, with the time until the next attempt
  lease,      \* codex_reset_leases: the owner, and the time left
  now,        \* the clock
  pc,         \* where the tick of an instance is
  began,      \* now_ts of the tick of an instance
  worked,     \* time since then
  batch,      \* items it still has to file
  touched,    \* canonical ids it has filed something under
  hand,       \* what it has read for the statement it is about
  owe,        \* stages it has stored and not queued yet
  list,       \* messages due that it has not sent yet, with their attempts
  stuck,      \* the transaction a failed statement left open in a process
  faults,     \* counted for the bound
  lapsed,     \* history: a lease ran out under its tick
  filed,      \* history: the items ever filed under a canonical id
  reached,    \* history: the stages stored that are recent enough to be told
  torn,       \* history: the stages of them lost with their tick
  told,       \* history: the messages that reached a channel
  again,      \* history: those that did a second time
  unmarked    \* history: those whose row was not updated

tables == <<evidence, events, deliveries>>
clock == <<now, began, worked>>
work == <<batch, touched, hand, owe, list>>
history == <<lapsed, filed, reached, torn, told, again, unmarked>>
vars == <<tables, lease, clock, pc, work, stuck, faults, history>>

Steps == {"idle", "done", "fetching", "prelim", "confirm", "queueing", "sending"}
Stage == Canon \X Stages
NoLease == [owner |-> NoOne, left |-> 0]
Partial(f, D, R(_)) == DOMAIN f \subseteq D /\ \A x \in DOMAIN f : R(f[x])
KeysOf == {i.key : i \in Items}
Lesser(m, n) == IF m < n THEN m ELSE n
Minus(m, n) == IF m < n THEN 0 ELSE m - n
Put(f, x, v) == [y \in DOMAIN f \cup {x} |-> IF y = x THEN v ELSE f[y]]

(* An item and its target; the evidence of an event, the stage it supports  *)
(* and, once seen, the row; the events that are late.                       *)
HandSteps == {"nothing", "aimed", "judged", "seen", "stored", "late"}
Nothing == [step |-> "nothing", canons |-> {}, items |-> {}, target |-> "none", row |-> NoRow]

IsHand(h) ==
  /\ h = [f \in DOMAIN Nothing |-> h[f]]
  /\ h.step \in HandSteps /\ h.canons \subseteq Canon /\ \A i \in h.items : IsItem(i)
  /\ h.target \in Stages \cup {"none"} /\ h.row \in EventRow \cup {NoRow}

TypeOK ==
  /\ Partial(evidence, KeysOf, LAMBDA r : IsItem(r.item) /\ r.canon \in Canon)
  /\ Partial(events, Canon, LAMBDA r : r \in EventRow)
  /\ Partial(deliveries, Stage, LAMBDA d : d.status \in {"pending", "delivered", "failed"}
                                 /\ d.attempts \in Nat /\ d.wait \in 0..RetryMax)
  /\ lease \in [owner : Instances \cup {NoOne}, left : 0..LeaseTtl]
  /\ now \in 1..MaxTime /\ began \in [Instances -> 0..MaxTime] /\ pc \in [Instances -> Steps]
  /\ worked \in [Instances -> 0..TickTime] /\ stuck \in [Instances -> {"no", "open", "locks"}]
  /\ faults \in 0..MaxFaults /\ lapsed \in BOOLEAN
  /\ \A p \in Instances :
       /\ (\A i \in batch[p] : IsItem(i)) /\ IsHand(hand[p]) /\ touched[p] \subseteq Canon
       /\ owe[p] \subseteq Stage /\ list[p] \subseteq Stage \X Nat
  /\ \A c \in Canon : \A i \in filed[c] : IsItem(i)
  /\ \A s \in {reached, torn, told, again, unmarked} : s \subseteq Stage

Init ==
  /\ evidence = <<>> /\ events = <<>> /\ deliveries = <<>> /\ lease = NoLease /\ now = 1
  /\ pc = [p \in Instances |-> "idle"] /\ began = [p \in Instances |-> NoTime]
  /\ worked = [p \in Instances |-> 0] /\ stuck = [p \in Instances |-> "no"]
  /\ batch = [p \in Instances |-> {}] /\ touched = [p \in Instances |-> {}]
  /\ hand = [p \in Instances |-> Nothing]
  /\ owe = [p \in Instances |-> {}] /\ list = [p \in Instances |-> {}] /\ faults = 0
  /\ filed = [c \in Canon |-> {}] /\ lapsed = FALSE
  /\ reached = {} /\ torn = {} /\ told = {} /\ again = {} /\ unmarked = {}

At(p, s) == pc[p] = s
(* Between two ticks; the next is not due before time passes.               *)
Working(p) == pc[p] \notin {"idle", "done"}
Goto(p, s) == pc' = [pc EXCEPT ![p] = s]
Holds(p, s) == hand[p].step = s
Take(p, h) == hand' = [hand EXCEPT ![p] = h]

(* Whether another process keeps this one from writing.                     *)
Locked(p) == \E q \in Instances \ {p} : stuck[q] = "locks"

-----------------------------------------------------------------------------
(* acquire_lease: free, run out, or one's own.  A tick that does not get it *)
(* does nothing; nor does one whose transaction is open.                    *)
(* Mutant: whoever asks gets it.                                            *)
LeaseFreeAlways(p) == TRUE
LeaseFree(p) == lease.left = 0 \/ lease.owner = p

Acquire(p) ==
  /\ At(p, "idle") /\ stuck[p] = "no" /\ ~Locked(p) /\ LeaseFree(p)
  /\ lease' = [owner |-> p, left |-> LeaseTtl]
  /\ Goto(p, "fetching") /\ began' = [began EXCEPT ![p] = now]
  /\ UNCHANGED <<tables, now, worked, work, stuck, faults, history>>

(* The sources answer with some of what has been published; one that fails  *)
(* gives nothing.  The last resort is asked when fewer than two answered or *)
(* a recent confirmation is among the items.  References not yet filed      *)
(* under an event come again.  The parent of a reply names its thread.      *)
Published(src, t) == {i \in Items : i.source \in src /\ i.at <= t}

PendingReferences(t) ==
  {evidence[k].item : k \in {j \in DOMAIN evidence :
     /\ evidence[j].item.local /\ evidence[j].canon \in References
     /\ evidence[j].item.type # "banked"
     /\ Between(t - ReferenceAge, evidence[j].item.at, t)}}

Aliased(S) ==
  LET replies == {i \in S : i.hint # i.self}
      Alias(c) == {i.hint : i \in {j \in replies : j.self = c}}
  IN {[i EXCEPT !.hint = IF Alias(@) = {} THEN @ ELSE CHOOSE c \in Alias(@) : TRUE] : i \in S}

Fetched(p) ==
  /\ At(p, "fetching") /\ ~Locked(p)
  /\ \E answered \in SUBSET (Sources \ {Fallback}) :
       LET t == began[p]
           primary == Published(answered, t)
           recent == \E i \in primary : i.stage = "confirmed" /\ RecentEnough(i.at, t)
           extra == IF Cardinality(answered) < 2 \/ recent
                    THEN {{}, Published({Fallback}, t)} ELSE {{}}
       IN \E more \in extra :
            batch' = [batch EXCEPT ![p] = Aliased(primary \cup more \cup PendingReferences(t))]
  /\ Goto(p, "prelim")
  /\ UNCHANGED <<tables, lease, clock, touched, hand, owe, list, stuck, faults, history>>

-----------------------------------------------------------------------------
(* Filing and advancing, first the forecasts, then the confirmations, those *)
(* of the reference account last.                                           *)

Forecasts(p) == {i \in batch[p] : i.stage # "confirmed"}
Public(p) == {i \in batch[p] : ~i.local}

Filing(p) == pc[p] \in {"prelim", "confirm"} /\ Holds(p, "nothing") /\ owe[p] = {}
Confirming(p) == At(p, "confirm") \/ (Forecasts(p) = {} /\ touched[p] = {})

Turn(p) == IF ~Confirming(p) THEN Forecasts(p)
           ELSE IF Public(p) # {} THEN Public(p) ELSE batch[p]

Phase(p) == IF Confirming(p) THEN "confirm" ELSE "prelim"

Aim(p) ==
  /\ Filing(p) /\ Goto(p, Phase(p))
  /\ \E i \in Turn(p) : \E c \in Targets(evidence, events, i) :
       /\ Take(p, [Nothing EXCEPT !.step = "aimed", !.canons = {c}, !.items = {i}])
       /\ batch' = [batch EXCEPT ![p] = @ \ {i}]
  /\ UNCHANGED <<tables, lease, clock, touched, owe, list, stuck, faults, history>>

(* put_evidence moves an item that comes back to its new target.            *)
PutEvidence(p) ==
  /\ Holds(p, "aimed") /\ ~Locked(p) /\ Take(p, Nothing)
  /\ \E i \in hand[p].items : \E c \in hand[p].canons :
       /\ evidence' = Put(evidence, i.key, [item |-> [i EXCEPT !.hint = c], canon |-> c])
       /\ touched' = [touched EXCEPT ![p] = @ \cup {c}]
       /\ filed' = [filed EXCEPT ![c] = @ \cup {[i EXCEPT !.hint = c]}]
  /\ UNCHANGED <<events, deliveries, lease, clock, pc, batch, owe, list, stuck, faults, lapsed,
                 reached, torn, told, again, unmarked>>

(* _advance_event: the evidence and the stage it supports, if any,          *)
Judge(p) ==
  /\ Filing(p) /\ Turn(p) = {}
  /\ \E c \in touched[p] :
       LET S == Filed(evidence, c)
       IN /\ touched' = [touched EXCEPT ![p] = @ \ {c}]
          /\ \/ Classify(S) = {} /\ UNCHANGED hand
             \/ \E stage \in Classify(S) :
                  Take(p, [Nothing EXCEPT !.step = "judged", !.canons = {c}, !.items = S,
                                          !.target = stage])
  /\ UNCHANGED <<tables, lease, clock, pc, batch, owe, list, stuck, faults, history>>

(* the row as it is now,                                                    *)
Look(p) ==
  /\ Holds(p, "judged")
  /\ \E c \in hand[p].canons :
       Take(p, [hand[p] EXCEPT !.step = "seen", !.row = RowOf(events, c)])
  /\ UNCHANGED <<tables, lease, clock, pc, batch, touched, owe, list, stuck, faults, history>>

(* an UPDATE, or an INSERT if no row was seen,                              *)
Collides(p) == hand[p].row = NoRow /\ hand[p].canons \subseteq DOMAIN events

Store(p) ==
  /\ Holds(p, "seen") /\ ~Locked(p) /\ ~Collides(p)
  /\ LET h == hand[p]
     IN /\ \E c \in h.canons : \E row \in Rows(h.items, h.row, RowOf(events, c), h.target) :
             events' = Put(events, c, row)
        /\ Take(p, IF CanAdvance(h.row, h.target) THEN [h EXCEPT !.step = "stored"] ELSE Nothing)
  /\ UNCHANGED <<evidence, deliveries, lease, clock, pc, batch, touched, owe, list, stuck, faults,
                 history>>

(* and the row again: a stage that is new to this tick is owed a message if *)
(* it is not too old.                                                       *)
Weigh(p) ==
  /\ Holds(p, "stored") /\ Take(p, Nothing)
  /\ LET h == hand[p]
         new == {<<c, h.target>> : c \in {d \in h.canons :
                   RecentEnough(RelevantTime(h.items, RowOf(events, d), h.target), began[p])}}
     IN owe' = [owe EXCEPT ![p] = new] /\ reached' = reached \cup new
  /\ UNCHANGED <<tables, lease, clock, pc, batch, touched, list, stuck, faults, lapsed, filed, torn,
                 told, again, unmarked>>

(* queue_delivery: a stage is queued once.                                  *)
Queue(p) ==
  /\ ~Locked(p)
  /\ \E d \in owe[p] :
       /\ deliveries' = IF d \in DOMAIN deliveries THEN deliveries
                         ELSE Put(deliveries, d, [status |-> "pending", attempts |-> 0, wait |-> 0])
       /\ owe' = [owe EXCEPT ![p] = @ \ {d}]
  /\ UNCHANGED <<evidence, events, lease, clock, pc, batch, touched, hand, list, stuck, faults, history>>

(* mark_delayed: what was announced and is overdue,                         *)
Overdue(e, t) ==
  e.stage = "announced" /\ e.type # "banked" /\ e.end # NoTime /\ e.end + DelayGrace < t

LookLate(p) ==
  /\ Filing(p) /\ Confirming(p) /\ Turn(p) = {} /\ touched[p] = {}
  /\ LET late == {c \in DOMAIN events : Overdue(events[c], began[p])}
     IN \/ late = {} /\ Goto(p, "queueing") /\ UNCHANGED hand
        \/ late # {} /\ Take(p, [Nothing EXCEPT !.step = "late", !.canons = late])
                     /\ UNCHANGED pc
  /\ UNCHANGED <<tables, lease, clock, batch, touched, owe, list, stuck, faults, history>>

(* is delayed, if it still is announced; every one of them is owed a        *)
(* message.                                                                 *)
MarkDelayed(p) ==
  /\ Holds(p, "late") /\ ~Locked(p) /\ Take(p, Nothing) /\ Goto(p, "queueing")
  /\ LET late == hand[p].canons
         new == {<<c, "delayed">> : c \in {d \in late :
                   RecentEnough(Coalesce(RowOf(events, d).end, RowOf(events, d).announced), began[p])}}
     IN /\ events' = [c \in DOMAIN events |->
                        IF c \in late /\ events[c].stage = "announced"
                        THEN [events[c] EXCEPT !.stage = "delayed"] ELSE events[c]]
        /\ owe' = [owe EXCEPT ![p] = new]
        /\ reached' = reached \cup new
  /\ UNCHANGED <<evidence, deliveries, lease, clock, batch, touched, list, stuck, faults, lapsed,
                 filed, torn, told, again, unmarked>>

(* due_deliveries.                                                          *)
ListDue(p) ==
  /\ At(p, "queueing") /\ owe[p] = {} /\ Goto(p, "sending")
  /\ list' = [list EXCEPT ![p] = {<<d, deliveries[d].attempts>> : d \in {e \in DOMAIN deliveries :
                deliveries[e].status = "pending" /\ deliveries[e].wait = 0 /\ e[1] \in DOMAIN events}}]
  /\ UNCHANGED <<tables, lease, clock, batch, touched, hand, owe, stuck, faults, history>>

(* What was told is recorded as long as no lease has lapsed.                *)
Record(S, T) == IF lapsed THEN S ELSE S \cup T
Tell(d) == told' = Record(told, {d}) /\ again' = Record(again, told \cap {d})

(* A message that reached a channel and the update of its row.              *)
Delivered(p) ==
  /\ At(p, "sending") /\ ~Locked(p)
  /\ \E m \in list[p] :
       /\ deliveries' = [deliveries EXCEPT ![m[1]].status = "delivered"]
       /\ list' = [list EXCEPT ![p] = @ \ {m}]
       /\ Tell(m[1])
  /\ UNCHANGED <<evidence, events, lease, clock, pc, batch, touched, hand, owe, stuck, faults, lapsed,
                 filed, reached, torn, unmarked>>

(* Mutant: the attempt is not counted.                                      *)
RetryUncounted(row, listed, p) == [row EXCEPT !.wait = RetryMax]

(* The row counts the attempt; what follows is judged by the attempts there *)
(* were when it was listed.  The delay counts from the start of the tick    *)
(* and doubles; a message given up waits no more.                           *)
Retry(row, listed, p) ==
  LET n == listed + 1
      last == n >= MaxAttempts
  IN [status |-> IF last THEN "failed" ELSE "pending", attempts |-> row.attempts + 1,
      wait |-> IF last THEN 0 ELSE Minus(Lesser(RetryMax, RetryBase * 2^(n - 1)), worked[p])]

AllFailed(p) ==
  /\ At(p, "sending") /\ ~Locked(p)
  /\ \E m \in list[p] :
       /\ deliveries' = [deliveries EXCEPT ![m[1]] = Retry(@, m[2], p)]
       /\ list' = [list EXCEPT ![p] = @ \ {m}]
  /\ UNCHANGED <<evidence, events, lease, clock, pc, batch, touched, hand, owe, stuck, faults, history>>

Finish(p) ==
  /\ At(p, "sending") /\ list[p] = {} /\ Goto(p, "done")
  /\ worked' = [worked EXCEPT ![p] = 0] /\ began' = [began EXCEPT ![p] = NoTime]
  /\ UNCHANGED <<tables, lease, now, work, stuck, faults, history>>

-----------------------------------------------------------------------------
(* A tick cut off, maybe with a message already out.                        *)
Dropped(p) ==
  /\ Goto(p, "idle")
  /\ worked' = [worked EXCEPT ![p] = 0] /\ began' = [began EXCEPT ![p] = NoTime]
  /\ batch' = [batch EXCEPT ![p] = {}] /\ touched' = [touched EXCEPT ![p] = {}]
  /\ Take(p, Nothing)
  /\ owe' = [owe EXCEPT ![p] = {}] /\ list' = [list EXCEPT ![p] = {}]
  /\ torn' = torn \cup (owe[p] \ DOMAIN deliveries)
  /\ \/ UNCHANGED <<told, again, unmarked>>
     \/ At(p, "sending") /\ \E m \in list[p] : Tell(m[1]) /\ unmarked' = Record(unmarked, {m[1]})
  /\ UNCHANGED <<tables, now, lapsed, filed, reached>>

(* The INSERT of a row that another process has made meanwhile.             *)
Clash(p) ==
  /\ Holds(p, "seen") /\ ~Locked(p) /\ Collides(p)
  /\ Dropped(p) /\ stuck' = [stuck EXCEPT ![p] = "locks"]
  /\ UNCHANGED <<lease, faults>>

(* A write that waits for the database in vain.                             *)
Writing(p) ==
  \/ At(p, "fetching") \/ owe[p] # {} \/ list[p] # {}
  \/ hand[p].step \in {"aimed", "seen", "late"}

Fails(p) ==
  /\ Locked(p) /\ Writing(p)
  /\ Dropped(p) /\ stuck' = [stuck EXCEPT ![p] = "open"]
  /\ UNCHANGED <<lease, faults>>

(* A process killed; one that stops in order and gives the lease back.  A   *)
(* new process has a new name, and a new connection.                        *)
Gone(p) ==
  /\ Working(p) \/ stuck[p] # "no"
  /\ Dropped(p) /\ stuck' = [stuck EXCEPT ![p] = "no"]
  /\ faults < MaxFaults /\ faults' = faults + 1

Kill(p) ==
  /\ Gone(p)
  /\ lease' = IF lease.owner = p THEN [lease EXCEPT !.owner = NoOne] ELSE lease

(* close, once the task is cancelled where it waits.                        *)
Close(p) ==
  /\ pc[p] \in {"fetching", "sending"} /\ ~Locked(p) /\ Gone(p)
  /\ lease' = IF lease.owner = p THEN NoLease ELSE lease

(* A lease that runs out while its tick works.                              *)
Lapses == lease.left = 1 /\ \E p \in Instances : lease.owner = p /\ Working(p)

Tick ==
  /\ \A p \in Instances : Working(p) => worked[p] < TickTime
  /\ now' = Lesser(now + 1, MaxTime)
  /\ worked' = [p \in Instances |-> IF Working(p) THEN worked[p] + 1 ELSE 0]
  /\ pc' = [p \in Instances |-> IF At(p, "done") THEN "idle" ELSE pc[p]]
  /\ lease' = [lease EXCEPT !.left = Minus(@, 1)]
  /\ deliveries' = [d \in DOMAIN deliveries |-> [deliveries[d] EXCEPT !.wait = Minus(@, 1)]]
  /\ \/ ~Lapses /\ UNCHANGED <<faults, lapsed, told, again, unmarked>>
     \/ /\ Lapses /\ now < MaxTime /\ faults < MaxFaults /\ faults' = faults + 1
        /\ lapsed' = TRUE /\ told' = {} /\ again' = {} /\ unmarked' = {}
  /\ UNCHANGED <<evidence, events, began, work, stuck, filed, reached, torn>>

Work(p) ==
  \/ Acquire(p) \/ Fetched(p) \/ Aim(p) \/ PutEvidence(p) \/ Judge(p) \/ Look(p) \/ Store(p)
  \/ Weigh(p) \/ Queue(p) \/ LookLate(p) \/ MarkDelayed(p) \/ ListDue(p)
  \/ Delivered(p) \/ AllFailed(p) \/ Finish(p) \/ Clash(p) \/ Fails(p)

Next == Tick \/ \E p \in Instances : Work(p) \/ Kill(p) \/ Close(p)

(* Every wait of a tick has a timeout; the job comes again every minute.    *)
Fairness == WF_vars(Tick) /\ \A p \in Instances : WF_vars(Work(p))
Spec == Init /\ [][Next]_vars /\ Fairness

-----------------------------------------------------------------------------
(* As long as no lease runs out under its tick, a stage never goes back,    *)
(* though the evidence of an event may be moved away, come in any order and *)
(* be judged by one process after another, each killed at any point.        *)
StagesOnlyAdvance ==
  [][lapsed \/ \A c \in DOMAIN events :
       c \in DOMAIN events' /\ Rank[events[c].stage] <= Rank[events'[c].stage]]_vars

(* However many sites repeat it, however it is filed and whoever judges it  *)
(* beside whom, a single post that is not official, with or without a       *)
(* window of the reference account, does not confirm a reset.               *)
OnePostIsNotEnough ==
  \A c \in DOMAIN events : events[c].stage = "confirmed" =>
    \/ \E i \in filed[c] : i.official
    \/ \E i \in filed[c] : i.local /\ i.type = "banked"
    \/ Cardinality({i.url : i \in {j \in filed[c] : j.completed /\ ~j.local}}) > 1

(* As long as no lease runs out under its tick, no stage of an event is     *)
(* told twice, but for a message that a kill left without its mark.         *)
ToldOnce == lapsed \/ again \subseteq unmarked

(* A stage an event has reached in time is told, or given up after the last *)
(* attempt, two ticks at once or not; unless its tick was cut off before it *)
(* was queued, or a transaction is open and its process not restarted.      *)
Settled(d) == d \in torn \/ (d \in DOMAIN deliveries /\ deliveries[d].status # "pending")
StageIsSettled ==
  []<>((\A d \in reached : Settled(d)) \/ \E p \in Instances : stuck[p] # "no")
=============================================================================
