---------------------------- MODULE DigestReport ----------------------------
(***************************************************************************)
(* The daily report and the evening digest of sentinel/report.py over the  *)
(* digest_items, meta and probe_daily tables of sentinel/store.py.         *)
(*                                                                         *)
(* Both are jobs of the one event loop: the pending items are read before  *)
(* the broadcast and marked sent after it, the patrol jobs go on merging   *)
(* observations into those items meanwhile, and the date gate and the      *)
(* daily rows are commits of their own.                                    *)
(***************************************************************************)
EXTENDS Integers, FiniteSets, FiniteSetsExt

CONSTANTS
  Report, Evening, \* the two jobs
  NoJob,
  Keys,            \* (rule, subject) of deferred findings
  Critical,        \* keys of critical severity: they come first
  Services,        \* services with a row in probe_daily
  Limit,           \* get_pending_digest_items(limit)
  MaxObs,          \* bound: observations of each key
  Days             \* bound: 1..n, n dates told apart, used in turn

ASSUME DigestAssumption ==
  /\ Report # Evening /\ NoJob \notin {Report, Evening}
  /\ Critical \subseteq Keys
  /\ Limit \in Nat \ {0} /\ MaxObs \in [Keys -> Nat]
  /\ IsFiniteSet(Days) /\ Days = 1..Cardinality(Days) /\ Cardinality(Days) > 1

Jobs == {Report, Evening}
Parts == {"night", "day", "evening"} \* before 09:00, from 09:00, from 18:00

VARIABLES
  unsent,  \* rows of digest_items with sent_ts NULL: [key, id, upto]
  issued,  \* rows ever inserted for a key: the source of ids
  gate,    \* meta: date of the last report, of the last digest, 0 if long ago
  saved,   \* probe_daily: (service, date) rows
  day, part,
  loop,    \* the job that runs between two awaits
  pc, batch, date, \* of a job: step, digest_items it sends and marks, date_str
  obs,     \* history: observations of a key so far; upto is one of them
  told,    \* history: items delivered messages held, each as the last one held it
  copies,  \* history: delivered messages of a job for a date not torn, up to 2
  torn     \* history: (job, date) delivered, with its commits not all made

clock == <<day, part>>
history == <<obs, told, copies, torn>>
vars == <<unsent, issued, gate, saved, clock, loop, pc, batch, date, history>>

Item == [key : Keys, id : Nat \ {0}, upto : Nat \ {0}]

TypeOK ==
  /\ unsent \subseteq Item
  /\ issued \in [Keys -> Nat]
  /\ gate \in [Jobs -> Days \cup {0}]
  /\ saved \subseteq Services \X Days
  /\ day \in Days /\ part \in Parts
  /\ loop \in Jobs \cup {NoJob}
  /\ pc \in [Jobs -> {"idle", "sending", "marking", "gating", "saving"}]
  /\ batch \in [Jobs -> SUBSET Item]
  /\ date \in [Jobs -> Days \cup {0}]
  /\ obs \in [Keys -> Nat] /\ \A k \in Keys : obs[k] <= MaxObs[k]
  /\ told \subseteq Item
  /\ copies \in [Jobs \X Days -> 0..2]
  /\ torn \subseteq Jobs \X Days

Init ==
  /\ unsent = {} /\ issued = [k \in Keys |-> 0]
  /\ gate = [j \in Jobs |-> 0] /\ saved = {}
  /\ day = 1 /\ part = "night"
  /\ loop = NoJob
  /\ pc = [j \in Jobs |-> "idle"]
  /\ batch = [j \in Jobs |-> {}]
  /\ date = [j \in Jobs |-> 0]
  /\ obs = [k \in Keys |-> 0] /\ told = {}
  /\ copies = [jd \in Jobs \X Days |-> 0]
  /\ torn = {}

-----------------------------------------------------------------------------
UnsentOf(k) == {i \in unsent : i.key = k}

NewItem(k) == [key |-> k, id |-> issued[k] + 1, upto |-> obs[k] + 1]

(* enqueue_digest: an observation is merged into the unsent item of its    *)
(* key, or starts one.                                                     *)
Observe(k) ==
  /\ loop = NoJob /\ obs[k] < MaxObs[k]
  /\ obs' = [obs EXCEPT ![k] = @ + 1]
  /\ \/ \E item \in UnsentOf(k) :
          /\ unsent' = (unsent \ {item}) \cup {[item EXCEPT !.upto = obs[k] + 1]}
          /\ issued' = issued
     \/ /\ UnsentOf(k) = {}
        /\ issued' = [issued EXCEPT ![k] = @ + 1]
        /\ unsent' = unsent \cup {NewItem(k)}
  /\ UNCHANGED <<gate, saved, clock, loop, pc, batch, date, told, copies, torn>>

PendingCritical == {{i \in unsent : i.key \in Critical}} \* mutant

(* What get_pending_digest_items may return: critical items first.         *)
Pending ==
  {items \in SUBSET unsent :
     /\ Cardinality(items) = Min({Limit, Cardinality(unsent)})
     /\ \A out \in unsent \ items, in \in items :
          out.key \in Critical => in.key \in Critical}

Due(j) == gate[j] # day /\ part \in (IF j = Report THEN {"day", "evening"} ELSE {"evening"})

Start(j) ==
  /\ loop = NoJob /\ pc[j] = "idle" /\ Due(j)
  /\ j = Evening => unsent # {}
  /\ \E items \in Pending : batch' = [batch EXCEPT ![j] = items]
  /\ date' = [date EXCEPT ![j] = day]
  /\ pc' = [pc EXCEPT ![j] = "sending"]
  /\ UNCHANGED <<unsent, issued, gate, saved, clock, loop, history>>

(* An empty window only commits the date gate.                             *)
Nothing ==
  /\ loop = NoJob /\ pc[Evening] = "idle" /\ Due(Evening) /\ unsent = {}
  /\ gate' = [gate EXCEPT ![Evening] = day]
  /\ UNCHANGED <<unsent, issued, saved, clock, loop, pc, batch, date, history>>

Finish(j) ==
  /\ pc' = [pc EXCEPT ![j] = "idle"]
  /\ batch' = [batch EXCEPT ![j] = {}]
  /\ date' = [date EXCEPT ![j] = 0]
  /\ loop' = NoJob

Lost(j) ==
  /\ loop = NoJob /\ pc[j] = "sending"
  /\ Finish(j)
  /\ UNCHANGED <<unsent, issued, gate, saved, clock, history>>

InBatch(j, i) == \E b \in batch[j] : <<b.key, b.id>> = <<i.key, i.id>>

Delivered(j) ==
  /\ loop = NoJob /\ pc[j] = "sending"
  /\ loop' = j
  /\ pc' = [pc EXCEPT ![j] = "marking"]
  /\ told' = {i \in told : ~InBatch(j, i)} \cup batch[j]
  /\ copies' = IF <<j, date[j]>> \in torn THEN copies
               ELSE [copies EXCEPT ![<<j, date[j]>>] = Min({@ + 1, 2})]
  /\ UNCHANGED <<unsent, issued, gate, saved, clock, batch, date, obs, torn>>

MarkedAll(j) == unsent \* mutant: every pending item
Marked(j) == {i \in unsent : InBatch(j, i)}

(* UPDATE ... WHERE id IN (...): by id, whatever was merged meanwhile.     *)
MarkSent(j) ==
  /\ loop = j /\ pc[j] = "marking"
  /\ unsent' = unsent \ Marked(j)
  /\ pc' = [pc EXCEPT ![j] = "gating"]
  /\ batch' = [batch EXCEPT ![j] = {}]
  /\ UNCHANGED <<issued, gate, saved, clock, loop, date, history>>

GateKeyShared(j) == Evening \* mutant: one meta key for both
GateKey(j) == j

SetGate(j) ==
  /\ loop = j /\ pc[j] = "gating"
  /\ gate' = [gate EXCEPT ![GateKey(j)] = date[j]]
  /\ \/ j = Evening /\ Finish(j)
     \/ j = Report /\ pc' = [pc EXCEPT ![j] = "saving"] /\ UNCHANGED <<loop, batch, date>>
  /\ UNCHANGED <<unsent, issued, saved, clock, history>>

MissingNone(j) == {} \* mutant: the daily rows forgotten
Missing(j) == {s \in Services : <<s, date[j]>> \notin saved}

Save ==
  /\ loop = Report /\ pc[Report] = "saving"
  /\ \/ /\ Missing(Report) # {}
        /\ \E s \in Missing(Report) : saved' = saved \cup {<<s, date[Report]>>}
        /\ UNCHANGED <<loop, pc, batch, date>>
     \/ Missing(Report) = {} /\ saved' = saved /\ Finish(Report)
  /\ UNCHANGED <<unsent, issued, gate, clock, history>>

(* A store call raises: _job_loop logs it and the job is idle again.       *)
Unfinished == {<<j, date[j]>> : j \in {i \in Jobs : pc[i] \in {"marking", "gating", "saving"}}}

Raise(j) ==
  /\ loop = j
  /\ torn' = torn \cup Unfinished
  /\ Finish(j)
  /\ UNCHANGED <<unsent, issued, gate, saved, clock, obs, told, copies>>

Crash ==
  /\ torn' = torn \cup Unfinished
  /\ pc' = [j \in Jobs |-> "idle"]
  /\ batch' = [j \in Jobs |-> {}]
  /\ date' = [j \in Jobs |-> 0]
  /\ loop' = NoJob
  /\ UNCHANGED <<unsent, issued, gate, saved, clock, obs, told, copies>>

Later(p) ==
  /\ part = p[1] /\ part' = p[2]
  /\ UNCHANGED <<unsent, issued, gate, saved, day, loop, pc, batch, date, history>>

(* A new date takes the place of the oldest one, which no broadcast under  *)
(* way is about.                                                           *)
Midnight ==
  LET new == (day % Cardinality(Days)) + 1 IN
  /\ part = "evening" /\ part' = "night"
  /\ new \notin {date[j] : j \in Jobs}
  /\ day' = new
  /\ gate' = [j \in Jobs |-> IF gate[j] = new THEN 0 ELSE gate[j]]
  /\ saved' = {sd \in saved : sd[2] # new}
  /\ copies' = [jd \in Jobs \X Days |-> IF jd[2] = new THEN 0 ELSE copies[jd]]
  /\ torn' = {jd \in torn : jd[2] # new}
  /\ UNCHANGED <<unsent, issued, loop, pc, batch, date, obs, told>>

TimePasses ==
  /\ loop = NoJob
  /\ Later(<<"night", "day">>) \/ Later(<<"day", "evening">>) \/ Midnight

Step(j) ==
  Start(j) \/ Lost(j) \/ Delivered(j) \/ MarkSent(j) \/ SetGate(j) \/ Raise(j)

Next ==
  \/ \E k \in Keys : Observe(k)
  \/ \E j \in Jobs : Step(j)
  \/ Nothing \/ Save \/ Crash \/ TimePasses

Spec == Init /\ [][Next]_vars

(* The jobs run every minute, so no day passes for ever without a report   *)
(* being tried; its broadcast and its commit, tried again and again,       *)
(* succeed in the end.  The digest need not be that lucky.                 *)
Fairness ==
  /\ SF_vars(TimePasses)
  /\ \A j \in Jobs : WF_vars(Step(j))
  /\ SF_vars(Start(Report)) /\ SF_vars(Delivered(Report)) /\ SF_vars(MarkSent(Report))

FairSpec == Spec /\ Fairness

-----------------------------------------------------------------------------
(* Properties.                                                             *)

(* One unsent item per (rule, subject), so that no message lists a subject *)
(* twice: merging finds the item even while a message that holds it is     *)
(* under way.                                                              *)
OneItemPerKey == \A i, l \in unsent : i.key = l.key => i = l

(* Nothing is marked sent that no delivered message held: each item ever   *)
(* started for a subject is still pending, or a message that was delivered *)
(* held that very item.                                                    *)
SentIsTold ==
  \A k \in Keys : \A n \in 1..issued[k] :
    \E i \in unsent \cup told : i.key = k /\ i.id = n

(* A date gets a second report, or a second digest, only if the process    *)
(* or the store failed between the delivery and the date gate.             *)
OncePerDate == \A jd \in Jobs \X Days : copies[jd] <= 1

(* The date gate never passes a report whose daily rows are missing, the   *)
(* baseline of the latency rule, unless a failure struck in between.       *)
BaselineComplete ==
  LET d == gate[Report] IN
  d > 0 => \/ <<Report, d>> \in torn
           \/ loop = Report /\ date[Report] = d
           \/ \A s \in Services : <<s, d>> \in saved

(* No item is left behind, though more of them wait than one message may   *)
(* hold: with the channels up again and again, each is sent in the end,    *)
(* once no more observations come (MaxObs) to go before it.                *)
ItemsAreSent ==
  \A k \in Keys : []<>(\A i \in unsent : i.key # k)

(* "Items of one (rule, subject) not yet reported are merged and the       *)
(* latest state is kept" (enqueue_digest): the latest observation of a     *)
(* subject was told, or is in an unsent item.                              *)
LatestIsKept ==
  \A k \in Keys : obs[k] > 0 => \E i \in unsent \cup told : i.key = k /\ i.upto = obs[k]
=============================================================================
