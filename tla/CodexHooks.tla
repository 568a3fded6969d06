----------------------------- MODULE CodexHooks -----------------------------
(***************************************************************************)
(* The notifications about a Codex session: the hook client of             *)
(* sentinel/codex_notify.py, the routes of sentinel/api.py it posts to,    *)
(* CodexHookNotificationManager of sentinel/codex_hooks.py and the         *)
(* receipts of sentinel/store.py.                                          *)
(*                                                                         *)
(* A hook event queues a candidate or cancels candidates.  A job sends the *)
(* candidates whose grace has run out: the list of those due is read once, *)
(* and hook events are handled whenever the job waits for the channels.    *)
(* Candidates live in the process; the receipt of a delivery is stored.    *)
(*                                                                         *)
(* Time passes in two units: Tick, the one grace, turns and backoff are    *)
(* counted in, and DayPasses, the one seen events and receipts age in.     *)
(***************************************************************************)
EXTENDS Naturals, FiniteSets

CONSTANTS
  Ids,           \* the events a session produces, by event_id
  Results,       \* what the last message of a turn may say
  NoTurn,        \* turn_id of an event that has none
  NoSend,        \* no delivery is under way
  Grace,         \* sentinel_codex_hook_grace_seconds, in ticks
  LongTurn,      \* sentinel_codex_long_turn_seconds, in ticks
  BackoffUnit,   \* the 5 s of the retry delay, in ticks
  BackoffMax,    \* the 60 s that bound it, in ticks
  SeenMax,       \* the 2000 event ids from which seen ids are forgotten
  RetentionDays, \* sentinel_codex_receipt_retention_days
  MaxDays,       \* bound: days that pass
  MaxFaults      \* bound: errors of the store and restarts

Names == {"UserPromptSubmit", "PermissionRequest", "PostToolUse", "Stop", "SessionEnd"}
Categories == {"approval_required", "input_required", "execution_failed", "long_turn_complete"}

(* The id the client gives an event: the session, the turn, the hook and    *)
(* for a tool the fingerprint of its input, or the id of its use.           *)
EventIds(Sessions, Turns, Tools) ==
  {i \in [session : Sessions, turn : Turns \cup {NoTurn}, name : Names,
          tool : Tools \cup {""}] :
     /\ i.turn = NoTurn => i.name = "SessionEnd"
     /\ (i.tool # "") <=> i.name \in {"PermissionRequest", "PostToolUse"}}

ASSUME HooksAssumption ==
  /\ {Grace, LongTurn, BackoffUnit, BackoffMax, SeenMax, RetentionDays, MaxDays, MaxFaults} \subseteq Nat
  /\ \A n \in 1..2 : 2^n \in Nat
  /\ \A i \in Ids : i.name \in Names
  /\ Results \subseteq {"rejected", "input", "failed", "other"}
  /\ NoSend \notin [id : Ids, category : Categories, attempts : 0..2]

VARIABLES
  turns,      \* _turns: ticks since the prompt of a turn, up to LongTurn
  pending,    \* _pending: the candidates, with the ticks until they are due
  inflight,   \* _inflight: the candidates being sent
  seen, aged, \* _seen, and those of it marked before the last day
  receipts,   \* notification_receipts: days since the delivery of a key
  due,        \* the candidates the job still has to look at
  sending,    \* the candidate whose delivery the job waits for
  late,       \* ticks since the job read the clock, up to BackoffMax
  days, faults, \* counted for their bounds
  overtaken,  \* history: candidates a later event of the user answered
  told,       \* history: days since a key was last delivered
  unrecorded  \* history: keys delivered whose receipt was not written

process == <<turns, pending, inflight, seen, aged, due, sending, late>>
history == <<overtaken, told, unrecorded>>
bounds == <<days, faults>>
vars == <<process, receipts, bounds, history>>

Turn(i) == <<i.session, i.turn>>
TurnsOf == {Turn(i) : i \in Ids}
Keys == Ids \X Categories
Candidate == [category : Categories, attempts : 0..2, wait : 0..(Grace + BackoffMax)]
Key(c) == <<c.id, c.category>>

Only(f, S) == [x \in DOMAIN f \cap S |-> f[x]]
Except(f, S) == Only(f, DOMAIN f \ S)
Over(f, g) == [x \in DOMAIN f \cup DOMAIN g |-> IF x \in DOMAIN f THEN f[x] ELSE g[x]]
Partial(S, T) == UNION {[D -> T] : D \in SUBSET S}
Least(m, n) == IF m < n THEN m ELSE n
Minus(m, n) == IF m < n THEN 0 ELSE m - n

TypeOK ==
  /\ DOMAIN turns \subseteq TurnsOf /\ \A t \in DOMAIN turns : turns[t] \in 0..LongTurn
  /\ \A f \in {pending, inflight, due} :
       DOMAIN f \subseteq Ids /\ \A i \in DOMAIN f : f[i] \in Candidate
  /\ seen \subseteq Ids /\ aged \subseteq seen
  /\ \A f \in {receipts, told} :
       DOMAIN f \subseteq Keys /\ \A k \in DOMAIN f : f[k] \in 0..(RetentionDays + 1)
  /\ sending \in [id : Ids, category : Categories, attempts : 0..2] \cup {NoSend}
  /\ late \in 0..BackoffMax /\ days \in 0..MaxDays /\ faults \in 0..MaxFaults
  /\ overtaken \subseteq Ids /\ unrecorded \subseteq Keys

Init ==
  /\ turns = <<>> /\ pending = <<>> /\ inflight = <<>> /\ seen = {} /\ aged = {}
  /\ receipts = <<>> /\ due = <<>> /\ sending = NoSend /\ late = 0 /\ days = 0 /\ faults = 0
  /\ overtaken = {} /\ told = <<>> /\ unrecorded = {}

-----------------------------------------------------------------------------
(* Hook events.  The job of the deliveries gives way only while it waits.   *)

AtAwait == due = <<>> \/ sending # NoSend

(* _mark_seen; an event seen before changes nothing.                        *)
MarkSeen(i) ==
  /\ AtAwait /\ i \in Ids \ seen
  /\ LET now == seen \cup {i}
     IN seen' = IF Cardinality(now) > SeenMax THEN now \ aged ELSE now
  /\ aged' = aged \cap seen'

(* _cancel: the candidates of a session, of one of its turns, of a category. *)
Matches(j, c, s, t, cs) ==
  /\ j.session = s
  /\ t \in {NoTurn, j.turn}
  /\ c \in cs

Cancel(s, t, cs) ==
  LET Kept(f) == Only(f, {j \in DOMAIN f : ~Matches(j, f[j].category, s, t, cs)})
  IN pending' = Kept(pending) /\ inflight' = Kept(inflight)

(* The candidates an event of the user answers, wherever they are.          *)
Live == DOMAIN pending \cup IF sending = NoSend THEN {} ELSE {sending.id}
CategoryOf(j) == IF j \in DOMAIN pending THEN pending[j].category ELSE sending.category
Overtake(s, t, cs) ==
  overtaken' = overtaken \cup {j \in Live : Matches(j, CategoryOf(j), s, t, cs)}

Queued(i, c) == [j \in {i} |-> [category |-> c, attempts |-> 0, wait |-> Grace]]

UserPromptSubmit(i) ==
  /\ i.name = "UserPromptSubmit" /\ MarkSeen(i)
  /\ Cancel(i.session, NoTurn, Categories)
  /\ turns' = Over([t \in {Turn(i)} |-> 0], turns)
  /\ Overtake(i.session, NoTurn, Categories)
  /\ UNCHANGED <<receipts, due, sending, late, bounds, told, unrecorded>>

PostToolUse(i) ==
  /\ i.name = "PostToolUse" /\ MarkSeen(i)
  /\ Cancel(i.session, i.turn, {"approval_required"})
  /\ Overtake(i.session, i.turn, {"approval_required"})
  /\ UNCHANGED <<turns, receipts, due, sending, late, bounds, told, unrecorded>>

SessionEnd(i) ==
  /\ i.name = "SessionEnd" /\ MarkSeen(i)
  /\ Cancel(i.session, NoTurn, Categories)
  /\ turns' = Only(turns, {t \in DOMAIN turns : t[1] # i.session})
  /\ Overtake(i.session, NoTurn, Categories)
  /\ UNCHANGED <<receipts, due, sending, late, bounds, told, unrecorded>>

PermissionRequest(i) ==
  /\ i.name = "PermissionRequest" /\ MarkSeen(i)
  /\ pending' = Over(Queued(i, "approval_required"), pending)
  /\ overtaken' = overtaken \ {i}
  /\ UNCHANGED <<turns, inflight, receipts, due, sending, late, bounds, told, unrecorded>>

(* _stop_category: nothing to tell about what the user refused, nor about   *)
(* a short turn, nor about one whose prompt is not known.                   *)
StopCategory(result, t) ==
  CASE result = "rejected" -> {}
    [] result = "input"    -> {"input_required"}
    [] result = "failed"   -> {"execution_failed"}
    [] OTHER -> IF t \in DOMAIN turns /\ turns[t] >= LongTurn
                THEN {"long_turn_complete"} ELSE {}

Stop(i, result) ==
  /\ i.name = "Stop" /\ MarkSeen(i)
  /\ Cancel(i.session, i.turn, {"approval_required"})
  /\ Overtake(i.session, i.turn, {"approval_required"})
  /\ turns' = Except(turns, {Turn(i)})
  /\ StopCategory(result, Turn(i)) = {}
  /\ UNCHANGED <<receipts, due, sending, late, bounds, told, unrecorded>>

StopQueues(i, result) ==
  /\ i.name = "Stop" /\ MarkSeen(i)
  /\ \E c \in StopCategory(result, Turn(i)) :
       LET Kept(f) == Only(f, {j \in DOMAIN f :
                        ~Matches(j, f[j].category, i.session, i.turn, {"approval_required"})})
       IN /\ pending' = Over(Queued(i, c), Kept(pending))
          /\ inflight' = Kept(inflight)
  /\ overtaken' = (overtaken \ {i}) \cup
       {j \in Live : Matches(j, CategoryOf(j), i.session, i.turn, {"approval_required"})}
  /\ turns' = Except(turns, {Turn(i)})
  /\ UNCHANGED <<receipts, due, sending, late, bounds, told, unrecorded>>

(* A stop that a hook has already turned into more work: seen, nothing else. *)
ContinuedStop(i) ==
  /\ i.name = "Stop" /\ MarkSeen(i)
  /\ UNCHANGED <<turns, pending, inflight, receipts, due, sending, late, bounds, history>>

Ingest ==
  \E i \in Ids :
    \/ UserPromptSubmit(i) \/ PostToolUse(i) \/ SessionEnd(i) \/ PermissionRequest(i)
    \/ ContinuedStop(i) \/ \E result \in Results : Stop(i, result) \/ StopQueues(i, result)

-----------------------------------------------------------------------------
(* dispatch_due.                                                            *)

DueNow == {i \in DOMAIN pending : pending[i].wait = 0}

(* Mutant: a receipt goes a day early.                                      *)
StartDispatchPrunes ==
  /\ due = <<>> /\ sending = NoSend /\ DueNow # {}
  /\ due' = Only(pending, DueNow) /\ late' = 0
  /\ receipts' = Only(receipts, {k \in DOMAIN receipts : receipts[k] < RetentionDays})
  /\ overtaken' = overtaken \cap DOMAIN pending
  /\ UNCHANGED <<turns, pending, inflight, seen, aged, sending, bounds, told, unrecorded>>

StartDispatch ==
  /\ due = <<>> /\ sending = NoSend /\ DueNow # {}
  /\ due' = Only(pending, DueNow) /\ late' = 0
  /\ receipts' = Only(receipts, {k \in DOMAIN receipts : receipts[k] <= RetentionDays})
  /\ overtaken' = overtaken \cap DOMAIN pending
  /\ UNCHANGED <<turns, pending, inflight, seen, aged, sending, bounds, told, unrecorded>>

Looked(i) == sending = NoSend /\ i \in DOMAIN due /\ due' = Except(due, {i})

(* Cancelled since the list was read.                                       *)
SkipCancelled(i) ==
  /\ Looked(i) /\ i \notin DOMAIN pending
  /\ UNCHANGED <<turns, pending, inflight, seen, aged, sending, late, receipts, bounds, history>>

(* Delivered before.                                                        *)
SkipDelivered(i) ==
  /\ Looked(i) /\ i \in DOMAIN pending
  /\ <<i, due[i].category>> \in DOMAIN receipts
  /\ pending' = Except(pending, {i}) /\ inflight' = Except(inflight, {i})
  /\ UNCHANGED <<turns, seen, aged, sending, late, receipts, bounds, history>>

Send(i) ==
  /\ Looked(i) /\ i \in DOMAIN pending
  /\ <<i, due[i].category>> \notin DOMAIN receipts
  /\ pending' = Except(pending, {i})
  /\ inflight' = Over(Only(due, {i}), inflight)
  /\ sending' = [id |-> i, category |-> due[i].category, attempts |-> due[i].attempts]
  /\ UNCHANGED <<turns, seen, aged, late, receipts, bounds, history>>

Answered == inflight' = Except(inflight, {sending.id}) /\ sending' = NoSend
Delivery == told' = Over([k \in {Key(sending)} |-> 0], told)

Delivered ==
  /\ sending # NoSend /\ Answered /\ Delivery
  /\ receipts' = Over(receipts, [k \in {Key(sending)} |-> 0])
  /\ UNCHANGED <<turns, pending, seen, aged, due, late, bounds, overtaken, unrecorded>>

(* Mutant: the same attempt again.                                         *)
RetriedAnew ==
  [j \in {sending.id} |-> [category |-> sending.category, attempts |-> sending.attempts,
                           wait |-> BackoffMax]]

(* Every channel failed: twice more, unless the candidate was cancelled     *)
(* meanwhile.  The delay counts from the start of the job.                  *)
Retried ==
  LET n == sending.attempts + 1
  IN [j \in {sending.id} |->
        [category |-> sending.category, attempts |-> n,
         wait |-> Minus(Least(BackoffMax, BackoffUnit * 2^n), late)]]

(* Mutant: the cancellation meanwhile is forgotten.                         *)
DeliveryFailsRequeues ==
  /\ sending # NoSend /\ Answered
  /\ pending' = IF sending.attempts < 2 THEN Over(Retried, pending) ELSE pending
  /\ UNCHANGED <<turns, seen, aged, due, late, receipts, bounds, history>>

DeliveryFails ==
  /\ sending # NoSend /\ Answered
  /\ pending' = IF sending.id \in DOMAIN inflight /\ sending.attempts < 2
                THEN Over(Retried, pending) ELSE pending
  /\ UNCHANGED <<turns, seen, aged, due, late, receipts, bounds, history>>

Fault == faults < MaxFaults /\ faults' = faults + 1 /\ UNCHANGED days

(* The store raises, and the job ends: on the lookup of the receipt, with   *)
(* the candidate already out of _pending, or on the record of a delivery.   *)
LookupFails(i) ==
  /\ Fault /\ sending = NoSend /\ i \in DOMAIN due \cap DOMAIN pending
  /\ pending' = Except(pending, {i})
  /\ inflight' = Over(Only(due, {i}), inflight)
  /\ due' = <<>>
  /\ UNCHANGED <<turns, seen, aged, sending, late, receipts, history>>

RecordFails ==
  /\ Fault /\ sending # NoSend /\ Answered /\ Delivery
  /\ due' = <<>> /\ unrecorded' = unrecorded \cup {Key(sending)}
  /\ UNCHANGED <<turns, pending, seen, aged, late, receipts, overtaken>>

-----------------------------------------------------------------------------
(* Time and restarts.                                                       *)

Tick ==
  /\ AtAwait
  /\ turns' = [t \in DOMAIN turns |-> Least(turns[t] + 1, LongTurn)]
  /\ pending' = [i \in DOMAIN pending |-> [pending[i] EXCEPT !.wait = Minus(@, 1)]]
  /\ late' = IF sending = NoSend THEN 0 ELSE Least(late + 1, BackoffMax)
  /\ UNCHANGED <<inflight, seen, aged, due, sending, receipts, bounds, history>>

(* A day is longer than a candidate lives: an hour of grace at the most,    *)
(* two delays of at most a minute, and three sends.                         *)
DayPasses ==
  /\ pending = <<>> /\ due = <<>> /\ sending = NoSend /\ days < MaxDays
  /\ days' = days + 1
  /\ turns' = [t \in DOMAIN turns |-> LongTurn]
  /\ aged' = seen
  /\ LET Older(f) == [k \in DOMAIN f |-> Least(f[k] + 1, RetentionDays + 1)]
     IN receipts' = Older(receipts) /\ told' = Older(told)
  /\ UNCHANGED <<pending, inflight, seen, due, sending, late, faults, overtaken, unrecorded>>

(* The candidates and what was seen are gone.  A message under way may have *)
(* reached a channel.                                                       *)
Restart ==
  /\ Fault /\ process # <<<<>>, <<>>, <<>>, {}, {}, <<>>, NoSend, 0>>
  /\ turns' = <<>> /\ pending' = <<>> /\ inflight' = <<>> /\ seen' = {} /\ aged' = {}
  /\ due' = <<>> /\ sending' = NoSend /\ late' = 0 /\ overtaken' = {}
  /\ \/ UNCHANGED <<told, unrecorded>>
     \/ sending # NoSend /\ Delivery /\ unrecorded' = unrecorded \cup {Key(sending)}
  /\ UNCHANGED receipts

Dispatch ==
  \/ StartDispatch
  \/ \E i \in Ids : SkipCancelled(i) \/ SkipDelivered(i) \/ Send(i)
  \/ Delivered \/ DeliveryFails

Next ==
  \/ Ingest \/ Dispatch \/ Tick \/ DayPasses \/ Restart
  \/ (\E i \in Ids : LookupFails(i)) \/ RecordFails

(* The job runs every second and its sends end, in a delivery or not: a    *)
(* channel has a timeout.                                                  *)
Fairness == WF_vars(Dispatch) /\ WF_vars(Tick)
Spec == Init /\ [][Next]_vars /\ Fairness

-----------------------------------------------------------------------------
(* A candidate the user has answered, while it waited, while the job had it *)
(* on its list or while a first attempt was under way, is not sent (again). *)
AnsweredIsNotSent == [][sending' # NoSend /\ sending # sending' => sending'.id \notin overtaken]_vars

(* No event is told twice in the retention of the receipts, whatever is     *)
(* repeated, forgotten or lost by a restart, unless the first message was   *)
(* followed by a crash or a failing store before its receipt was written.   *)
NotToldTwice ==
  [][sending' # NoSend /\ sending # sending' =>
       LET k == Key(sending')
       IN k \in DOMAIN told /\ told[k] <= RetentionDays => k \in unrecorded]_vars

(* A candidate does not stay: it is told, cancelled, given up after the    *)
(* third attempt, or lost with the process or a failing store.             *)
CandidateSettles ==
  \A i \in {j \in Ids : j.name \in {"PermissionRequest", "Stop"}} : i \in Live ~> i \notin Live
=============================================================================
