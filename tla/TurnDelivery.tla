--------------------------- MODULE TurnDelivery ----------------------------
(***************************************************************************)
(* The notification of a finished Codex turn: send_to_watchmend of         *)
(* sentinel/codex_notify.py, which tries again what was not answered, and  *)
(* post_codex_notification of sentinel/api.py, which keeps a receipt of    *)
(* what was delivered.  An attempt of which the client heard nothing goes  *)
(* on in the server.                                                       *)
(***************************************************************************)
EXTENDS Integers, FiniteSets

CONSTANTS
  Turns,         \* finished turns, by thread and turn
  Retries,       \* retries of the client
  RetentionDays, \* sentinel_codex_receipt_retention_days
  MaxDays,       \* bound: days that pass
  MaxKills       \* bound: restarts of the server

ASSUME TurnAssumption == {Retries, RetentionDays, MaxDays, MaxKills} \subseteq Nat

Tries == 0..Retries

VARIABLES
  client,   \* what the client of a turn does
  attempt,  \* the attempt it is at
  handler,  \* the request of an attempt in the server
  receipts, \* notification_receipts: days since the delivery, -1 for none
  days, kills, \* counted for their bounds
  delivered,   \* history: messages about a turn that reached a channel
  overlaps,    \* history: attempts that came while one was under way
  unreceipted  \* history: deliveries a restart kept from their receipt

turnVars == <<client, attempt, handler, receipts, days, kills, delivered, overlaps, unreceipted>>
bounds == <<days, kills>>
history == <<delivered, overlaps, unreceipted>>

TurnTypeOK ==
  /\ client \in [Turns -> {"working", "try", "wait", "told", "gaveUp"}]
  /\ attempt \in [Turns -> Tries]
  /\ handler \in [Turns \X Tries -> {"none", "sending", "sent", "ok", "failed"}]
  /\ receipts \in [Turns -> -1..(MaxDays + 1)]
  /\ days \in 0..MaxDays /\ kills \in 0..MaxKills
  /\ {delivered, overlaps, unreceipted} \subseteq [Turns -> 0..(Retries + 1)]

TurnInit ==
  /\ client = [t \in Turns |-> "working"] /\ attempt = [t \in Turns |-> 0]
  /\ handler = [a \in Turns \X Tries |-> "none"] /\ receipts = [t \in Turns |-> -1]
  /\ days = 0 /\ kills = 0
  /\ delivered = [t \in Turns |-> 0] /\ overlaps = [t \in Turns |-> 0]
  /\ unreceipted = [t \in Turns |-> 0]

UnderWay(t) == {k \in Tries : handler[<<t, k>>] \in {"sending", "sent"}}

TurnEnds(t) ==
  /\ client[t] = "working" /\ client' = [client EXCEPT ![t] = "try"]
  /\ UNCHANGED <<attempt, handler, receipts, bounds, history>>

-----------------------------------------------------------------------------
(* The server.                                                              *)

(* Mutant: every receipt is pruned.                                         *)
PrunedAll == [t \in Turns |-> -1]
Pruned == [t \in Turns |-> IF receipts[t] > RetentionDays THEN -1 ELSE receipts[t]]

(* A turn with a receipt is answered at once; another is sent.              *)
Duplicate(t) ==
  /\ client[t] = "try" /\ receipts[t] # -1
  /\ client' = [client EXCEPT ![t] = "wait"]
  /\ handler' = [handler EXCEPT ![<<t, attempt[t]>>] = "ok"]
  /\ UNCHANGED <<attempt, receipts, bounds, history>>

(* Mutant: the receipt is written before the message is sent.               *)
AcceptedAhead(t) ==
  /\ client[t] = "try" /\ receipts[t] = -1
  /\ client' = [client EXCEPT ![t] = "wait"]
  /\ receipts' = [Pruned EXCEPT ![t] = 0]
  /\ handler' = [handler EXCEPT ![<<t, attempt[t]>>] = "sending"]
  /\ overlaps' = [overlaps EXCEPT ![t] = @ + (IF UnderWay(t) = {} THEN 0 ELSE 1)]
  /\ UNCHANGED <<attempt, bounds, delivered, unreceipted>>

Accepted(t) ==
  /\ client[t] = "try" /\ receipts[t] = -1
  /\ client' = [client EXCEPT ![t] = "wait"]
  /\ receipts' = Pruned
  /\ handler' = [handler EXCEPT ![<<t, attempt[t]>>] = "sending"]
  /\ overlaps' = [overlaps EXCEPT ![t] = @ + (IF UnderWay(t) = {} THEN 0 ELSE 1)]
  /\ UNCHANGED <<attempt, bounds, delivered, unreceipted>>

Sent(t, k) ==
  /\ handler[<<t, k>>] = "sending"
  /\ handler' = [handler EXCEPT ![<<t, k>>] = "sent"]
  /\ delivered' = [delivered EXCEPT ![t] = @ + 1]
  /\ UNCHANGED <<client, attempt, receipts, bounds, overlaps, unreceipted>>

AllChannelsFail(t, k) ==
  /\ handler[<<t, k>>] = "sending"
  /\ handler' = [handler EXCEPT ![<<t, k>>] = "failed"]
  /\ UNCHANGED <<client, attempt, receipts, bounds, history>>

(* INSERT OR IGNORE: the first receipt of a turn stays.                     *)
Recorded(t, k) ==
  /\ handler[<<t, k>>] = "sent"
  /\ handler' = [handler EXCEPT ![<<t, k>>] = "ok"]
  /\ receipts' = [receipts EXCEPT ![t] = IF @ = -1 THEN 0 ELSE @]
  /\ UNCHANGED <<client, attempt, bounds, history>>

ServerKilled ==
  /\ kills < MaxKills /\ kills' = kills + 1
  /\ handler' = [a \in Turns \X Tries |->
                   IF handler[a] \in {"sending", "sent"} THEN "failed" ELSE handler[a]]
  /\ unreceipted' = [t \in Turns |->
       unreceipted[t] + Cardinality({k \in Tries : handler[<<t, k>>] = "sent"})]
  /\ UNCHANGED <<client, attempt, receipts, days, delivered, overlaps>>

(* An attempt of the client takes seconds: no day passes meanwhile.         *)
Retained ==
  /\ days < MaxDays /\ days' = days + 1
  /\ \A t \in Turns : client[t] \notin {"try", "wait"} /\ UnderWay(t) = {}
  /\ receipts' = [t \in Turns |-> IF receipts[t] = -1 THEN -1 ELSE receipts[t] + 1]
  /\ UNCHANGED <<client, attempt, handler, kills, history>>

-----------------------------------------------------------------------------
(* The client.                                                              *)

Answered(t) ==
  /\ client[t] = "wait" /\ handler[<<t, attempt[t]>>] = "ok"
  /\ client' = [client EXCEPT ![t] = "told"]
  /\ UNCHANGED <<attempt, handler, receipts, bounds, history>>

(* No answer in time, one that got lost, 503, or no connection at all.      *)
NotAnswered(t) ==
  /\ client[t] \in {"try", "wait"}
  /\ IF attempt[t] < Retries
     THEN /\ client' = [client EXCEPT ![t] = "try"]
          /\ attempt' = [attempt EXCEPT ![t] = @ + 1]
     ELSE client' = [client EXCEPT ![t] = "gaveUp"] /\ UNCHANGED attempt
  /\ UNCHANGED <<handler, receipts, bounds, history>>

TurnNext ==
  \/ \E t \in Turns :
       \/ TurnEnds(t) \/ Duplicate(t) \/ Accepted(t) \/ Answered(t) \/ NotAnswered(t)
       \/ \E k \in Tries : Sent(t, k) \/ AllChannelsFail(t, k) \/ Recorded(t, k)
  \/ ServerKilled \/ Retained

-----------------------------------------------------------------------------
(* A turn is told once, whatever was retried, unless an attempt came while  *)
(* another was under way or a restart struck between a delivery and its     *)
(* receipt.                                                                 *)
DeliveredOnce == \A t \in Turns : delivered[t] <= 1 + overlaps[t] + unreceipted[t]

(* The client hears "ok" only of a turn that reached a channel: no answer   *)
(* rests on the receipt of an attempt that may still fail.                  *)
AnswerIsTrue == \A t \in Turns : client[t] = "told" => delivered[t] > 0
=============================================================================
