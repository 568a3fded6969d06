------------------------------ MODULE Channels ------------------------------
(***************************************************************************)
(* What every other part takes a broadcast for, a wait that ends with the  *)
(* number of channels that took the message: Broadcaster.send of           *)
(* sentinel/notify/base.py, the channels of sentinel/notify and the        *)
(* throttle of sentinel/feishu/client.py.  A broadcaster has one client of *)
(* each channel; several tasks send through it at a time.  Times are told  *)
(* from now.                                                               *)
(***************************************************************************)
EXTENDS Integers, FiniteSets

CONSTANTS
  Sends,    \* the broadcasts that may be under way
  Settings, \* sets of channels that may be configured
  MinGap    \* min_interval of FeishuClient, by which its sends are spaced

ASSUME ChannelsAssumption ==
  /\ Settings \subseteq SUBSET {"feishu", "telegram", "ntfy", "webhook"}
  /\ MinGap \in Nat \ {0}

VARIABLES
  channels, \* the channels of the broadcaster
  legs,     \* what the channel of a send does
  sleeps,   \* how long the feishu channel of a send still sleeps
  lastSent, \* _last_sent, as an age
  count,    \* what a broadcast returned, NoCount while it is under way
  accepted, \* history: channels that took the message of a send
  unheard,  \* history: channels that did not get through with their answer
  posted,   \* history: the last request to feishu, as an age
  passed    \* history: sends another request went out during the sleep of

channelVars == <<channels, legs, sleeps, lastSent, count, accepted, unheard, posted, passed>>
ofServices == <<accepted, unheard>>
feishu == <<sleeps, lastSent, posted, passed>>

NoCount == -1
Legs(b) == [channels -> b]
AllLegs == {"none", "asleep", "asking", "ok", "failed"}

ChannelsTypeOK ==
  /\ channels \in Settings
  /\ legs \in [Sends -> Legs(AllLegs)]
  /\ sleeps \in [Sends -> 0..MinGap] /\ {lastSent, posted} \subseteq 0..MinGap
  /\ count \in [Sends -> NoCount..Cardinality(channels)]
  /\ {accepted, unheard} \subseteq [Sends -> SUBSET channels] /\ passed \subseteq Sends

ChannelsInit ==
  /\ channels \in Settings
  /\ legs = [s \in Sends |-> [c \in channels |-> "none"]]
  /\ sleeps = [s \in Sends |-> 0] /\ lastSent = MinGap /\ posted = MinGap
  /\ count = [s \in Sends |-> 0]
  /\ accepted = [s \in Sends |-> {}] /\ unheard = [s \in Sends |-> {}] /\ passed = {}

-----------------------------------------------------------------------------
(* What a channel learns of its request.                                    *)

Replies == {"ok", "refused", "unreadable", "redirect", "error", "lost"}

(* Mutant: the status of the answer is enough.                              *)
FeishuOkByStatus(a) == a \in {"ok", "refused", "unreadable"}
(* code == 0 of the body.                                                   *)
FeishuOk(a) == a = "ok"
(* "ok" of the body; the body of a redirect is not one.                     *)
TelegramOk(a) == a = "ok"
(* Any status below 300.                                                    *)
NtfyOk(a) == a \in {"ok", "refused", "unreadable"}
WebhookOk(a) == a \in {"ok", "refused", "unreadable"}

Delivered(c, a) ==
  \/ (c = "feishu" /\ FeishuOk(a)) \/ (c = "telegram" /\ TelegramOk(a))
  \/ (c = "ntfy" /\ NtfyOk(a)) \/ (c = "webhook" /\ WebhookOk(a))

(* Whether the service took the message: ntfy and the webhook say so by the *)
(* status, feishu and Telegram in the body; of an answer lost, who knows.   *)
Takes(c, a) ==
  IF a = "lost" THEN BOOLEAN
  ELSE {a = "ok" \/ (c \in {"ntfy", "webhook"} /\ a \in {"refused", "unreadable"})}

-----------------------------------------------------------------------------
(* The request of a send to feishu goes out.                                *)
Requests(s) ==
  /\ posted' = 0
  /\ passed' = (passed \cup {t \in Sends : "feishu" \in channels /\ legs[t]["feishu"] = "asleep"})
               \ {s}

SinceSent == lastSent
SetsLastSent == lastSent' = 0

(* Every channel begins at once; the one to feishu sleeps when the last     *)
(* request is too recent.                                                   *)
Broadcasts(s) ==
  /\ count[s] # NoCount
  /\ count' = [count EXCEPT ![s] = IF channels = {} THEN 0 ELSE NoCount]
  /\ accepted' = [accepted EXCEPT ![s] = {}] /\ unheard' = [unheard EXCEPT ![s] = {}]
  /\ IF "feishu" \notin channels \/ SinceSent >= MinGap
     THEN /\ legs' = [legs EXCEPT ![s] = [c \in channels |-> "asking"]]
          /\ IF "feishu" \in channels THEN SetsLastSent /\ Requests(s)
             ELSE UNCHANGED <<lastSent, posted, passed>>
          /\ UNCHANGED sleeps
     ELSE /\ legs' = [legs EXCEPT ![s] = [c \in channels |-> IF c = "feishu" THEN "asleep"
                                                             ELSE "asking"]]
          /\ sleeps' = [sleeps EXCEPT ![s] = MinGap - SinceSent]
          /\ passed' = passed \ {s} /\ UNCHANGED <<lastSent, posted>>
  /\ UNCHANGED channels

(* Mutant: only a send that did not sleep sets _last_sent.                  *)
WakesUnset(s) ==
  /\ "feishu" \in channels /\ legs[s]["feishu"] = "asleep" /\ sleeps[s] = 0
  /\ legs' = [legs EXCEPT ![s]["feishu"] = "asking"]
  /\ Requests(s) /\ UNCHANGED <<channels, sleeps, lastSent, count, ofServices>>
Wakes(s) ==
  /\ "feishu" \in channels /\ legs[s]["feishu"] = "asleep" /\ sleeps[s] = 0
  /\ legs' = [legs EXCEPT ![s]["feishu"] = "asking"]
  /\ SetsLastSent /\ Requests(s) /\ UNCHANGED <<channels, sleeps, count, ofServices>>

IsAnswered(s, c) ==
  /\ legs[s][c] = "asking"
  /\ \E a \in Replies : \E b \in Takes(c, a) :
       /\ legs' = [legs EXCEPT ![s][c] = IF Delivered(c, a) THEN "ok" ELSE "failed"]
       /\ accepted' = [accepted EXCEPT ![s] = IF b THEN @ \cup {c} ELSE @]
       /\ unheard' = [unheard EXCEPT ![s] = IF a = "lost" THEN @ \cup {c} ELSE @]
  /\ UNCHANGED <<channels, feishu, count>>

(* gather: all channels are done, whatever failed.                          *)
Returns(s) ==
  /\ count[s] = NoCount /\ \A c \in channels : legs[s][c] \in {"ok", "failed"}
  /\ count' = [count EXCEPT ![s] = Cardinality({c \in channels : legs[s][c] = "ok"})]
  /\ UNCHANGED <<channels, legs, feishu, ofServices>>

Waned(age) == IF age < MinGap THEN age + 1 ELSE age

MomentPasses ==
  /\ lastSent' = Waned(lastSent) /\ posted' = Waned(posted)
  /\ sleeps' = [s \in Sends |-> IF sleeps[s] > 0 THEN sleeps[s] - 1 ELSE 0]
  /\ UNCHANGED <<channels, legs, count, ofServices, passed>>

ChannelsNext ==
  \/ \E s \in Sends :
       Broadcasts(s) \/ Wakes(s) \/ Returns(s) \/ \E c \in channels : IsAnswered(s, c)
  \/ MomentPasses

-----------------------------------------------------------------------------
(* A broadcast returns the number of the channels that took its message,    *)
(* but for those the answer of which was lost: a commit that follows at     *)
(* least one is never a commit of a message nobody has.                     *)
CountIsTrue ==
  \A s \in Sends :
    count[s] # NoCount => count[s] = Cardinality(accepted[s] \ unheard[s])

(* A request to feishu keeps the gap to every request that went out before  *)
(* its send began; sends that sleep together go out together.               *)
PostsAreSpaced ==
  [][\A s \in Sends :
       "feishu" \in channels /\ (Wakes(s) \/ (Broadcasts(s) /\ legs'[s]["feishu"] = "asking"))
         => posted >= MinGap \/ s \in passed]_channelVars
=============================================================================
