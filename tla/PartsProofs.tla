----------------------------- MODULE PartsProofs ------------------------------
(***************************************************************************)
(* Proofs about Parts: those of the broadcaster, of the reset monitor's    *)
(* source of last resort and of the notification of finished turns, and,   *)
(* with what DetectorProofs and ModelCallsProofs prove of the other parts, *)
(* the properties of every behaviour of Parts.                             *)
(***************************************************************************)
EXTENDS Parts, DetectorProofs, ModelCallsProofs

(* Channels: the number a broadcast returns is true, as a leg that says     *)
(* "ok" is a channel that took the message and was heard, and no leg is at  *)
(* work when a number is returned; and posts keep their gap.                *)

Heard(s) == accepted[s] \ unheard[s]

LegsType ==
  /\ channels \in Settings
  /\ legs \in [Sends -> [channels -> AllLegs]]
  /\ DOMAIN count = Sends
  /\ accepted \in [Sends -> SUBSET channels] /\ unheard \in [Sends -> SUBSET channels]

(* A leg that is not done has told nothing; one that is tells the truth.    *)
LegIsTrue ==
  \A s \in Sends : \A c \in channels :
    /\ legs[s][c] \in {"none", "asleep", "asking"} => c \notin accepted[s] \cup unheard[s]
    /\ legs[s][c] = "ok" <=> c \in Heard(s)

(* No leg is at work for a broadcast that returned.                         *)
NoLegIsLeft ==
  \A s \in Sends : count[s] # NoCount =>
    \A c \in channels : legs[s][c] \notin {"asleep", "asking"}

ChannelsInv == LegsType /\ LegIsTrue /\ NoLegIsLeft /\ CountIsTrue

(* What a channel makes of an answer is what the service did, unless the    *)
(* answer was lost, which is a failure to every channel.                    *)
LEMMA DeliveredIsTaken ==
  ASSUME NEW c \in {"feishu", "telegram", "ntfy", "webhook"}, NEW a \in Replies,
         NEW b \in Takes(c, a)
  PROVE  b \in BOOLEAN /\ (Delivered(c, a) <=> b /\ a # "lost")
  <1>1. CASE a = "lost"
    BY <1>1 DEF Takes, Delivered, FeishuOk, TelegramOk, NtfyOk, WebhookOk
  <1>2. CASE a # "lost"
    BY <1>2 DEF Takes, Replies, Delivered, FeishuOk, TelegramOk, NtfyOk, WebhookOk
  <1> QED BY <1>1, <1>2

LEMMA ChannelsStart == ChannelsInit => ChannelsInv
  <1> SUFFICES ASSUME ChannelsInit PROVE ChannelsInv
    OBVIOUS
  <1>1. LegsType
    BY DEF ChannelsInit, LegsType, AllLegs
  <1>2. LegIsTrue /\ NoLegIsLeft
    BY DEF ChannelsInit, LegIsTrue, NoLegIsLeft, Heard
  <1>3. CountIsTrue
    BY FS_EmptySet DEF ChannelsInit, CountIsTrue
  <1> QED BY <1>1, <1>2, <1>3 DEF ChannelsInv

(* The legs of a broadcast that begins: one may sleep, all the others ask.  *)
LEMMA BroadcastStep ==
  ASSUME ChannelsInv, NEW s \in Sends, Broadcasts(s) PROVE ChannelsInv'
  <1>l. PICK f \in [channels -> {"asleep", "asking"}] : legs' = [legs EXCEPT ![s] = f]
    <2>1. CASE "feishu" \notin channels \/ SinceSent >= MinGap
      <3>1. [c \in channels |-> "asking"] \in [channels -> {"asleep", "asking"}]
        OBVIOUS
      <3> QED BY <2>1, <3>1 DEF Broadcasts
    <2>2. CASE ~("feishu" \notin channels \/ SinceSent >= MinGap)
      <3>1. [c \in channels |-> IF c = "feishu" THEN "asleep" ELSE "asking"]
              \in [channels -> {"asleep", "asking"}]
        OBVIOUS
      <3> QED BY <2>2, <3>1 DEF Broadcasts
    <2> QED BY <2>1, <2>2
  <1>u. /\ channels' = channels
        /\ count' = [count EXCEPT ![s] = IF channels = {} THEN 0 ELSE NoCount]
        /\ accepted' = [accepted EXCEPT ![s] = {}] /\ unheard' = [unheard EXCEPT ![s] = {}]
    BY DEF Broadcasts
  <1>1. LegsType'
    BY <1>l, <1>u DEF ChannelsInv, LegsType, AllLegs
  <1>2. LegIsTrue'
    BY <1>l, <1>u DEF ChannelsInv, LegsType, LegIsTrue, Heard
  <1>3. NoLegIsLeft'
    BY <1>l, <1>u DEF ChannelsInv, LegsType, NoLegIsLeft, NoCount
  <1>4. CountIsTrue'
    BY <1>u, FS_EmptySet DEF ChannelsInv, LegsType, CountIsTrue, NoCount
  <1> QED BY <1>1, <1>2, <1>3, <1>4 DEF ChannelsInv

LEMMA WakeStep == ASSUME ChannelsInv, NEW s \in Sends, Wakes(s) PROVE ChannelsInv'
  <1>u. /\ legs' = [legs EXCEPT ![s]["feishu"] = "asking"]
        /\ "feishu" \in channels /\ legs[s]["feishu"] = "asleep"
        /\ UNCHANGED <<channels, count, accepted, unheard>>
    BY DEF Wakes, ofServices
  <1>n. count[s] = NoCount
    BY <1>u DEF ChannelsInv, NoLegIsLeft
  <1>1. LegsType'
    BY <1>u DEF ChannelsInv, LegsType, AllLegs
  <1>2. LegIsTrue'
    BY <1>u DEF ChannelsInv, LegsType, LegIsTrue, Heard
  <1>3. NoLegIsLeft'
    BY <1>u, <1>n DEF ChannelsInv, LegsType, NoLegIsLeft
  <1>4. CountIsTrue'
    BY <1>u DEF ChannelsInv, CountIsTrue
  <1> QED BY <1>1, <1>2, <1>3, <1>4 DEF ChannelsInv

LEMMA AnswerStep ==
  ASSUME ChannelsInv, NEW s \in Sends, NEW c \in channels, IsAnswered(s, c)
  PROVE  ChannelsInv'
  <1> PICK a \in Replies : \E b \in Takes(c, a) :
        /\ legs' = [legs EXCEPT ![s][c] = IF Delivered(c, a) THEN "ok" ELSE "failed"]
        /\ accepted' = [accepted EXCEPT ![s] = IF b THEN @ \cup {c} ELSE @]
        /\ unheard' = [unheard EXCEPT ![s] = IF a = "lost" THEN @ \cup {c} ELSE @]
    BY DEF IsAnswered
  <1> PICK b \in Takes(c, a) :
        /\ legs' = [legs EXCEPT ![s][c] = IF Delivered(c, a) THEN "ok" ELSE "failed"]
        /\ accepted' = [accepted EXCEPT ![s] = IF b THEN @ \cup {c} ELSE @]
        /\ unheard' = [unheard EXCEPT ![s] = IF a = "lost" THEN @ \cup {c} ELSE @]
    OBVIOUS
  <1>u. legs[s][c] = "asking" /\ channels' = channels /\ count' = count
    BY DEF IsAnswered
  <1>d. b \in BOOLEAN /\ (Delivered(c, a) <=> b /\ a # "lost")
    BY DeliveredIsTaken, ChannelsAssumption DEF ChannelsInv, LegsType
  <1>n. count[s] = NoCount
    BY <1>u DEF ChannelsInv, NoLegIsLeft
  <1>1. LegsType'
    BY <1>u DEF ChannelsInv, LegsType, AllLegs
  <1>2. LegIsTrue'
    <2> SUFFICES ASSUME NEW t \in Sends, NEW d \in channels
                 PROVE  /\ legs'[t][d] \in {"none", "asleep", "asking"} =>
                             d \notin accepted'[t] \cup unheard'[t]
                        /\ legs'[t][d] = "ok" <=> d \in accepted'[t] \ unheard'[t]
      BY <1>u DEF LegIsTrue, Heard
    <2>1. CASE t = s /\ d = c
      <3>1. legs'[s][c] = IF Delivered(c, a) THEN "ok" ELSE "failed"
        BY <1>u DEF ChannelsInv, LegsType
      <3>2. c \notin accepted[s] \cup unheard[s]
        BY <1>u DEF ChannelsInv, LegIsTrue
      <3>3. (c \in accepted'[s] <=> b) /\ (c \in unheard'[s] <=> a = "lost")
        BY <3>2, <1>d DEF ChannelsInv, LegsType
      <3> QED BY <2>1, <3>1, <3>3, <1>d
    <2>2. CASE ~(t = s /\ d = c)
      <3>1. legs'[t][d] = legs[t][d]
        BY <2>2, <1>u DEF ChannelsInv, LegsType
      <3>2. /\ d \in accepted'[t] <=> d \in accepted[t]
            /\ d \in unheard'[t] <=> d \in unheard[t]
        BY <2>2 DEF ChannelsInv, LegsType
      <3> QED BY <3>1, <3>2 DEF ChannelsInv, LegIsTrue, Heard
    <2> QED BY <2>1, <2>2
  <1>3. NoLegIsLeft'
    BY <1>u, <1>n DEF ChannelsInv, LegsType, NoLegIsLeft
  <1>4. CountIsTrue'
    BY <1>u, <1>n DEF ChannelsInv, LegsType, CountIsTrue
  <1> QED BY <1>1, <1>2, <1>3, <1>4 DEF ChannelsInv

LEMMA ReturnStep == ASSUME ChannelsInv, NEW s \in Sends, Returns(s) PROVE ChannelsInv'
  <1>u. /\ count' = [count EXCEPT ![s] = Cardinality({c \in channels : legs[s][c] = "ok"})]
        /\ \A c \in channels : legs[s][c] \in {"ok", "failed"}
        /\ UNCHANGED <<channels, legs, accepted, unheard>>
    BY DEF Returns, ofServices
  <1>1. LegsType' /\ LegIsTrue'
    BY <1>u DEF ChannelsInv, LegsType, LegIsTrue, Heard
  <1>3. NoLegIsLeft'
    BY <1>u DEF ChannelsInv, LegsType, NoLegIsLeft
  <1>4. CountIsTrue'
    <2>1. {c \in channels : legs[s][c] = "ok"} = accepted[s] \ unheard[s]
      BY DEF ChannelsInv, LegsType, LegIsTrue, Heard
    <2>2. ASSUME NEW t \in Sends, count'[t] # NoCount
          PROVE  count'[t] = Cardinality(accepted'[t] \ unheard'[t])
      <3>1. CASE t = s
        BY <3>1, <2>1, <1>u DEF ChannelsInv, LegsType
      <3>2. CASE t # s
        BY <3>2, <2>2, <1>u DEF ChannelsInv, LegsType, CountIsTrue
      <3> QED BY <3>1, <3>2
    <2> QED BY <2>2 DEF CountIsTrue
  <1> QED BY <1>1, <1>3, <1>4 DEF ChannelsInv

(* Broadcaster.send (notify/base.py:35-46) counts the channels whose send   *)
(* did not raise; a channel raises for every answer by which the service    *)
(* did not take the message.  The invariant, and the property of the run.   *)
THEOREM ChannelsInvHolds ==
  ChannelsInit /\ [][ChannelsNext]_channelVars => []ChannelsInv
  <1>1. ChannelsInv /\ [ChannelsNext]_channelVars => ChannelsInv'
    <2> SUFFICES ASSUME ChannelsInv, [ChannelsNext]_channelVars PROVE ChannelsInv'
      OBVIOUS
    <2>1. ASSUME UNCHANGED <<channels, legs, count, accepted, unheard>> PROVE ChannelsInv'
      BY <2>1 DEF ChannelsInv, LegsType, LegIsTrue, NoLegIsLeft, CountIsTrue, Heard
    <2>2. CASE MomentPasses
      BY <2>1, <2>2 DEF MomentPasses, ofServices
    <2>3. CASE UNCHANGED channelVars
      BY <2>1, <2>3 DEF channelVars
    <2> QED BY <2>2, <2>3, BroadcastStep, WakeStep, AnswerStep, ReturnStep DEF ChannelsNext
  <1> QED BY ChannelsStart, <1>1, PTL

-----------------------------------------------------------------------------
(* The gap: _last_sent is the last request, and a send that sleeps does so  *)
(* until the gap to the request it was held up by is over, unless another   *)
(* request goes out meanwhile.                                              *)
SleepIsLongEnough ==
  \A s \in Sends :
    "feishu" \in channels /\ legs[s]["feishu"] = "asleep" /\ s \notin passed =>
      sleeps[s] + posted >= MinGap

SpacingInv ==
  /\ LegsType /\ sleeps \in [Sends -> 0..MinGap] /\ posted \in 0..MinGap
  /\ lastSent = posted /\ SleepIsLongEnough

Spaced ==
  \A s \in Sends :
    "feishu" \in channels /\ (Wakes(s) \/ (Broadcasts(s) /\ legs'[s]["feishu"] = "asking"))
      => posted >= MinGap \/ s \in passed

LEMMA SpacingStarts == ChannelsInit => SpacingInv
  <1> SUFFICES ASSUME ChannelsInit PROVE SpacingInv
    OBVIOUS
  <1>1. LegsType
    BY ChannelsStart DEF ChannelsInv
  <1>2. \A s \in Sends : "feishu" \in channels => legs[s]["feishu"] = "none"
    BY DEF ChannelsInit
  <1> QED BY <1>1, <1>2, ChannelsAssumption DEF ChannelsInit, SpacingInv, SleepIsLongEnough

LEMMA SpacedNow == ASSUME SpacingInv PROVE Spaced
  <1> USE ChannelsAssumption DEF SpacingInv
  <1> SUFFICES ASSUME NEW s \in Sends, "feishu" \in channels,
                      Wakes(s) \/ (Broadcasts(s) /\ legs'[s]["feishu"] = "asking")
               PROVE  posted >= MinGap \/ s \in passed
    BY DEF Spaced
  <1>1. CASE Wakes(s)
    BY <1>1 DEF Wakes, SleepIsLongEnough
  <1>2. CASE Broadcasts(s) /\ legs'[s]["feishu"] = "asking"
    <2>1. CASE SinceSent >= MinGap
      BY <2>1 DEF SinceSent
    <2>2. CASE ~(SinceSent >= MinGap)
      <3>1. legs' = [legs EXCEPT ![s] = [c \in channels |-> IF c = "feishu" THEN "asleep"
                                                            ELSE "asking"]]
        BY <1>2, <2>2 DEF Broadcasts
      <3>2. legs'[s]["feishu"] = "asleep"
        BY <3>1 DEF LegsType
      <3> QED BY <1>2, <3>2
    <2> QED BY <2>1, <2>2
  <1> QED BY <1>1, <1>2

(* A request to feishu: whoever sleeps has been passed.                     *)
LEMMA RequestKeepsGap ==
  ASSUME SpacingInv, NEW s \in Sends, Requests(s), SetsLastSent, channels' = channels,
         LegsType', sleeps' = sleeps, "feishu" \in channels => legs'[s]["feishu"] # "asleep",
         \A t \in Sends \ {s} : legs'[t] = legs[t]
  PROVE  SpacingInv'
  <1> USE ChannelsAssumption DEF SpacingInv
  <1>1. posted' = 0 /\ lastSent' = 0
        /\ passed' = (passed \cup {t \in Sends : "feishu" \in channels /\ legs[t]["feishu"] = "asleep"})
                     \ {s}
    BY DEF Requests, SetsLastSent
  <1>2. SleepIsLongEnough'
    BY <1>1 DEF SleepIsLongEnough
  <1> QED BY <1>1, <1>2

LEMMA SpacingStep ==
  ASSUME SpacingInv, ChannelsInv, ChannelsNext PROVE SpacingInv'
  <1> USE ChannelsAssumption DEF SpacingInv
  <1>1. ASSUME NEW s \in Sends, Broadcasts(s) PROVE SpacingInv'
    <2>t. LegsType' /\ channels' = channels
      BY <1>1, BroadcastStep DEF ChannelsInv, Broadcasts
    <2>1. CASE "feishu" \in channels /\ SinceSent >= MinGap
      <3>1. /\ legs' = [legs EXCEPT ![s] = [c \in channels |-> "asking"]]
            /\ SetsLastSent /\ Requests(s) /\ sleeps' = sleeps
        BY <1>1, <2>1 DEF Broadcasts
      <3>2. legs'[s]["feishu"] = "asking" /\ \A t \in Sends \ {s} : legs'[t] = legs[t]
        BY <3>1, <2>1 DEF LegsType
      <3> QED BY <3>1, <3>2, <2>t, RequestKeepsGap
    <2>2. CASE "feishu" \notin channels
      BY <1>1, <2>2, <2>t DEF Broadcasts, SleepIsLongEnough
    <2>3. CASE "feishu" \in channels /\ ~(SinceSent >= MinGap)
      <3>1. /\ legs' = [legs EXCEPT ![s] = [c \in channels |-> IF c = "feishu" THEN "asleep"
                                                               ELSE "asking"]]
            /\ sleeps' = [sleeps EXCEPT ![s] = MinGap - posted]
            /\ passed' = passed \ {s} /\ lastSent' = lastSent /\ posted' = posted
        BY <1>1, <2>3 DEF Broadcasts, SinceSent
      <3>2. MinGap - posted \in 0..MinGap /\ MinGap - posted + posted >= MinGap
        OBVIOUS
      <3>3. sleeps' \in [Sends -> 0..MinGap] /\ sleeps'[s] = MinGap - posted
        BY <3>1, <3>2
      <3>4. \A t \in Sends \ {s} :
              legs'[t] = legs[t] /\ sleeps'[t] = sleeps[t] /\ (t \in passed' <=> t \in passed)
        BY <3>1 DEF LegsType
      <3>5. SleepIsLongEnough'
        <4> SUFFICES ASSUME NEW t \in Sends, legs'[t]["feishu"] = "asleep", t \notin passed'
                     PROVE  sleeps'[t] + posted' >= MinGap
          BY DEF SleepIsLongEnough
        <4>1. CASE t = s
          BY <4>1, <3>1, <3>2, <3>3
        <4>2. CASE t # s
          <5>1. sleeps[t] + posted >= MinGap
            BY <4>2, <3>4, <2>3 DEF SleepIsLongEnough
          <5> QED BY <5>1, <4>2, <3>1, <3>4
        <4> QED BY <4>1, <4>2
      <3> QED BY <2>t, <3>1, <3>3, <3>5
    <2> QED BY <2>1, <2>2, <2>3
  <1>2. ASSUME NEW s \in Sends, Wakes(s) PROVE SpacingInv'
    <2>1. /\ legs' = [legs EXCEPT ![s]["feishu"] = "asking"] /\ "feishu" \in channels
          /\ SetsLastSent /\ Requests(s) /\ UNCHANGED <<channels, sleeps>>
      BY <1>2 DEF Wakes
    <2>2. LegsType'
      BY <1>2, WakeStep DEF ChannelsInv
    <2>3. legs'[s]["feishu"] = "asking" /\ \A t \in Sends \ {s} : legs'[t] = legs[t]
      BY <2>1 DEF LegsType
    <2> QED BY <2>1, <2>2, <2>3, RequestKeepsGap
  <1>3. ASSUME NEW s \in Sends, Returns(s) PROVE SpacingInv'
    BY <1>3, ReturnStep DEF Returns, ChannelsInv, feishu, SleepIsLongEnough
  <1>4. ASSUME NEW s \in Sends, NEW c \in channels, IsAnswered(s, c) PROVE SpacingInv'
    <2>1. LegsType' /\ UNCHANGED <<channels, sleeps, lastSent, posted, passed>>
      BY <1>4, AnswerStep DEF ChannelsInv, IsAnswered, feishu
    <2>2. PICK v \in {"ok", "failed"} : legs' = [legs EXCEPT ![s][c] = v]
      BY <1>4 DEF IsAnswered
    <2>3. \A t \in Sends : "feishu" \in channels /\ legs'[t]["feishu"] = "asleep" =>
            legs[t]["feishu"] = "asleep"
      BY <2>2 DEF LegsType
    <2> QED BY <2>1, <2>3 DEF SleepIsLongEnough
  <1>5. CASE MomentPasses
    <2>1. /\ lastSent' = Waned(posted) /\ posted' = Waned(posted)
          /\ sleeps' = [s \in Sends |-> IF sleeps[s] > 0 THEN sleeps[s] - 1 ELSE 0]
          /\ UNCHANGED <<channels, legs, passed>>
      BY <1>5 DEF MomentPasses
    <2>2. LegsType'
      BY <1>5 DEF MomentPasses, LegsType, ofServices
    <2>3. Waned(posted) \in 0..MinGap
      BY DEF Waned
    <2>4. \A s \in Sends : (IF sleeps[s] > 0 THEN sleeps[s] - 1 ELSE 0) \in 0..MinGap
      OBVIOUS
    <2>5. ASSUME NEW s \in Sends, sleeps[s] + posted >= MinGap
          PROVE  (IF sleeps[s] > 0 THEN sleeps[s] - 1 ELSE 0) + Waned(posted) >= MinGap
      BY <2>5 DEF Waned
    <2>6. SleepIsLongEnough'
      BY <2>1, <2>5 DEF SleepIsLongEnough
    <2> QED BY <2>1, <2>2, <2>3, <2>4, <2>6
  <1> QED BY <1>1, <1>2, <1>3, <1>4, <1>5 DEF ChannelsNext

(* The throttle of FeishuClient.send (feishu/client.py) reads and writes    *)
(* _last_sent without a lock: a request goes out less than the gap after    *)
(* another one only when that one left while it slept, whatever number of   *)
(* broadcasts are under way.                                                *)
THEOREM PostsAreSpacedHolds ==
  ChannelsInit /\ [][ChannelsNext]_channelVars => PostsAreSpaced
  <1>1. ChannelsInit => ChannelsInv /\ SpacingInv
    BY ChannelsStart, SpacingStarts
  <1>2. SpacingInv /\ ChannelsInv /\ [ChannelsNext]_channelVars => SpacingInv' /\ [Spaced]_channelVars
    <2>1. CASE UNCHANGED channelVars
      BY <2>1 DEF channelVars, SpacingInv, LegsType, SleepIsLongEnough
    <2> QED BY <2>1, SpacingStep, SpacedNow
  <1> QED BY <1>1, <1>2, ChannelsInvHolds, PTL DEF PostsAreSpaced, Spaced

-----------------------------------------------------------------------------
(* ResetFallback: the page of last resort is asked rarely.  The lease is no  *)
(* part of the argument: what spaces the requests is the row that an        *)
(* attempt leaves, whether it succeeded or failed.                          *)

(* The row is younger than the last request by no more than the length of  *)
(* a tick, or the last request is still to be recorded, or it never will.  *)
RequestIsRecorded ==
  \/ unrecorded
  \/ \E q \in Rounds : Does(q, "asking")
  \/ asked = Never
  \/ attempted # Never /\ attempted <= asked + RoundTime

FallbackInv == FallbackTypeOK /\ RequestIsRecorded

LEMMA TimesAreNaturals ==
  /\ HtmlInterval \in Nat /\ RoundLease \in Nat /\ RoundTime \in Nat
  /\ RoundTime > 0 /\ RoundTime < HtmlInterval /\ Never = -1
  BY FallbackAssumption DEF Never

Round == [at : {"idle", "fetching", "thinking", "asking", "filing"},
          age : 0..RoundTime, fetched : 0..2, landed : BOOLEAN]
Age == Never..HtmlInterval + RoundTime

LEMMA OlderIsAge ==
  ASSUME NEW old \in Age PROVE Older(old) \in Age /\ Older(old) >= old
  BY TimesAreNaturals DEF Age, Older

LEMMA NoRoundIsRound == NoRound \in Round /\ [NoRound EXCEPT !.at = "fetching"] \in Round
  <1>1. 0 \in 0..RoundTime /\ 0 \in 0..2
    BY TimesAreNaturals
  <1>2. NoRound \in Round
    BY <1>1 DEF NoRound, Round
  <1> QED BY <1>2 DEF Round

LEMMA FallbackStarts == FallbackInit => FallbackInv
  <1> SUFFICES ASSUME FallbackInit PROVE FallbackInv
    OBVIOUS
  <1>1. round \in [Rounds -> Round]
    BY NoRoundIsRound DEF FallbackInit
  <1>2. Never \in Never..HtmlInterval + RoundTime
    BY TimesAreNaturals
  <1> QED BY <1>1, <1>2
      DEF FallbackInit, FallbackInv, FallbackTypeOK, RequestIsRecorded, Round

LEMMA FallbackTypeStep == FallbackTypeOK /\ [FallbackNext]_fallbackVars => FallbackTypeOK'
  <1> SUFFICES ASSUME FallbackTypeOK, [FallbackNext]_fallbackVars PROVE FallbackTypeOK'
    OBVIOUS
  <1> USE TimesAreNaturals
  <1>t. /\ round \in [Rounds -> Round] /\ attempted \in Age /\ asked \in Age
        /\ unrecorded \in BOOLEAN
    BY DEF FallbackTypeOK, Round, Age
  <1>g. ASSUME round' \in [Rounds -> Round], attempted' \in Age, asked' \in Age,
               unrecorded' \in BOOLEAN
        PROVE  FallbackTypeOK'
    BY <1>g DEF FallbackTypeOK, Round, Age
  <1>n. NoRound \in Round /\ 0 \in Age
    BY NoRoundIsRound DEF Age
  <1>a. \A p \in Rounds : round[p].age \in Age
    BY <1>t DEF Round, Age
  <1>p. ASSUME NEW p \in Rounds, NEW pc \in {"idle", "fetching", "thinking", "asking", "filing"},
               GoesOn(p, pc)
        PROVE  round' \in [Rounds -> Round]
    BY <1>t, <1>p DEF GoesOn, Round
  <1>1. ASSUME NEW p \in Rounds, RoundStarts(p) PROVE FallbackTypeOK'
    BY <1>1, <1>t, <1>g, NoRoundIsRound DEF RoundStarts
  <1>2. ASSUME NEW p \in Rounds, OthersAnswered(p) PROVE FallbackTypeOK'
    <2> PICK n \in 0..2, b \in BOOLEAN :
            round' = [round EXCEPT ![p].at = "thinking", ![p].fetched = n, ![p].landed = b]
      BY <1>2 DEF OthersAnswered
    <2> DEFINE r == [round[p] EXCEPT !.at = "thinking", !.fetched = n, !.landed = b]
    <2>2. r \in Round
      BY <1>t DEF Round
    <2>3. round' = [round EXCEPT ![p] = r]
      BY <1>t DEF Round
    <2>1. round' \in [Rounds -> Round]
      BY <1>t, <2>2, <2>3
    <2> QED BY <1>2, <1>t, <1>g, <2>1 DEF OthersAnswered
  <1>3. ASSUME NEW p \in Rounds, AsksPage(p) PROVE FallbackTypeOK'
    BY <1>3, <1>t, <1>g, <1>n, <1>p DEF AsksPage
  <1>4. ASSUME NEW p \in Rounds, DoesNotAsk(p) PROVE FallbackTypeOK'
    BY <1>4, <1>t, <1>g, <1>p DEF DoesNotAsk
  <1>5. ASSUME NEW p \in Rounds, PageCame(p) PROVE FallbackTypeOK'
    BY <1>5, <1>t, <1>g, <1>a, <1>p DEF PageCame, RecordSuccess
  <1>6. ASSUME NEW p \in Rounds, PageFailed(p) PROVE FallbackTypeOK'
    BY <1>6, <1>t, <1>g, <1>a, <1>p DEF PageFailed, RecordFailure
  <1>7. ASSUME NEW p \in Rounds, RoundEnds(p) PROVE FallbackTypeOK'
    BY <1>7, <1>t, <1>g, <1>n DEF RoundEnds, Does
  <1>8. ASSUME MinutePasses PROVE FallbackTypeOK'
    <2>1. round' \in [Rounds -> Round]
      BY <1>8, <1>t, <1>n DEF MinutePasses, Does, Round
    <2>2. attempted' \in Age /\ asked' \in Age
      BY <1>8, <1>t, OlderIsAge DEF MinutePasses
    <2> QED BY <1>8, <1>t, <1>g, <2>1, <2>2 DEF MinutePasses
  <1>9. CASE UNCHANGED fallbackVars
    BY <1>9, <1>t, <1>g DEF fallbackVars
  <1> QED BY <1>1, <1>2, <1>3, <1>4, <1>5, <1>6, <1>7, <1>8, <1>9 DEF FallbackNext

(* A tick that is asking asks still when another goes on.                  *)
LEMMA OthersGoOn ==
  ASSUME NEW p \in Rounds, NEW q \in Rounds, Does(q, "asking"), ~Does(p, "asking"),
         NEW r, round' = [round EXCEPT ![p] = r]
  PROVE  Does(q, "asking")'
  BY DEF Does

LEMMA RequestStep ==
  FallbackInv /\ [FallbackNext]_fallbackVars => RequestIsRecorded'
  <1> SUFFICES ASSUME FallbackInv, [FallbackNext]_fallbackVars PROVE RequestIsRecorded'
    OBVIOUS
  <1> USE TimesAreNaturals
  <1>t. /\ round \in [Rounds -> Round] /\ attempted \in Age /\ asked \in Age
        /\ unrecorded \in BOOLEAN
    BY DEF FallbackInv, FallbackTypeOK, Round, Age
  <1>r. RequestIsRecorded
    BY DEF FallbackInv
  (* A step of a tick that does not ask, and records nothing. *)
  <1>o. ASSUME NEW p \in Rounds, ~Does(p, "asking"), NEW r, round' = [round EXCEPT ![p] = r],
               attempted' = attempted, asked' = asked, unrecorded' = unrecorded
        PROVE  RequestIsRecorded'
    <2>1. CASE \E q \in Rounds : Does(q, "asking")
      BY <1>o, <2>1, OthersGoOn DEF RequestIsRecorded
    <2>2. CASE ~\E q \in Rounds : Does(q, "asking")
      BY <1>o, <1>r, <2>2 DEF RequestIsRecorded
    <2> QED BY <2>1, <2>2
  (* A row that is written is as old as the tick that writes it. *)
  <1>w. ASSUME NEW p \in Rounds, attempted' = round[p].age, asked' = asked
        PROVE  RequestIsRecorded'
    BY <1>w, <1>t DEF RequestIsRecorded, Round, Age
  <1>1. ASSUME NEW p \in Rounds, RoundStarts(p) PROVE RequestIsRecorded'
    BY <1>1, <1>o DEF RoundStarts, Does
  <1>2. ASSUME NEW p \in Rounds, OthersAnswered(p) PROVE RequestIsRecorded'
    <2>1. PICK n \in 0..2, b \in BOOLEAN :
            round' = [round EXCEPT ![p].at = "thinking", ![p].fetched = n, ![p].landed = b]
      BY <1>2 DEF OthersAnswered
    <2>2. round' = [round EXCEPT ![p] =
                      [round[p] EXCEPT !.at = "thinking", !.fetched = n, !.landed = b]]
      BY <2>1, <1>t DEF Round
    <2> QED BY <1>2, <1>o, <2>2 DEF OthersAnswered, Does
  <1>3. ASSUME NEW p \in Rounds, AsksPage(p) PROVE RequestIsRecorded'
    BY <1>3, <1>t DEF AsksPage, GoesOn, Does, RequestIsRecorded, Round
  <1>4. ASSUME NEW p \in Rounds, DoesNotAsk(p) PROVE RequestIsRecorded'
    <2>1. round' = [round EXCEPT ![p] = [round[p] EXCEPT !.at = "filing"]]
      BY <1>4 DEF DoesNotAsk, GoesOn
    <2> QED BY <1>4, <1>o, <2>1 DEF DoesNotAsk, Does
  <1>5. ASSUME NEW p \in Rounds, PageCame(p) PROVE RequestIsRecorded'
    BY <1>5, <1>w DEF PageCame, RecordSuccess
  <1>6. ASSUME NEW p \in Rounds, PageFailed(p) PROVE RequestIsRecorded'
    BY <1>6, <1>w DEF PageFailed, RecordFailure
  <1>7. ASSUME NEW p \in Rounds, RoundEnds(p) PROVE RequestIsRecorded'
    <2>1. CASE Does(p, "asking")
      BY <1>7, <2>1 DEF RoundEnds, RequestIsRecorded
    <2>2. CASE ~Does(p, "asking")
      BY <1>7, <1>o, <1>t, <2>2 DEF RoundEnds
    <2> QED BY <2>1, <2>2
  <1>8. ASSUME MinutePasses PROVE RequestIsRecorded'
    <2>1. \A q \in Rounds : Does(q, "asking") => Does(q, "asking")'
      BY <1>8, <1>t DEF MinutePasses, Does, Round
    <2>2. ASSUME attempted # Never, attempted <= asked + RoundTime, asked # Never
          PROVE  attempted' # Never /\ attempted' <= asked' + RoundTime
      BY <1>8, <1>t, <2>2 DEF MinutePasses, Older, Age
    <2>3. asked = Never => asked' = Never
      BY <1>8 DEF MinutePasses, Older
    <2>4. unrecorded' = unrecorded
      BY <1>8 DEF MinutePasses
    <2> QED BY <1>r, <2>1, <2>2, <2>3, <2>4 DEF RequestIsRecorded
  <1>9. CASE UNCHANGED fallbackVars
    BY <1>9, <1>r DEF fallbackVars, RequestIsRecorded, Does
  <1> QED BY <1>1, <1>2, <1>3, <1>4, <1>5, <1>6, <1>7, <1>8, <1>9 DEF FallbackNext

(* Every state is of the type the cache of the page and the ticks have, and *)
(* an attempt is recorded, under way or known to be lost (store.py:218-253). *)
THEOREM FallbackInvHolds ==
  FallbackInit /\ [][FallbackNext]_fallbackVars => []FallbackInv
  <1>1. FallbackInv /\ [FallbackNext]_fallbackVars => FallbackInv'
    BY FallbackTypeStep, RequestStep DEF FallbackInv
  <1> QED BY FallbackStarts, <1>1, PTL

(* A tick asks the page when the row allows it (source_due), and the row    *)
(* tells of the last request: requests are an interval less a tick apart.   *)
THEOREM FallbackIsRareHolds ==
  FallbackInit /\ [][FallbackNext]_fallbackVars => FallbackIsRare
  <1> DEFINE Rare ==
        \A p \in Rounds :
          Does(p, "thinking") /\ round'[p].at = "asking" =>
            \/ asked = Never \/ asked >= HtmlInterval - RoundTime
            \/ unrecorded \/ \E q \in Rounds \ {p} : Does(q, "asking")
  <1>1. FallbackInv /\ [FallbackNext]_fallbackVars => [Rare]_fallbackVars
    <2> SUFFICES ASSUME FallbackInv, FallbackNext, NEW p \in Rounds,
                        Does(p, "thinking"), round'[p].at = "asking"
                 PROVE  \/ asked = Never \/ asked >= HtmlInterval - RoundTime
                        \/ unrecorded \/ \E q \in Rounds \ {p} : Does(q, "asking")
      OBVIOUS
    <2> USE TimesAreNaturals
    <2>t. /\ round \in [Rounds -> Round] /\ attempted \in Age /\ asked \in Age
      BY DEF FallbackInv, FallbackTypeOK, Round, Age
    <2>1. SourceDue(p)
      <3>1. ASSUME NEW q \in Rounds,
                   RoundStarts(q) \/ OthersAnswered(q) \/ DoesNotAsk(q) \/ PageCame(q)
                   \/ PageFailed(q) \/ RoundEnds(q)
            PROVE  FALSE
        BY <3>1, <2>t DEF RoundStarts, OthersAnswered, DoesNotAsk, PageCame, PageFailed,
           RoundEnds, GoesOn, Does, NoRound, Round
      <3>2. ASSUME MinutePasses PROVE FALSE
        BY <3>2, <2>t DEF MinutePasses, Does, NoRound, Round
      <3>3. PICK q \in Rounds : AsksPage(q)
        BY <3>1, <3>2 DEF FallbackNext
      <3>4. q = p
        BY <3>3, <2>t DEF AsksPage, GoesOn, Does, Round
      <3> QED BY <3>3, <3>4 DEF AsksPage
    <2>2. round[p].age \in 0..RoundTime
      BY <2>t DEF Round
    <2>3. ASSUME attempted # Never, attempted <= asked + RoundTime
          PROVE  asked >= HtmlInterval - RoundTime
      BY <2>1, <2>2, <2>3, <2>t DEF SourceDue, Age
    <2>4. CASE attempted = Never
      BY <2>4 DEF FallbackInv, RequestIsRecorded, Does
    <2> QED BY <2>3, <2>4 DEF FallbackInv, RequestIsRecorded, Does
  <1> QED BY <1>1, FallbackInvHolds, PTL DEF FallbackIsRare

-----------------------------------------------------------------------------
(* TurnDelivery.                                                            *)

(* The requests of a turn in the server, and those of them in a state.      *)
Requested(t) == [k \in Tries |-> handler[<<t, k>>]]
Those(h, w) == {k \in Tries : h[k] = w}
InServer == {"none", "sending", "sent", "ok", "failed"}

(* One turn: its client at attempt n, its requests h, its receipt r, and    *)
(* the histories of deliveries d, overlaps o and receipts prevented u.      *)
(* Every message that reached or may still reach a channel is the first     *)
(* one, or one of an overlap, or one without a receipt; and while there is  *)
(* no receipt and the client may try again, each is among the last two.     *)
Fits(c, n, h, r, d, o, u) ==
  /\ d + Cardinality(Those(h, "sending")) <= 1 + o + u
  /\ c \in {"working", "try", "wait"} /\ r = -1 => d <= u + Cardinality(Those(h, "sent"))
  /\ r > 0 => c \in {"told", "gaveUp"}
  /\ c = "working" => r = -1 /\ \A k \in Tries : h[k] = "none"
  /\ \A k \in Tries : k > n \/ (c = "try" /\ k = n) => h[k] = "none"
  /\ r # -1 \/ c = "told" \/ (\E k \in Tries : h[k] \in {"sent", "ok"}) => d > 0

TurnTyped ==
  /\ client \in [Turns -> {"working", "try", "wait", "told", "gaveUp"}]
  /\ attempt \in [Turns -> Tries]
  /\ handler \in [Turns \X Tries -> InServer]
  /\ receipts \in [Turns -> Nat \cup {-1}]
  /\ delivered \in [Turns -> Nat] /\ overlaps \in [Turns -> Nat] /\ unreceipted \in [Turns -> Nat]

FitsNow(t) ==
  Fits(client[t], attempt[t], Requested(t), receipts[t], delivered[t], overlaps[t], unreceipted[t])

TurnInv == TurnTyped /\ \A t \in Turns : FitsNow(t)

LEMMA TriesAreFinite == IsFiniteSet(Tries) /\ Retries \in Nat /\ RetentionDays \in Nat
  <1>1. Retries \in Nat /\ RetentionDays \in Nat
    BY TurnAssumption
  <1>2. IsFiniteSet(0..Retries)
    BY <1>1, FS_Interval
  <1> QED BY <1>1, <1>2 DEF Tries

LEMMA ThoseAreCounted ==
  ASSUME NEW h, NEW w
  PROVE  IsFiniteSet(Those(h, w)) /\ Cardinality(Those(h, w)) \in Nat
         /\ (Those(h, w) = {} => Cardinality(Those(h, w)) = 0)
  BY TriesAreFinite, FS_Subset, FS_CardinalityType, FS_EmptySet DEF Those

(* Of the requests, k comes to state v.                                     *)
Comes(h, g, k, v) == \A j \in Tries : g[j] = IF j = k THEN v ELSE h[j]

LEMMA OneChanges ==
  ASSUME NEW h, NEW g, NEW k \in Tries, NEW v, Comes(h, g, k, v), h[k] # v
  PROVE  /\ Cardinality(Those(g, v)) = Cardinality(Those(h, v)) + 1
         /\ Cardinality(Those(g, h[k])) = Cardinality(Those(h, h[k])) - 1
         /\ \A w : w # v /\ w # h[k] => Cardinality(Those(g, w)) = Cardinality(Those(h, w))
  <1> USE DEF Comes
  <1>1. Those(g, v) = Those(h, v) \cup {k} /\ k \notin Those(h, v)
    BY DEF Those
  <1>2. Those(g, h[k]) = Those(h, h[k]) \ {k} /\ k \in Those(h, h[k])
    BY DEF Those
  <1>3. \A w : w # v /\ w # h[k] => Those(g, w) = Those(h, w)
    BY DEF Those
  <1>4. Cardinality(Those(g, v)) = Cardinality(Those(h, v)) + 1
    BY <1>1, FS_AddElement, ThoseAreCounted
  <1>5. Cardinality(Those(g, h[k])) = Cardinality(Those(h, h[k])) - 1
    BY <1>2, FS_RemoveElement, ThoseAreCounted
  <1> QED BY <1>3, <1>4, <1>5

-----------------------------------------------------------------------------
(* The steps of one turn.                                                   *)

LEMMA AcceptedFits ==
  ASSUME NEW n \in Tries, NEW h \in [Tries -> InServer], NEW d \in Nat, NEW o \in Nat, NEW u \in Nat,
         Fits("try", n, h, -1, d, o, u),
         NEW g, Comes(h, g, n, "sending")
  PROVE  Fits("wait", n, g, -1, d,
              o + (IF {k \in Tries : h[k] \in {"sending", "sent"}} = {} THEN 0 ELSE 1), u)
  <1>1. h[n] = "none" /\ \A k \in Tries : k > n => g[k] = "none"
    BY TriesAreFinite DEF Fits, Tries, Comes
  <1>2. /\ Cardinality(Those(g, "sending")) = Cardinality(Those(h, "sending")) + 1
        /\ Cardinality(Those(g, "sent")) = Cardinality(Those(h, "sent"))
    BY <1>1, OneChanges
  <1>3. Cardinality(Those(h, "sending")) \in Nat /\ Cardinality(Those(h, "sent")) \in Nat
    BY ThoseAreCounted
  <1>4. (\E k \in Tries : g[k] \in {"sent", "ok"}) => \E k \in Tries : h[k] \in {"sent", "ok"}
    BY <1>1 DEF Comes
  <1>5. CASE {k \in Tries : h[k] \in {"sending", "sent"}} = {}
    <2>1. Those(h, "sending") = {} /\ Those(h, "sent") = {}
      BY <1>5 DEF Those
    <2>2. Cardinality(Those(h, "sending")) = 0 /\ Cardinality(Those(h, "sent")) = 0
      BY <2>1, FS_EmptySet
    <2> QED BY <1>1, <1>2, <1>3, <1>4, <1>5, <2>2 DEF Fits
  <1>6. CASE {k \in Tries : h[k] \in {"sending", "sent"}} # {}
    <2> QED BY <1>1, <1>2, <1>3, <1>4, <1>6 DEF Fits
  <1> QED BY <1>5, <1>6

LEMMA SentFits ==
  ASSUME NEW c, NEW n \in Tries, NEW h \in [Tries -> InServer], NEW r \in Nat \cup {-1},
         NEW d \in Nat, NEW o \in Nat, NEW u \in Nat, Fits(c, n, h, r, d, o, u),
         NEW k \in Tries, h[k] = "sending",
         NEW g, Comes(h, g, k, "sent")
  PROVE  Fits(c, n, g, r, d + 1, o, u)
  <1>1. /\ Cardinality(Those(g, "sending")) = Cardinality(Those(h, "sending")) - 1
        /\ Cardinality(Those(g, "sent")) = Cardinality(Those(h, "sent")) + 1
    BY OneChanges
  <1>2. Cardinality(Those(h, "sending")) \in Nat /\ Cardinality(Those(h, "sent")) \in Nat
    BY ThoseAreCounted
  <1>3. \A j \in Tries : h[j] = "none" => g[j] = "none"
    BY DEF Comes
  <1>4. c # "working"
    BY DEF Fits
  <1> QED BY <1>1, <1>2, <1>3, <1>4 DEF Fits

LEMMA FailedFits ==
  ASSUME NEW c, NEW n \in Tries, NEW h \in [Tries -> InServer], NEW r \in Nat \cup {-1},
         NEW d \in Nat, NEW o \in Nat, NEW u \in Nat, Fits(c, n, h, r, d, o, u),
         NEW k \in Tries, h[k] = "sending",
         NEW g, Comes(h, g, k, "failed")
  PROVE  Fits(c, n, g, r, d, o, u)
  <1>1. /\ Cardinality(Those(g, "sending")) = Cardinality(Those(h, "sending")) - 1
        /\ Cardinality(Those(g, "sent")) = Cardinality(Those(h, "sent"))
    BY OneChanges
  <1>2. Cardinality(Those(h, "sending")) \in Nat /\ Cardinality(Those(h, "sent")) \in Nat
    BY ThoseAreCounted
  <1>3. \A j \in Tries : /\ h[j] = "none" => g[j] = "none"
                         /\ g[j] \in {"sent", "ok"} => h[j] \in {"sent", "ok"}
    BY DEF Comes
  <1>4. c # "working"
    BY DEF Fits
  <1> QED BY <1>1, <1>2, <1>3, <1>4 DEF Fits

LEMMA RecordedFits ==
  ASSUME NEW c, NEW n \in Tries, NEW h \in [Tries -> InServer], NEW r \in Nat \cup {-1},
         NEW d \in Nat, NEW o \in Nat, NEW u \in Nat, Fits(c, n, h, r, d, o, u),
         NEW k \in Tries, h[k] = "sent",
         NEW g, Comes(h, g, k, "ok")
  PROVE  Fits(c, n, g, IF r = -1 THEN 0 ELSE r, d, o, u)
  <1>1. Cardinality(Those(g, "sending")) = Cardinality(Those(h, "sending"))
    BY OneChanges
  <1>3. \A j \in Tries : h[j] = "none" => g[j] = "none"
    BY DEF Comes
  <1>4. c # "working" /\ d > 0
    BY DEF Fits
  <1> QED BY <1>1, <1>3, <1>4 DEF Fits

LEMMA DuplicateFits ==
  ASSUME NEW n \in Tries, NEW h \in [Tries -> InServer], NEW r \in Nat,
         NEW d \in Nat, NEW o \in Nat, NEW u \in Nat, Fits("try", n, h, r, d, o, u),
         NEW g, Comes(h, g, n, "ok")
  PROVE  Fits("wait", n, g, r, d, o, u)
  <1>1. h[n] = "none" /\ \A k \in Tries : k > n => g[k] = "none"
    BY TriesAreFinite DEF Fits, Tries, Comes
  <1>2. Cardinality(Those(g, "sending")) = Cardinality(Those(h, "sending"))
    BY <1>1, OneChanges
  <1> QED BY <1>1, <1>2 DEF Fits

LEMMA KilledFits ==
  ASSUME NEW c, NEW n \in Tries, NEW h \in [Tries -> InServer], NEW r \in Nat \cup {-1},
         NEW d \in Nat, NEW o \in Nat, NEW u \in Nat, Fits(c, n, h, r, d, o, u),
         NEW g \in [Tries -> InServer],
         \A k \in Tries : g[k] = IF h[k] \in {"sending", "sent"} THEN "failed" ELSE h[k]
  PROVE  Fits(c, n, g, r, d, o, u + Cardinality(Those(h, "sent")))
  <1>1. Those(g, "sending") = {} /\ Those(g, "sent") = {}
    BY DEF Those
  <1>2. Cardinality(Those(g, "sending")) = 0 /\ Cardinality(Those(g, "sent")) = 0
    BY <1>1, FS_EmptySet
  <1>3. Cardinality(Those(h, "sending")) \in Nat /\ Cardinality(Those(h, "sent")) \in Nat
    BY ThoseAreCounted
  <1>4. \A j \in Tries : /\ h[j] = "none" => g[j] = "none"
                         /\ g[j] \in {"sent", "ok"} => h[j] \in {"sent", "ok"}
    OBVIOUS
  <1> QED BY <1>2, <1>3, <1>4 DEF Fits

(* The receipt of a turn that is over is pruned or grows old.               *)
LEMMA OlderFits ==
  ASSUME NEW c, NEW n \in Tries, NEW h \in [Tries -> InServer], NEW r \in Nat \cup {-1},
         NEW d \in Nat, NEW o \in Nat, NEW u \in Nat, Fits(c, n, h, r, d, o, u),
         NEW s \in Nat \cup {-1}, s = r \/ (r > 0 /\ s = -1) \/ (c \notin {"try", "wait"} /\ s = r + 1 /\ r # -1),
         c \in {"working", "try", "wait", "told", "gaveUp"}
  PROVE  Fits(c, n, h, s, d, o, u)
  <1>1. CASE s = r
    BY <1>1
  <1>2. CASE r > 0 /\ s = -1
    BY <1>2 DEF Fits
  <1>3. CASE c \notin {"try", "wait"} /\ s = r + 1 /\ r # -1
    <2>1. c \in {"told", "gaveUp"} /\ r # -1 /\ s # -1
      BY <1>3 DEF Fits
    <2> QED BY <2>1 DEF Fits
  <1> QED BY <1>1, <1>2, <1>3

LEMMA ClientFits ==
  ASSUME NEW n \in Tries, NEW h \in [Tries -> InServer], NEW r \in Nat \cup {-1},
         NEW d \in Nat, NEW o \in Nat, NEW u \in Nat
  PROVE  /\ Fits("working", n, h, r, d, o, u) => Fits("try", n, h, r, d, o, u)
         /\ Fits("wait", n, h, r, d, o, u) /\ h[n] = "ok" => Fits("told", n, h, r, d, o, u)
         /\ \A c \in {"try", "wait"} : Fits(c, n, h, r, d, o, u) =>
              /\ Fits("gaveUp", n, h, r, d, o, u)
              /\ n + 1 \in Tries => Fits("try", n + 1, h, r, d, o, u)
  <1>1. n \in Nat /\ \A k \in Tries : k \in Nat /\ (k > n + 1 => k > n) /\ (k = n + 1 => k > n)
    BY TriesAreFinite DEF Tries
  <1> QED BY <1>1 DEF Fits

-----------------------------------------------------------------------------

LEMMA TurnStarts == TurnInit => TurnInv
  <1> SUFFICES ASSUME TurnInit PROVE TurnInv
    OBVIOUS
  <1>1. TurnTyped
    BY TriesAreFinite DEF TurnInit, TurnTyped, InServer, Tries
  <1>2. ASSUME NEW t \in Turns PROVE FitsNow(t)
    <2>1. /\ client[t] = "working" /\ attempt[t] = 0 /\ receipts[t] = -1 /\ delivered[t] = 0
          /\ overlaps[t] = 0 /\ unreceipted[t] = 0
          /\ \A k \in Tries : Requested(t)[k] = "none"
      BY DEF TurnInit, Requested
    <2>2. Those(Requested(t), "sending") = {} /\ Those(Requested(t), "sent") = {}
      BY <2>1 DEF Those
    <2>3. Cardinality(Those(Requested(t), "sending")) = 0 /\ Cardinality(Those(Requested(t), "sent")) = 0
      BY <2>2, FS_EmptySet
    <2> QED BY <2>1, <2>3 DEF FitsNow, Fits
  <1> QED BY <1>1, <1>2 DEF TurnInv

LEMMA ViewIsTyped ==
  ASSUME TurnTyped, NEW t \in Turns
  PROVE  /\ Requested(t) \in [Tries -> InServer] /\ attempt[t] \in Tries
         /\ \A k \in Tries : Requested(t)[k] = handler[<<t, k>>]
         /\ receipts[t] \in Nat \cup {-1}
         /\ delivered[t] \in Nat /\ overlaps[t] \in Nat /\ unreceipted[t] \in Nat
         /\ client[t] \in {"working", "try", "wait", "told", "gaveUp"}
  BY DEF TurnTyped, Requested

(* A turn no step of another turn touches, but for its receipt.             *)
LEMMA OtherTurn ==
  ASSUME TurnInv, NEW t \in Turns, client'[t] = client[t], attempt'[t] = attempt[t],
         \A k \in Tries : handler'[<<t, k>>] = handler[<<t, k>>],
         delivered'[t] = delivered[t], overlaps'[t] = overlaps[t],
         unreceipted'[t] = unreceipted[t],
         receipts'[t] = receipts[t] \/ (receipts[t] > 0 /\ receipts'[t] = -1)
  PROVE  FitsNow(t)'
  <1>1. Requested(t)' = Requested(t)
    BY DEF Requested
  <1>2. Fits(client[t], attempt[t], Requested(t), receipts'[t], delivered[t], overlaps[t], unreceipted[t])
    <2>1. receipts[t] \in Nat \cup {-1} /\ receipts'[t] \in Nat \cup {-1}
      BY ViewIsTyped DEF TurnInv
    <2> QED BY <2>1, ViewIsTyped, OlderFits DEF TurnInv, FitsNow
  <1> QED BY <1>1, <1>2 DEF FitsNow

LEMMA TurnStep ==
  ASSUME TurnInv, TurnNext PROVE TurnInv'
  <1> USE DEF TurnInv
  <1>1. ASSUME NEW t \in Turns, TurnEnds(t) PROVE TurnInv'
    <2>1. /\ client[t] = "working" /\ client' = [client EXCEPT ![t] = "try"]
          /\ UNCHANGED <<attempt, handler, receipts, delivered, overlaps, unreceipted>>
      BY <1>1 DEF TurnEnds, history
    <2>2. TurnTyped'
      BY <2>1 DEF TurnTyped
    <2>3. FitsNow(t)'
      <3>1. Fits("try", attempt[t], Requested(t), receipts[t], delivered[t], overlaps[t], unreceipted[t])
        BY <2>1, ViewIsTyped, ClientFits DEF FitsNow
      <3>2. client'[t] = "try" /\ Requested(t)' = Requested(t)
        BY <2>1 DEF TurnTyped, Requested
      <3> QED BY <2>1, <3>1, <3>2 DEF FitsNow
    <2>4. ASSUME NEW s \in Turns, s # t PROVE FitsNow(s)'
      BY <2>1, <2>4, OtherTurn DEF TurnTyped
    <2> QED BY <2>2, <2>3, <2>4
  <1>2. ASSUME NEW t \in Turns, Duplicate(t) PROVE TurnInv'
    <2>1. /\ client[t] = "try" /\ receipts[t] # -1 /\ client' = [client EXCEPT ![t] = "wait"]
          /\ handler' = [handler EXCEPT ![<<t, attempt[t]>>] = "ok"]
          /\ UNCHANGED <<attempt, receipts, delivered, overlaps, unreceipted>>
      BY <1>2 DEF Duplicate, history
    <2>2. TurnTyped'
      BY <2>1 DEF TurnTyped, InServer
    <2>3. FitsNow(t)'
      <3>1. Comes(Requested(t), Requested(t)', attempt[t], "ok") /\ receipts[t] \in Nat
        BY <2>1, ViewIsTyped DEF TurnTyped, Requested, Comes
      <3>2. Fits("wait", attempt[t], Requested(t)', receipts[t], delivered[t], overlaps[t], unreceipted[t])
        BY <2>1, <3>1, ViewIsTyped, DuplicateFits DEF FitsNow
      <3>3. client'[t] = "wait"
        BY <2>1 DEF TurnTyped
      <3> QED BY <2>1, <3>2, <3>3 DEF FitsNow
    <2>4. ASSUME NEW s \in Turns, s # t PROVE FitsNow(s)'
      BY <2>1, <2>4, OtherTurn DEF TurnTyped
    <2> QED BY <2>2, <2>3, <2>4
  <1>3. ASSUME NEW t \in Turns, Accepted(t) PROVE TurnInv'
    <2>1. /\ client[t] = "try" /\ receipts[t] = -1 /\ client' = [client EXCEPT ![t] = "wait"]
          /\ receipts' = Pruned /\ handler' = [handler EXCEPT ![<<t, attempt[t]>>] = "sending"]
          /\ overlaps' = [overlaps EXCEPT ![t] = overlaps[t] + (IF UnderWay(t) = {} THEN 0 ELSE 1)]
          /\ UNCHANGED <<attempt, delivered, unreceipted>>
      BY <1>3 DEF Accepted
    <2>p. \A s \in Turns : /\ receipts'[s] \in Nat \cup {-1}
                           /\ receipts'[s] = receipts[s] \/ (receipts[s] > 0 /\ receipts'[s] = -1)
      BY <2>1, TriesAreFinite DEF TurnTyped, Pruned
    <2>2. TurnTyped'
      <3>1. overlaps[t] + (IF UnderWay(t) = {} THEN 0 ELSE 1) \in Nat
        BY DEF TurnTyped
      <3>2. receipts' \in [Turns -> Nat \cup {-1}]
        BY <2>1, <2>p DEF Pruned
      <3> QED BY <2>1, <3>1, <3>2 DEF TurnTyped, InServer
    <2>3. FitsNow(t)'
      <3>1. Comes(Requested(t), Requested(t)', attempt[t], "sending")
        BY <2>1, ViewIsTyped DEF TurnTyped, Requested, Comes
      <3>2. UnderWay(t) = {k \in Tries : Requested(t)[k] \in {"sending", "sent"}}
        BY DEF UnderWay, Requested
      <3>3. Fits("wait", attempt[t], Requested(t)', -1, delivered[t],
                 overlaps[t] + (IF UnderWay(t) = {} THEN 0 ELSE 1), unreceipted[t])
        BY <2>1, <3>1, <3>2, ViewIsTyped, AcceptedFits DEF FitsNow
      <3>4. client'[t] = "wait" /\ receipts'[t] = -1
            /\ overlaps'[t] = overlaps[t] + (IF UnderWay(t) = {} THEN 0 ELSE 1)
        BY <2>1, <2>p DEF TurnTyped
      <3> QED BY <2>1, <3>3, <3>4 DEF FitsNow
    <2>4. ASSUME NEW s \in Turns, s # t PROVE FitsNow(s)'
      BY <2>1, <2>p, <2>4, OtherTurn DEF TurnTyped
    <2> QED BY <2>2, <2>3, <2>4
  <1>4. ASSUME NEW t \in Turns, NEW k \in Tries, Sent(t, k) PROVE TurnInv'
    <2>1. /\ handler[<<t, k>>] = "sending" /\ handler' = [handler EXCEPT ![<<t, k>>] = "sent"]
          /\ delivered' = [delivered EXCEPT ![t] = delivered[t] + 1]
          /\ UNCHANGED <<client, attempt, receipts, overlaps, unreceipted>>
      BY <1>4 DEF Sent
    <2>2. TurnTyped'
      <3>1. delivered[t] + 1 \in Nat
        BY DEF TurnTyped
      <3> QED BY <2>1, <3>1 DEF TurnTyped, InServer
    <2>3. FitsNow(t)'
      <3>1. Comes(Requested(t), Requested(t)', k, "sent") /\ Requested(t)[k] = "sending"
        BY <2>1 DEF TurnTyped, Requested, Comes
      <3>2. Fits(client[t], attempt[t], Requested(t)', receipts[t], delivered[t] + 1,
                 overlaps[t], unreceipted[t])
        BY <3>1, ViewIsTyped, SentFits DEF FitsNow
      <3>3. delivered'[t] = delivered[t] + 1
        BY <2>1 DEF TurnTyped
      <3> QED BY <2>1, <3>2, <3>3 DEF FitsNow
    <2>4. ASSUME NEW s \in Turns, s # t PROVE FitsNow(s)'
      BY <2>1, <2>4, OtherTurn DEF TurnTyped
    <2> QED BY <2>2, <2>3, <2>4
  <1>5. ASSUME NEW t \in Turns, NEW k \in Tries, AllChannelsFail(t, k) PROVE TurnInv'
    <2>1. /\ handler[<<t, k>>] = "sending" /\ handler' = [handler EXCEPT ![<<t, k>>] = "failed"]
          /\ UNCHANGED <<client, attempt, receipts, delivered, overlaps, unreceipted>>
      BY <1>5 DEF AllChannelsFail, history
    <2>2. TurnTyped'
      BY <2>1 DEF TurnTyped, InServer
    <2>3. FitsNow(t)'
      <3>1. Comes(Requested(t), Requested(t)', k, "failed") /\ Requested(t)[k] = "sending"
        BY <2>1 DEF TurnTyped, Requested, Comes
      <3>2. Fits(client[t], attempt[t], Requested(t)', receipts[t], delivered[t],
                 overlaps[t], unreceipted[t])
        BY <3>1, ViewIsTyped, FailedFits DEF FitsNow
      <3> QED BY <2>1, <3>2 DEF FitsNow
    <2>4. ASSUME NEW s \in Turns, s # t PROVE FitsNow(s)'
      BY <2>1, <2>4, OtherTurn DEF TurnTyped
    <2> QED BY <2>2, <2>3, <2>4
  <1>6. ASSUME NEW t \in Turns, NEW k \in Tries, Recorded(t, k) PROVE TurnInv'
    <2>1. /\ handler[<<t, k>>] = "sent" /\ handler' = [handler EXCEPT ![<<t, k>>] = "ok"]
          /\ receipts' = [receipts EXCEPT ![t] = IF receipts[t] = -1 THEN 0 ELSE receipts[t]]
          /\ UNCHANGED <<client, attempt, delivered, overlaps, unreceipted>>
      BY <1>6 DEF Recorded, history
    <2>2. TurnTyped'
      <3>1. (IF receipts[t] = -1 THEN 0 ELSE receipts[t]) \in Nat \cup {-1}
        BY DEF TurnTyped
      <3> QED BY <2>1, <3>1 DEF TurnTyped, InServer
    <2>3. FitsNow(t)'
      <3>1. Comes(Requested(t), Requested(t)', k, "ok") /\ Requested(t)[k] = "sent"
        BY <2>1 DEF TurnTyped, Requested, Comes
      <3>2. Fits(client[t], attempt[t], Requested(t)', IF receipts[t] = -1 THEN 0 ELSE receipts[t],
                 delivered[t], overlaps[t], unreceipted[t])
        BY <3>1, ViewIsTyped, RecordedFits DEF FitsNow
      <3>3. receipts'[t] = IF receipts[t] = -1 THEN 0 ELSE receipts[t]
        BY <2>1 DEF TurnTyped
      <3> QED BY <2>1, <3>2, <3>3 DEF FitsNow
    <2>4. ASSUME NEW s \in Turns, s # t PROVE FitsNow(s)'
      BY <2>1, <2>4, OtherTurn DEF TurnTyped
    <2> QED BY <2>2, <2>3, <2>4
  <1>7. CASE ServerKilled
    <2>1. /\ handler' = [a \in Turns \X Tries |->
                           IF handler[a] \in {"sending", "sent"} THEN "failed" ELSE handler[a]]
          /\ unreceipted' = [t \in Turns |->
               unreceipted[t] + Cardinality({k \in Tries : handler[<<t, k>>] = "sent"})]
          /\ UNCHANGED <<client, attempt, receipts, delivered, overlaps>>
      BY <1>7 DEF ServerKilled
    <2>2. ASSUME NEW t \in Turns
          PROVE  {k \in Tries : handler[<<t, k>>] = "sent"} = Those(Requested(t), "sent")
      BY DEF Those, Requested
    <2>3. TurnTyped'
      <3>1. \A t \in Turns : unreceipted[t] + Cardinality(Those(Requested(t), "sent")) \in Nat
        BY ThoseAreCounted DEF TurnTyped
      <3>2. unreceipted' = [t \in Turns |-> unreceipted[t] + Cardinality(Those(Requested(t), "sent"))]
        BY <2>1, <2>2
      <3>3. unreceipted' \in [Turns -> Nat]
        BY <3>1, <3>2
      <3>4. handler' \in [Turns \X Tries -> InServer]
        BY <2>1 DEF TurnTyped, InServer
      <3> QED BY <2>1, <3>3, <3>4 DEF TurnTyped
    <2>4. ASSUME NEW t \in Turns PROVE FitsNow(t)'
      <3>1. /\ Requested(t)' \in [Tries -> InServer]
            /\ \A k \in Tries : Requested(t)'[k] =
                 IF Requested(t)[k] \in {"sending", "sent"} THEN "failed" ELSE Requested(t)[k]
        BY <2>1, <2>3 DEF Requested, TurnTyped
      <3>2. Fits(client[t], attempt[t], Requested(t)', receipts[t], delivered[t], overlaps[t],
                 unreceipted[t] + Cardinality(Those(Requested(t), "sent")))
        BY <3>1, ViewIsTyped, KilledFits DEF FitsNow
      <3>3. unreceipted'[t] = unreceipted[t] + Cardinality(Those(Requested(t), "sent"))
        BY <2>1, <2>2
      <3> QED BY <2>1, <3>2, <3>3 DEF FitsNow
    <2> QED BY <2>3, <2>4
  <1>8. CASE Retained
    <2>1. /\ \A t \in Turns : client[t] \notin {"try", "wait"}
          /\ receipts' = [t \in Turns |-> IF receipts[t] = -1 THEN -1 ELSE receipts[t] + 1]
          /\ UNCHANGED <<client, attempt, handler, delivered, overlaps, unreceipted>>
      BY <1>8 DEF Retained, history
    <2>2. ASSUME NEW t \in Turns
          PROVE  (IF receipts[t] = -1 THEN -1 ELSE receipts[t] + 1) \in Nat \cup {-1}
      BY DEF TurnTyped
    <2>3. TurnTyped'
      BY <2>1, <2>2 DEF TurnTyped
    <2>4. ASSUME NEW t \in Turns PROVE FitsNow(t)'
      <3>1. Fits(client[t], attempt[t], Requested(t), IF receipts[t] = -1 THEN -1 ELSE receipts[t] + 1,
                 delivered[t], overlaps[t], unreceipted[t])
        <4> DEFINE r == IF receipts[t] = -1 THEN -1 ELSE receipts[t] + 1
        <4>1. /\ r \in Nat \cup {-1}
              /\ r = receipts[t] \/ (client[t] \notin {"try", "wait"} /\ r = receipts[t] + 1 /\ receipts[t] # -1)
          BY <2>1, <2>2
        <4> HIDE DEF r
        <4>2. Fits(client[t], attempt[t], Requested(t), r, delivered[t], overlaps[t], unreceipted[t])
          BY <4>1, ViewIsTyped, OlderFits DEF FitsNow
        <4> QED BY <4>2 DEF r
      <3>2. Requested(t)' = Requested(t)
            /\ receipts'[t] = IF receipts[t] = -1 THEN -1 ELSE receipts[t] + 1
        BY <2>1 DEF Requested
      <3> QED BY <2>1, <3>1, <3>2 DEF FitsNow
    <2> QED BY <2>3, <2>4
  <1>9. ASSUME NEW t \in Turns, Answered(t) PROVE TurnInv'
    <2>1. /\ client[t] = "wait" /\ handler[<<t, attempt[t]>>] = "ok"
          /\ client' = [client EXCEPT ![t] = "told"]
          /\ UNCHANGED <<attempt, handler, receipts, delivered, overlaps, unreceipted>>
      BY <1>9 DEF Answered, history
    <2>2. TurnTyped'
      BY <2>1 DEF TurnTyped
    <2>3. FitsNow(t)'
      <3>1. Fits("told", attempt[t], Requested(t), receipts[t], delivered[t], overlaps[t], unreceipted[t])
        BY <2>1, ViewIsTyped, ClientFits DEF FitsNow
      <3>2. client'[t] = "told" /\ Requested(t)' = Requested(t)
        BY <2>1 DEF TurnTyped, Requested
      <3> QED BY <2>1, <3>1, <3>2 DEF FitsNow
    <2>4. ASSUME NEW s \in Turns, s # t PROVE FitsNow(s)'
      BY <2>1, <2>4, OtherTurn DEF TurnTyped
    <2> QED BY <2>2, <2>3, <2>4
  <1>10. ASSUME NEW t \in Turns, NotAnswered(t) PROVE TurnInv'
    <2>0. /\ client[t] \in {"try", "wait"}
          /\ UNCHANGED <<handler, receipts, delivered, overlaps, unreceipted>>
      BY <1>10 DEF NotAnswered, history
    <2>1. CASE attempt[t] < Retries
      <3>1. client' = [client EXCEPT ![t] = "try"]
            /\ attempt' = [attempt EXCEPT ![t] = attempt[t] + 1]
        BY <1>10, <2>1 DEF NotAnswered
      <3>2. attempt[t] + 1 \in Tries
        BY <2>1, TriesAreFinite, ViewIsTyped DEF Tries
      <3>3. TurnTyped'
        BY <2>0, <3>1, <3>2 DEF TurnTyped
      <3>4. FitsNow(t)'
        <4>1. Fits("try", attempt[t] + 1, Requested(t), receipts[t], delivered[t], overlaps[t], unreceipted[t])
          BY <2>0, <3>2, ViewIsTyped, ClientFits DEF FitsNow
        <4>2. client'[t] = "try" /\ attempt'[t] = attempt[t] + 1 /\ Requested(t)' = Requested(t)
          BY <2>0, <3>1 DEF TurnTyped, Requested
        <4> QED BY <2>0, <4>1, <4>2 DEF FitsNow
      <3>5. ASSUME NEW s \in Turns, s # t PROVE FitsNow(s)'
        BY <2>0, <3>1, <3>5, OtherTurn DEF TurnTyped
      <3> QED BY <3>3, <3>4, <3>5
    <2>2. CASE ~(attempt[t] < Retries)
      <3>1. client' = [client EXCEPT ![t] = "gaveUp"] /\ attempt' = attempt
        BY <1>10, <2>2 DEF NotAnswered
      <3>3. TurnTyped'
        BY <2>0, <3>1 DEF TurnTyped
      <3>4. FitsNow(t)'
        <4>1. Fits("gaveUp", attempt[t], Requested(t), receipts[t], delivered[t], overlaps[t], unreceipted[t])
          BY <2>0, ViewIsTyped, ClientFits DEF FitsNow
        <4>2. client'[t] = "gaveUp" /\ Requested(t)' = Requested(t)
          BY <2>0, <3>1 DEF TurnTyped, Requested
        <4> QED BY <2>0, <3>1, <4>1, <4>2 DEF FitsNow
      <3>5. ASSUME NEW s \in Turns, s # t PROVE FitsNow(s)'
        BY <2>0, <3>1, <3>5, OtherTurn DEF TurnTyped
      <3> QED BY <3>3, <3>4, <3>5
    <2> QED BY <2>1, <2>2
  <1> QED BY <1>1, <1>2, <1>3, <1>4, <1>5, <1>6, <1>7, <1>8, <1>9, <1>10 DEF TurnNext

(* The client (codex_notify.py) and the server (api.py) of a finished turn, *)
(* over retries, overlaps, kills and the retention of receipts.             *)
THEOREM TurnInvHolds == TurnInit /\ [][TurnNext]_turnVars => []TurnInv
  <1>1. TurnInv /\ [TurnNext]_turnVars => TurnInv'
    <2>1. CASE UNCHANGED turnVars
      BY <2>1 DEF turnVars, TurnInv, TurnTyped, FitsNow, Requested
    <2> QED BY <2>1, TurnStep
  <1> QED BY TurnStarts, <1>1, PTL

LEMMA FittingTurns == TurnInv => DeliveredOnce /\ AnswerIsTrue
  <1> SUFFICES ASSUME TurnInv, NEW t \in Turns
               PROVE  /\ delivered[t] <= 1 + overlaps[t] + unreceipted[t]
                      /\ client[t] = "told" => delivered[t] > 0
    BY DEF DeliveredOnce, AnswerIsTrue
  <1>1. Cardinality(Those(Requested(t), "sending")) \in Nat
    BY ThoseAreCounted
  <1> QED BY <1>1, ViewIsTyped DEF TurnInv, FitsNow, Fits

-----------------------------------------------------------------------------
(* The parts together: every step of Parts is a step or a stutter of each,  *)
(* so what is proved of a part holds of it in every behaviour of Parts.     *)

LEMMA PartsStep ==
  ASSUME [Next]_partsVars
  PROVE  /\ [CrashNext]_crashVars
         /\ [BankedNext]_bankedVars
         /\ [ProbeNext]_probeVars
         /\ [ErrorNext]_errorVars
         /\ [OomNext]_oomVars
         /\ [DiagnosisNext]_diagnosisVars
         /\ [TurnNext]_turnVars
         /\ [CacheNext]_cacheVars
         /\ [FallbackNext]_fallbackVars
         /\ [ChannelsNext]_channelVars
  <1>1. [CrashNext]_crashVars
    BY DEF Next, partsVars, quiet, Follow, Crash, Banked, Probe, Errors, Oom,
       Diagnosing, Turning, Caching, FallingBack, Sending
  <1>2. [BankedNext]_bankedVars
    BY DEF Next, partsVars, quiet, Follow, Crash, Banked, Probe, Errors, Oom,
       Diagnosing, Turning, Caching, FallingBack, Sending
  <1>3. [ProbeNext]_probeVars
    BY DEF Next, partsVars, quiet, Follow, Crash, Banked, Probe, Errors, Oom,
       Diagnosing, Turning, Caching, FallingBack, Sending
  <1>4. [ErrorNext]_errorVars
    BY DEF Next, partsVars, quiet, Follow, Crash, Banked, Probe, Errors, Oom,
       Diagnosing, Turning, Caching, FallingBack, Sending
  <1>5. [OomNext]_oomVars
    BY DEF Next, partsVars, quiet, Follow, Crash, Banked, Probe, Errors, Oom,
       Diagnosing, Turning, Caching, FallingBack, Sending
  <1>6. [DiagnosisNext]_diagnosisVars
    BY DEF Next, partsVars, quiet, Follow, Crash, Banked, Probe, Errors, Oom,
       Diagnosing, Turning, Caching, FallingBack, Sending
  <1>7. [TurnNext]_turnVars
    BY DEF Next, partsVars, quiet, Follow, Crash, Banked, Probe, Errors, Oom,
       Diagnosing, Turning, Caching, FallingBack, Sending
  <1>8. [CacheNext]_cacheVars
    BY DEF Next, partsVars, quiet, Follow, Crash, Banked, Probe, Errors, Oom,
       Diagnosing, Turning, Caching, FallingBack, Sending
  <1>9. [FallbackNext]_fallbackVars
    BY DEF Next, partsVars, quiet, Follow, Crash, Banked, Probe, Errors, Oom,
       Diagnosing, Turning, Caching, FallingBack, Sending
  <1>10. [ChannelsNext]_channelVars
    BY DEF Next, partsVars, quiet, Follow, Crash, Banked, Probe, Errors, Oom,
       Diagnosing, Turning, Caching, FallingBack, Sending
  <1> QED BY <1>1, <1>2, <1>3, <1>4, <1>5, <1>6, <1>7, <1>8, <1>9, <1>10

LEMMA PartsStart ==
  Init => /\ CrashInit
          /\ BankedInit
          /\ ProbeInit
          /\ ErrorInit
          /\ OomInit
          /\ DiagnosisInit
          /\ TurnInit
          /\ CacheInit
          /\ FallbackInit
          /\ ChannelsInit
  BY DEF Init

(* A crash loop is told only of a container that restarted that often in    *)
(* the window (detect_crash_loops, restart_baseline of store.py).           *)
THEOREM LoopsAreReal ==
  Spec => []LoopIsReal
  <1>1. CrashInv => LoopIsReal
    BY DEF CrashInv
  <1>2. Init => CrashInit
    BY PartsStart
  <1>3. [Next]_partsVars => [CrashNext]_crashVars
    BY PartsStep
  <1> QED BY <1>1, <1>2, <1>3, CrashInvHolds, PTL DEF Spec

(* A container that goes on restarting is told of, wherever the window of   *)
(* its baseline began.                                                      *)
THEOREM LoopsAreReported ==
  Spec => []LoopIsReported
  <1>1. CrashInv => LoopIsReported
    BY LongRunIsTold
  <1>2. Init => CrashInit
    BY PartsStart
  <1>3. [Next]_partsVars => [CrashNext]_crashVars
    BY PartsStep
  <1> QED BY <1>1, <1>2, <1>3, CrashInvHolds, PTL DEF Spec

(* What is filed, under way or lost of a balance was granted, each reset at *)
(* most once, whatever is used or expires between the readings.             *)
THEOREM ResetsAreCreditedOnce ==
  Spec => []CreditedOnce
  <1>1. BankedInv => CreditedOnce
    BY DEF BankedInv
  <1>2. Init => BankedInit
    BY PartsStart
  <1>3. [Next]_partsVars => [BankedNext]_bankedVars
    BY PartsStep
  <1> QED BY <1>1, <1>2, <1>3, BankedInvHolds, PTL DEF Spec

(* "Not evaluated is not recovered" of the probe rules.                     *)
THEOREM RecoveriesAreSeen ==
  Spec => RecoveryIsSeen
  <1>1. Init => ProbeInit
    BY PartsStart
  <1>2. [Next]_partsVars => [ProbeNext]_probeVars
    BY PartsStep
  <1> QED BY <1>1, <1>2, ProbeInvHolds, PTL DEF Spec

(* No critical line leaves the window of the error alerts before a scan     *)
(* dealt with it or passed it over for one of the reasons it may have.      *)
THEOREM NoLinesSlip ==
  Spec => []NoLineSlips
  <1>1. ErrorInv => NoLineSlips
    BY NewIsSeenInTime
  <1>2. Init => ErrorInit
    BY PartsStart
  <1>3. [Next]_partsVars => [ErrorNext]_errorVars
    BY PartsStep
  <1> QED BY <1>1, <1>2, <1>3, ErrorInvHolds, PTL DEF Spec

(* A kill is reported by one of the two patrols, unless it was left to the  *)
(* metrics patrol and that patrol's next scan failed.                       *)
THEOREM OomKillsAreReported ==
  Spec => []KillIsReported
  <1>1. OomInv => KillIsReported
    BY OldIsHeard
  <1>2. Init => OomInit
    BY PartsStart
  <1>3. [Next]_partsVars => [OomNext]_oomVars
    BY PartsStep
  <1> QED BY <1>1, <1>2, <1>3, OomInvHolds, PTL DEF Spec

(* A diagnosis card that was sent says what is stored, for good.            *)
THEOREM CardsAreTrue ==
  Spec => []CardIsStored
  <1>1. DiagnosisInv => CardIsStored
    BY DiagnosesAreKnown
  <1>2. Init => DiagnosisInit
    BY PartsStart
  <1>3. [Next]_partsVars => [DiagnosisNext]_diagnosisVars
    BY PartsStep
  <1> QED BY <1>1, <1>2, <1>3, DiagnosisInvHolds, PTL DEF Spec

(* An event costs a round of calls of the models, and another for every     *)
(* kill, restart or lost post.                                              *)
THEOREM CallsStayBounded ==
  Spec => []CallsAreBounded
  <1>1. DiagnosisInv => CallsAreBounded
    BY DiagnosesAreKnown
  <1>2. Init => DiagnosisInit
    BY PartsStart
  <1>3. [Next]_partsVars => [DiagnosisNext]_diagnosisVars
    BY PartsStep
  <1> QED BY <1>1, <1>2, <1>3, DiagnosisInvHolds, PTL DEF Spec

(* A finished turn is told once, and again only for an attempt that         *)
(* overlapped another, or a delivery a restart kept from its receipt.       *)
THEOREM TurnsAreDeliveredOnce ==
  Spec => []DeliveredOnce
  <1>1. TurnInv => DeliveredOnce
    BY FittingTurns
  <1>2. Init => TurnInit
    BY PartsStart
  <1>3. [Next]_partsVars => [TurnNext]_turnVars
    BY PartsStep
  <1> QED BY <1>1, <1>2, <1>3, TurnInvHolds, PTL DEF Spec

(* A client that is told its turn was delivered is told so rightly.         *)
THEOREM TurnAnswersAreTrue ==
  Spec => []AnswerIsTrue
  <1>1. TurnInv => AnswerIsTrue
    BY FittingTurns
  <1>2. Init => TurnInit
    BY PartsStart
  <1>3. [Next]_partsVars => [TurnNext]_turnVars
    BY PartsStep
  <1> QED BY <1>1, <1>2, <1>3, TurnInvHolds, PTL DEF Spec

(* No tick of the reset monitor takes the answer about another text for its *)
(* own (store.py:262-441).                                                  *)
THEOREM CachedAnswersAreTrue ==
  Spec => []AnswerIsOfText
  <1>1. CacheInv => AnswerIsOfText
    BY DEF CacheInv
  <1>2. Init => CacheInit
    BY PartsStart
  <1>3. [Next]_partsVars => [CacheNext]_cacheVars
    BY PartsStep
  <1> QED BY <1>1, <1>2, <1>3, CacheInvHolds, PTL DEF Spec

(* No text is asked about again that was answered undisturbed.              *)
THEOREM TextsAreAskedOnce ==
  Spec => AskedOnce
  <1>1. Init => CacheInit
    BY PartsStart
  <1>2. [Next]_partsVars => [CacheNext]_cacheVars
    BY PartsStep
  <1> QED BY <1>1, <1>2, AsksOnce, PTL DEF Spec

(* The page of last resort is asked an interval, less a tick, apart.        *)
THEOREM PageIsAskedRarely ==
  Spec => FallbackIsRare
  <1>1. Init => FallbackInit
    BY PartsStart
  <1>2. [Next]_partsVars => [FallbackNext]_fallbackVars
    BY PartsStep
  <1> QED BY <1>1, <1>2, FallbackIsRareHolds, PTL DEF Spec

(* The number a broadcast returns is the number of channels that took the   *)
(* message and said so (Broadcaster.send, notify/base.py:35-46).            *)
THEOREM CountsAreTrue ==
  Spec => []CountIsTrue
  <1>1. ChannelsInv => CountIsTrue
    BY DEF ChannelsInv
  <1>2. Init => ChannelsInit
    BY PartsStart
  <1>3. [Next]_partsVars => [ChannelsNext]_channelVars
    BY PartsStep
  <1> QED BY <1>1, <1>2, <1>3, ChannelsInvHolds, PTL DEF Spec

(* A post of the Feishu channel comes a gap after the one before, but for   *)
(* those it slept through (FeishuClient.send).                              *)
THEOREM PostsKeepTheirGap ==
  Spec => PostsAreSpaced
  <1>1. Init => ChannelsInit
    BY PartsStart
  <1>2. [Next]_partsVars => [ChannelsNext]_channelVars
    BY PartsStep
  <1> QED BY <1>1, <1>2, PostsAreSpacedHolds, PTL DEF Spec
=============================================================================
