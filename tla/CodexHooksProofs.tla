-------------------------- MODULE CodexHooksProofs --------------------------
(***************************************************************************)
(* Proofs about CodexHooks, for any events, results, times and bounds.     *)
(* The model computes with 2^n, of which the provers know nothing, so the  *)
(* times of candidates are left untyped here: neither result is about      *)
(* them.                                                                   *)
(***************************************************************************)
EXTENDS CodexHooks, TLAPS

(* A candidate asks for an approval if its event was a request of one.      *)
Asks(i, c) ==
  /\ i \in Ids /\ c \in Categories
  /\ c = "approval_required" <=> i.name = "PermissionRequest"

Says(f) == \A i \in DOMAIN f : Asks(i, f[i].category)

NamedSo ==
  /\ Says(pending) /\ Says(inflight) /\ Says(due)
  /\ sending # NoSend => Asks(sending.id, sending.category)

(* What was answered waits no more, and is not among what is sent: it will  *)
(* not be queued again when its delivery fails.                             *)
AnsweredStays ==
  \A j \in overtaken :
    /\ j \notin DOMAIN pending
    /\ ~(sending # NoSend /\ sending.id = j /\ j \in DOMAIN inflight)

(* A receipt is as old as the delivery it is of; what is under way has none. *)
Ages(f) == \A k \in DOMAIN f : f[k] \in 0..(RetentionDays + 1)

ReceiptsAgree ==
  /\ Ages(receipts) /\ Ages(told)
  /\ \A k \in DOMAIN told : told[k] <= RetentionDays =>
       k \in unrecorded \/ (k \in DOMAIN receipts /\ receipts[k] = told[k])
  /\ sending # NoSend => Key(sending) \notin DOMAIN receipts

HooksInv == NamedSo /\ AnsweredStays /\ ReceiptsAgree

-----------------------------------------------------------------------------
(* Functions.                                                               *)

LEMMA OverIs ==
  ASSUME NEW f, NEW g
  PROVE  /\ DOMAIN Over(f, g) = DOMAIN f \cup DOMAIN g
         /\ \A x \in DOMAIN f : Over(f, g)[x] = f[x]
         /\ \A x \in DOMAIN g \ DOMAIN f : Over(f, g)[x] = g[x]
  BY DEF Over

LEMMA OnlyIs ==
  ASSUME NEW f, NEW S
  PROVE  DOMAIN Only(f, S) = DOMAIN f \cap S /\ \A x \in DOMAIN f \cap S : Only(f, S)[x] = f[x]
  BY DEF Only

LEMMA ExceptIs ==
  ASSUME NEW f, NEW S
  PROVE  DOMAIN Except(f, S) = DOMAIN f \ S /\ \A x \in DOMAIN f \ S : Except(f, S)[x] = f[x]
  BY OnlyIs DEF Except, Only

LEMMA NoneIs == DOMAIN << >> = {}
  OBVIOUS

LEMMA SaysOver == ASSUME NEW f, NEW g, Says(f), Says(g) PROVE Says(Over(f, g))
  <1> SUFFICES ASSUME NEW i \in DOMAIN Over(f, g) PROVE Asks(i, Over(f, g)[i].category)
    BY DEF Says
  <1>1. CASE i \in DOMAIN f
    <2>1. Over(f, g)[i] = f[i]
      BY <1>1, OverIs
    <2> QED BY <1>1, <2>1 DEF Says
  <1>2. CASE i \notin DOMAIN f
    <2>1. i \in DOMAIN g /\ Over(f, g)[i] = g[i]
      BY <1>2 DEF Over
    <2> QED BY <2>1 DEF Says
  <1> QED BY <1>1, <1>2

LEMMA SaysOnly == ASSUME NEW f, NEW S, Says(f) PROVE Says(Only(f, S)) /\ Says(Except(f, S))
  <1>1. Says(Only(f, S))
    <2>1. \A i \in DOMAIN Only(f, S) : i \in DOMAIN f /\ Only(f, S)[i] = f[i]
      BY DEF Only
    <2> QED BY <2>1 DEF Says
  <1>2. Says(Except(f, S))
    <2>1. \A i \in DOMAIN Except(f, S) : i \in DOMAIN f /\ Except(f, S)[i] = f[i]
      BY DEF Except, Only
    <2> QED BY <2>1 DEF Says
  <1> QED BY <1>1, <1>2

LEMMA SaysNone == Says(<< >>)
  BY NoneIs DEF Says

LEMMA SaysQueued ==
  ASSUME NEW i, NEW c, Asks(i, c) PROVE DOMAIN Queued(i, c) = {i} /\ Says(Queued(i, c))
  BY DEF Queued, Says

-----------------------------------------------------------------------------
(* Hook events.                                                             *)

Left(f, s, t, cs) == Only(f, {j \in DOMAIN f : ~Matches(j, f[j].category, s, t, cs)})
Hit(s, t, cs) == {j \in Live : Matches(j, CategoryOf(j), s, t, cs)}

(* A cancellation finds a candidate wherever it is: whether it matches does *)
(* not depend on where its category is read.                                *)
LEMMA CancelReaches ==
  ASSUME HooksInv, NEW s, NEW t, NEW cs, cs \in {{"approval_required"}, Categories}
  PROVE  /\ Says(Left(pending, s, t, cs)) /\ Says(Left(inflight, s, t, cs))
         /\ \A j \in overtaken \cup Hit(s, t, cs) :
              /\ j \notin DOMAIN Left(pending, s, t, cs)
              /\ ~(sending # NoSend /\ sending.id = j /\ j \in DOMAIN Left(inflight, s, t, cs))
  <1> USE DEF HooksInv
  <1>1. Says(Left(pending, s, t, cs)) /\ Says(Left(inflight, s, t, cs))
    BY SaysOnly DEF Left, NamedSo
  <1>2. \A f : /\ DOMAIN Left(f, s, t, cs) \subseteq DOMAIN f
               /\ \A j \in DOMAIN Left(f, s, t, cs) : ~Matches(j, f[j].category, s, t, cs)
    <2> SUFFICES ASSUME NEW f
                 PROVE  /\ DOMAIN Left(f, s, t, cs) \subseteq DOMAIN f
                        /\ \A j \in DOMAIN Left(f, s, t, cs) : ~Matches(j, f[j].category, s, t, cs)
      OBVIOUS
    <2>1. DOMAIN Left(f, s, t, cs) = {j \in DOMAIN f : ~Matches(j, f[j].category, s, t, cs)}
      BY DEF Left, Only
    <2> QED BY <2>1
  <1>3. \A j, c, d : Asks(j, c) /\ Asks(j, d) /\ Matches(j, c, s, t, cs) => Matches(j, d, s, t, cs)
    BY DEF Asks, Matches
  <1>4. ASSUME NEW j \in overtaken
        PROVE  /\ j \notin DOMAIN Left(pending, s, t, cs)
               /\ ~(sending # NoSend /\ sending.id = j /\ j \in DOMAIN Left(inflight, s, t, cs))
    BY <1>2 DEF AnsweredStays
  <1>5. ASSUME NEW j \in Hit(s, t, cs)
        PROVE  /\ j \notin DOMAIN Left(pending, s, t, cs)
               /\ ~(sending # NoSend /\ sending.id = j /\ j \in DOMAIN Left(inflight, s, t, cs))
    <2>1. j \in Live /\ Matches(j, CategoryOf(j), s, t, cs)
      BY DEF Hit
    <2>2. Asks(j, CategoryOf(j))
      BY <2>1 DEF Live, CategoryOf, NamedSo, Says
    <2>3. j \notin DOMAIN Left(pending, s, t, cs)
      <3>1. ASSUME j \in DOMAIN Left(pending, s, t, cs) PROVE FALSE
        <4>1. Asks(j, pending[j].category) /\ ~Matches(j, pending[j].category, s, t, cs)
          BY <1>2, <3>1 DEF NamedSo, Says
        <4> QED BY <1>3, <2>1, <2>2, <4>1
      <3> QED BY <3>1
    <2>4. j \notin DOMAIN Left(inflight, s, t, cs)
      <3>1. ASSUME j \in DOMAIN Left(inflight, s, t, cs) PROVE FALSE
        <4>1. Asks(j, inflight[j].category) /\ ~Matches(j, inflight[j].category, s, t, cs)
          BY <1>2, <3>1 DEF NamedSo, Says
        <4> QED BY <1>3, <2>1, <2>2, <4>1
      <3> QED BY <3>1
    <2> QED BY <2>3, <2>4
  <1> QED BY <1>1, <1>4, <1>5

LEMMA ReceiptsStay ==
  ASSUME ReceiptsAgree, UNCHANGED <<receipts, told, unrecorded, sending>> PROVE ReceiptsAgree'
  BY DEF ReceiptsAgree, Ages, Key

(* An event that cancels, and queues nothing.                               *)
LEMMA AnswerStep ==
  ASSUME HooksInv, NEW s, NEW t, NEW cs, cs \in {{"approval_required"}, Categories},
         Cancel(s, t, cs), Overtake(s, t, cs),
         UNCHANGED <<due, sending, receipts, told, unrecorded>>
  PROVE  HooksInv'
  <1>1. /\ pending' = Left(pending, s, t, cs) /\ inflight' = Left(inflight, s, t, cs)
        /\ overtaken' = overtaken \cup Hit(s, t, cs)
    BY DEF Cancel, Overtake, Left, Hit
  <1>2. NamedSo'
    BY <1>1, CancelReaches DEF HooksInv, NamedSo, Says
  <1>3. AnsweredStays'
    BY <1>1, CancelReaches DEF AnsweredStays
  <1> QED BY <1>2, <1>3, ReceiptsStay DEF HooksInv

LEMMA RequestStep ==
  ASSUME HooksInv, NEW i \in Ids, PermissionRequest(i) PROVE HooksInv'
  <1> USE DEF HooksInv
  <1>1. /\ pending' = Over(Queued(i, "approval_required"), pending)
        /\ overtaken' = overtaken \ {i}
        /\ UNCHANGED <<inflight, receipts, due, sending, told, unrecorded>>
        /\ Asks(i, "approval_required")
    BY DEF PermissionRequest, Asks, Categories
  <1>2. Says(pending') /\ DOMAIN pending' = {i} \cup DOMAIN pending
    BY <1>1, SaysQueued, SaysOver, OverIs DEF NamedSo
  <1>3. NamedSo'
    BY <1>1, <1>2 DEF NamedSo, Says
  <1>4. AnsweredStays'
    BY <1>1, <1>2 DEF AnsweredStays
  <1> QED BY <1>1, <1>3, <1>4, ReceiptsStay

LEMMA StopQueuesStep ==
  ASSUME HooksInv, NEW i \in Ids, NEW result, StopQueues(i, result) PROVE HooksInv'
  <1> DEFINE cs == {"approval_required"}
  <1>1. PICK c \in StopCategory(result, Turn(i)) :
          /\ pending' = Over(Queued(i, c), Left(pending, i.session, i.turn, cs))
          /\ inflight' = Left(inflight, i.session, i.turn, cs)
    BY DEF StopQueues, Left
  <1>2. /\ overtaken' = (overtaken \ {i}) \cup Hit(i.session, i.turn, cs)
        /\ UNCHANGED <<due, sending, receipts, told, unrecorded>>
        /\ i.name = "Stop"
    BY DEF StopQueues, Hit
  <1>3. Asks(i, c)
    BY <1>1, <1>2 DEF Asks, StopCategory, Categories
  <1>4. i \notin Hit(i.session, i.turn, cs)
    <2>1. \A d : Asks(i, d) => d # "approval_required"
      BY <1>2 DEF Asks
    <2>2. i \in Live => Asks(i, CategoryOf(i))
      BY DEF Live, CategoryOf, HooksInv, NamedSo, Says
    <2> QED BY <2>1, <2>2 DEF Hit, Matches
  <1> HIDE DEF cs
  <1>5. /\ Says(Left(pending, i.session, i.turn, cs)) /\ Says(Left(inflight, i.session, i.turn, cs))
        /\ \A j \in overtaken \cup Hit(i.session, i.turn, cs) :
             /\ j \notin DOMAIN Left(pending, i.session, i.turn, cs)
             /\ ~(sending # NoSend /\ sending.id = j
                    /\ j \in DOMAIN Left(inflight, i.session, i.turn, cs))
    BY CancelReaches DEF cs
  <1>6. Says(pending') /\ DOMAIN pending' = {i} \cup DOMAIN Left(pending, i.session, i.turn, cs)
    BY <1>1, <1>3, <1>5, SaysQueued, SaysOver, OverIs, ZenonT(40)
  <1>7. NamedSo'
    BY <1>1, <1>2, <1>5, <1>6 DEF HooksInv, NamedSo, Says
  <1>8. AnsweredStays'
    BY <1>1, <1>2, <1>4, <1>5, <1>6 DEF AnsweredStays
  <1> QED BY <1>2, <1>7, <1>8, ReceiptsStay DEF HooksInv

LEMMA IngestStep == ASSUME HooksInv, Ingest PROVE HooksInv'
  <1>1. ASSUME NEW i \in Ids,
               \/ UserPromptSubmit(i) \/ SessionEnd(i) \/ PostToolUse(i)
               \/ \E result \in Results : Stop(i, result)
        PROVE  HooksInv'
    BY <1>1, AnswerStep DEF UserPromptSubmit, SessionEnd, PostToolUse, Stop
  <1>2. ASSUME NEW i \in Ids, ContinuedStop(i) PROVE HooksInv'
    <2>1. UNCHANGED <<pending, inflight, receipts, due, sending, overtaken, told, unrecorded>>
      BY <1>2 DEF ContinuedStop, history
    <2>2. NamedSo' /\ AnsweredStays'
      BY <2>1 DEF HooksInv, NamedSo, Says, AnsweredStays
    <2> QED BY <2>1, <2>2, ReceiptsStay DEF HooksInv
  <1> QED BY <1>1, <1>2, RequestStep, StopQueuesStep DEF Ingest

-----------------------------------------------------------------------------
(* The job of the deliveries.                                               *)

LEMMA StartDispatchStep == ASSUME HooksInv, StartDispatch PROVE HooksInv'
  <1> USE DEF HooksInv
  <1>1. /\ due' = Only(pending, DueNow) /\ sending = NoSend
        /\ receipts' = Only(receipts, {k \in DOMAIN receipts : receipts[k] <= RetentionDays})
        /\ overtaken' = overtaken \cap DOMAIN pending
        /\ UNCHANGED <<pending, inflight, sending, told, unrecorded>>
    BY DEF StartDispatch
  <1>2. NamedSo'
    BY <1>1, SaysOnly DEF NamedSo, Says
  <1>3. AnsweredStays'
    BY <1>1 DEF AnsweredStays
  <1>4. ReceiptsAgree'
    <2>1. /\ DOMAIN receipts' = {k \in DOMAIN receipts : receipts[k] <= RetentionDays}
          /\ \A k \in DOMAIN receipts' : receipts'[k] = receipts[k]
      BY <1>1 DEF Only
    <2>2. Ages(receipts')
      BY <2>1 DEF ReceiptsAgree, Ages
    <2>3. ASSUME NEW k \in DOMAIN told, told[k] <= RetentionDays
          PROVE  k \in unrecorded \/ (k \in DOMAIN receipts' /\ receipts'[k] = told[k])
      BY <2>1, <2>3 DEF ReceiptsAgree
    <2> QED BY <1>1, <2>2, <2>3 DEF ReceiptsAgree, Ages
  <1> QED BY <1>2, <1>3, <1>4

(* A candidate taken off the list, and perhaps off those that wait.         *)
LEMMA LookStep ==
  ASSUME HooksInv, NEW i, SkipCancelled(i) \/ SkipDelivered(i) PROVE HooksInv'
  <1> USE DEF HooksInv
  <1>1. /\ due' = Except(due, {i}) /\ UNCHANGED <<sending, receipts, overtaken, told, unrecorded>>
        /\ pending' = pending \/ pending' = Except(pending, {i})
        /\ inflight' = inflight \/ inflight' = Except(inflight, {i})
    BY DEF SkipCancelled, SkipDelivered, Looked, history
  <1>2. \A f : Says(f) => Says(Except(f, {i})) /\ DOMAIN Except(f, {i}) \subseteq DOMAIN f
    BY SaysOnly DEF Except, Only
  <1>5. /\ Says(due') /\ Says(pending') /\ Says(inflight')
         /\ DOMAIN pending' \subseteq DOMAIN pending /\ DOMAIN inflight' \subseteq DOMAIN inflight
    BY <1>1, <1>2 DEF NamedSo
  <1>3. NamedSo'
    BY <1>1, <1>5 DEF NamedSo, Says
  <1>4. AnsweredStays'
    BY <1>1, <1>5 DEF AnsweredStays
  <1> QED BY <1>1, <1>3, <1>4, ReceiptsStay

(* What moves a candidate from those that wait to those being sent.         *)
LEMMA InflightIs ==
  ASSUME HooksInv, NEW i \in DOMAIN due \cap DOMAIN pending
  PROVE  /\ Says(Except(pending, {i})) /\ DOMAIN Except(pending, {i}) = DOMAIN pending \ {i}
         /\ Says(Over(Only(due, {i}), inflight))
         /\ DOMAIN Over(Only(due, {i}), inflight) = {i} \cup DOMAIN inflight
         /\ Asks(i, due[i].category) /\ i \notin overtaken
  <1> USE DEF HooksInv
  <1>1. Says(Except(pending, {i})) /\ DOMAIN Except(pending, {i}) = DOMAIN pending \ {i}
    BY SaysOnly, ExceptIs DEF NamedSo
  <1>2. Says(Only(due, {i})) /\ DOMAIN Only(due, {i}) = {i}
    <2>1. DOMAIN Only(due, {i}) = {i}
      BY DEF Only
    <2> QED BY <2>1, SaysOnly DEF NamedSo
  <1>3. /\ Says(Over(Only(due, {i}), inflight))
        /\ DOMAIN Over(Only(due, {i}), inflight) = {i} \cup DOMAIN inflight
    BY <1>2, SaysOver, OverIs DEF NamedSo
  <1>4. Asks(i, due[i].category) /\ i \notin overtaken
    BY DEF NamedSo, Says, AnsweredStays
  <1> QED BY <1>1, <1>3, <1>4

LEMMA SendStep == ASSUME HooksInv, NEW i \in Ids, Send(i) PROVE HooksInv'
  <1> USE DEF HooksInv
  <1>1. /\ sending = NoSend /\ i \in DOMAIN due \cap DOMAIN pending
        /\ due' = Except(due, {i}) /\ pending' = Except(pending, {i})
        /\ inflight' = Over(Only(due, {i}), inflight)
        /\ sending' = [id |-> i, category |-> due[i].category, attempts |-> due[i].attempts]
        /\ <<i, due[i].category>> \notin DOMAIN receipts
        /\ UNCHANGED <<receipts, overtaken, told, unrecorded>>
    BY DEF Send, Looked, history
  <1>2. sending'.id = i /\ sending'.category = due[i].category
    BY <1>1
  <1> HIDE DEF HooksInv
  <1>3. /\ Says(pending') /\ DOMAIN pending' = DOMAIN pending \ {i}
        /\ Says(inflight') /\ DOMAIN inflight' = {i} \cup DOMAIN inflight
        /\ Asks(i, due[i].category) /\ i \notin overtaken
    BY <1>1, InflightIs
  <1> USE DEF HooksInv
  <1>4. NamedSo'
    <2>1. Says(due')
      BY <1>1, SaysOnly DEF NamedSo
    <2> QED BY <1>2, <1>3, <2>1 DEF NamedSo, Says
  <1>5. AnsweredStays'
    BY <1>1, <1>2, <1>3 DEF AnsweredStays
  <1>6. ReceiptsAgree'
    BY <1>1, <1>2 DEF ReceiptsAgree, Ages, Key
  <1> QED BY <1>4, <1>5, <1>6

LEMMA LookupFailsStep == ASSUME HooksInv, NEW i \in Ids, LookupFails(i) PROVE HooksInv'
  <1> USE DEF HooksInv
  <1>1. /\ sending = NoSend /\ i \in DOMAIN due \cap DOMAIN pending
        /\ due' = << >> /\ pending' = Except(pending, {i})
        /\ inflight' = Over(Only(due, {i}), inflight)
        /\ UNCHANGED <<sending, receipts, overtaken, told, unrecorded>>
    BY DEF LookupFails, history
  <1> HIDE DEF HooksInv
  <1>2. /\ Says(pending') /\ DOMAIN pending' = DOMAIN pending \ {i} /\ Says(inflight')
    BY <1>1, InflightIs
  <1> USE DEF HooksInv
  <1>3. NamedSo'
    BY <1>1, <1>2, SaysNone DEF NamedSo, Says
  <1>4. AnsweredStays'
    BY <1>1, <1>2 DEF AnsweredStays
  <1> QED BY <1>1, <1>3, <1>4, ReceiptsStay

(* What was under way is answered: nothing is sent, and it is not queued    *)
(* again but for a delivery that failed and was not cancelled meanwhile.    *)
LEMMA AnsweredIs ==
  ASSUME HooksInv, sending # NoSend, Answered
  PROVE  /\ sending' = NoSend /\ Says(inflight') /\ DOMAIN inflight' \subseteq DOMAIN inflight
  <1>1. Says(Except(inflight, {sending.id}))
    BY SaysOnly DEF HooksInv, NamedSo
  <1>2. DOMAIN Except(inflight, {sending.id}) \subseteq DOMAIN inflight
    BY DEF Except, Only
  <1> QED BY <1>1, <1>2 DEF Answered, Says

LEMMA DeliveryFailsStep == ASSUME HooksInv, DeliveryFails PROVE HooksInv'
  <1> USE DEF HooksInv
  <1>1. /\ sending # NoSend /\ Answered
        /\ pending' = IF sending.id \in DOMAIN inflight /\ sending.attempts < 2
                      THEN Over(Retried, pending) ELSE pending
        /\ UNCHANGED <<due, receipts, overtaken, told, unrecorded>>
    BY DEF DeliveryFails, history
  <1> HIDE DEF HooksInv
  <1>2. sending' = NoSend /\ Says(inflight') /\ DOMAIN inflight' \subseteq DOMAIN inflight
    BY <1>1, AnsweredIs
  <1> USE DEF HooksInv
  <1>3. DOMAIN Retried = {sending.id} /\ Says(Retried)
    BY <1>1 DEF Retried, NamedSo, Says
  <1>4. /\ Says(pending')
        /\ \/ DOMAIN pending' = DOMAIN pending
           \/ sending.id \in DOMAIN inflight /\ DOMAIN pending' = {sending.id} \cup DOMAIN pending
    <2>1. CASE sending.id \in DOMAIN inflight /\ sending.attempts < 2
      <3> HIDE DEF HooksInv
      <3>1. pending' = Over(Retried, pending)
        BY <1>1, <2>1
      <3>2. Says(pending)
        BY DEF HooksInv, NamedSo
      <3>3. Says(Over(Retried, pending))
        BY <1>3, <3>2, SaysOver
      <3>4. DOMAIN Over(Retried, pending) = {sending.id} \cup DOMAIN pending
        BY <1>3, OverIs, ZenonT(40)
      <3> QED BY <2>1, <3>1, <3>3, <3>4
    <2>2. CASE ~(sending.id \in DOMAIN inflight /\ sending.attempts < 2)
      BY <1>1, <2>2 DEF NamedSo
    <2> QED BY <2>1, <2>2
  <1>5. NamedSo'
    BY <1>1, <1>2, <1>4 DEF NamedSo, Says
  <1>6. AnsweredStays'
    BY <1>1, <1>2, <1>4 DEF AnsweredStays
  <1>7. ReceiptsAgree'
    BY <1>1, <1>2 DEF ReceiptsAgree, Ages
  <1> QED BY <1>5, <1>6, <1>7

(* What a delivery does to the times since one.                             *)
LEMMA DeliveryIs ==
  ASSUME HooksInv, Delivery
  PROVE  /\ Ages(told') /\ Key(sending) \in DOMAIN told' /\ told'[Key(sending)] = 0
         /\ \A k \in DOMAIN told' \ {Key(sending)} : k \in DOMAIN told /\ told'[k] = told[k]
  <1>1. PICK one : one = [k \in {Key(sending)} |-> 0]
    OBVIOUS
  <1>2. /\ DOMAIN one = {Key(sending)} /\ one[Key(sending)] = 0 /\ told' = Over(one, told)
    BY <1>1 DEF Delivery
  <1>3. /\ Key(sending) \in DOMAIN told' /\ told'[Key(sending)] = 0
        /\ \A k \in DOMAIN told' \ {Key(sending)} : k \in DOMAIN told /\ told'[k] = told[k]
    BY <1>2 DEF Over
  <1>4. RetentionDays \in Nat
    BY HooksAssumption
  <1>5. Ages(told')
    BY <1>3, <1>4 DEF HooksInv, ReceiptsAgree, Ages
  <1> QED BY <1>3, <1>5

LEMMA DeliveredStep == ASSUME HooksInv, Delivered PROVE HooksInv'
  <1> USE DEF HooksInv
  <1>1. /\ sending # NoSend /\ Answered /\ Delivery
        /\ receipts' = Over(receipts, [k \in {Key(sending)} |-> 0])
        /\ UNCHANGED <<pending, due, overtaken, unrecorded>>
    BY DEF Delivered
  <1> HIDE DEF HooksInv
  <1>2. /\ sending' = NoSend /\ Says(inflight') /\ DOMAIN inflight' \subseteq DOMAIN inflight
        /\ Ages(told') /\ Key(sending) \in DOMAIN told' /\ told'[Key(sending)] = 0
        /\ \A k \in DOMAIN told' \ {Key(sending)} : k \in DOMAIN told /\ told'[k] = told[k]
    BY <1>1, AnsweredIs, DeliveryIs
  <1> USE DEF HooksInv
  <1>3. NamedSo' /\ AnsweredStays'
    BY <1>1, <1>2 DEF NamedSo, Says, AnsweredStays
  <1>4. /\ DOMAIN receipts' = DOMAIN receipts \cup {Key(sending)}
        /\ receipts'[Key(sending)] = 0
        /\ \A k \in DOMAIN receipts : receipts'[k] = receipts[k]
    <2>1. PICK one : one = [k \in {Key(sending)} |-> 0]
      OBVIOUS
    <2>2. DOMAIN one = {Key(sending)} /\ one[Key(sending)] = 0 /\ receipts' = Over(receipts, one)
      BY <1>1, <2>1
    <2>3. Key(sending) \notin DOMAIN receipts
      BY <1>1 DEF ReceiptsAgree
    <2> QED BY <2>2, <2>3 DEF Over
  <1>5. Ages(receipts')
    BY <1>4, HooksAssumption DEF ReceiptsAgree, Ages
  <1>6. ASSUME NEW k \in DOMAIN told', told'[k] <= RetentionDays
        PROVE  k \in unrecorded \/ (k \in DOMAIN receipts' /\ receipts'[k] = told'[k])
    BY <1>2, <1>4, <1>6 DEF ReceiptsAgree
  <1>7. ReceiptsAgree'
    BY <1>1, <1>2, <1>5, <1>6 DEF ReceiptsAgree, Ages
  <1> QED BY <1>3, <1>7

(* A delivery that leaves no receipt is known not to have left one.         *)
LEMMA UnrecordedStep ==
  ASSUME HooksInv, sending # NoSend, Delivery, sending' = NoSend, receipts' = receipts,
         unrecorded' = unrecorded \cup {Key(sending)}
  PROVE  ReceiptsAgree'
  <1>1. /\ Ages(told')
        /\ \A k \in DOMAIN told' \ {Key(sending)} : k \in DOMAIN told /\ told'[k] = told[k]
    BY DeliveryIs
  <1>2. ASSUME NEW k \in DOMAIN told', told'[k] <= RetentionDays
        PROVE  k \in unrecorded' \/ (k \in DOMAIN receipts /\ receipts[k] = told'[k])
    BY <1>1, <1>2 DEF HooksInv, ReceiptsAgree
  <1> QED BY <1>1, <1>2 DEF HooksInv, ReceiptsAgree, Ages

LEMMA RecordFailsStep == ASSUME HooksInv, RecordFails PROVE HooksInv'
  <1>1. /\ sending # NoSend /\ Answered /\ Delivery
        /\ due' = << >> /\ unrecorded' = unrecorded \cup {Key(sending)}
        /\ UNCHANGED <<pending, receipts, overtaken>>
    BY DEF RecordFails
  <1>2. sending' = NoSend /\ Says(inflight') /\ DOMAIN inflight' \subseteq DOMAIN inflight
    BY <1>1, AnsweredIs
  <1>3. NamedSo'
    BY <1>1, <1>2, SaysNone DEF HooksInv, NamedSo, Says
  <1>4. AnsweredStays'
    BY <1>1, <1>2 DEF HooksInv, AnsweredStays
  <1> QED BY <1>1, <1>2, <1>3, <1>4, UnrecordedStep DEF HooksInv

-----------------------------------------------------------------------------
(* Time and restarts.                                                       *)

LEMMA TickStep == ASSUME HooksInv, Tick PROVE HooksInv'
  <1>1. /\ pending' = [i \in DOMAIN pending |-> [pending[i] EXCEPT !.wait = Minus(pending[i].wait, 1)]]
        /\ UNCHANGED <<inflight, due, sending, receipts, overtaken, told, unrecorded>>
    BY DEF Tick, history
  <1>2. DOMAIN pending' = DOMAIN pending
    BY <1>1
  <1>3. Says(pending')
    <2> SUFFICES ASSUME NEW i \in DOMAIN pending' PROVE Asks(i, pending'[i].category)
      BY DEF Says
    <2>1. pending'[i] = [pending[i] EXCEPT !.wait = Minus(pending[i].wait, 1)]
      BY <1>1, <1>2
    <2>2. pending'[i].category = pending[i].category
      BY <2>1
    <2> QED BY <1>2, <2>2 DEF HooksInv, NamedSo, Says
  <1>4. NamedSo' /\ AnsweredStays'
    BY <1>1, <1>2, <1>3 DEF HooksInv, NamedSo, Says, AnsweredStays
  <1> QED BY <1>1, <1>4, ReceiptsStay DEF HooksInv

LEMMA DayStep == ASSUME HooksInv, DayPasses PROVE HooksInv'
  <1> USE DEF HooksInv
  <1> DEFINE Older(f) == [k \in DOMAIN f |-> Least(f[k] + 1, RetentionDays + 1)]
  <1>1. /\ receipts' = Older(receipts) /\ told' = Older(told) /\ sending = NoSend
        /\ UNCHANGED <<pending, inflight, due, sending, overtaken, unrecorded>>
    BY DEF DayPasses
  <1>2. NamedSo' /\ AnsweredStays'
    BY <1>1 DEF NamedSo, Says, AnsweredStays
  <1>3. \A n \in 0..(RetentionDays + 1) :
          /\ Least(n + 1, RetentionDays + 1) \in 0..(RetentionDays + 1)
          /\ Least(n + 1, RetentionDays + 1) <= RetentionDays => n <= RetentionDays
    BY HooksAssumption DEF Least
  <1>4. ASSUME NEW f, Ages(f)
        PROVE  /\ DOMAIN Older(f) = DOMAIN f /\ Ages(Older(f))
               /\ \A k \in DOMAIN f : Older(f)[k] <= RetentionDays => f[k] <= RetentionDays
    <2>1. \A k \in DOMAIN f : Older(f)[k] = Least(f[k] + 1, RetentionDays + 1)
      OBVIOUS
    <2>2. DOMAIN Older(f) = DOMAIN f
      OBVIOUS
    <2> HIDE DEF Older
    <2>3. \A k \in DOMAIN f : f[k] \in 0..(RetentionDays + 1)
      BY <1>4 DEF Ages
    <2> QED BY <1>3, <2>1, <2>2, <2>3 DEF Ages
  <1>5. ASSUME NEW k \in DOMAIN Older(told), Older(told)[k] <= RetentionDays
        PROVE  k \in unrecorded \/ (k \in DOMAIN Older(receipts) /\ Older(receipts)[k] = Older(told)[k])
    <2> HIDE DEF Older
    <2>1. k \in DOMAIN told /\ told[k] <= RetentionDays
      BY <1>4, <1>5 DEF ReceiptsAgree
    <2>2. k \in unrecorded \/ (k \in DOMAIN receipts /\ receipts[k] = told[k])
      BY <2>1 DEF ReceiptsAgree
    <2> USE DEF Older
    <2> QED BY <2>1, <2>2
  <1>6. ReceiptsAgree'
    <2> HIDE DEF Older
    <2>1. Ages(receipts') /\ Ages(told')
      BY <1>1, <1>4 DEF ReceiptsAgree
    <2> QED BY <1>1, <1>5, <2>1 DEF ReceiptsAgree, Ages
  <1> QED BY <1>2, <1>6

LEMMA RestartStep == ASSUME HooksInv, Restart PROVE HooksInv'
  <1>1. /\ pending' = << >> /\ inflight' = << >> /\ due' = << >> /\ sending' = NoSend
        /\ overtaken' = {} /\ receipts' = receipts
        /\ \/ UNCHANGED <<told, unrecorded>>
           \/ sending # NoSend /\ Delivery /\ unrecorded' = unrecorded \cup {Key(sending)}
    BY DEF Restart
  <1>2. NamedSo'
    BY <1>1, SaysNone DEF NamedSo, Says
  <1>3. AnsweredStays'
    BY <1>1 DEF AnsweredStays
  <1>4. CASE UNCHANGED <<told, unrecorded>>
    BY <1>1, <1>2, <1>3, <1>4 DEF HooksInv, ReceiptsAgree, Ages
  <1>5. CASE sending # NoSend /\ Delivery /\ unrecorded' = unrecorded \cup {Key(sending)}
    BY <1>1, <1>2, <1>3, <1>5, UnrecordedStep DEF HooksInv
  <1> QED BY <1>1, <1>4, <1>5

LEMMA HooksStart == Init => HooksInv
  <1> SUFFICES ASSUME Init PROVE HooksInv
    OBVIOUS
  <1>1. NamedSo
    BY SaysNone DEF Init, NamedSo
  <1>2. AnsweredStays /\ ReceiptsAgree
    BY NoneIs DEF Init, AnsweredStays, ReceiptsAgree, Ages
  <1> QED BY <1>1, <1>2 DEF HooksInv

LEMMA HooksStutter == ASSUME HooksInv, UNCHANGED vars PROVE HooksInv'
  <1>1. UNCHANGED <<pending, inflight, due, sending, receipts, overtaken, told, unrecorded>>
    BY DEF vars, process, history
  <1>2. NamedSo' /\ AnsweredStays'
    BY <1>1 DEF HooksInv, NamedSo, Says, AnsweredStays
  <1> QED BY <1>1, <1>2, ReceiptsStay DEF HooksInv

LEMMA HooksStep == HooksInv /\ [Next]_vars => HooksInv'
  <1> SUFFICES ASSUME HooksInv, [Next]_vars PROVE HooksInv'
    OBVIOUS
  <1>1. CASE Ingest
    BY <1>1, IngestStep
  <1>2. CASE Dispatch
    BY <1>2, StartDispatchStep, LookStep, SendStep, DeliveredStep, DeliveryFailsStep DEF Dispatch
  <1>3. CASE Tick \/ DayPasses \/ Restart \/ RecordFails \/ \E i \in Ids : LookupFails(i)
    BY <1>3, TickStep, DayStep, RestartStep, RecordFailsStep, LookupFailsStep
  <1>4. CASE UNCHANGED vars
    BY <1>4, HooksStutter
  <1> QED BY <1>1, <1>2, <1>3, <1>4 DEF Next

-----------------------------------------------------------------------------
(* The results.                                                             *)

(* Only the job starts a delivery, of a candidate that still waits and of   *)
(* which no receipt is kept.                                                *)
LEMMA OnlySendSends ==
  ASSUME [Next]_vars, sending' # NoSend, sending # sending'
  PROVE  \E i \in Ids : Send(i)
  <1>1. CASE Ingest
    BY <1>1 DEF Ingest, UserPromptSubmit, PostToolUse, SessionEnd, PermissionRequest, Stop,
                StopQueues, ContinuedStop
  <1>2. CASE Dispatch
    BY <1>2 DEF Dispatch, StartDispatch, SkipCancelled, SkipDelivered, Delivered, DeliveryFails,
                Answered
  <1>3. CASE Tick \/ DayPasses \/ Restart \/ RecordFails \/ \E i \in Ids : LookupFails(i)
    BY <1>3 DEF Tick, DayPasses, Restart, RecordFails, LookupFails, Answered
  <1>4. CASE UNCHANGED vars
    BY <1>4 DEF vars, process
  <1> QED BY <1>1, <1>2, <1>3, <1>4 DEF Next

(* Candidates agree with the hook they are of wherever they are kept, what  *)
(* the user answered is nowhere it can be sent from, and receipts are as    *)
(* old as the deliveries they are of.                                       *)
THEOREM HooksInvHolds == Spec => []HooksInv
  BY HooksStart, HooksStep, PTL DEF Spec

(* A candidate that the user answered is not sent, whether it waited, was   *)
(* on the list of the job, or failed to be delivered while it was answered. *)
THEOREM AnsweredAreNotSent == Spec => AnsweredIsNotSent
  <1>1. HooksInv /\ [Next]_vars
          => [sending' # NoSend /\ sending # sending' => sending'.id \notin overtaken]_vars
    <2> SUFFICES ASSUME HooksInv, [Next]_vars, sending' # NoSend, sending # sending'
                 PROVE  sending'.id \notin overtaken
      OBVIOUS
    <2>1. PICK i \in Ids : Send(i)
      BY OnlySendSends
    <2>2. i \in DOMAIN pending /\ sending'.id = i
      BY <2>1 DEF Send
    <2> QED BY <2>2 DEF HooksInv, AnsweredStays
  <1> QED BY <1>1, HooksInvHolds, PTL DEF Spec, AnsweredIsNotSent

(* An event is told once within the retention of the receipts, but for a    *)
(* first message whose receipt a failing store or a restart prevented, for  *)
(* any events, retention and number of seen ids that are kept.              *)
THEOREM EventsAreToldOnce == Spec => NotToldTwice
  <1>1. HooksInv /\ [Next]_vars
          => [sending' # NoSend /\ sending # sending' =>
                LET k == Key(sending')
                IN k \in DOMAIN told /\ told[k] <= RetentionDays => k \in unrecorded]_vars
    <2> SUFFICES ASSUME HooksInv, [Next]_vars, sending' # NoSend, sending # sending',
                        Key(sending') \in DOMAIN told, told[Key(sending')] <= RetentionDays
                 PROVE  Key(sending') \in unrecorded
      OBVIOUS
    <2>1. PICK i \in Ids : Send(i)
      BY OnlySendSends
    <2>2. Key(sending') = <<i, due[i].category>> /\ Key(sending') \notin DOMAIN receipts
      BY <2>1 DEF Send, Key
    <2> QED BY <2>2 DEF HooksInv, ReceiptsAgree
  <1> QED BY <1>1, HooksInvHolds, PTL DEF Spec, NotToldTwice

-----------------------------------------------------------------------------
(* Types.                                                                   *)

Typed(f) == DOMAIN f \subseteq Ids /\ \A i \in DOMAIN f : f[i] \in Candidate
TypedTurns(f) == DOMAIN f \subseteq TurnsOf /\ \A t \in DOMAIN f : f[t] \in 0..LongTurn
TypedAges(f) == DOMAIN f \subseteq Keys /\ \A k \in DOMAIN f : f[k] \in 0..(RetentionDays + 1)

LEMMA HookConstants ==
  /\ Grace \in Nat /\ LongTurn \in Nat /\ BackoffUnit \in Nat /\ BackoffMax \in Nat
  /\ RetentionDays \in Nat /\ MaxDays \in Nat /\ MaxFaults \in Nat
  BY HooksAssumption

LEMMA TypedOver == ASSUME NEW f, NEW g, Typed(f), Typed(g) PROVE Typed(Over(f, g))
  BY DEF Typed, Over

LEMMA TypedOnly == ASSUME NEW f, NEW S, Typed(f) PROVE Typed(Only(f, S)) /\ Typed(Except(f, S))
  BY DEF Typed, Except, Only

LEMMA TypedNone == Typed(<< >>) /\ TypedTurns(<< >>) /\ TypedAges(<< >>)
  BY NoneIs DEF Typed, TypedTurns, TypedAges

LEMMA TypedQueued == ASSUME NEW i \in Ids, NEW c \in Categories PROVE Typed(Queued(i, c))
  <1>1. [category |-> c, attempts |-> 0, wait |-> Grace] \in Candidate
    BY HookConstants DEF Candidate
  <1> QED BY <1>1 DEF Queued, Typed

LEMMA TypedRetried == ASSUME TypeOK, sending # NoSend, sending.attempts < 2 PROVE Typed(Retried)
  <1> DEFINE n == sending.attempts + 1
             delay == BackoffUnit * 2^n
             c == [category |-> sending.category, attempts |-> n,
                   wait |-> Minus(Least(BackoffMax, delay), late)]
  <1>1. sending \in [id : Ids, category : Categories, attempts : 0..2] /\ late \in 0..BackoffMax
    BY DEF TypeOK
  <1>2. n \in 1..2
    BY <1>1
  <1>3. delay \in Nat
    <2>1. \A a, b \in Nat : a * b \in Nat
      OBVIOUS
    <2>2. 2^n \in Nat
      BY <1>2, HooksAssumption
    <2> QED BY <2>1, <2>2, HookConstants
  <1> HIDE DEF delay
  <1>4. Minus(Least(BackoffMax, delay), late) \in 0..(Grace + BackoffMax)
    BY <1>1, <1>3, HookConstants DEF Minus, Least
  <1>5. c \in Candidate
    BY <1>1, <1>2, <1>4 DEF Candidate
  <1>6. Retried = [j \in {sending.id} |-> c]
    BY DEF Retried, delay
  <1> HIDE DEF c
  <1> QED BY <1>1, <1>5, <1>6 DEF Typed

Sent == [id : Ids, category : Categories, attempts : 0..2]

TypesHold ==
  /\ TypedTurns(turns) /\ Typed(pending) /\ Typed(inflight) /\ Typed(due)
  /\ TypedAges(receipts) /\ TypedAges(told)
  /\ seen \subseteq Ids /\ aged \subseteq seen /\ sending \in Sent \cup {NoSend}
  /\ late \in 0..BackoffMax /\ days \in 0..MaxDays /\ faults \in 0..MaxFaults
  /\ overtaken \subseteq Ids /\ unrecorded \subseteq Keys

LEMMA TypesAre == TypeOK <=> TypesHold
  BY DEF TypeOK, TypesHold, Typed, TypedTurns, TypedAges, Sent

LEMMA AgesOver ==
  ASSUME NEW f, NEW g, TypedAges(f), TypedAges(g) PROVE TypedAges(Over(f, g))
  BY DEF TypedAges, Over

LEMMA AgesNew == ASSUME NEW k \in Keys PROVE TypedAges([x \in {k} |-> 0])
  BY HookConstants DEF TypedAges

LEMMA TurnsOver ==
  ASSUME NEW f, NEW g, TypedTurns(f), TypedTurns(g) PROVE TypedTurns(Over(f, g))
  BY DEF TypedTurns, Over

LEMMA TurnsOnly ==
  ASSUME NEW f, NEW S, TypedTurns(f) PROVE TypedTurns(Only(f, S)) /\ TypedTurns(Except(f, S))
  BY DEF TypedTurns, Except, Only

(* A delivery is of a key.                                                  *)
LEMMA KeyTyped == ASSUME TypesHold, sending # NoSend PROVE Key(sending) \in Keys
  BY DEF TypesHold, Sent, Key, Keys

LEMMA LiveTyped == ASSUME TypesHold PROVE Live \subseteq Ids
  BY DEF TypesHold, Live, Typed, Sent

LEMMA SeenTyped ==
  ASSUME TypesHold, NEW i, MarkSeen(i) PROVE seen' \subseteq Ids /\ aged' \subseteq seen' /\ i \in Ids
  BY DEF TypesHold, MarkSeen

LEMMA CancelTyped ==
  ASSUME TypesHold, NEW s, NEW t, NEW cs, Cancel(s, t, cs)
  PROVE  Typed(pending') /\ Typed(inflight')
  <1>1. pending' = Left(pending, s, t, cs) /\ inflight' = Left(inflight, s, t, cs)
    BY DEF Cancel, Left
  <1> QED BY <1>1, TypedOnly DEF TypesHold, Left

LEMMA IngestTyped == ASSUME TypesHold, Ingest PROVE TypesHold'
  <1>1. PICK i \in Ids :
          \/ UserPromptSubmit(i) \/ PostToolUse(i) \/ SessionEnd(i) \/ PermissionRequest(i)
          \/ ContinuedStop(i) \/ \E result \in Results : Stop(i, result) \/ StopQueues(i, result)
    BY DEF Ingest
  <1>2. /\ MarkSeen(i)
        /\ UNCHANGED <<receipts, due, sending, late, bounds, told, unrecorded>>
    BY <1>1 DEF UserPromptSubmit, PostToolUse, SessionEnd, PermissionRequest, ContinuedStop, Stop,
               StopQueues, history
  <1>3. seen' \subseteq Ids /\ aged' \subseteq seen'
    BY <1>2, SeenTyped
  <1>4. overtaken' \subseteq Ids
    <2>1. overtaken' \subseteq overtaken \cup Live
      BY <1>1 DEF UserPromptSubmit, PostToolUse, SessionEnd, PermissionRequest, ContinuedStop, Stop,
                 StopQueues, history, Overtake
    <2> QED BY <2>1, LiveTyped DEF TypesHold
  <1>5. TypedTurns(turns')
    <2>1. TypedTurns([t \in {Turn(i)} |-> 0])
      BY HookConstants DEF TypedTurns, TurnsOf
    <2>2. \/ turns' = turns \/ turns' = Over([t \in {Turn(i)} |-> 0], turns)
          \/ turns' = Except(turns, {Turn(i)})
          \/ turns' = Only(turns, {t \in DOMAIN turns : t[1] # i.session})
      BY <1>1 DEF UserPromptSubmit, PostToolUse, SessionEnd, PermissionRequest, ContinuedStop, Stop,
                 StopQueues
    <2> QED BY <2>1, <2>2, TurnsOver, TurnsOnly DEF TypesHold
  <1>6. Typed(pending') /\ Typed(inflight')
    <2>1. CASE \E s, t, cs : Cancel(s, t, cs)
      BY <2>1, CancelTyped
    <2>2. CASE PermissionRequest(i)
      <3>1. "approval_required" \in Categories
        BY DEF Categories
      <3> QED BY <2>2, <3>1, TypedQueued, TypedOver DEF PermissionRequest, TypesHold
    <2>3. CASE ContinuedStop(i)
      BY <2>3 DEF ContinuedStop, TypesHold
    <2>4. CASE \E result \in Results : StopQueues(i, result)
      <3>1. PICK result \in Results : StopQueues(i, result)
        BY <2>4
      <3>2. PICK c \in StopCategory(result, Turn(i)) :
              /\ pending' = Over(Queued(i, c), Left(pending, i.session, i.turn, {"approval_required"}))
              /\ inflight' = Left(inflight, i.session, i.turn, {"approval_required"})
        BY <3>1 DEF StopQueues, Left
      <3>3. c \in Categories
        BY <3>2 DEF StopCategory, Categories
      <3> QED BY <3>2, <3>3, TypedQueued, TypedOver, TypedOnly DEF TypesHold, Left
    <2>5. \/ \E s, t, cs : Cancel(s, t, cs)
          \/ PermissionRequest(i) \/ ContinuedStop(i) \/ \E result \in Results : StopQueues(i, result)
      BY <1>1 DEF UserPromptSubmit, PostToolUse, SessionEnd, Stop
    <2> QED BY <2>1, <2>2, <2>3, <2>4, <2>5
  <1> QED BY <1>2, <1>3, <1>4, <1>5, <1>6 DEF TypesHold, bounds

LEMMA DispatchTyped == ASSUME TypesHold, Dispatch PROVE TypesHold'
  <1>1. CASE StartDispatch
    <2>1. Typed(due') /\ TypedAges(receipts')
      <3>1. TypedAges(receipts')
        BY <1>1 DEF StartDispatch, TypesHold, TypedAges, Only
      <3> QED BY <1>1, <3>1, TypedOnly DEF StartDispatch, TypesHold
    <2> QED BY <1>1, <2>1, HookConstants DEF StartDispatch, TypesHold, bounds
  <1>2. CASE \E i \in Ids : SkipCancelled(i) \/ SkipDelivered(i)
    <2>1. Typed(due') /\ Typed(pending') /\ Typed(inflight')
      BY <1>2, TypedOnly DEF SkipCancelled, SkipDelivered, Looked, TypesHold
    <2> QED BY <1>2, <2>1 DEF SkipCancelled, SkipDelivered, TypesHold, bounds, history
  <1>3. CASE \E i \in Ids : Send(i)
    <2>1. PICK i \in Ids : Send(i)
      BY <1>3
    <2>2. Typed(due') /\ Typed(pending') /\ Typed(inflight')
      BY <2>1, TypedOnly, TypedOver DEF Send, Looked, TypesHold
    <2>3. sending' \in Sent
      BY <2>1 DEF Send, Looked, TypesHold, Typed, Candidate, Sent
    <2> QED BY <2>1, <2>2, <2>3 DEF Send, TypesHold, bounds, history
  <1>4. CASE Delivered
    <2>1. Typed(inflight') /\ sending' = NoSend
      BY <1>4, TypedOnly DEF Delivered, Answered, TypesHold
    <2>2. TypedAges([k \in {Key(sending)} |-> 0])
      BY <1>4, KeyTyped, AgesNew DEF Delivered
    <2>3. TypedAges(told') /\ TypedAges(receipts')
      BY <1>4, <2>2, AgesOver DEF Delivered, Delivery, TypesHold
    <2> QED BY <1>4, <2>1, <2>3 DEF Delivered, TypesHold, bounds
  <1>5. CASE DeliveryFails
    <2>1. Typed(inflight') /\ sending' = NoSend
      BY <1>5, TypedOnly DEF DeliveryFails, Answered, TypesHold
    <2>2. Typed(pending')
      <3>1. CASE sending.id \in DOMAIN inflight /\ sending.attempts < 2
        <4>1. Typed(Retried)
          BY <1>5, <3>1, TypedRetried, TypesAre DEF DeliveryFails
        <4> QED BY <1>5, <3>1, <4>1, TypedOver DEF DeliveryFails, TypesHold
      <3>2. CASE ~(sending.id \in DOMAIN inflight /\ sending.attempts < 2)
        BY <1>5, <3>2 DEF DeliveryFails, TypesHold
      <3> QED BY <3>1, <3>2
    <2> QED BY <1>5, <2>1, <2>2 DEF DeliveryFails, TypesHold, bounds, history
  <1> QED BY <1>1, <1>2, <1>3, <1>4, <1>5 DEF Dispatch

LEMMA FaultTyped ==
  ASSUME TypesHold, RecordFails \/ Restart \/ \E i \in Ids : LookupFails(i)
  PROVE  TypesHold'
  <1>1. faults' \in 0..MaxFaults /\ days' = days
    <2>1. faults < MaxFaults /\ faults' = faults + 1 /\ days' = days
      BY DEF RecordFails, Restart, LookupFails, Fault
    <2>2. faults + 1 \in 0..MaxFaults
      BY <2>1, HookConstants DEF TypesHold
    <2> QED BY <2>1, <2>2
  <1>2. ASSUME sending # NoSend, Delivery
        PROVE  TypedAges(told') /\ Key(sending) \in Keys
    <2>1. TypedAges([k \in {Key(sending)} |-> 0])
      BY <1>2, KeyTyped, AgesNew
    <2> QED BY <1>2, <2>1, KeyTyped, AgesOver DEF Delivery, TypesHold
  <1>3. CASE RecordFails
    <2>1. Typed(inflight') /\ sending' = NoSend /\ Typed(due')
      BY <1>3, TypedOnly, TypedNone DEF RecordFails, Answered, TypesHold
    <2> QED BY <1>1, <1>2, <1>3, <2>1 DEF RecordFails, TypesHold
  <1>4. CASE Restart
    <2>1. TypedAges(told') /\ unrecorded' \subseteq Keys
      BY <1>2, <1>4 DEF Restart, TypesHold
    <2> QED BY <1>1, <1>4, <2>1, TypedNone, HookConstants DEF Restart, TypesHold
  <1>5. CASE \E i \in Ids : LookupFails(i)
    <2>1. Typed(pending') /\ Typed(inflight') /\ Typed(due')
      BY <1>5, TypedOnly, TypedOver, TypedNone DEF LookupFails, TypesHold
    <2> QED BY <1>1, <1>5, <2>1 DEF LookupFails, TypesHold, history
  <1> QED BY <1>3, <1>4, <1>5

LEMMA TimeTyped == ASSUME TypesHold, Tick \/ DayPasses PROVE TypesHold'
  <1>1. CASE Tick
    <2>1. TypedTurns(turns')
      BY <1>1, HookConstants DEF Tick, TypesHold, TypedTurns, Least
    <2>2. Typed(pending')
      <3> SUFFICES ASSUME NEW i \in DOMAIN pending
                   PROVE  i \in Ids /\ pending'[i] \in Candidate
        BY <1>1 DEF Tick, Typed
      <3>1. i \in Ids /\ pending[i] \in Candidate
        BY DEF TypesHold, Typed
      <3>2. Minus(pending[i].wait, 1) \in 0..(Grace + BackoffMax)
        BY <3>1, HookConstants DEF Candidate, Minus
      <3>3. pending'[i] = [pending[i] EXCEPT !.wait = Minus(pending[i].wait, 1)]
        BY <1>1 DEF Tick
      <3> QED BY <3>1, <3>2, <3>3 DEF Candidate
    <2>3. late' \in 0..BackoffMax
      BY <1>1, HookConstants DEF Tick, TypesHold, Least
    <2> QED BY <1>1, <2>1, <2>2, <2>3 DEF Tick, TypesHold, bounds, history
  <1>2. CASE DayPasses
    <2>1. TypedTurns(turns')
      BY <1>2, HookConstants DEF DayPasses, TypesHold, TypedTurns
    <2>2. \A n \in 0..(RetentionDays + 1) : Least(n + 1, RetentionDays + 1) \in 0..(RetentionDays + 1)
      BY HookConstants DEF Least
    <2>3. TypedAges(receipts') /\ TypedAges(told')
      BY <1>2, <2>2 DEF DayPasses, TypesHold, TypedAges
    <2>4. days' \in 0..MaxDays
      BY <1>2, HookConstants DEF DayPasses, TypesHold
    <2> QED BY <1>2, <2>1, <2>3, <2>4 DEF DayPasses, TypesHold
  <1> QED BY <1>1, <1>2

(* Every variable has its type: no candidate is tried more than three times *)
(* or waits longer than its grace and the longest delay.                    *)
THEOREM HooksAreTyped == Spec => []TypeOK
  <1>1. Init => TypesHold
    <2> SUFFICES ASSUME Init PROVE TypesHold
      OBVIOUS
    <2> QED BY TypedNone, HookConstants DEF Init, TypesHold
  <1>2. TypesHold /\ [Next]_vars => TypesHold'
    <2> SUFFICES ASSUME TypesHold, [Next]_vars PROVE TypesHold'
      OBVIOUS
    <2>1. CASE UNCHANGED vars
      BY <2>1 DEF vars, process, bounds, history, TypesHold
    <2> QED BY <2>1, IngestTyped, DispatchTyped, FaultTyped, TimeTyped DEF Next
  <1>3. TypesHold => TypeOK
    BY TypesAre
  <1> QED BY <1>1, <1>2, <1>3, PTL DEF Spec
=============================================================================
