------------------------- MODULE ResetMonitorProofs -------------------------
(***************************************************************************)
(* Proofs about ResetMonitor, for any processes, items, canonical ids and  *)
(* durations: types first, then the stages of an event, then the evidence  *)
(* a confirmation rests on, then the lease and the messages; and that the  *)
(* parsers of ResetPosts make what the monitor takes for an item.          *)
(***************************************************************************)
EXTENDS ResetMonitor, ResetPosts, FiniteSetTheorems, TLAPS

-----------------------------------------------------------------------------
(* Items: those of the sources, under one canonical id or another.         *)

ItemForms == {[i EXCEPT !.hint = c] : i \in Items, c \in Canon}

LEMMA FormIsItem ==
  ASSUME NEW f \in ItemForms
  PROVE  IsItem(f) /\ f.key \in KeysOf
<1>1. PICK i \in Items, c \in Canon : f = [i EXCEPT !.hint = c]
  BY DEF ItemForms
<1>2. IsItem(i)
  BY MonitorAssumption
<1>3. i = [g \in ItemFields |-> i[g]]
  BY <1>2 DEF IsItem
<1>4. f = [g \in ItemFields |-> IF g = "hint" THEN c ELSE i[g]]
  BY <1>1, <1>3 DEF ItemFields
<1>5. /\ f.key = i.key /\ f.stage = i.stage /\ f.type = i.type /\ f.hint = c /\ f.self = i.self
      /\ f.url = i.url /\ f.at = i.at /\ f.start = i.start /\ f.end = i.end
      /\ f.official = i.official /\ f.completed = i.completed /\ f.local = i.local
      /\ f.live = i.live
  BY <1>4 DEF ItemFields
<1>6. f = [g \in ItemFields |-> f[g]]
  BY <1>4
<1> QED
  BY <1>2, <1>5, <1>6 DEF IsItem, KeysOf

LEMMA FormMoves ==
  ASSUME NEW f \in ItemForms, NEW c \in Canon
  PROVE  [f EXCEPT !.hint = c] \in ItemForms
<1>1. PICK i \in Items, d \in Canon : f = [i EXCEPT !.hint = d]
  BY DEF ItemForms
<1>2. [f EXCEPT !.hint = c] = [i EXCEPT !.hint = c]
  BY <1>1
<1> QED
  BY <1>2 DEF ItemForms

LEMMA ItemsAreForms == Items \subseteq ItemForms
<1> SUFFICES ASSUME NEW i \in Items
             PROVE  \E c \in Canon : i = [i EXCEPT !.hint = c]
  BY DEF ItemForms
<1>1. IsItem(i)
  BY MonitorAssumption
<1>2. i.hint \in Canon /\ i = [g \in ItemFields |-> i[g]]
  BY <1>1 DEF IsItem
<1>3. i = [i EXCEPT !.hint = i.hint]
  BY <1>2 DEF ItemFields
<1> QED
  BY <1>2, <1>3

-----------------------------------------------------------------------------
(* What is decided from the tables is of the types of the tables.          *)

EvidenceType(ev) == \A k \in DOMAIN ev : k \in KeysOf /\ ev[k] \in [item : ItemForms, canon : Canon]
EventsType(evts) == \A c \in DOMAIN evts : c \in Canon /\ evts[c] \in EventRow

LEMMA FiledAreForms ==
  ASSUME NEW ev, EvidenceType(ev), NEW c
  PROVE  Filed(ev, c) \subseteq ItemForms
  BY DEF Filed, EvidenceType

LEMMA QueriesAnswerCanon ==
  ASSUME NEW ev, NEW evts, EvidenceType(ev), EventsType(evts), NEW t
  PROVE  /\ FindConfirmation(evts, t) \subseteq Canon
         /\ FindConfirmationEvidence(ev, t) \subseteq Canon
         /\ FindPriorHint(ev, evts, t) \subseteq Canon
         /\ FindFollowup(ev, evts, t) \subseteq Canon
         /\ FindBanked(ev, evts, t) \subseteq Canon
         /\ FindSilent(ev, t) \subseteq Canon
<1>1. \A k \in DOMAIN ev : ev[k].canon \in Canon
  BY DEF EvidenceType
<1>2. DOMAIN evts \subseteq Canon
  BY DEF EventsType
<1>3. FindConfirmation(evts, t) \subseteq Canon
  BY <1>2 DEF FindConfirmation, Best
<1>4. FindConfirmationEvidence(ev, t) \subseteq Canon
  BY <1>1 DEF FindConfirmationEvidence, Best
<1>5. FindPriorHint(ev, evts, t) \subseteq Canon
  BY <1>1 DEF FindPriorHint, TheOnly, CanonsOf
<1>6. FindFollowup(ev, evts, t) \subseteq Canon
  BY <1>1 DEF FindFollowup, TheOnly, CanonsOf
<1>7. FindBanked(ev, evts, t) \subseteq Canon
  BY <1>1 DEF FindBanked, Best
<1>8. FindSilent(ev, t) \subseteq Canon
  BY <1>1 DEF FindSilent, CanonsOf
<1> QED
  BY <1>3, <1>4, <1>5, <1>6, <1>7, <1>8

LEMMA TargetsAreCanon ==
  ASSUME NEW ev, NEW evts, EvidenceType(ev), EventsType(evts), NEW i \in ItemForms
  PROVE  Targets(ev, evts, i) \subseteq Canon
<1>1. i.hint \in Canon
  BY FormIsItem DEF IsItem
<1>2. EvidenceTarget(ev, i) \subseteq Canon
  BY DEF EvidenceTarget, EvidenceType
<1>3. /\ FindConfirmation(evts, i.at) \subseteq Canon
      /\ FindConfirmationEvidence(ev, i.at) \subseteq Canon
      /\ FindPriorHint(ev, evts, i.at) \subseteq Canon
      /\ FindFollowup(ev, evts, i.at) \subseteq Canon
      /\ FindBanked(ev, evts, i.at) \subseteq Canon
      /\ FindSilent(ev, i.at) \subseteq Canon
  BY QueriesAnswerCanon
<1> QED
  BY <1>1, <1>2, <1>3 DEF Targets, Or

LEMMA ClassifyStages ==
  ASSUME NEW S
  PROVE  /\ Classify(S) \subseteq {"hint", "announced", "confirmed"}
         /\ "confirmed" \in Classify(S) =>
              Certain(S) \/ \E i \in S : i.stage = "confirmed" /\ i.local /\ i.type = "banked"
  BY DEF Classify

LEMMA RankOfStages ==
  /\ \A s \in Stages \cup {"none"} : Rank[s] \in Nat
  /\ \A s \in Stages : Rank[s] > Rank["none"]
  BY DEF Rank, Stages

Supported == {"hint", "announced", "confirmed"}
SomeRow == EventRow \cup {NoRow}

(* The row that is written is a row, is not behind the one that was seen,   *)
(* and has its stage or the one its evidence supports.                      *)
LEMMA RowsAdvance ==
  ASSUME NEW S, S \subseteq ItemForms, NEW seen \in SomeRow, NEW old \in SomeRow,
         NEW target \in Supported, NEW row \in Rows(S, seen, old, target)
  PROVE  /\ row \in EventRow
         /\ Rank[seen.stage] <= Rank[row.stage]
         /\ row.stage = target \/ row.stage = seen.stage
<1> DEFINE stage == IF CanAdvance(seen, target) THEN target ELSE seen.stage
           typed == LatestOf({i \in S : i.type # "none"})
           said  == LatestOf({i \in S : i.stage = "announced"})
           landed == LatestOf({i \in S : stage = "confirmed" /\ i.stage = "confirmed"})
           types == Or({i.type : i \in typed}, {old.type})
           spans == Or({<<i.at, i.start, i.end>> : i \in said}, {<<NoTime, NoTime, NoTime>>})
           ends == Or({i.at : i \in landed}, {NoTime})
           Made(ty, a, d) ==
             [stage |-> stage, type |-> ty, announced |-> Coalesce(old.announced, a[1]),
              start |-> Coalesce(old.start, a[2]), end |-> Coalesce(old.end, a[3]),
              confirmed |-> Coalesce(old.confirmed, d)]
<1>1. /\ old.type \in Types /\ old.announced \in Time /\ old.start \in Time
      /\ old.end \in Time /\ old.confirmed \in Time
  BY DEF SomeRow, NoRow, EventRow, Types, Time, NoTime
<1>2. typed \subseteq ItemForms /\ said \subseteq ItemForms /\ landed \subseteq ItemForms
  BY DEF LatestOf
<1>3. \A i \in ItemForms : i.type \in Types /\ i.at \in Time /\ i.start \in Time /\ i.end \in Time
  BY FormIsItem DEF IsItem
<1>4. PICK ty \in types, a \in spans, d \in ends : row = Made(ty, a, d)
  <2>1. Rows(S, seen, old, target) = {Made(ty, a, d) : ty \in types, a \in spans, d \in ends}
    BY DEF Rows
  <2> HIDE DEF Made, types, spans, ends
  <2> QED
    BY <2>1
<1>5. /\ stage \in Stages /\ Rank[seen.stage] <= Rank[stage]
      /\ stage = target \/ stage = seen.stage
  <2>1. /\ target \in Stages /\ Rank[target] \in Nat /\ Rank[target] > 0 /\ Rank["none"] = 0
        /\ seen.stage \in Stages \cup {"none"} /\ Rank[seen.stage] \in Nat
    BY RankOfStages DEF Supported, Stages, SomeRow, EventRow, NoRow, Rank
  <2>2. CASE CanAdvance(seen, target)
    <3>1. stage = target /\ Rank[target] > Rank[seen.stage]
      BY <2>2 DEF CanAdvance
    <3> QED
      BY <2>1, <3>1
  <2>3. CASE ~CanAdvance(seen, target)
    <3>1. stage = seen.stage /\ ~(Rank[target] > Rank[seen.stage])
      BY <2>3 DEF CanAdvance
    <3>2. seen.stage # "none"
      BY <2>1, <3>1
    <3> QED
      BY <2>1, <3>1, <3>2
  <2> QED
    BY <2>2, <2>3
<1> HIDE DEF typed, said, landed, stage
<1>6. ty \in Types
  BY <1>1, <1>2, <1>3 DEF Or
<1>7. a[1] \in Time /\ a[2] \in Time /\ a[3] \in Time
  BY <1>2, <1>3 DEF Or, NoTime, Time
<1>8. d \in Time
  BY <1>2, <1>3 DEF Or, NoTime, Time
<1>9. row \in EventRow
  BY <1>1, <1>4, <1>5, <1>6, <1>7, <1>8 DEF EventRow, Coalesce
<1> QED
  BY <1>4, <1>5, <1>9

-----------------------------------------------------------------------------
(* Types, whatever the lease: every item about is one of the sources under *)
(* some canonical id, and a judgement in hand is of one event.              *)

TablesType == EvidenceType(evidence) /\ EventsType(events) /\ DOMAIN deliveries \subseteq Stage

JudgedSteps == {"judged", "seen", "stored"}

Hand ==
  {h \in [step : HandSteps, canons : SUBSET Canon, items : SUBSET ItemForms,
          target : Stages \cup {"none"}, row : SomeRow] :
     h.step \in JudgedSteps => h.target \in Supported /\ \E c \in Canon : h.canons = {c}}

WorkType ==
  /\ batch \in [Instances -> SUBSET ItemForms] /\ touched \in [Instances -> SUBSET Canon]
  /\ hand \in [Instances -> Hand]
  /\ owe \in [Instances -> SUBSET Stage] /\ list \in [Instances -> SUBSET (Stage \X Nat)]

ProcessType ==
  /\ lease \in [owner : Instances \cup {NoOne}, left : 0..LeaseTtl]
  /\ now \in 1..MaxTime /\ began \in [Instances -> 0..MaxTime] /\ pc \in [Instances -> Steps]
  /\ worked \in [Instances -> 0..TickTime] /\ stuck \in [Instances -> {"no", "open", "locks"}]
  /\ faults \in 0..MaxFaults

HistoryType ==
  /\ lapsed \in BOOLEAN /\ filed \in [Canon -> SUBSET ItemForms]
  /\ {reached, torn, told, again, unmarked} \subseteq SUBSET Stage

Delivery == [status : {"pending", "delivered", "failed"}, attempts : Nat, wait : 0..RetryMax]

RowsOfMessages == \A d \in DOMAIN deliveries : deliveries[d] \in Delivery

TypeInv == TablesType /\ RowsOfMessages /\ WorkType /\ ProcessType /\ HistoryType

LEMMA Durations ==
  /\ LeaseTtl \in Nat /\ LeaseTtl > 0 /\ TickTime \in Nat /\ DelayGrace \in Nat /\ ReferenceAge \in Nat
  /\ RetryBase \in Nat /\ RetryMax \in Nat /\ MaxFaults \in Nat
  /\ MaxAttempts \in Nat /\ MaxAttempts > 0 /\ MaxTime \in Nat /\ MaxTime > 0
  BY MonitorAssumption

LEMMA NothingIsHand == Nothing \in Hand /\ Nothing.step = "nothing"
  BY DEF Nothing, Hand, HandSteps, JudgedSteps, SomeRow

LEMMA RowOfType ==
  ASSUME TablesType, NEW c
  PROVE  RowOf(events, c) \in SomeRow
  BY DEF RowOf, TablesType, EventsType, SomeRow

LEMMA TypeInit == Init => TypeInv
<1> SUFFICES ASSUME Init
             PROVE  TypeInv
  OBVIOUS
<1>1. TablesType /\ RowsOfMessages
  BY DEF Init, TablesType, EvidenceType, EventsType, RowsOfMessages
<1>2. WorkType /\ HistoryType
  BY NothingIsHand DEF Init, WorkType, HistoryType
<1>3. ProcessType
  BY Durations DEF Init, ProcessType, NoLease, NoTime, Steps
<1> QED
  BY <1>1, <1>2, <1>3 DEF TypeInv

(* What the sources answer is about items.                                 *)
LEMMA AliasedAreForms ==
  ASSUME NEW S \in SUBSET ItemForms
  PROVE  Aliased(S) \subseteq ItemForms
<1> DEFINE Alias(c) == {i.hint : i \in {j \in {k \in S : k.hint # k.self} : j.self = c}}
           Of(i) == IF Alias(i.hint) = {} THEN i.hint ELSE CHOOSE c \in Alias(i.hint) : TRUE
<1>1. \A i \in S : i.hint \in Canon
  BY FormIsItem DEF IsItem
<1>2. \A i \in S : Alias(i.hint) \subseteq Canon
  BY <1>1
<1>3. \A i \in S : Alias(i.hint) # {} => (CHOOSE c \in Alias(i.hint) : TRUE) \in Alias(i.hint)
  OBVIOUS
<1>4. \A i \in S : Of(i) \in Canon
  BY <1>1, <1>2, <1>3
<1>5. Aliased(S) = {[i EXCEPT !.hint = Of(i)] : i \in S}
  BY DEF Aliased
<1> HIDE DEF Of
<1> QED
  BY <1>4, <1>5, FormMoves

LEMMA FetchedType ==
  ASSUME TypeInv, NEW p \in Instances, Fetched(p)
  PROVE  TypeInv'
<1>1. PICK S : S \subseteq ItemForms /\ batch' = [batch EXCEPT ![p] = Aliased(S)]
  <2>1. PICK answered \in SUBSET (Sources \ {Fallback}), more \in {{}, Published({Fallback}, began[p])} :
          batch' = [batch EXCEPT ![p] =
            Aliased(Published(answered, began[p]) \cup more \cup PendingReferences(began[p]))]
    BY DEF Fetched
  <2>2. \A src, t : Published(src, t) \subseteq ItemForms
    BY ItemsAreForms DEF Published
  <2>3. PendingReferences(began[p]) \subseteq ItemForms
    BY DEF PendingReferences, TypeInv, TablesType, EvidenceType
  <2> QED
    BY <2>1, <2>2, <2>3
<1>2. Aliased(S) \subseteq ItemForms
  BY <1>1, AliasedAreForms
<1>3. WorkType'
  BY <1>1, <1>2 DEF TypeInv, WorkType, Fetched
<1>4. ProcessType'
  BY DEF TypeInv, ProcessType, Fetched, Goto, Steps, clock
<1> QED
  BY <1>3, <1>4
  DEF TypeInv, TablesType, RowsOfMessages, HistoryType, Fetched, tables, history

LEMMA TurnIsBatch ==
  ASSUME NEW p \in Instances
  PROVE  Turn(p) \subseteq batch[p]
  BY DEF Turn, Forecasts, Public

LEMMA EvidencePut ==
  ASSUME NEW ev, EvidenceType(ev), NEW k \in KeysOf, NEW v \in [item : ItemForms, canon : Canon]
  PROVE  EvidenceType(Put(ev, k, v))
  BY DEF Put, EvidenceType

LEMMA EventsPut ==
  ASSUME NEW evts, EventsType(evts), NEW c \in Canon, NEW v \in EventRow
  PROVE  EventsType(Put(evts, c, v))
  BY DEF Put, EventsType


(* What is taken in hand, one step after another.                          *)
LEMMA TakeType ==
  ASSUME TypeInv, NEW p \in Instances, NEW h \in Hand, Take(p, h)
  PROVE  hand' \in [Instances -> Hand]
  BY DEF Take, TypeInv, WorkType

LEMMA HandParts ==
  ASSUME TypeInv, NEW p \in Instances
  PROVE  /\ hand[p] \in Hand /\ hand[p].canons \subseteq Canon /\ hand[p].items \subseteq ItemForms
         /\ hand[p].target \in Stages \cup {"none"} /\ hand[p].row \in SomeRow
         /\ hand[p].step \in JudgedSteps =>
              hand[p].target \in Supported /\ \E c \in Canon : hand[p].canons = {c}
  BY DEF TypeInv, WorkType, Hand

LEMMA AimType ==
  ASSUME TypeInv, NEW p \in Instances, Aim(p)
  PROVE  TypeInv'
<1>0. PICK i \in Turn(p) : \E c \in Targets(evidence, events, i) :
        /\ Take(p, [Nothing EXCEPT !.step = "aimed", !.canons = {c}, !.items = {i}])
        /\ batch' = [batch EXCEPT ![p] = @ \ {i}]
  BY DEF Aim
<1>1. PICK c \in Targets(evidence, events, i) :
        /\ Take(p, [Nothing EXCEPT !.step = "aimed", !.canons = {c}, !.items = {i}])
        /\ batch' = [batch EXCEPT ![p] = @ \ {i}]
  BY <1>0
<1>2. i \in ItemForms
  BY TurnIsBatch DEF TypeInv, WorkType
<1>3. c \in Canon
  BY <1>2, TargetsAreCanon DEF TypeInv, TablesType
<1> DEFINE h == [Nothing EXCEPT !.step = "aimed", !.canons = {c}, !.items = {i}]
<1>4. h \in Hand
  BY <1>2, <1>3 DEF Nothing, Hand, HandSteps, JudgedSteps, SomeRow
<1> HIDE DEF h
<1>5. hand' \in [Instances -> Hand]
  BY <1>1, <1>4, TakeType DEF h
<1>6. WorkType'
  BY <1>1, <1>5 DEF Aim, TypeInv, WorkType
<1>7. ProcessType'
  BY DEF Aim, Goto, Phase, Steps, clock, TypeInv, ProcessType
<1> QED
  BY <1>6, <1>7 DEF Aim, tables, history, TypeInv, TablesType, EvidenceType, EventsType, RowsOfMessages,
                    HistoryType

(* An item goes where it was aimed.                                         *)
FiledUnder(p, i, c) ==
  /\ i \in hand[p].items /\ c \in hand[p].canons
  /\ evidence' = Put(evidence, i.key, [item |-> [i EXCEPT !.hint = c], canon |-> c])
  /\ touched' = [touched EXCEPT ![p] = @ \cup {c}]
  /\ filed' = [filed EXCEPT ![c] = @ \cup {[i EXCEPT !.hint = c]}]

LEMMA PutEvidenceType ==
  ASSUME TypeInv, NEW p \in Instances, PutEvidence(p)
  PROVE  TypeInv'
<1>1. PICK i, c : FiledUnder(p, i, c)
  BY DEF PutEvidence, FiledUnder
<1>2. i \in ItemForms /\ c \in Canon
  BY <1>1, HandParts DEF FiledUnder
<1>3. i.key \in KeysOf /\ [i EXCEPT !.hint = c] \in ItemForms
  BY <1>2, FormIsItem, FormMoves
<1> DEFINE new == [item |-> [i EXCEPT !.hint = c], canon |-> c]
<1>4. EvidenceType(evidence')
  <2>1. new \in [item : ItemForms, canon : Canon]
    BY <1>2, <1>3
  <2> HIDE DEF new
  <2>2. evidence' = Put(evidence, i.key, new)
    BY <1>1 DEF new, FiledUnder
  <2> QED
    BY <1>3, <2>1, <2>2, EvidencePut DEF TypeInv, TablesType
<1>5. hand' \in [Instances -> Hand]
  BY NothingIsHand, TakeType DEF PutEvidence
<1>6. WorkType'
  BY <1>1, <1>2, <1>5 DEF FiledUnder, PutEvidence, TypeInv, WorkType
<1>7. HistoryType'
  BY <1>1, <1>2, <1>3 DEF FiledUnder, PutEvidence, TypeInv, HistoryType
<1> QED
  BY <1>4, <1>6, <1>7
  DEF PutEvidence, clock, TypeInv, TablesType, EventsType, RowsOfMessages, ProcessType

(* A judgement: an event without support is passed over.                    *)
Judged(c, S, stage) ==
  [Nothing EXCEPT !.step = "judged", !.canons = {c}, !.items = S, !.target = stage]

LEMMA JudgeCases ==
  ASSUME TypeInv, NEW p \in Instances, Judge(p)
  PROVE  \/ UNCHANGED hand
         \/ \E c \in Canon : \E stage \in Classify(Filed(evidence, c)) :
              /\ Take(p, Judged(c, Filed(evidence, c), stage))
              /\ Judged(c, Filed(evidence, c), stage) \in Hand
<1>1. PICK c \in touched[p] :
        \/ UNCHANGED hand
        \/ \E stage \in Classify(Filed(evidence, c)) : Take(p, Judged(c, Filed(evidence, c), stage))
  BY DEF Judge, Judged
<1>2. c \in Canon /\ Filed(evidence, c) \subseteq ItemForms
  BY FiledAreForms DEF TypeInv, WorkType, TablesType
<1>3. Classify(Filed(evidence, c)) \subseteq Supported
  BY ClassifyStages DEF Supported
<1>4. \A stage \in Supported : Judged(c, Filed(evidence, c), stage) \in Hand
  BY <1>2 DEF Judged, Nothing, Hand, HandSteps, JudgedSteps, SomeRow, Supported, Stages
<1> QED
  BY <1>1, <1>2, <1>3, <1>4

LEMMA JudgeType ==
  ASSUME TypeInv, NEW p \in Instances, Judge(p)
  PROVE  TypeInv'
<1>1. hand' \in [Instances -> Hand]
  <2>1. CASE UNCHANGED hand
    BY <2>1 DEF TypeInv, WorkType
  <2>2. CASE ~UNCHANGED hand
    BY <2>2, JudgeCases, TakeType
  <2> QED
    BY <2>1, <2>2
<1>2. WorkType'
  BY <1>1 DEF Judge, TypeInv, WorkType
<1> QED
  BY <1>2 DEF Judge, tables, clock, history, TypeInv, TablesType, EvidenceType, EventsType,
              RowsOfMessages, ProcessType, HistoryType

LEMMA LookType ==
  ASSUME TypeInv, NEW p \in Instances, Look(p)
  PROVE  TypeInv'
<1>1. PICK c \in hand[p].canons :
        Take(p, [hand[p] EXCEPT !.step = "seen", !.row = RowOf(events, c)])
  BY DEF Look
<1>2. RowOf(events, c) \in SomeRow
  BY RowOfType DEF TypeInv
<1>3. [hand[p] EXCEPT !.step = "seen", !.row = RowOf(events, c)] \in Hand
  BY <1>2, HandParts DEF Look, Holds, Hand, HandSteps, JudgedSteps
<1>4. hand' \in [Instances -> Hand]
  BY <1>1, <1>3, TakeType
<1> QED
  BY <1>4 DEF Look, tables, clock, history, TypeInv, TablesType, EvidenceType, EventsType,
              RowsOfMessages, WorkType, ProcessType, HistoryType

(* A row written for the event in hand.                                     *)
Stored(p, c, row) ==
  /\ c \in Canon /\ hand[p].canons = {c}
  /\ row \in Rows(hand[p].items, hand[p].row, RowOf(events, c), hand[p].target)
  /\ events' = Put(events, c, row)

LEMMA StoredTypes ==
  ASSUME TypeInv, NEW p \in Instances, Store(p)
  PROVE  \E c, row : /\ Stored(p, c, row) /\ row \in EventRow
                     /\ hand[p].row \in SomeRow /\ Rank[hand[p].row.stage] <= Rank[row.stage]
                     /\ row.stage = hand[p].target \/ row.stage = hand[p].row.stage
<1>1. PICK c \in hand[p].canons :
        \E row \in Rows(hand[p].items, hand[p].row, RowOf(events, c), hand[p].target) :
          events' = Put(events, c, row)
  BY DEF Store
<1>2. PICK row \in Rows(hand[p].items, hand[p].row, RowOf(events, c), hand[p].target) :
        events' = Put(events, c, row)
  BY <1>1
<1>3. hand[p].step \in JudgedSteps
  BY DEF Store, Holds, JudgedSteps
<1>4. c \in Canon /\ hand[p].canons = {c} /\ hand[p].target \in Supported
  BY <1>3, HandParts
<1>5. RowOf(events, c) \in SomeRow /\ hand[p].row \in SomeRow /\ hand[p].items \subseteq ItemForms
  BY RowOfType, HandParts DEF TypeInv
<1>6. /\ row \in EventRow /\ Rank[hand[p].row.stage] <= Rank[row.stage]
      /\ row.stage = hand[p].target \/ row.stage = hand[p].row.stage
  BY <1>4, <1>5, RowsAdvance
<1> QED
  BY <1>2, <1>4, <1>5, <1>6 DEF Stored

LEMMA StoreType ==
  ASSUME TypeInv, NEW p \in Instances, Store(p)
  PROVE  TypeInv'
<1>1. PICK c, row : Stored(p, c, row) /\ row \in EventRow
  BY StoredTypes
<1>2. EventsType(events')
  BY <1>1, EventsPut DEF Stored, TypeInv, TablesType
<1>3. [hand[p] EXCEPT !.step = "stored"] \in Hand
  BY HandParts DEF Store, Holds, Hand, HandSteps, JudgedSteps
<1>4. hand' \in [Instances -> Hand]
  BY <1>3, NothingIsHand, TakeType DEF Store
<1> QED
  BY <1>2, <1>4 DEF Store, clock, history, TypeInv, TablesType, EvidenceType, RowsOfMessages, WorkType,
                    ProcessType, HistoryType

LEMMA WeighType ==
  ASSUME TypeInv, NEW p \in Instances, Weigh(p)
  PROVE  TypeInv'
<1>1. PICK S : /\ S \subseteq hand[p].canons
               /\ owe' = [owe EXCEPT ![p] = {<<c, hand[p].target>> : c \in S}]
               /\ reached' = reached \cup {<<c, hand[p].target>> : c \in S}
  BY DEF Weigh
<1>2. hand[p].target \in Supported /\ hand[p].canons \subseteq Canon
  BY HandParts DEF Weigh, Holds, JudgedSteps
<1>3. {<<c, hand[p].target>> : c \in S} \subseteq Stage
  BY <1>1, <1>2 DEF Stage, Stages, Supported
<1>4. hand' \in [Instances -> Hand]
  BY NothingIsHand, TakeType DEF Weigh
<1> HIDE DEF Stage
<1>5. WorkType' /\ HistoryType'
  BY <1>1, <1>3, <1>4 DEF Weigh, TypeInv, WorkType, HistoryType
<1> QED
  BY <1>5 DEF Weigh, tables, clock, TypeInv, TablesType, EvidenceType, EventsType, RowsOfMessages,
              ProcessType

LEMMA QueueType ==
  ASSUME TypeInv, NEW p \in Instances, Queue(p)
  PROVE  TypeInv'
<1> DEFINE fresh == [status |-> "pending", attempts |-> 0, wait |-> 0]
<1>1. PICK d \in owe[p] :
        /\ deliveries' = IF d \in DOMAIN deliveries THEN deliveries ELSE Put(deliveries, d, fresh)
        /\ owe' = [owe EXCEPT ![p] = @ \ {d}]
  BY DEF Queue
<1>2. d \in Stage
  BY DEF TypeInv, WorkType
<1>3. fresh \in Delivery
  BY Durations DEF Delivery
<1> HIDE DEF fresh
<1>4. DOMAIN deliveries' \subseteq Stage /\ RowsOfMessages'
  BY <1>1, <1>2, <1>3 DEF Put, TypeInv, TablesType, RowsOfMessages
<1>5. WorkType'
  BY <1>1 DEF Queue, TypeInv, WorkType
<1> QED
  BY <1>4, <1>5 DEF Queue, clock, TypeInv, TablesType, EvidenceType, EventsType, ProcessType,
                    HistoryType, history

LEMMA MarkDelayedType ==
  ASSUME TypeInv, NEW p \in Instances, MarkDelayed(p)
  PROVE  TypeInv'
<1>1. PICK S : /\ S \subseteq hand[p].canons
               /\ owe' = [owe EXCEPT ![p] = {<<c, "delayed">> : c \in S}]
               /\ reached' = reached \cup {<<c, "delayed">> : c \in S}
  BY DEF MarkDelayed
<1>2. {<<c, "delayed">> : c \in S} \subseteq Stage
  BY <1>1, HandParts DEF Stage, Stages
<1>3. EventsType(events')
  BY DEF MarkDelayed, TypeInv, TablesType, EventsType, EventRow, Stages
<1>4. hand' \in [Instances -> Hand]
  BY NothingIsHand, TakeType DEF MarkDelayed
<1>5. WorkType' /\ HistoryType'
  BY <1>1, <1>2, <1>4 DEF MarkDelayed, TypeInv, WorkType, HistoryType
<1>6. ProcessType'
  BY DEF MarkDelayed, Goto, clock, Steps, TypeInv, ProcessType
<1> QED
  BY <1>3, <1>5, <1>6 DEF MarkDelayed, TypeInv, TablesType, EvidenceType, RowsOfMessages

(* What is left of a message after an attempt that failed.                  *)
LEMMA RetryRow ==
  ASSUME TypeInv, NEW p \in Instances, NEW row \in Delivery, NEW listed \in Nat
  PROVE  Retry(row, listed, p) \in Delivery /\ Retry(row, listed, p).status # "delivered"
<1> DEFINE n == listed + 1
           delay == RetryBase * 2^(n - 1)
           wait == IF n >= MaxAttempts THEN 0 ELSE Minus(Lesser(RetryMax, delay), worked[p])
<1>1. wait \in 0..RetryMax
  <2>1. CASE n >= MaxAttempts
    BY <2>1, Durations
  <2>2. CASE ~(n >= MaxAttempts)
    <3>1. n - 1 \in 0..MaxAttempts
      BY <2>2, Durations
    <3>2. 2^(n - 1) \in Nat
      BY <3>1, MonitorAssumption
    <3>3. \A a, b \in Nat : a * b \in Nat
      OBVIOUS
    <3>4. delay \in Nat
      BY <3>2, <3>3, Durations
    <3>5. worked[p] \in Nat
      BY Durations DEF TypeInv, ProcessType
    <3> HIDE DEF delay
    <3>6. Minus(Lesser(RetryMax, delay), worked[p]) \in 0..RetryMax
      BY <3>4, <3>5, Durations DEF Minus, Lesser
    <3> QED
      BY <2>2, <3>6
  <2> QED
    BY <2>1, <2>2
<1>2. Retry(row, listed, p) = [status |-> IF n >= MaxAttempts THEN "failed" ELSE "pending",
                               attempts |-> row.attempts + 1, wait |-> wait]
  BY DEF Retry
<1> HIDE DEF n, wait
<1> QED
  BY <1>1, <1>2 DEF Delivery

(* An attempt: the row of the message is marked, or the attempt counted.    *)
Sent(p, m) ==
  /\ At(p, "sending") /\ m \in list[p] /\ list' = [list EXCEPT ![p] = @ \ {m}]
  /\ \/ deliveries' = [deliveries EXCEPT ![m[1]].status = "delivered"] /\ Tell(m[1])
     \/ deliveries' = [deliveries EXCEPT ![m[1]] = Retry(@, m[2], p)] /\ UNCHANGED <<told, again>>

LEMMA SentCases ==
  ASSUME NEW p \in Instances, Delivered(p) \/ AllFailed(p)
  PROVE  /\ \E m : Sent(p, m)
         /\ UNCHANGED <<evidence, events, lease, clock, pc, batch, touched, hand, owe, stuck, faults,
                        lapsed, filed, reached, torn, unmarked>>
  BY DEF Delivered, AllFailed, Sent, history

LEMMA SendType ==
  ASSUME TypeInv, NEW p \in Instances, Delivered(p) \/ AllFailed(p)
  PROVE  TypeInv'
<1>1. PICK m : Sent(p, m)
  BY SentCases
<1>2. m[1] \in Stage /\ m[2] \in Nat
  BY <1>1 DEF Sent, TypeInv, WorkType
<1>3. DOMAIN deliveries' = DOMAIN deliveries
  BY <1>1 DEF Sent
<1>4. RowsOfMessages'
  <2> SUFFICES ASSUME NEW d \in DOMAIN deliveries
               PROVE  deliveries'[d] \in Delivery
    BY <1>3 DEF RowsOfMessages
  <2>1. deliveries[d] \in Delivery
    BY DEF TypeInv, RowsOfMessages
  <2>2. CASE d # m[1]
    BY <1>1, <2>1, <2>2 DEF Sent
  <2>3. CASE d = m[1]
    <3>1. [deliveries[d] EXCEPT !.status = "delivered"] \in Delivery
      BY <2>1 DEF Delivery
    <3>2. Retry(deliveries[d], m[2], p) \in Delivery
      BY <1>2, <2>1, RetryRow
    <3> QED
      BY <1>1, <2>3, <3>1, <3>2 DEF Sent
  <2> QED
    BY <2>2, <2>3
<1>5. WorkType'
  BY <1>1, SentCases DEF Sent, TypeInv, WorkType
<1>6. HistoryType'
  BY <1>1, <1>2, SentCases DEF Sent, Tell, Record, TypeInv, HistoryType
<1> QED
  BY <1>3, <1>4, <1>5, <1>6, SentCases
  DEF clock, TypeInv, TablesType, EvidenceType, EventsType, ProcessType

LEMMA ListDueType ==
  ASSUME TypeInv, NEW p \in Instances, ListDue(p)
  PROVE  TypeInv'
<1>1. PICK D \in SUBSET (DOMAIN deliveries) :
        list' = [list EXCEPT ![p] = {<<d, deliveries[d].attempts>> : d \in D}]
  BY DEF ListDue
<1>2. \A d \in D : d \in Stage /\ deliveries[d].attempts \in Nat
  BY DEF TypeInv, TablesType, RowsOfMessages, Delivery
<1>3. {<<d, deliveries[d].attempts>> : d \in D} \in SUBSET (Stage \X Nat)
  BY <1>2
<1>4. WorkType'
  BY <1>1, <1>3 DEF ListDue, TypeInv, WorkType
<1>5. ProcessType'
  BY DEF ListDue, Goto, clock, Steps, TypeInv, ProcessType
<1> QED
  BY <1>4, <1>5 DEF ListDue, tables, history, TypeInv, TablesType, EvidenceType, EventsType,
                    RowsOfMessages, HistoryType

LEMMA LookLateType ==
  ASSUME TypeInv, NEW p \in Instances, LookLate(p)
  PROVE  TypeInv'
<1> DEFINE late == {c \in DOMAIN events : Overdue(events[c], began[p])}
           h == [Nothing EXCEPT !.step = "late", !.canons = late]
<1>1. late \subseteq Canon
  BY DEF TypeInv, TablesType, EventsType
<1>2. (UNCHANGED hand /\ Goto(p, "queueing")) \/ (Take(p, h) /\ UNCHANGED pc)
  BY DEF LookLate
<1> HIDE DEF late
<1>3. h \in Hand
  BY <1>1 DEF Nothing, Hand, HandSteps, JudgedSteps, SomeRow
<1> HIDE DEF h
<1>4. hand' \in [Instances -> Hand]
  BY <1>2, <1>3, TakeType DEF TypeInv, WorkType
<1>5. ProcessType'
  BY <1>2 DEF LookLate, Goto, clock, Steps, TypeInv, ProcessType
<1> QED
  BY <1>4, <1>5 DEF LookLate, tables, history, TypeInv, TablesType, EvidenceType, EventsType,
                    RowsOfMessages, WorkType, HistoryType

LEMMA AcquireType ==
  ASSUME TypeInv, NEW p \in Instances, Acquire(p)
  PROVE  TypeInv'
<1>1. LeaseTtl \in 0..LeaseTtl /\ now \in 0..MaxTime
  BY Durations DEF TypeInv, ProcessType
<1>2. ProcessType'
  BY <1>1 DEF Acquire, Goto, Steps, TypeInv, ProcessType
<1> QED
  BY <1>2 DEF Acquire, tables, work, history, TypeInv, TablesType, EvidenceType, EventsType,
              RowsOfMessages, WorkType, HistoryType

LEMMA FinishType ==
  ASSUME TypeInv, NEW p \in Instances, Finish(p)
  PROVE  TypeInv'
<1>1. 0 \in 0..TickTime /\ NoTime \in 0..MaxTime
  BY Durations DEF NoTime
<1>2. ProcessType'
  BY <1>1 DEF Finish, Goto, Steps, TypeInv, ProcessType
<1> QED
  BY <1>2 DEF Finish, tables, work, history, TypeInv, TablesType, EvidenceType, EventsType,
              RowsOfMessages, WorkType, HistoryType

(* A tick cut off, by whatever it is.                                       *)
LEMMA DroppedType ==
  ASSUME TypeInv, NEW p \in Instances, Dropped(p),
         stuck' \in [Instances -> {"no", "open", "locks"}], faults' \in 0..MaxFaults,
         lease' \in [owner : Instances \cup {NoOne}, left : 0..LeaseTtl]
  PROVE  TypeInv'
<1>1. 0 \in 0..TickTime /\ NoTime \in 0..MaxTime
  BY Durations DEF NoTime
<1>2. ProcessType'
  BY <1>1 DEF Dropped, Goto, Steps, TypeInv, ProcessType
<1>3. hand' \in [Instances -> Hand]
  BY NothingIsHand, TakeType DEF Dropped
<1>4. WorkType'
  BY <1>3 DEF Dropped, TypeInv, WorkType
<1>5. HistoryType'
  <2>1. owe[p] \subseteq Stage /\ \A m \in list[p] : m[1] \in Stage
    BY DEF TypeInv, WorkType
  <2> QED
    BY <2>1 DEF Dropped, Tell, Record, TypeInv, HistoryType
<1> QED
  BY <1>2, <1>4, <1>5 DEF Dropped, tables, TypeInv, TablesType, EvidenceType, EventsType,
                          RowsOfMessages

CutOff(p) == Clash(p) \/ Fails(p) \/ Kill(p) \/ Close(p)

LEMMA CutOffType ==
  ASSUME TypeInv, NEW p \in Instances, CutOff(p)
  PROVE  TypeInv'
<1>1. Dropped(p) /\ \E s \in {"no", "open", "locks"} : stuck' = [stuck EXCEPT ![p] = s]
  BY DEF CutOff, Clash, Fails, Kill, Close, Gone
<1>2. faults' \in 0..MaxFaults
  BY Durations DEF CutOff, Clash, Fails, Kill, Close, Gone, TypeInv, ProcessType
<1>3. lease' \in [owner : Instances \cup {NoOne}, left : 0..LeaseTtl]
  <2>1. 0 \in 0..LeaseTtl
    BY Durations
  <2> QED
    BY <2>1 DEF CutOff, Clash, Fails, Kill, Close, NoLease, TypeInv, ProcessType
<1>4. stuck' \in [Instances -> {"no", "open", "locks"}]
  BY <1>1 DEF TypeInv, ProcessType
<1> QED
  BY <1>1, <1>2, <1>3, <1>4, DroppedType

LEMMA TickType ==
  ASSUME TypeInv, Tick
  PROVE  TypeInv'
<1>1. TablesType' /\ RowsOfMessages'
  <2>1. \A n \in 0..RetryMax : Minus(n, 1) \in 0..RetryMax
    BY Durations DEF Minus
  <2> QED
    BY <2>1 DEF Tick, TypeInv, TablesType, EvidenceType, EventsType, RowsOfMessages, Delivery
<1>2. WorkType' /\ HistoryType'
  BY DEF Tick, work, TypeInv, WorkType, HistoryType
<1>3. now' \in 1..MaxTime
  BY Durations DEF Tick, Lesser, TypeInv, ProcessType
<1>4. worked' \in [Instances -> 0..TickTime]
  BY Durations DEF Tick, TypeInv, ProcessType
<1>5. lease' \in [owner : Instances \cup {NoOne}, left : 0..LeaseTtl]
  BY Durations DEF Tick, Minus, TypeInv, ProcessType
<1>6. pc' \in [Instances -> Steps]
  BY DEF Tick, Steps, TypeInv, ProcessType
<1>7. faults' \in 0..MaxFaults
  BY Durations DEF Tick, TypeInv, ProcessType
<1> QED
  BY <1>1, <1>2, <1>3, <1>4, <1>5, <1>6, <1>7 DEF Tick, TypeInv, ProcessType

LEMMA StutterType == TypeInv /\ UNCHANGED vars => TypeInv'
  BY DEF vars, tables, clock, work, history, TypeInv, TablesType, EvidenceType, EventsType,
         RowsOfMessages, WorkType, ProcessType, HistoryType

LEMMA TypeStep == TypeInv /\ [Next]_vars => TypeInv'
<1> SUFFICES ASSUME TypeInv, Next \/ UNCHANGED vars
             PROVE  TypeInv'
  OBVIOUS
<1>1. ASSUME NEW p \in Instances, Work(p) \/ Kill(p) \/ Close(p)
      PROVE  TypeInv'
  BY <1>1, AcquireType, FetchedType, AimType, PutEvidenceType, JudgeType, LookType, StoreType, WeighType,
     QueueType, LookLateType, MarkDelayedType, ListDueType, SendType, FinishType, CutOffType
  DEF Work, CutOff
<1> QED
  BY <1>1, TickType, StutterType DEF Next

LEMMA TypeInvariant == Spec => []TypeInv
  BY TypeInit, TypeStep, PTL DEF Spec

(* Every variable has its type, whatever lapses, clashes and is killed.     *)
THEOREM MonitorIsTyped == Spec => []TypeOK
<1>1. TypeInv => TypeOK
  <2> SUFFICES ASSUME TypeInv
               PROVE  TypeOK
    OBVIOUS
  <2>1. \A f \in ItemForms : IsItem(f)
    BY FormIsItem
  <2>2. /\ Partial(evidence, KeysOf, LAMBDA r : IsItem(r.item) /\ r.canon \in Canon)
        /\ Partial(events, Canon, LAMBDA r : r \in EventRow)
    BY <2>1 DEF Partial, TypeInv, TablesType, EvidenceType, EventsType
  <2>3. Partial(deliveries, Stage, LAMBDA d : d.status \in {"pending", "delivered", "failed"}
                                 /\ d.attempts \in Nat /\ d.wait \in 0..RetryMax)
    BY DEF Partial, TypeInv, TablesType, RowsOfMessages, Delivery
  <2>4. \A h \in Hand : IsHand(h)
    BY <2>1 DEF Hand, IsHand, Nothing, SomeRow
  <2>5. \A p \in Instances :
          /\ (\A i \in batch[p] : IsItem(i)) /\ IsHand(hand[p]) /\ touched[p] \subseteq Canon
          /\ owe[p] \subseteq Stage /\ list[p] \subseteq Stage \X Nat
    BY <2>1, <2>4 DEF TypeInv, WorkType
  <2>6. \A c \in Canon : \A i \in filed[c] : IsItem(i)
    BY <2>1 DEF TypeInv, HistoryType
  <2>7. \A s \in {reached, torn, told, again, unmarked} : s \subseteq Stage
    BY DEF TypeInv, HistoryType
  <2>8. ProcessType /\ lapsed \in BOOLEAN
    BY DEF TypeInv, HistoryType
  <2> QED
    BY <2>2, <2>3, <2>5, <2>6, <2>7, <2>8 DEF TypeOK, ProcessType
<1> QED
  BY TypeInvariant, <1>1, PTL

-----------------------------------------------------------------------------
(* The lease.  As long as none runs out under its tick, whoever is in a    *)
(* tick owns the lease and the lease has not run out, so nobody else is in *)
(* one; what a tick has read in hand is then still so.                     *)

HandWorks == \A p \in Instances : ~Holds(p, "nothing") => pc[p] \in {"prelim", "confirm"}

ListWorks == \A p \in Instances : ~At(p, "sending") => list[p] = {}

LeaseHeld ==
  ~lapsed => \A p \in Instances : Working(p) => lease.owner = p /\ lease.left > 0

SeenIsCurrent ==
  ~lapsed => \A p \in Instances : Holds(p, "seen") =>
                \A c \in hand[p].canons : hand[p].row = RowOf(events, c)

LeaseInv == TypeInv /\ HandWorks /\ ListWorks /\ LeaseHeld /\ SeenIsCurrent

LEMMA OneInATick ==
  ASSUME LeaseHeld, ~lapsed, NEW p \in Instances, NEW q \in Instances, Working(p), Working(q)
  PROVE  p = q
  BY DEF LeaseHeld

LEMMA HolderWorks ==
  ASSUME HandWorks, NEW p \in Instances, ~Holds(p, "nothing")
  PROVE  Working(p)
  BY DEF HandWorks, Working

(* What a step of one process leaves alone in another.                      *)
LEMMA OwnStep ==
  ASSUME TypeInv, NEW p \in Instances, Work(p) \/ Kill(p) \/ Close(p), NEW q \in Instances, q # p
  PROVE  pc'[q] = pc[q] /\ hand'[q] = hand[q] /\ list'[q] = list[q]
<1> USE DEF TypeInv, WorkType, ProcessType
<1>1. CASE Acquire(p) \/ Fetched(p) \/ Aim(p) \/ PutEvidence(p) \/ Judge(p)
  BY <1>1 DEF Acquire, Fetched, Aim, PutEvidence, Judge, Goto, Take, work
<1>2. CASE Look(p) \/ Store(p) \/ Weigh(p) \/ Queue(p)
  BY <1>2 DEF Look, Store, Weigh, Queue, Take
<1>3. CASE LookLate(p) \/ MarkDelayed(p) \/ ListDue(p) \/ Delivered(p) \/ AllFailed(p) \/ Finish(p)
  BY <1>3 DEF LookLate, MarkDelayed, ListDue, Delivered, AllFailed, Finish, Goto, Take, work
<1>4. CASE CutOff(p)
  BY <1>4 DEF CutOff, Clash, Fails, Kill, Close, Gone, Dropped, Goto, Take
<1> QED
  BY <1>1, <1>2, <1>3, <1>4 DEF Work, CutOff

(* The places of a tick follow one another.                                 *)
LEMMA PlaceStep ==
  ASSUME TypeInv, HandWorks, ListWorks, NEW p \in Instances, Work(p) \/ Kill(p) \/ Close(p)
  PROVE  /\ hand'[p].step # "nothing" => pc'[p] \in {"prelim", "confirm"}
         /\ pc'[p] # "sending" => list'[p] = {}
<1> USE DEF TypeInv, WorkType, ProcessType
<1>1. CASE Acquire(p) \/ Fetched(p)
  BY <1>1 DEF Acquire, Fetched, Goto, work, At, HandWorks, ListWorks, Holds
<1>2. CASE Aim(p) \/ PutEvidence(p) \/ Judge(p)
  BY <1>2, NothingIsHand
  DEF Aim, PutEvidence, Judge, Filing, Phase, Goto, Take, At, HandWorks, ListWorks, Holds
<1>3. CASE Look(p) \/ Store(p) \/ Weigh(p) \/ Queue(p)
  BY <1>3, NothingIsHand DEF Look, Store, Weigh, Queue, Take, At, HandWorks, ListWorks, Holds
<1>4. CASE LookLate(p) \/ MarkDelayed(p)
  BY <1>4, NothingIsHand
  DEF LookLate, MarkDelayed, Filing, Goto, Take, At, HandWorks, ListWorks, Holds
<1>5. CASE ListDue(p) \/ Delivered(p) \/ AllFailed(p) \/ Finish(p)
  BY <1>5 DEF ListDue, Delivered, AllFailed, Finish, Goto, work, At, HandWorks, ListWorks, Holds
<1>6. CASE CutOff(p)
  BY <1>6, NothingIsHand DEF CutOff, Clash, Fails, Kill, Close, Gone, Dropped, Goto, Take
<1> QED
  BY <1>1, <1>2, <1>3, <1>4, <1>5, <1>6 DEF Work, CutOff

LEMMA PlacesKept ==
  ASSUME TypeInv, HandWorks, ListWorks, Next \/ UNCHANGED vars
  PROVE  HandWorks' /\ ListWorks'
<1>1. CASE UNCHANGED vars
  BY <1>1 DEF vars, work, HandWorks, ListWorks, Holds, At
<1>2. CASE Tick
  BY <1>2 DEF Tick, work, HandWorks, ListWorks, Holds, At, TypeInv, ProcessType
<1>3. ASSUME NEW p \in Instances, Work(p) \/ Kill(p) \/ Close(p)
      PROVE  HandWorks' /\ ListWorks'
  <2> SUFFICES ASSUME NEW q \in Instances
               PROVE  /\ hand'[q].step # "nothing" => pc'[q] \in {"prelim", "confirm"}
                      /\ pc'[q] # "sending" => list'[q] = {}
    BY DEF HandWorks, ListWorks, Holds, At
  <2>1. CASE q = p
    BY <1>3, <2>1, PlaceStep
  <2>2. CASE q # p
    BY <1>3, <2>2, OwnStep DEF HandWorks, ListWorks, Holds, At
  <2> QED
    BY <2>1, <2>2
<1> QED
  BY <1>1, <1>2, <1>3 DEF Next

LEMMA AcquireHolds ==
  ASSUME TypeInv, LeaseHeld, NEW p \in Instances, Acquire(p)
  PROVE  LeaseHeld'
<1> SUFFICES ASSUME ~lapsed, NEW q \in Instances, Working(q)'
             PROVE  lease'.owner = q /\ lease'.left > 0
  BY DEF Acquire, history, LeaseHeld
<1>1. lease' = [owner |-> p, left |-> LeaseTtl]
  BY DEF Acquire
<1>2. q = p
  <2> SUFFICES ASSUME q # p
               PROVE  FALSE
    OBVIOUS
  <2>1. Working(q)
    BY DEF Acquire, Goto, Working, TypeInv, ProcessType
  <2>2. lease.owner = q /\ lease.left > 0
    BY <2>1 DEF LeaseHeld
  <2> QED
    BY <2>2 DEF Acquire, LeaseFree
<1> QED
  BY <1>1, <1>2, Durations

LEMMA LeaseTick ==
  ASSUME TypeInv, LeaseHeld, Tick
  PROVE  LeaseHeld'
<1> SUFFICES ASSUME ~lapsed', NEW p \in Instances, Working(p)'
             PROVE  lease'.owner = p /\ lease'.left > 0
  BY DEF LeaseHeld
<1>1. ~lapsed /\ ~Lapses
  BY DEF Tick
<1>2. Working(p)
  BY DEF Tick, Working, At, TypeInv, ProcessType
<1>3. lease.owner = p /\ lease.left > 0 /\ lease.left \in Nat
  BY <1>1, <1>2, Durations DEF LeaseHeld, TypeInv, ProcessType
<1>4. lease.left # 1
  BY <1>1, <1>2, <1>3 DEF Lapses
<1> QED
  BY <1>3, <1>4 DEF Tick, Minus, TypeInv, ProcessType

(* A process whose tick ends or is cut off; only its own lease is touched.  *)
LEMMA LeaseLetGo ==
  ASSUME TypeInv, LeaseHeld, NEW p \in Instances, CutOff(p) \/ Finish(p)
  PROVE  LeaseHeld'
<1> SUFFICES ASSUME ~lapsed, NEW q \in Instances, Working(q)'
             PROVE  lease'.owner = q /\ lease'.left > 0
  BY DEF CutOff, Clash, Fails, Kill, Close, Gone, Dropped, Finish, history, LeaseHeld
<1>1. q # p /\ Working(q)
  BY DEF CutOff, Clash, Fails, Kill, Close, Gone, Dropped, Finish, Goto, Working, TypeInv, ProcessType
<1>2. lease.owner = q /\ lease.left > 0
  BY <1>1 DEF LeaseHeld
<1>3. lease' = lease
  BY <1>1, <1>2 DEF CutOff, Clash, Fails, Kill, Close, Finish
<1> QED
  BY <1>2, <1>3

(* The other steps of a tick go from a step of it to a step of it.          *)
Inside(p) ==
  \/ Fetched(p) \/ Aim(p) \/ PutEvidence(p) \/ Judge(p) \/ Look(p) \/ Store(p) \/ Weigh(p) \/ Queue(p)
  \/ LookLate(p) \/ MarkDelayed(p) \/ ListDue(p) \/ Delivered(p) \/ AllFailed(p)

LEMMA LeaseKept ==
  ASSUME TypeInv, HandWorks, LeaseHeld, NEW p \in Instances, Inside(p)
  PROVE  LeaseHeld'
<1>1. UNCHANGED <<lease, lapsed>>
  <2>1. CASE Fetched(p) \/ Aim(p) \/ PutEvidence(p) \/ Judge(p) \/ Look(p) \/ Store(p)
    BY <2>1 DEF Fetched, Aim, PutEvidence, Judge, Look, Store, history
  <2>2. CASE Weigh(p) \/ Queue(p) \/ LookLate(p) \/ MarkDelayed(p) \/ ListDue(p)
    BY <2>2 DEF Weigh, Queue, LookLate, MarkDelayed, ListDue, history
  <2>3. CASE Delivered(p) \/ AllFailed(p)
    BY <2>3, SentCases
  <2> QED
    BY <2>1, <2>2, <2>3 DEF Inside
<1>2. \A q \in Instances : Working(q)' => Working(q)
  <2>1. CASE PutEvidence(p) \/ Judge(p) \/ Look(p) \/ Store(p) \/ Weigh(p) \/ Queue(p)
    BY <2>1 DEF PutEvidence, Judge, Look, Store, Weigh, Queue, Working
  <2>2. CASE Fetched(p) \/ Aim(p) \/ LookLate(p) \/ ListDue(p)
    BY <2>2 DEF Fetched, Aim, Filing, LookLate, ListDue, Working, At, Goto, TypeInv, ProcessType
  <2>3. CASE Delivered(p) \/ AllFailed(p)
    BY <2>3, SentCases DEF Working
  <2>4. CASE MarkDelayed(p)
    <3>1. Working(p)
      BY <2>4, HolderWorks DEF MarkDelayed, Holds
    <3> QED
      BY <2>4, <3>1 DEF MarkDelayed, Goto, Working, TypeInv, ProcessType
  <2> QED
    BY <2>1, <2>2, <2>3, <2>4 DEF Inside
<1> QED
  BY <1>1, <1>2 DEF LeaseHeld

LEMMA LeaseStep ==
  ASSUME TypeInv, HandWorks, LeaseHeld, Next \/ UNCHANGED vars
  PROVE  LeaseHeld'
<1>1. CASE UNCHANGED vars
  BY <1>1 DEF vars, history, LeaseHeld, Working
<1>2. ASSUME NEW p \in Instances, Work(p) \/ Kill(p) \/ Close(p)
      PROVE  LeaseHeld'
  BY <1>2, AcquireHolds, LeaseLetGo, LeaseKept DEF Work, CutOff, Inside
<1> QED
  BY <1>1, <1>2, LeaseTick DEF Next

-----------------------------------------------------------------------------
(* Stages.  Only Store and MarkDelayed write the row of an event.           *)

LEMMA EventsKept ==
  ASSUME NEW p \in Instances, Work(p) \/ Kill(p) \/ Close(p), ~Store(p), ~MarkDelayed(p)
  PROVE  events' = events
<1>1. CASE Acquire(p) \/ Fetched(p) \/ Aim(p) \/ PutEvidence(p) \/ Judge(p) \/ Look(p)
  BY <1>1 DEF Acquire, Fetched, Aim, PutEvidence, Judge, Look, tables
<1>2. CASE Weigh(p) \/ Queue(p) \/ LookLate(p) \/ ListDue(p) \/ Finish(p)
  BY <1>2 DEF Weigh, Queue, LookLate, ListDue, Finish, tables
<1>3. CASE Delivered(p) \/ AllFailed(p)
  BY <1>3, SentCases
<1>4. CASE CutOff(p)
  BY <1>4 DEF CutOff, Clash, Fails, Kill, Close, Gone, Dropped, tables
<1> QED
  BY <1>1, <1>2, <1>3, <1>4 DEF Work, CutOff

(* What is new in a hand that has seen the row of an event.                 *)
LEMMA SeenBy ==
  ASSUME TypeInv, NEW p \in Instances, Work(p) \/ Kill(p) \/ Close(p), hand'[p].step = "seen"
  PROVE  \/ hand'[p] = hand[p] /\ events' = events
         \/ /\ \A c \in hand'[p].canons : hand'[p].row = RowOf(events, c)
            /\ events' = events
<1> USE DEF TypeInv, WorkType
<1>1. CASE Look(p)
  <2>1. PICK c \in hand[p].canons :
          hand' = [hand EXCEPT ![p] = [hand[p] EXCEPT !.step = "seen", !.row = RowOf(events, c)]]
    BY <1>1 DEF Look, Take
  <2>2. hand[p] \in Hand /\ \E d \in Canon : hand[p].canons = {d}
    BY <1>1, HandParts DEF Look, Holds, JudgedSteps
  <2>3. hand'[p].canons = hand[p].canons /\ hand'[p].row = RowOf(events, c)
    BY <2>1, <2>2 DEF Hand
  <2> QED
    BY <1>1, <2>2, <2>3 DEF Look, tables
<1>2. CASE Aim(p) \/ PutEvidence(p) \/ Judge(p) \/ Weigh(p)
  <2>1. hand' = hand \/ hand'[p].step \in {"aimed", "nothing", "judged"}
    BY <1>2, NothingIsHand DEF Aim, PutEvidence, Judge, Weigh, Take, Nothing
  <2> QED
    BY <1>2, <2>1 DEF Aim, PutEvidence, Judge, Weigh, tables
<1>3. CASE Store(p)
  BY <1>3, NothingIsHand, HandParts DEF Store, Take, Hand
<1>4. CASE LookLate(p)
  <2>1. hand' = hand \/ hand'[p].step = "late"
    BY <1>4 DEF LookLate, Take, Nothing
  <2> QED
    BY <1>4, <2>1 DEF LookLate, tables
<1>5. CASE MarkDelayed(p) \/ CutOff(p)
  BY <1>5, NothingIsHand
  DEF MarkDelayed, CutOff, Clash, Fails, Kill, Close, Gone, Dropped, Take
<1>6. CASE Acquire(p) \/ Fetched(p) \/ Queue(p) \/ ListDue(p) \/ Finish(p)
  BY <1>6 DEF Acquire, Fetched, Queue, ListDue, Finish, tables, work
<1>7. CASE Delivered(p) \/ AllFailed(p)
  BY <1>7, SentCases
<1> QED
  BY <1>1, <1>2, <1>3, <1>4, <1>5, <1>6, <1>7 DEF Work, CutOff

LEMMA LapsedStays ==
  ASSUME Next \/ UNCHANGED vars, lapsed \in BOOLEAN, lapsed
  PROVE  lapsed'
<1>1. CASE Tick \/ UNCHANGED vars
  BY <1>1 DEF Tick, vars, history
<1>2. ASSUME NEW p \in Instances, Work(p) \/ Kill(p) \/ Close(p)
      PROVE  lapsed'
  <2>1. CASE Acquire(p) \/ Fetched(p) \/ Aim(p) \/ PutEvidence(p) \/ Judge(p) \/ Look(p) \/ Store(p)
    BY <2>1 DEF Acquire, Fetched, Aim, PutEvidence, Judge, Look, Store, history
  <2>2. CASE Weigh(p) \/ Queue(p) \/ LookLate(p) \/ MarkDelayed(p) \/ ListDue(p) \/ Finish(p)
    BY <2>2 DEF Weigh, Queue, LookLate, MarkDelayed, ListDue, Finish, history
  <2>3. CASE Delivered(p) \/ AllFailed(p)
    BY <2>3, SentCases
  <2>4. CASE CutOff(p)
    BY <2>4 DEF CutOff, Clash, Fails, Kill, Close, Gone, Dropped
  <2> QED
    BY <1>2, <2>1, <2>2, <2>3, <2>4 DEF Work, CutOff
<1> QED
  BY <1>1, <1>2 DEF Next

(* What one has seen another cannot change: it would be in a tick too.      *)
LEMMA SeenStep ==
  ASSUME LeaseInv, Next \/ UNCHANGED vars
  PROVE  SeenIsCurrent'
<1> USE DEF LeaseInv
<1>0. lapsed => lapsed'
  BY LapsedStays DEF TypeInv, HistoryType
<1> SUFFICES ASSUME ~lapsed, ~lapsed', NEW p \in Instances, hand'[p].step = "seen",
                    NEW c \in hand'[p].canons
             PROVE  hand'[p].row = RowOf(events', c)
  BY <1>0 DEF SeenIsCurrent, Holds, RowOf
<1>1. ASSUME hand'[p] = hand[p], events' = events
      PROVE  hand'[p].row = RowOf(events', c)
  BY <1>1 DEF SeenIsCurrent, Holds
<1>2. CASE Tick \/ UNCHANGED vars
  BY <1>1, <1>2 DEF Tick, vars, tables, work
<1>3. ASSUME NEW q \in Instances, Work(q) \/ Kill(q) \/ Close(q)
      PROVE  hand'[p].row = RowOf(events', c)
  <2>1. CASE q = p
    BY <1>1, <1>3, <2>1, SeenBy
  <2>2. CASE q # p
    <3>1. hand'[p] = hand[p]
      BY <1>3, <2>2, OwnStep
    <3>2. Working(p) /\ ~Working(q)
      BY <2>2, <3>1, HolderWorks, OneInATick DEF Holds
    <3>3. ~Store(q) /\ ~MarkDelayed(q)
      BY <3>2, HolderWorks DEF Store, MarkDelayed, Holds
    <3>4. events' = events
      BY <1>3, <3>3, EventsKept
    <3> QED
      BY <1>1, <3>1, <3>4
  <2> QED
    BY <2>1, <2>2
<1> QED
  BY <1>2, <1>3 DEF Next

LEMMA LeaseInvStep ==
  ASSUME LeaseInv, Next \/ UNCHANGED vars
  PROVE  LeaseInv'
  BY TypeStep, PlacesKept, LeaseStep, SeenStep DEF LeaseInv

LEMMA LeaseInvInit == Init => LeaseInv
<1> SUFFICES ASSUME Init
             PROVE  LeaseInv
  OBVIOUS
<1>1. HandWorks /\ ListWorks /\ LeaseHeld /\ SeenIsCurrent
  BY NothingIsHand DEF Init, HandWorks, ListWorks, LeaseHeld, SeenIsCurrent, Holds, At, Working
<1> QED
  BY <1>1, TypeInit DEF LeaseInv

LEMMA LeaseInvHolds == Spec => []LeaseInv
<1>1. LeaseInv /\ [Next]_vars => LeaseInv'
  BY LeaseInvStep
<1> QED
  BY LeaseInvInit, <1>1, PTL DEF Spec

StageKept(c) == c \in DOMAIN events' /\ Rank[events[c].stage] <= Rank[events'[c].stage]

LEMMA StagesStep ==
  ASSUME LeaseInv, ~lapsed, Next \/ UNCHANGED vars, NEW c \in DOMAIN events
  PROVE  StageKept(c)
<1>0. events[c] \in EventRow /\ Rank[events[c].stage] \in Nat
  BY RankOfStages DEF LeaseInv, TypeInv, TablesType, EventsType, EventRow
<1>1. CASE events' = events
  BY <1>0, <1>1 DEF StageKept
<1>2. ASSUME NEW p \in Instances, Store(p)
      PROVE  StageKept(c)
  <2>1. PICK d, row : /\ Stored(p, d, row) /\ row \in EventRow
                      /\ Rank[hand[p].row.stage] <= Rank[row.stage]
    BY <1>2, StoredTypes DEF LeaseInv
  <2>2. hand[p].row = RowOf(events, d)
    BY <1>2, <2>1 DEF LeaseInv, SeenIsCurrent, Store, Stored
  <2>3. DOMAIN events' = DOMAIN events \cup {d} /\ events'[c] = IF c = d THEN row ELSE events[c]
    BY <2>1 DEF Stored, Put
  <2> QED
    BY <1>0, <2>1, <2>2, <2>3 DEF StageKept, RowOf
<1>3. ASSUME NEW p \in Instances, MarkDelayed(p)
      PROVE  StageKept(c)
  <2>1. PICK late : events' = [d \in DOMAIN events |->
                         IF d \in late /\ events[d].stage = "announced"
                         THEN [events[d] EXCEPT !.stage = "delayed"] ELSE events[d]]
    BY <1>3 DEF MarkDelayed
  <2>2. CASE c \in late /\ events[c].stage = "announced"
    <3>1. events'[c].stage = "delayed" /\ events[c].stage = "announced" /\ c \in DOMAIN events'
      BY <1>0, <2>1, <2>2 DEF EventRow
    <3> QED
      BY <3>1 DEF StageKept, Rank
  <2>3. CASE ~(c \in late /\ events[c].stage = "announced")
    <3>1. events'[c] = events[c] /\ c \in DOMAIN events'
      BY <2>1, <2>3
    <3> QED
      BY <1>0, <3>1 DEF StageKept
  <2> QED
    BY <2>2, <2>3
<1>4. CASE Tick \/ UNCHANGED vars
  BY <1>1, <1>4 DEF Tick, vars, tables
<1>5. ASSUME NEW p \in Instances, Work(p) \/ Kill(p) \/ Close(p)
      PROVE  StageKept(c)
  BY <1>1, <1>2, <1>3, <1>5, EventsKept
<1> QED
  BY <1>4, <1>5 DEF Next

(* As long as no lease runs out under its tick, the stage of an event never *)
(* goes back and no event is lost, whatever evidence moves, in whatever     *)
(* order it is judged, by any number of processes, killed at any point.     *)
THEOREM StagesAdvance == Spec => StagesOnlyAdvance
<1> DEFINE Kept == lapsed \/ \A c \in DOMAIN events :
                     c \in DOMAIN events' /\ Rank[events[c].stage] <= Rank[events'[c].stage]
<1>1. LeaseInv /\ [Next]_vars => [Kept]_vars
  BY StagesStep DEF StageKept
<1> QED
  BY LeaseInvHolds, <1>1, PTL DEF Spec, StagesOnlyAdvance

-----------------------------------------------------------------------------
(* Confirmations.  What an event has on file now it was filed under some    *)
(* time; and more on file never makes a confirmation less sure.             *)

Sites(F) == {i.url : i \in {j \in F : j.completed /\ ~j.local}}

Enough(F) ==
  \/ \E i \in F : i.official
  \/ \E i \in F : i.local /\ i.type = "banked"
  \/ Cardinality(Sites(F)) > 1

Backed == \A k \in DOMAIN evidence : evidence[k].item \in filed[evidence[k].canon]

FiledFinite == \A c \in Canon : IsFiniteSet(filed[c])

Founded == \A c \in DOMAIN events : events[c].stage = "confirmed" => Enough(filed[c])

(* A judgement in hand that confirms, or has seen a row that is confirmed.  *)
Confirms(h) ==
  h.step \in {"judged", "seen"} /\ (h.target = "confirmed" \/ h.row.stage = "confirmed")

Worthy == \A p \in Instances : Confirms(hand[p]) => \A c \in hand[p].canons : Enough(filed[c])

FoundedInv == TypeInv /\ Backed /\ FiledFinite /\ Founded /\ Worthy

LEMMA SitesFinite ==
  ASSUME NEW F, IsFiniteSet(F)
  PROVE  IsFiniteSet(Sites(F))
<1> DEFINE G == {j \in F : j.completed /\ ~j.local}
           T == {i.url : i \in G}
           f == [i \in G |-> i.url]
<1>1. IsFiniteSet(G)
  BY FS_Subset
<1>2. f \in Surjection(G, T)
  BY DEF Surjection
<1>3. T = Sites(F)
  BY DEF Sites
<1> HIDE DEF G, T, f
<1> QED
  BY <1>1, <1>2, <1>3, FS_Surjection

LEMMA TwoSites ==
  ASSUME NEW U, IsFiniteSet(U), NEW u \in U, NEW v \in U, u # v
  PROVE  Cardinality(U) > 1
<1>1. IsFiniteSet({u}) /\ Cardinality({u}) = 1
  BY FS_Singleton
<1>2. Cardinality({u} \cup {v}) = 2 /\ IsFiniteSet({u} \cup {v})
  BY <1>1, FS_AddElement
<1>3. {u} \cup {v} \subseteq U
  OBVIOUS
<1>4. Cardinality({u} \cup {v}) <= Cardinality(U) /\ Cardinality(U) \in Nat
  BY <1>3, FS_Subset, FS_CardinalityType
<1> QED
  BY <1>2, <1>4

LEMMA EnoughGrows ==
  ASSUME NEW F, NEW G, F \subseteq G, IsFiniteSet(G), Enough(F)
  PROVE  Enough(G)
<1>1. IsFiniteSet(Sites(G)) /\ Sites(F) \subseteq Sites(G)
  BY SitesFinite DEF Sites
<1>2. /\ Cardinality(Sites(F)) <= Cardinality(Sites(G))
      /\ Cardinality(Sites(F)) \in Nat /\ Cardinality(Sites(G)) \in Nat
  BY <1>1, FS_Subset, FS_CardinalityType
<1> QED
  BY <1>2 DEF Enough

LEMMA ConfirmedIsEnough ==
  ASSUME NEW S, NEW F, S \subseteq F, IsFiniteSet(F), "confirmed" \in Classify(S)
  PROVE  Enough(F)
<1>1. CASE \E i \in S : i.stage = "confirmed" /\ i.local /\ i.type = "banked"
  BY <1>1 DEF Enough
<1>2. CASE Certain(S)
  <2> DEFINE done == {i \in S : i.stage = "confirmed" /\ i.completed}
             public == {i \in done : ~i.local /\ i.url # NoUrl}
  <2>1. \/ \E i \in S : i.local /\ i.type = "banked"
        \/ \E i \in S : i.official
        \/ \E i, j \in public : i.url # j.url
    BY <1>2 DEF Certain
  <2>2. CASE \E i, j \in public : i.url # j.url
    <3>1. PICK i \in public, j \in public : i.url # j.url
      BY <2>2
    <3>2. i.url \in Sites(F) /\ j.url \in Sites(F)
      BY DEF Sites
    <3> QED
      BY <3>1, <3>2, SitesFinite, TwoSites DEF Enough
  <2> QED
    BY <2>1, <2>2 DEF Enough
<1> QED
  BY <1>1, <1>2, ClassifyStages

(* Filing adds to what was filed; every other step leaves both as they are. *)
LEMMA FilingOnly ==
  ASSUME Next \/ UNCHANGED vars
  PROVE  UNCHANGED <<evidence, filed>> \/ \E p \in Instances : PutEvidence(p)
<1>1. CASE Tick \/ UNCHANGED vars
  BY <1>1 DEF Tick, vars, tables, history
<1>2. ASSUME NEW p \in Instances, Work(p) \/ Kill(p) \/ Close(p)
      PROVE  PutEvidence(p) \/ UNCHANGED <<evidence, filed>>
  <2>1. CASE Acquire(p) \/ Fetched(p) \/ Aim(p) \/ Judge(p) \/ Look(p) \/ Store(p)
    BY <2>1 DEF Acquire, Fetched, Aim, Judge, Look, Store, tables, history
  <2>2. CASE Weigh(p) \/ Queue(p) \/ LookLate(p) \/ MarkDelayed(p) \/ ListDue(p) \/ Finish(p)
    BY <2>2 DEF Weigh, Queue, LookLate, MarkDelayed, ListDue, Finish, tables, history
  <2>3. CASE Delivered(p) \/ AllFailed(p)
    BY <2>3, SentCases
  <2>4. CASE CutOff(p)
    BY <2>4 DEF CutOff, Clash, Fails, Kill, Close, Gone, Dropped, tables
  <2> QED
    BY <1>2, <2>1, <2>2, <2>3, <2>4 DEF Work, CutOff
<1> QED
  BY <1>1, <1>2 DEF Next

LEMMA FiledStep ==
  ASSUME TypeInv, Backed, FiledFinite, Next \/ UNCHANGED vars
  PROVE  Backed' /\ FiledFinite' /\ \A c \in Canon : filed[c] \subseteq filed'[c]
<1>1. CASE UNCHANGED <<evidence, filed>>
  BY <1>1 DEF Backed, FiledFinite
<1>2. ASSUME NEW p \in Instances, PutEvidence(p)
      PROVE  Backed' /\ FiledFinite' /\ \A c \in Canon : filed[c] \subseteq filed'[c]
  <2>1. PICK i, c : FiledUnder(p, i, c)
    BY <1>2 DEF PutEvidence, FiledUnder
  <2> DEFINE j == [i EXCEPT !.hint = c]
  <2>2. /\ evidence' = Put(evidence, i.key, [item |-> j, canon |-> c])
        /\ filed' = [filed EXCEPT ![c] = @ \cup {j}]
    BY <2>1 DEF FiledUnder
  <2>3. c \in Canon /\ filed \in [Canon -> SUBSET ItemForms]
    BY <2>1, HandParts DEF FiledUnder, TypeInv, HistoryType
  <2> HIDE DEF j
  <2>4. \A d \in Canon : filed'[d] = IF d = c THEN filed[c] \cup {j} ELSE filed[d]
    BY <2>2, <2>3
  <2>5. FiledFinite'
    <3>1. IsFiniteSet(filed[c] \cup {j})
      BY <2>3, FS_AddElement DEF FiledFinite
    <3> QED
      BY <2>4, <3>1 DEF FiledFinite
  <2>6. Backed'
    <3> SUFFICES ASSUME NEW k \in DOMAIN evidence'
                 PROVE  evidence'[k].item \in filed'[evidence'[k].canon]
      BY DEF Backed
    <3>1. CASE k = i.key
      BY <2>2, <2>3, <2>4, <3>1 DEF Put
    <3>2. CASE k # i.key
      <4>1. k \in DOMAIN evidence /\ evidence'[k] = evidence[k]
        BY <2>2, <3>2 DEF Put
      <4>2. evidence[k].canon \in Canon /\ evidence[k].item \in filed[evidence[k].canon]
        BY <4>1 DEF Backed, TypeInv, TablesType, EvidenceType
      <4> QED
        BY <2>4, <4>1, <4>2
    <3> QED
      BY <3>1, <3>2
  <2> QED
    BY <2>4, <2>5, <2>6
<1> QED
  BY <1>1, <1>2, FilingOnly

(* A hand that confirms did so before, or its evidence has just said so, or *)
(* it has just seen a row that is confirmed.                                *)
LEMMA WorthyOf ==
  ASSUME FoundedInv, NEW p \in Instances, Work(p) \/ Kill(p) \/ Close(p), Confirms(hand'[p]),
         NEW c \in hand'[p].canons
  PROVE  Enough(filed[c])
<1> USE DEF FoundedInv
<1>0. hand \in [Instances -> Hand]
  BY DEF TypeInv, WorkType
<1>1. CASE hand'[p] = hand[p]
  BY <1>1 DEF Worthy
<1>2. CASE Judge(p) /\ hand'[p] # hand[p]
  <2>1. PICK d \in Canon : \E stage \in Classify(Filed(evidence, d)) :
          Take(p, Judged(d, Filed(evidence, d), stage))
    BY <1>2, JudgeCases
  <2>2. PICK stage \in Classify(Filed(evidence, d)) : Take(p, Judged(d, Filed(evidence, d), stage))
    BY <2>1
  <2>3. hand'[p] = Judged(d, Filed(evidence, d), stage)
    BY <1>0, <2>2 DEF Take
  <2>4. c = d /\ stage = "confirmed"
    BY <2>3 DEF Judged, Nothing, NoRow, Confirms
  <2>5. Filed(evidence, d) \subseteq filed[d]
    BY DEF Filed, Backed
  <2> QED
    BY <2>2, <2>4, <2>5, ConfirmedIsEnough DEF FiledFinite
<1>3. CASE Look(p)
  <2>1. PICK d \in hand[p].canons :
          hand'[p] = [hand[p] EXCEPT !.step = "seen", !.row = RowOf(events, d)]
    BY <1>0, <1>3 DEF Look, Take
  <2>2. hand[p] \in Hand /\ \E e \in Canon : hand[p].canons = {e}
    BY <1>3, HandParts DEF Look, Holds, JudgedSteps
  <2>3. /\ hand'[p].canons = hand[p].canons /\ hand'[p].row = RowOf(events, d)
        /\ hand'[p].target = hand[p].target
    BY <2>1, <2>2 DEF Hand
  <2>4. c = d
    BY <2>2, <2>3
  <2>5. CASE hand[p].target = "confirmed"
    BY <1>3, <2>3, <2>5 DEF Look, Holds, Confirms, Worthy
  <2>6. CASE RowOf(events, d).stage = "confirmed"
    <3>1. d \in DOMAIN events /\ events[d].stage = "confirmed"
      BY <2>6 DEF RowOf, NoRow
    <3> QED
      BY <2>4, <3>1 DEF Founded
  <2> QED
    BY <2>3, <2>5, <2>6 DEF Confirms
<1>4. CASE Store(p) \/ Aim(p) \/ PutEvidence(p) \/ Weigh(p) \/ MarkDelayed(p) \/ CutOff(p)
  <2>1. hand'[p].step \in {"stored", "aimed", "nothing"}
    <3>1. CASE Store(p)
      <4>1. [hand[p] EXCEPT !.step = "stored"].step = "stored"
        BY HandParts DEF Hand
      <4> QED
        BY <1>0, <3>1, <4>1, NothingIsHand DEF Store, Take
    <3>2. CASE Aim(p)
      BY <1>0, <3>2 DEF Aim, Take, Nothing
    <3>3. CASE PutEvidence(p) \/ Weigh(p) \/ MarkDelayed(p) \/ CutOff(p)
      BY <1>0, <3>3, NothingIsHand
      DEF PutEvidence, Weigh, MarkDelayed, CutOff, Clash, Fails, Kill, Close, Gone, Dropped, Take
    <3> QED
      BY <1>4, <3>1, <3>2, <3>3
  <2> QED
    BY <2>1 DEF Confirms
<1>5. CASE LookLate(p)
  BY <1>0, <1>1, <1>5 DEF LookLate, Take, Nothing, Confirms
<1>6. CASE Acquire(p) \/ Fetched(p) \/ Queue(p) \/ ListDue(p) \/ Finish(p)
  BY <1>1, <1>6 DEF Acquire, Fetched, Queue, ListDue, Finish, work
<1>7. CASE Delivered(p) \/ AllFailed(p)
  BY <1>1, <1>7, SentCases
<1> QED
  BY <1>1, <1>2, <1>3, <1>4, <1>5, <1>6, <1>7 DEF Work, CutOff

(* An event that is confirmed after a step was so before it, or a hand said *)
(* so.                                                                      *)
LEMMA NewlyConfirmed ==
  ASSUME TypeInv, Next \/ UNCHANGED vars, NEW c \in DOMAIN events', events'[c].stage = "confirmed"
  PROVE  \/ c \in DOMAIN events /\ events[c].stage = "confirmed"
         \/ \E p \in Instances : Confirms(hand[p]) /\ c \in hand[p].canons
<1>1. CASE events' = events
  BY <1>1
<1>2. ASSUME NEW p \in Instances, Store(p)
      PROVE  \/ c \in DOMAIN events /\ events[c].stage = "confirmed"
             \/ Confirms(hand[p]) /\ c \in hand[p].canons
  <2>1. PICK d, row : /\ Stored(p, d, row)
                      /\ row.stage = hand[p].target \/ row.stage = hand[p].row.stage
    BY <1>2, StoredTypes
  <2>2. DOMAIN events' = DOMAIN events \cup {d} /\ events'[c] = IF c = d THEN row ELSE events[c]
    BY <2>1 DEF Stored, Put
  <2>3. CASE c = d
    BY <1>2, <2>1, <2>2, <2>3 DEF Stored, Store, Holds, Confirms
  <2>4. CASE c # d
    BY <2>2, <2>4
  <2> QED
    BY <2>3, <2>4
<1>3. ASSUME NEW p \in Instances, MarkDelayed(p)
      PROVE  c \in DOMAIN events /\ events[c].stage = "confirmed"
  <2>1. PICK late : events' = [d \in DOMAIN events |->
                         IF d \in late /\ events[d].stage = "announced"
                         THEN [events[d] EXCEPT !.stage = "delayed"] ELSE events[d]]
    BY <1>3 DEF MarkDelayed
  <2>2. c \in DOMAIN events /\ events[c] \in EventRow
    BY <2>1 DEF TypeInv, TablesType, EventsType
  <2>3. CASE c \in late /\ events[c].stage = "announced"
    <3>1. events'[c].stage = "delayed"
      BY <2>1, <2>2, <2>3 DEF EventRow
    <3> QED
      BY <3>1
  <2> QED
    BY <2>1, <2>2, <2>3
<1>4. CASE Tick \/ UNCHANGED vars
  BY <1>1, <1>4 DEF Tick, vars, tables
<1>5. ASSUME NEW p \in Instances, Work(p) \/ Kill(p) \/ Close(p)
      PROVE  \/ c \in DOMAIN events /\ events[c].stage = "confirmed"
             \/ Confirms(hand[p]) /\ c \in hand[p].canons
  BY <1>1, <1>2, <1>3, <1>5, EventsKept
<1> QED
  BY <1>4, <1>5 DEF Next

LEMMA FoundedStep ==
  ASSUME FoundedInv, Next \/ UNCHANGED vars
  PROVE  FoundedInv'
<1>1. Backed' /\ FiledFinite' /\ \A c \in Canon : filed[c] \subseteq filed'[c]
  BY FiledStep DEF FoundedInv
<1>2. TypeInv'
  BY TypeStep DEF FoundedInv
<1>3. \A c \in Canon : Enough(filed[c]) => Enough(filed'[c])
  BY <1>1, EnoughGrows DEF FoundedInv, FiledFinite
<1>4. Founded'
  <2> SUFFICES ASSUME NEW c \in DOMAIN events', events'[c].stage = "confirmed"
               PROVE  Enough(filed'[c])
    BY DEF Founded
  <2>1. c \in Canon
    BY <1>2 DEF TypeInv, TablesType, EventsType
  <2>2. Enough(filed[c])
    BY NewlyConfirmed DEF FoundedInv, Founded, Worthy
  <2> QED
    BY <1>3, <2>1, <2>2
<1>5. Worthy'
  <2> SUFFICES ASSUME NEW p \in Instances, Confirms(hand'[p]), NEW c \in hand'[p].canons
               PROVE  Enough(filed'[c])
    BY DEF Worthy, Confirms
  <2>1. c \in Canon
    BY <1>2 DEF TypeInv, WorkType, Hand
  <2>2. Enough(filed[c])
    <3>1. CASE hand'[p] = hand[p]
      BY <3>1 DEF FoundedInv, Worthy
    <3>2. CASE Tick \/ UNCHANGED vars
      BY <3>1, <3>2 DEF Tick, vars, work
    <3>3. ASSUME NEW q \in Instances, Work(q) \/ Kill(q) \/ Close(q)
          PROVE  Enough(filed[c])
      BY <3>1, <3>3, OwnStep, WorthyOf DEF FoundedInv
    <3> QED
      BY <3>2, <3>3 DEF Next
  <2> QED
    BY <1>3, <2>1, <2>2
<1> QED
  BY <1>1, <1>2, <1>4, <1>5 DEF FoundedInv

LEMMA FoundedInit == Init => FoundedInv
<1> SUFFICES ASSUME Init
             PROVE  FoundedInv
  OBVIOUS
<1>1. Backed /\ Founded /\ Worthy
  BY NothingIsHand DEF Init, Backed, Founded, Worthy, Confirms
<1>2. FiledFinite
  BY FS_EmptySet DEF Init, FiledFinite
<1> QED
  BY <1>1, <1>2, TypeInit DEF FoundedInv

(* Nothing but an official post, an increase of the reference account's     *)
(* balance, or two posts of other people confirms a reset, however many     *)
(* sources carry them, wherever they are filed and whoever judges them      *)
(* beside whom, leases that run out included.                               *)
THEOREM ConfirmationsAreFounded == Spec => []OnePostIsNotEnough
<1>1. FoundedInv /\ [Next]_vars => FoundedInv'
  BY FoundedStep
<1>2. FoundedInv => OnePostIsNotEnough
  BY DEF FoundedInv, Founded, Enough, Sites, OnePostIsNotEnough
<1> QED
  BY FoundedInit, <1>1, <1>2, PTL DEF Spec

-----------------------------------------------------------------------------
(* Messages, as long as no lease runs out under its tick: what is on a     *)
(* list is pending, with the attempts it is listed with, and what was told *)
(* has its mark, unless a kill took it.                                    *)

Pending(d) == d \in DOMAIN deliveries /\ deliveries[d].status = "pending"
HasMark(d) == d \in DOMAIN deliveries /\ deliveries[d].status = "delivered"

Listed ==
  ~lapsed => \A p \in Instances : \A m \in list[p] :
               Pending(m[1]) /\ deliveries[m[1]].attempts = m[2]

Marked == ~lapsed => (\A d \in told \ unmarked : HasMark(d)) /\ again \subseteq unmarked

MessageInv == LeaseInv /\ Listed /\ Marked

LEMMA NobodyElseSends ==
  ASSUME LeaseInv, ~lapsed, NEW p \in Instances, At(p, "sending"), NEW q \in Instances, q # p
  PROVE  list[q] = {}
<1>1. Working(p)
  BY DEF At, Working
<1>2. ~Working(q)
  BY <1>1, OneInATick DEF LeaseInv
<1>3. ~At(q, "sending")
  BY <1>2 DEF Working, At
<1> QED
  BY <1>3 DEF LeaseInv, ListWorks

LEMMA SendingTells ==
  ASSUME MessageInv, NEW p \in Instances, Delivered(p) \/ AllFailed(p)
  PROVE  Listed' /\ Marked'
<1> USE DEF MessageInv
<1>0. lapsed' = lapsed /\ unmarked' = unmarked
  BY SentCases
<1> SUFFICES ASSUME ~lapsed
             PROVE  Listed' /\ Marked'
  BY <1>0 DEF Listed, Marked
<1>1. PICK m : Sent(p, m)
  BY SentCases
<1>2. list \in [Instances -> SUBSET (Stage \X Nat)] /\ m \in list[p]
  BY <1>1 DEF Sent, LeaseInv, TypeInv, WorkType
<1>3. m \in Stage \X Nat
  BY <1>2
<1>4. Pending(m[1]) /\ deliveries[m[1]] \in Delivery
  BY <1>2 DEF Listed, Pending, LeaseInv, TypeInv, RowsOfMessages
<1>5. /\ DOMAIN deliveries' = DOMAIN deliveries
      /\ \A e \in DOMAIN deliveries : e # m[1] => deliveries'[e] = deliveries[e]
  BY <1>1 DEF Sent
<1>6. Listed'
  <2> SUFFICES ASSUME NEW q \in Instances, NEW n \in list'[q]
               PROVE  /\ n[1] \in DOMAIN deliveries' /\ deliveries'[n[1]].status = "pending"
                      /\ deliveries'[n[1]].attempts = n[2]
    BY DEF Listed, Pending
  <2>1. list'[q] = IF q = p THEN list[p] \ {m} ELSE list[q]
    BY <1>1, <1>2 DEF Sent
  <2>2. q = p /\ n \in list[p] /\ n # m
    BY <1>1, <2>1, NobodyElseSends DEF Sent
  <2>3. n \in Stage \X Nat /\ Pending(n[1]) /\ deliveries[n[1]].attempts = n[2]
    BY <1>2, <2>2 DEF Listed
  <2>4. deliveries[m[1]].attempts = m[2]
    BY <1>2 DEF Listed
  <2>5. n[1] # m[1]
    BY <1>3, <2>2, <2>3, <2>4
  <2> QED
    BY <1>5, <2>3, <2>5 DEF Pending
<1>7. Marked'
  <2>1. m[1] \in told => m[1] \in unmarked
    BY <1>4 DEF Marked, HasMark, Pending
  <2>2. CASE deliveries' = [deliveries EXCEPT ![m[1]].status = "delivered"] /\ Tell(m[1])
    <3>1. deliveries'[m[1]].status = "delivered"
      BY <1>4, <2>2 DEF Delivery, Pending
    <3> QED
      BY <1>0, <1>4, <1>5, <2>1, <2>2, <3>1 DEF Tell, Record, Marked, HasMark, Pending
  <2>3. CASE UNCHANGED <<told, again>>
    BY <1>0, <1>4, <1>5, <2>1, <2>3 DEF Marked, HasMark
  <2> QED
    BY <1>1, <2>2, <2>3 DEF Sent
<1> QED
  BY <1>6, <1>7

(* A tick cut off may leave a message told without its mark.                *)
LEMMA CutOffTells ==
  ASSUME MessageInv, NEW p \in Instances, CutOff(p)
  PROVE  Listed' /\ Marked'
<1>1. /\ UNCHANGED <<deliveries, lapsed>> /\ list' = [list EXCEPT ![p] = {}]
      /\ \/ UNCHANGED <<told, again, unmarked>>
         \/ \E d : Tell(d) /\ unmarked' = Record(unmarked, {d})
  BY DEF CutOff, Clash, Fails, Kill, Close, Gone, Dropped, tables
<1>2. Listed'
  BY <1>1 DEF MessageInv, Listed, Pending, LeaseInv, TypeInv, WorkType
<1>3. Marked'
  BY <1>1 DEF MessageInv, Marked, HasMark, Tell, Record
<1> QED
  BY <1>2, <1>3

LEMMA QueueTells ==
  ASSUME MessageInv, NEW p \in Instances, Queue(p)
  PROVE  Listed' /\ Marked'
<1>1. PICK d, row : deliveries' = IF d \in DOMAIN deliveries THEN deliveries ELSE Put(deliveries, d, row)
  BY DEF Queue
<1>2. \A e \in DOMAIN deliveries : e \in DOMAIN deliveries' /\ deliveries'[e] = deliveries[e]
  BY <1>1 DEF Put
<1>3. UNCHANGED <<list, lapsed, told, again, unmarked>>
  BY DEF Queue, history
<1> QED
  BY <1>2, <1>3 DEF MessageInv, Listed, Marked, Pending, HasMark

LEMMA TickTells ==
  ASSUME MessageInv, Tick
  PROVE  Listed' /\ Marked'
<1> SUFFICES ASSUME ~lapsed'
             PROVE  Listed' /\ Marked'
  BY DEF Listed, Marked
<1>1. UNCHANGED <<list, lapsed, told, again, unmarked>>
  BY DEF Tick, work
<1>2. /\ DOMAIN deliveries' = DOMAIN deliveries
      /\ \A d \in DOMAIN deliveries : /\ deliveries'[d].status = deliveries[d].status
                                      /\ deliveries'[d].attempts = deliveries[d].attempts
  BY DEF Tick, MessageInv, LeaseInv, TypeInv, RowsOfMessages, Delivery
<1> QED
  BY <1>1, <1>2 DEF MessageInv, Listed, Marked, Pending, HasMark

Elsewhere(p) ==
  \/ Acquire(p) \/ Fetched(p) \/ Aim(p) \/ PutEvidence(p) \/ Judge(p) \/ Look(p) \/ Store(p)
  \/ Weigh(p) \/ LookLate(p) \/ MarkDelayed(p) \/ Finish(p)

LEMMA OtherTells ==
  ASSUME MessageInv, NEW p \in Instances, Elsewhere(p) \/ ListDue(p)
  PROVE  Listed' /\ Marked'
<1>1. UNCHANGED <<deliveries, lapsed, told, again, unmarked>>
  <2>1. CASE Acquire(p) \/ Fetched(p) \/ Aim(p) \/ PutEvidence(p) \/ Judge(p) \/ Look(p)
    BY <2>1 DEF Acquire, Fetched, Aim, PutEvidence, Judge, Look, tables, history
  <2>2. CASE Store(p) \/ Weigh(p) \/ LookLate(p) \/ MarkDelayed(p) \/ Finish(p) \/ ListDue(p)
    BY <2>2 DEF Store, Weigh, LookLate, MarkDelayed, Finish, ListDue, tables, history
  <2> QED
    BY <2>1, <2>2 DEF Elsewhere
<1>2. Marked'
  BY <1>1 DEF MessageInv, Marked, HasMark
<1>3. Listed'
  <2>1. CASE ListDue(p)
    <3>1. PICK D \in SUBSET (DOMAIN deliveries) :
            /\ \A d \in D : deliveries[d].status = "pending"
            /\ list' = [list EXCEPT ![p] = {<<d, deliveries[d].attempts>> : d \in D}]
      BY <2>1 DEF ListDue
    <3> SUFFICES ASSUME ~lapsed, NEW q \in Instances, NEW m \in list'[q]
                 PROVE  Pending(m[1]) /\ deliveries[m[1]].attempts = m[2]
      BY <1>1 DEF Listed, Pending
    <3>2. list'[q] = IF q = p THEN {<<d, deliveries[d].attempts>> : d \in D} ELSE list[q]
      BY <3>1 DEF MessageInv, LeaseInv, TypeInv, WorkType
    <3> QED
      BY <3>1, <3>2 DEF MessageInv, Listed, Pending
  <2>2. CASE Elsewhere(p)
    <3>1. list' = list
      <4>1. CASE Acquire(p) \/ Fetched(p) \/ Aim(p) \/ PutEvidence(p) \/ Judge(p) \/ Look(p)
        BY <4>1 DEF Acquire, Fetched, Aim, PutEvidence, Judge, Look, work
      <4>2. CASE Store(p) \/ Weigh(p) \/ LookLate(p) \/ MarkDelayed(p) \/ Finish(p)
        BY <4>2 DEF Store, Weigh, LookLate, MarkDelayed, Finish, work
      <4> QED
        BY <2>2, <4>1, <4>2 DEF Elsewhere
    <3> QED
      BY <1>1, <3>1 DEF MessageInv, Listed, Pending
  <2> QED
    BY <2>1, <2>2
<1> QED
  BY <1>2, <1>3

LEMMA MessageStep ==
  ASSUME MessageInv, Next \/ UNCHANGED vars
  PROVE  MessageInv'
<1>1. LeaseInv'
  BY LeaseInvStep DEF MessageInv
<1>2. Listed' /\ Marked'
  <2>1. CASE UNCHANGED vars
    BY <2>1 DEF vars, tables, work, history, MessageInv, Listed, Marked, Pending, HasMark
  <2>2. ASSUME NEW p \in Instances, Work(p) \/ Kill(p) \/ Close(p)
        PROVE  Listed' /\ Marked'
    BY <2>2, QueueTells, SendingTells, CutOffTells, OtherTells DEF Work, CutOff, Elsewhere
  <2> QED
    BY <2>1, <2>2, TickTells DEF Next
<1> QED
  BY <1>1, <1>2 DEF MessageInv

LEMMA MessageInit == Init => MessageInv
<1> SUFFICES ASSUME Init
             PROVE  MessageInv
  OBVIOUS
<1>1. Listed /\ Marked
  BY DEF Init, Listed, Marked
<1> QED
  BY <1>1, LeaseInvInit DEF MessageInv

LEMMA MessageInvHolds == Spec => []MessageInv
<1>1. MessageInv /\ [Next]_vars => MessageInv'
  BY MessageStep
<1> QED
  BY MessageInit, <1>1, PTL DEF Spec

(* As long as no lease runs out under its tick, however long a tick takes,  *)
(* no stage of an event is told twice, however often processes are killed,  *)
(* stopped and started, but for a message that a cut left without its mark. *)
THEOREM StagesAreToldOnce == Spec => []ToldOnce
<1>1. MessageInv => ToldOnce
  BY DEF MessageInv, Marked, ToldOnce
<1> QED
  BY MessageInvHolds, <1>1, PTL

-----------------------------------------------------------------------------
(* What the parsers make.  A forecast counts for nothing next to an         *)
(* announcement or a confirmation.                                          *)

LEMMA HintsDoNotConfirm ==
  ASSUME NEW S, NEW T, \A i \in T : i.stage = "hint"
  PROVE  \/ Classify(S \cup T) = Classify(S)
         \/ Classify(S) = {} /\ Classify(S \cup T) = {"hint"}
<1> DEFINE done(F) == {i \in F : i.stage = "confirmed" /\ i.completed}
           said(F) == {i \in F : /\ i.stage = "announced" /\ i.official /\ i.end # NoTime
                                 /\ i.type # "none" /\ i.url # NoUrl}
<1>1. done(S \cup T) = done(S) /\ said(S \cup T) = said(S)
  OBVIOUS
<1>2. (\E i \in S \cup T : /\ i.stage = "announced" /\ i.official
                            /\ i.type = "direct" /\ i.end # NoTime)
      <=> (\E i \in S : i.stage = "announced" /\ i.official /\ i.type = "direct" /\ i.end # NoTime)
  OBVIOUS
<1>3. Certain(S \cup T) <=> Certain(S)
  BY <1>1, <1>2 DEF Certain
<1>4. (\E i \in S \cup T : i.stage = "confirmed" /\ i.local /\ i.type = "banked")
      <=> \E i \in S : i.stage = "confirmed" /\ i.local /\ i.type = "banked"
  OBVIOUS
<1>5. (\E i \in S : i.stage = "hint" /\ i.official /\ i.url # NoUrl)
      => \E i \in S \cup T : i.stage = "hint" /\ i.official /\ i.url # NoUrl
  OBVIOUS
<1> QED
  BY <1>1, <1>3, <1>4, <1>5 DEF Classify

(* What a model reads into a post never changes what the other evidence of  *)
(* an event supports; with no other, it supports a hint and nothing more,   *)
(* whatever the model answers.                                              *)
THEOREM SemanticsOnlyHint ==
  ASSUME NEW S, NEW known, NEW t, NEW answer
  PROVE  \/ Classify(S \cup SemanticItem(known, t, answer)) = Classify(S)
         \/ Classify(S) = {} /\ Classify(S \cup SemanticItem(known, t, answer)) = {"hint"}
<1>1. \A i \in SemanticItem(known, t, answer) : i.stage = "hint"
  BY DEF SemanticItem, Evidence
<1> QED
  BY <1>1, HintsDoNotConfirm

(* What a source of each kind gives is an item the monitor can file.        *)
LEMMA EvidenceIsItem ==
  ASSUME NEW source, NEW family, NEW e, IsEntry(e), NEW stage \in Stages \ {"delayed"},
         NEW type \in Types
  PROVE  IsItem(Evidence(source, family, e, stage, type))
  BY DEF Evidence, IsItem, IsEntry, CanonicalFrom, ItemFields, Time, NoTime

LEMMA ItemChanges ==
  ASSUME NEW i, IsItem(i)
  PROVE  /\ \A s, e \in Time : IsItem(During(i, s, e))
         /\ \A b \in BOOLEAN, l \in BOOLEAN : IsItem([i EXCEPT !.completed = b, !.live = l])
         /\ \A b \in BOOLEAN : IsItem([i EXCEPT !.completed = b])
         /\ IsItem(Landed(i))
         /\ IsItem([Landed(i) EXCEPT !.local = TRUE])
         /\ \A c \in Canon : IsItem([i EXCEPT !.hint = c])
<1>1. i = [f \in ItemFields |-> i[f]]
  BY DEF IsItem
<1>2. ASSUME NEW c \in Canon
      PROVE  IsItem([i EXCEPT !.hint = c])
  BY <1>1 DEF IsItem, ItemFields
<1>3. ASSUME NEW s \in Time, NEW e \in Time
      PROVE  IsItem(During(i, s, e))
  BY <1>1 DEF IsItem, ItemFields, During
<1>4. ASSUME NEW b \in BOOLEAN, NEW l \in BOOLEAN
      PROVE  IsItem([i EXCEPT !.completed = b, !.live = l])
  BY <1>1 DEF IsItem, ItemFields
<1>5. ASSUME NEW b \in BOOLEAN
      PROVE  IsItem([i EXCEPT !.completed = b])
  BY <1>1 DEF IsItem, ItemFields
<1>6. IsItem(Landed(i)) /\ IsItem([Landed(i) EXCEPT !.local = TRUE])
  BY <1>1 DEF IsItem, ItemFields, Landed
<1> QED
  BY <1>2, <1>3, <1>4, <1>5, <1>6

LEMMA InferredType ==
  ASSUME NEW kind, NEW says
  PROVE  InferType(kind, says) \in Types
  BY DEF InferType, Types

TimedEntry(e) == IsEntry(e) /\ {e.start, e.end} \subseteq Time /\ e.live \in BOOLEAN

LEMMA TimelineMakesItems ==
  ASSUME NEW source, NEW e, TimedEntry(e), NEW i \in TimelineItem(source, e)
  PROVE  IsItem(i)
<1> DEFINE type    == InferType(e.kind, e.says)
           credits == e.group = "credits" /\ BankedAnnouncement(e)
           done    == \/ "completed" \in e.says
                      \/ ~e.preview /\ type = "direct" /\ "restored" \in e.says /\ "modal" \notin e.says
           open    == credits /\ e.end = NoTime
           start   == IF open THEN e.at ELSE e.start
           end     == IF open THEN e.at + Day ELSE e.end
           Is(stage) == [During(Evidence(source, "codexreset", e, stage, type), start, end)
                           EXCEPT !.completed = done, !.live = e.live]
<1>1. start \in Time /\ end \in Time /\ done \in BOOLEAN /\ e.live \in BOOLEAN
  BY PostsAssumption DEF TimedEntry, IsEntry, Time, NoTime
<1>2. PICK stage \in {"announced", "confirmed", "hint"} : i = Is(stage)
  BY DEF TimelineItem
<1>3. IsItem(Evidence(source, "codexreset", e, stage, type))
  BY EvidenceIsItem, InferredType DEF TimedEntry, Stages
<1> HIDE DEF type, start, end, done
<1>4. IsItem(During(Evidence(source, "codexreset", e, stage, type), start, end))
  BY <1>1, <1>3, ItemChanges
<1> QED
  BY <1>1, <1>2, <1>4, ItemChanges

LEMMA FeedMakesItems ==
  ASSUME NEW t, IsEntry(t), t.context \in Canon \cup {NoUrl}, NEW known, \A j \in known : IsItem(j),
         NEW i \in FeedItem(known, t)
  PROVE  IsItem(i)
<1> DEFINE Says(stage, type) == Evidence("reset_feed", "codexreset", t, stage, type)
           teased == t.tease /\ t.official /\ "reset" \in t.says
           found == IF known # {} THEN known
                    ELSE IF teased THEN {Says("hint", "direct")}
                    ELSE IF BankedAnnouncement(t)
                         THEN {During(Says("announced", "banked"), t.at, t.at + Day)}
                    ELSE {}
           threaded == IF t.context = NoUrl THEN found
                       ELSE {[j EXCEPT !.hint = t.context] : j \in found}
           thread == IF threaded # {} THEN {j.hint : j \in threaded}
                     ELSE {IF t.context # NoUrl THEN t.context ELSE CanonicalFrom(t)}
<1>1. \A stage \in Stages \ {"delayed"}, type \in Types : IsItem(Says(stage, type))
  BY EvidenceIsItem
<1>2. t.at \in Time /\ t.at + Day \in Time
  BY PostsAssumption DEF IsEntry, Time, NoTime
<1> HIDE DEF Says
<1>3. \A j \in found : IsItem(j)
  BY <1>1, <1>2, ItemChanges DEF Stages, Types
<1> HIDE DEF found
<1>4. \A j \in threaded : IsItem(j)
  <2>1. t.context # NoUrl => t.context \in Canon
    OBVIOUS
  <2> QED
    BY <1>3, <2>1, ItemChanges
<1> HIDE DEF threaded
<1>5. thread \subseteq Canon
  BY <1>4 DEF IsItem, IsEntry, CanonicalFrom
<1> HIDE DEF thread
<1>6. \/ i \in threaded
      \/ \E c \in thread : i = [Landed(Says("confirmed", InferType("hard", t.says))) EXCEPT !.hint = c]
  BY DEF FeedItem, Says, thread, threaded, found
<1>7. IsItem(Says("confirmed", InferType("hard", t.says)))
  BY <1>1, InferredType DEF Stages
<1>8. IsItem(Landed(Says("confirmed", InferType("hard", t.says))))
  BY <1>7, ItemChanges
<1> QED
  BY <1>4, <1>5, <1>6, <1>8, ItemChanges

LEMMA RssMakesItems ==
  ASSUME NEW r, IsEntry(r), r.lasts \in Time, NEW i \in RssItem(r)
  PROVE  IsItem(i)
<1> DEFINE type == InferType("none", r.says)
           done == "completed" \in r.says \/ r.closes
           timed == r.lasts # NoTime
           start == IF timed THEN r.at ELSE NoTime
           end == IF timed THEN r.at + r.lasts ELSE NoTime
           Is(stage) == [During(Evidence("radar_rss", "codexradar", r, stage, type), start, end)
                           EXCEPT !.completed = done]
<1>1. start \in Time /\ end \in Time /\ done \in BOOLEAN
  BY DEF IsEntry, Time, NoTime
<1>2. PICK stage \in {"announced", "confirmed", "hint"} : i = Is(stage)
  BY DEF RssItem
<1>3. IsItem(Evidence("radar_rss", "codexradar", r, stage, type))
  BY EvidenceIsItem, InferredType DEF Stages
<1> HIDE DEF type, start, end, done
<1>4. IsItem(During(Evidence("radar_rss", "codexradar", r, stage, type), start, end))
  BY <1>1, <1>3, ItemChanges
<1> QED
  BY <1>1, <1>2, <1>4, ItemChanges

WindowOf(r) ==
  /\ IsEntry(r) /\ r = [f \in DOMAIN r |-> r[f]]
  /\ {"id", "address", "official", "self", "own", "says", "at"} \subseteq DOMAIN r

LEMMA AccountMakesItems ==
  ASSUME NEW r, WindowOf(r), NEW source, NEW type \in Types
  PROVE  /\ IsItem(Observed(source, [r EXCEPT !.address = NoUrl, !.official = FALSE], type))
         /\ IsItem(Observed(source, [r EXCEPT !.official = FALSE], type))
<1>1. ASSUME NEW e, IsEntry(e)
      PROVE  IsItem(Observed(source, e, type))
  <2>1. IsItem(Evidence(source, "local_reference", e, "confirmed", type))
    BY <1>1, EvidenceIsItem DEF Stages
  <2> QED
    BY <2>1, ItemChanges DEF Observed
<1>2. IsEntry([r EXCEPT !.address = NoUrl, !.official = FALSE])
  BY DEF WindowOf, IsEntry
<1>3. IsEntry([r EXCEPT !.official = FALSE])
  BY DEF WindowOf, IsEntry
<1> QED
  BY <1>1, <1>2, <1>3

(* Whatever the sources, the reference account and the model answer, what   *)
(* the parsers make of it is an item as the monitor assumes its items are,  *)
(* so the theorems above hold of them.                                      *)
THEOREM ParsersMakeItems ==
  /\ \A source, e : TimedEntry(e) => \A i \in TimelineItem(source, e) : IsItem(i)
  /\ \A known, t :
       IsEntry(t) /\ t.context \in Canon \cup {NoUrl} /\ (\A j \in known : IsItem(j)) =>
         \A i \in FeedItem(known, t) : IsItem(i)
  /\ \A e : IsEntry(e) => \A i \in RadarItem(e) \cup HtmlItem(e) : IsItem(i)
  /\ \A r : IsEntry(r) /\ r.lasts \in Time => \A i \in RssItem(r) : IsItem(i)
  /\ \A r, t : WindowOf(r) => \A i \in ReferenceItem(r, t) \cup IncreaseItem(r) : IsItem(i)
  /\ \A known, t, answer : IsEntry(t) /\ answer.type \in Types =>
       \A i \in SemanticItem(known, t, answer) : IsItem(i)
<1>1. ASSUME NEW e, IsEntry(e), NEW i \in RadarItem(e) \cup HtmlItem(e)
      PROVE  IsItem(i)
  <2>1. CASE i \in RadarItem(e)
    <3>1. i = Evidence("radar_current", "codexradar", e, "hint", InferType("none", e.says))
      BY <2>1 DEF RadarItem
    <3> QED
      BY <1>1, <3>1, EvidenceIsItem, InferredType DEF Stages
  <2>2. CASE i \in HtmlItem(e)
    <3>1. i = Landed(Evidence("reset_html", "codexreset_org", e, "confirmed", InferType("hard", e.says)))
      BY <2>2 DEF HtmlItem
    <3>2. IsItem(Evidence("reset_html", "codexreset_org", e, "confirmed", InferType("hard", e.says)))
      BY <1>1, EvidenceIsItem, InferredType DEF Stages
    <3> QED
      BY <3>1, <3>2, ItemChanges
  <2> QED
    BY <1>1, <2>1, <2>2
<1>2. ASSUME NEW r, NEW t, WindowOf(r), NEW i \in ReferenceItem(r, t) \cup IncreaseItem(r)
      PROVE  IsItem(i)
  <2>1. CASE i \in ReferenceItem(r, t)
    BY <1>2, <2>1, AccountMakesItems DEF ReferenceItem, Types
  <2>2. CASE i \in IncreaseItem(r)
    <3>1. i = [Observed("reference_account_banked", [r EXCEPT !.official = FALSE], "banked")
                 EXCEPT !.hint = r.own]
      BY <2>2 DEF IncreaseItem
    <3>2. IsItem(Observed("reference_account_banked", [r EXCEPT !.official = FALSE], "banked"))
      BY <1>2, AccountMakesItems DEF Types
    <3>3. r.own \in Canon
      BY <1>2 DEF WindowOf, IsEntry
    <3> QED
      BY <3>1, <3>2, <3>3, ItemChanges
  <2> QED
    BY <1>2, <2>1, <2>2
<1>3. ASSUME NEW known, NEW t, NEW answer, IsEntry(t), answer.type \in Types,
             NEW i \in SemanticItem(known, t, answer)
      PROVE  IsItem(i)
  <2>1. i = Evidence("reset_feed_semantic", "codexreset", t, "hint", answer.type)
    BY <1>3 DEF SemanticItem
  <2> QED
    BY <1>3, <2>1, EvidenceIsItem DEF Stages
<1>4. \A source, e : TimedEntry(e) => \A i \in TimelineItem(source, e) : IsItem(i)
  BY TimelineMakesItems
<1>5. \A known, t :
        IsEntry(t) /\ t.context \in Canon \cup {NoUrl} /\ (\A j \in known : IsItem(j)) =>
          \A i \in FeedItem(known, t) : IsItem(i)
  BY FeedMakesItems
<1>6. \A r : IsEntry(r) /\ r.lasts \in Time => \A i \in RssItem(r) : IsItem(i)
  BY RssMakesItems
<1> QED
  BY <1>1, <1>2, <1>3, <1>4, <1>5, <1>6
=============================================================================
