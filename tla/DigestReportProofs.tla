------------------------ MODULE DigestReportProofs ------------------------
(***************************************************************************)
(* Proofs about DigestReport, for any keys, services, limit, bound on      *)
(* observations and number of dates told apart.  The two jobs only meet in *)
(* the items, the date gate and the loop; most of the invariant says how   *)
(* far the job of a date has come, so that what one commit promises is     *)
(* still true when the next is made, or the date is known to be torn.      *)
(***************************************************************************)
EXTENDS DigestReport, FiniteSetTheorems, TLAPS

OnePerKeyInBatch == \A j \in Jobs : \A b, c \in batch[j] : b.key = c.key => b = c

(* The loop is with the job that delivered a message and commits it.        *)
LoopIsWork ==
  \A j \in Jobs :
    /\ pc[j] \in {"marking", "gating", "saving"} <=> loop = j
    /\ pc[j] = "idle" <=> date[j] = 0
    /\ pc[j] = "saving" => j = Report

MarkedIsTold ==
  \A j \in Jobs : pc[j] = "marking" => batch[j] \subseteq told

(* A message under way is the first of its date, one delivered is followed  *)
(* by its gate, and the job of an older date has not passed today's.        *)
SendingIsFirst ==
  \A j \in Jobs :
    pc[j] = "sending" => copies[<<j, date[j]>>] = 0 \/ <<j, date[j]>> \in torn

ToldIsGated ==
  \A j \in Jobs : copies[<<j, day>>] > 0 =>
    \/ <<j, day>> \in torn \/ gate[j] = day
    \/ date[j] = day /\ pc[j] \in {"marking", "gating"}

OldIsUngated ==
  \A j \in Jobs : pc[j] \in {"sending", "marking", "gating"} /\ date[j] # day => gate[j] # day

DigestInv ==
  /\ TypeOK /\ OneItemPerKey /\ OnePerKeyInBatch /\ LoopIsWork /\ MarkedIsTold
  /\ SentIsTold /\ OncePerDate /\ SendingIsFirst /\ ToldIsGated /\ OldIsUngated
  /\ BaselineComplete

LEMMA DigestConstants ==
  /\ Report # Evening /\ NoJob \notin Jobs /\ Report \in Jobs /\ Evening \in Jobs
  /\ MaxObs \in [Keys -> Nat] /\ Cardinality(Days) \in Nat /\ Cardinality(Days) > 1
  /\ Days = 1..Cardinality(Days) /\ 1 \in Days /\ 0 \notin Days
  <1>1. Cardinality(Days) \in Nat /\ Cardinality(Days) > 1 /\ Days = 1..Cardinality(Days)
    BY DigestAssumption, FS_CardinalityType
  <1>2. 1 \in 1..Cardinality(Days) /\ 0 \notin 1..Cardinality(Days)
    BY <1>1
  <1> QED BY <1>1, <1>2, DigestAssumption DEF Jobs

LEMMA CappedAtTwo ==
  ASSUME NEW n \in 0..2
  PROVE  Min({n + 1, 2}) \in 0..2 /\ (n = 0 => Min({n + 1, 2}) = 1)
  <1>1. \E x \in {n + 1, 2} : \A y \in {n + 1, 2} : x <= y
    <2>1. CASE n + 1 <= 2
      BY <2>1
    <2>2. CASE 2 <= n + 1
      BY <2>2
    <2> QED BY <2>1, <2>2
  <1>2. /\ Min({n + 1, 2}) \in {n + 1, 2}
        /\ \A y \in {n + 1, 2} : Min({n + 1, 2}) <= y
    BY <1>1 DEF Min
  <1>3. PICK x \in {n + 1, 2} : x = Min({n + 1, 2}) /\ x <= n + 1 /\ x <= 2
    BY <1>2
  <1> QED BY <1>3

LEMMA DigestStarts == Init => DigestInv
  <1> SUFFICES ASSUME Init PROVE DigestInv
    OBVIOUS
  <1> USE DigestConstants DEF Init
  <1>1. TypeOK
    BY DEF TypeOK, Parts
  <1>2. OneItemPerKey /\ OnePerKeyInBatch /\ MarkedIsTold /\ SentIsTold
    BY DEF OneItemPerKey, OnePerKeyInBatch, MarkedIsTold, SentIsTold
  <1>3. LoopIsWork
    BY DEF LoopIsWork
  <1>4. OncePerDate /\ SendingIsFirst /\ ToldIsGated /\ OldIsUngated
    BY DEF OncePerDate, SendingIsFirst, ToldIsGated, OldIsUngated
  <1>5. BaselineComplete
    BY DEF BaselineComplete
  <1> QED BY <1>1, <1>2, <1>3, <1>4, <1>5 DEF DigestInv

-----------------------------------------------------------------------------
(* The items.                                                               *)

LEMMA ObserveStep ==
  ASSUME DigestInv, NEW k \in Keys, Observe(k) PROVE DigestInv'
  <1> USE DigestConstants DEF DigestInv
  <1>1. /\ obs[k] < MaxObs[k] /\ obs' = [obs EXCEPT ![k] = obs[k] + 1]
        /\ UNCHANGED <<gate, saved, day, part, loop, pc, batch, date, told, copies, torn>>
    BY DEF Observe, clock
  <1>2. /\ obs[k] \in Nat /\ issued[k] \in Nat /\ MaxObs[k] \in Nat
        /\ obs[k] + 1 \in Nat \ {0} /\ issued[k] + 1 \in Nat \ {0} /\ obs[k] + 1 <= MaxObs[k]
    BY <1>1 DEF TypeOK
  <1>3. \/ \E item \in UnsentOf(k) :
             /\ unsent' = (unsent \ {item}) \cup {[item EXCEPT !.upto = obs[k] + 1]}
             /\ issued' = issued
        \/ /\ UnsentOf(k) = {} /\ issued' = [issued EXCEPT ![k] = issued[k] + 1]
           /\ unsent' = unsent \cup {NewItem(k)}
    BY DEF Observe
  <1>4. /\ issued' \in [Keys -> Nat]
        /\ \A l \in Keys \ {k} : issued'[l] = issued[l]
        /\ issued'[k] = issued[k] \/ issued'[k] = issued[k] + 1
    <2>1. CASE issued' = issued
      BY <2>1 DEF TypeOK
    <2>2. CASE issued' = [issued EXCEPT ![k] = issued[k] + 1]
      <3>1. issued[k] + 1 \in Nat
        BY <1>2
      <3> QED BY <2>2, <3>1 DEF TypeOK
    <2> QED BY <1>3, <2>1, <2>2
  <1>5. \E new \in Item :
          /\ new.key = k /\ new \in unsent' /\ unsent' \subseteq unsent \cup {new}
          /\ \A i \in unsent : i.key # k => i \in unsent'
          /\ \A i \in unsent' : i.key = k => i = new
          /\ \A i \in unsent : i.key = k => i.id = new.id /\ issued'[k] = issued[k]
          /\ issued'[k] = issued[k] \/ new.id = issued'[k]
    <2>1. CASE \E item \in UnsentOf(k) :
                 /\ unsent' = (unsent \ {item}) \cup {[item EXCEPT !.upto = obs[k] + 1]}
                 /\ issued' = issued
      <3>1. PICK item \in UnsentOf(k) :
              unsent' = (unsent \ {item}) \cup {[item EXCEPT !.upto = obs[k] + 1]}
        BY <2>1
      <3>2. PICK new : new = [item EXCEPT !.upto = obs[k] + 1]
        OBVIOUS
      <3>3. item \in Item /\ item \in unsent /\ item.key = k
        BY <3>1 DEF UnsentOf, TypeOK
      <3>4. new \in Item /\ new.key = k /\ new.id = item.id
        BY <1>2, <3>2, <3>3 DEF Item
      <3>5. \A i \in unsent : i.key = k => i = item
        BY <3>3 DEF OneItemPerKey
      <3> QED BY <2>1, <3>1, <3>2, <3>3, <3>4, <3>5
    <2>2. CASE /\ UnsentOf(k) = {} /\ unsent' = unsent \cup {NewItem(k)}
               /\ issued' = [issued EXCEPT ![k] = issued[k] + 1]
      <3>1. /\ NewItem(k) \in Item /\ NewItem(k).key = k /\ NewItem(k).id = issued[k] + 1
        BY <1>2 DEF NewItem, Item
      <3>2. \A i \in unsent : i.key # k
        BY <2>2 DEF UnsentOf
      <3>3. issued'[k] = issued[k] + 1
        BY <2>2 DEF TypeOK
      <3> QED BY <2>2, <3>1, <3>2, <3>3
    <2> QED BY <1>3, <2>1, <2>2
  <1>6. TypeOK'
    <2>1. unsent' \subseteq Item
      BY <1>5 DEF TypeOK
    <2>2. obs' \in [Keys -> Nat] /\ \A l \in Keys : obs'[l] <= MaxObs[l]
      BY <1>1, <1>2 DEF TypeOK
    <2> QED BY <1>1, <1>4, <2>1, <2>2 DEF TypeOK
  <1>7. OneItemPerKey'
    BY <1>5 DEF OneItemPerKey
  <1>8. SentIsTold'
    <2> SUFFICES ASSUME NEW l \in Keys, NEW n \in 1..issued'[l]
                 PROVE  \E i \in unsent' \cup told : i.key = l /\ i.id = n
      BY <1>1 DEF SentIsTold
    <2>1. PICK new \in Item :
            /\ new.key = k /\ new \in unsent'
            /\ \A i \in unsent : i.key # k => i \in unsent'
            /\ \A i \in unsent : i.key = k => i.id = new.id /\ issued'[k] = issued[k]
            /\ issued'[k] = issued[k] \/ new.id = issued'[k]
      BY <1>5
    <2>2. ASSUME n \in 1..issued[l] PROVE \E i \in unsent' \cup told : i.key = l /\ i.id = n
      <3>1. PICK i \in unsent \cup told : i.key = l /\ i.id = n
        BY <2>2 DEF SentIsTold
      <3> QED BY <2>1, <3>1
    <2>3. ASSUME n \notin 1..issued[l] PROVE l = k /\ n = issued'[k]
      BY <1>2, <1>4, <2>3
    <2>4. ASSUME n \notin 1..issued[l] PROVE new.id = issued'[k]
      <3>1. issued'[k] # issued[k]
        BY <2>3, <2>4
      <3> QED BY <2>1, <3>1
    <2> QED BY <2>1, <2>2, <2>3, <2>4
  <1>9. OnePerKeyInBatch' /\ LoopIsWork' /\ MarkedIsTold' /\ OncePerDate'
    BY <1>1 DEF OnePerKeyInBatch, LoopIsWork, MarkedIsTold, OncePerDate
  <1>10. SendingIsFirst' /\ ToldIsGated' /\ OldIsUngated' /\ BaselineComplete'
    BY <1>1 DEF SendingIsFirst, ToldIsGated, OldIsUngated, BaselineComplete
  <1> QED BY <1>6, <1>7, <1>8, <1>9, <1>10

(* A step that changes no item, and no history of what is told.             *)
LEMMA ItemsStay ==
  ASSUME DigestInv, UNCHANGED <<unsent, issued, told>>
  PROVE  OneItemPerKey' /\ SentIsTold'
  BY DEF DigestInv, OneItemPerKey, SentIsTold

LEMMA StartStep ==
  ASSUME DigestInv, NEW j \in Jobs, Start(j) PROVE DigestInv'
  <1> USE DigestConstants DEF DigestInv
  <1>1. /\ loop = NoJob /\ pc[j] = "idle" /\ gate[j] # day
        /\ date' = [date EXCEPT ![j] = day] /\ pc' = [pc EXCEPT ![j] = "sending"]
        /\ UNCHANGED <<unsent, issued, gate, saved, day, part, loop, obs, told, copies, torn>>
    BY DEF Start, Due, clock, history
  <1>2. PICK items \in SUBSET unsent : batch' = [batch EXCEPT ![j] = items]
    BY DEF Start, Pending
  <1>3. /\ pc'[j] = "sending" /\ date'[j] = day /\ batch'[j] = items
        /\ \A i \in Jobs \ {j} : pc'[i] = pc[i] /\ date'[i] = date[i] /\ batch'[i] = batch[i]
    BY <1>1, <1>2 DEF TypeOK
  <1>4. TypeOK'
    BY <1>1, <1>2 DEF TypeOK
  <1>5. OnePerKeyInBatch'
    BY <1>2, <1>3 DEF OnePerKeyInBatch, OneItemPerKey
  <1>6. LoopIsWork'
    BY <1>1, <1>3 DEF LoopIsWork, TypeOK
  <1>7. MarkedIsTold' /\ OncePerDate'
    BY <1>1, <1>3 DEF MarkedIsTold, OncePerDate
  <1>8. SendingIsFirst'
    <2>1. copies[<<j, day>>] \in 0..2
      BY DEF TypeOK
    <2>2. copies[<<j, day>>] = 0 \/ <<j, day>> \in torn
      BY <1>1, <2>1 DEF ToldIsGated
    <2> QED BY <1>1, <1>3, <2>2 DEF SendingIsFirst
  <1>9. ToldIsGated' /\ OldIsUngated'
    BY <1>1, <1>3 DEF ToldIsGated, OldIsUngated
  <1>10. BaselineComplete'
    BY <1>1 DEF BaselineComplete
  <1> QED BY <1>1, <1>4, <1>5, <1>6, <1>7, <1>8, <1>9, <1>10, ItemsStay

LEMMA NothingStep ==
  ASSUME DigestInv, Nothing PROVE DigestInv'
  <1> USE DigestConstants DEF DigestInv
  <1>1. /\ loop = NoJob /\ pc[Evening] = "idle" /\ gate' = [gate EXCEPT ![Evening] = day]
        /\ UNCHANGED <<unsent, issued, saved, day, part, loop, pc, batch, date, obs, told, copies, torn>>
    BY DEF Nothing, clock, history
  <1>2. gate'[Evening] = day /\ \A i \in Jobs \ {Evening} : gate'[i] = gate[i]
    BY <1>1 DEF TypeOK
  <1>3. TypeOK'
    BY <1>1 DEF TypeOK
  <1>4. OnePerKeyInBatch' /\ LoopIsWork' /\ MarkedIsTold' /\ OncePerDate' /\ SendingIsFirst'
    BY <1>1 DEF OnePerKeyInBatch, LoopIsWork, MarkedIsTold, OncePerDate, SendingIsFirst
  <1>5. ToldIsGated' /\ OldIsUngated'
    BY <1>1, <1>2 DEF ToldIsGated, OldIsUngated
  <1>6. BaselineComplete'
    BY <1>1, <1>2 DEF BaselineComplete
  <1> QED BY <1>1, <1>3, <1>4, <1>5, <1>6, ItemsStay

-----------------------------------------------------------------------------
(* The end of a job, and its commits.                                       *)

(* A job that gives up: no commit of it is missing, or its date is torn.    *)
LEMMA Finished ==
  ASSUME DigestInv, NEW j \in Jobs, Finish(j)
  PROVE  /\ pc'[j] = "idle" /\ date'[j] = 0 /\ batch'[j] = {} /\ loop' = NoJob
         /\ \A i \in Jobs \ {j} : pc'[i] = pc[i] /\ date'[i] = date[i] /\ batch'[i] = batch[i]
         /\ pc' \in [Jobs -> {"idle", "sending", "marking", "gating", "saving"}]
         /\ batch' \in [Jobs -> SUBSET Item] /\ date' \in [Jobs -> Days \cup {0}]
         /\ loop' \in Jobs \cup {NoJob}
         /\ OnePerKeyInBatch'
  BY DigestConstants DEF DigestInv, TypeOK, Finish, OnePerKeyInBatch

LEMMA LostStep ==
  ASSUME DigestInv, NEW j \in Jobs, Lost(j) PROVE DigestInv'
  <1> USE DigestConstants DEF DigestInv
  <1>1. /\ loop = NoJob /\ pc[j] = "sending" /\ Finish(j)
        /\ UNCHANGED <<unsent, issued, gate, saved, day, part, obs, told, copies, torn>>
    BY DEF Lost, clock, history
  <1> HIDE DEF DigestInv
  <1>2. /\ pc'[j] = "idle" /\ date'[j] = 0 /\ batch'[j] = {} /\ loop' = NoJob
        /\ \A i \in Jobs \ {j} : pc'[i] = pc[i] /\ date'[i] = date[i] /\ batch'[i] = batch[i]
        /\ pc' \in [Jobs -> {"idle", "sending", "marking", "gating", "saving"}]
        /\ batch' \in [Jobs -> SUBSET Item] /\ date' \in [Jobs -> Days \cup {0}]
        /\ loop' \in Jobs \cup {NoJob} /\ OnePerKeyInBatch'
    BY <1>1, Finished
  <1> USE DEF DigestInv
  <1>3. TypeOK'
    BY <1>1, <1>2 DEF TypeOK
  <1>4. LoopIsWork'
    BY <1>1, <1>2 DEF LoopIsWork
  <1>5. MarkedIsTold' /\ OncePerDate' /\ SendingIsFirst'
    BY <1>1, <1>2 DEF MarkedIsTold, OncePerDate, SendingIsFirst
  <1>6. ToldIsGated' /\ OldIsUngated' /\ BaselineComplete'
    BY <1>1, <1>2 DEF ToldIsGated, OldIsUngated, BaselineComplete
  <1> QED BY <1>1, <1>2, <1>3, <1>4, <1>5, <1>6, ItemsStay

LEMMA RaiseStep ==
  ASSUME DigestInv, NEW j \in Jobs, Raise(j) PROVE DigestInv'
  <1> USE DigestConstants DEF DigestInv
  <1>1. /\ loop = j /\ Finish(j) /\ torn' = torn \cup Unfinished
        /\ UNCHANGED <<unsent, issued, gate, saved, day, part, obs, told, copies>>
    BY DEF Raise, clock
  <1> HIDE DEF DigestInv
  <1>2. /\ pc'[j] = "idle" /\ date'[j] = 0 /\ batch'[j] = {} /\ loop' = NoJob
        /\ \A i \in Jobs \ {j} : pc'[i] = pc[i] /\ date'[i] = date[i] /\ batch'[i] = batch[i]
        /\ pc' \in [Jobs -> {"idle", "sending", "marking", "gating", "saving"}]
        /\ batch' \in [Jobs -> SUBSET Item] /\ date' \in [Jobs -> Days \cup {0}]
        /\ loop' \in Jobs \cup {NoJob} /\ OnePerKeyInBatch'
    BY <1>1, Finished
  <1> USE DEF DigestInv
  <1>3. /\ date[j] \in Days /\ torn \subseteq torn' /\ <<j, date[j]>> \in torn'
        /\ torn' \subseteq Jobs \X Days
    <2>1. pc[j] \in {"marking", "gating", "saving"} /\ date[j] # 0 /\ date[j] \in Days \cup {0}
      BY <1>1 DEF LoopIsWork, TypeOK
    <2>2. \A i \in Jobs : pc[i] \in {"marking", "gating", "saving"} => i = j
      BY <1>1 DEF LoopIsWork
    <2> QED BY <1>1, <2>1, <2>2 DEF Unfinished, TypeOK
  <1>4. TypeOK'
    BY <1>1, <1>2, <1>3 DEF TypeOK
  <1>5. LoopIsWork'
    BY <1>1, <1>2 DEF LoopIsWork
  <1>6. MarkedIsTold' /\ OncePerDate' /\ SendingIsFirst'
    BY <1>1, <1>2, <1>3 DEF MarkedIsTold, OncePerDate, SendingIsFirst
  <1>7. ToldIsGated' /\ OldIsUngated' /\ BaselineComplete'
    BY <1>1, <1>2, <1>3 DEF ToldIsGated, OldIsUngated, BaselineComplete
  <1> QED BY <1>1, <1>2, <1>4, <1>5, <1>6, <1>7, ItemsStay

LEMMA CrashStep == ASSUME DigestInv, Crash PROVE DigestInv'
  <1> USE DigestConstants DEF DigestInv
  <1>1. /\ torn' = torn \cup Unfinished /\ loop' = NoJob
        /\ pc' = [j \in Jobs |-> "idle"] /\ batch' = [j \in Jobs |-> {}]
        /\ date' = [j \in Jobs |-> 0]
        /\ UNCHANGED <<unsent, issued, gate, saved, day, part, obs, told, copies>>
    BY DEF Crash, clock
  <1>2. /\ torn \subseteq torn' /\ torn' \subseteq Jobs \X Days
        /\ \A j \in Jobs : pc[j] \in {"marking", "gating", "saving"} => <<j, date[j]>> \in torn'
    BY <1>1 DEF Unfinished, TypeOK, LoopIsWork
  <1>3. TypeOK'
    BY <1>1, <1>2 DEF TypeOK
  <1>4. OnePerKeyInBatch' /\ LoopIsWork' /\ MarkedIsTold' /\ OncePerDate' /\ SendingIsFirst'
    BY <1>1, <1>2 DEF OnePerKeyInBatch, LoopIsWork, MarkedIsTold, OncePerDate, SendingIsFirst
  <1>5. ToldIsGated' /\ OldIsUngated'
    BY <1>1, <1>2 DEF ToldIsGated, OldIsUngated
  <1>6. BaselineComplete'
    BY <1>1, <1>2 DEF BaselineComplete, LoopIsWork
  <1> QED BY <1>1, <1>3, <1>4, <1>5, <1>6, ItemsStay

LEMMA DeliveredStep ==
  ASSUME DigestInv, NEW j \in Jobs, Delivered(j) PROVE DigestInv'
  <1> USE DigestConstants DEF DigestInv
  <1>1. /\ loop = NoJob /\ pc[j] = "sending" /\ loop' = j
        /\ pc' = [pc EXCEPT ![j] = "marking"]
        /\ UNCHANGED <<unsent, issued, gate, saved, day, part, batch, date, obs, torn>>
    BY DEF Delivered, clock
  <1>2. /\ told' = {i \in told : ~InBatch(j, i)} \cup batch[j]
        /\ copies' = IF <<j, date[j]>> \in torn THEN copies
                     ELSE [copies EXCEPT ![<<j, date[j]>>] = Min({copies[<<j, date[j]>>] + 1, 2})]
    BY DEF Delivered
  <1>3. pc'[j] = "marking" /\ \A i \in Jobs \ {j} : pc'[i] = pc[i]
    BY <1>1 DEF TypeOK
  <1>4. date[j] \in Days /\ <<j, date[j]>> \in Jobs \X Days
    BY <1>1 DEF LoopIsWork, TypeOK
  <1>5. \A i \in told : \E t \in told' : t.key = i.key /\ t.id = i.id
    BY <1>2 DEF InBatch
  <1>6. \A i \in Jobs, d \in Days :
          <<i, d>> # <<j, date[j]>> => copies'[<<i, d>>] = copies[<<i, d>>]
    BY <1>2, <1>4 DEF TypeOK
  <1>7. /\ copies' \in [Jobs \X Days -> 0..2]
        /\ copies'[<<j, date[j]>>] <= 1
    <2>1. PICK n \in 0..2 : n = copies[<<j, date[j]>>]
      BY <1>4 DEF TypeOK
    <2>2. Min({n + 1, 2}) \in 0..2 /\ (n = 0 => Min({n + 1, 2}) = 1)
      BY CappedAtTwo
    <2>3. n = 0 \/ <<j, date[j]>> \in torn
      BY <1>1, <2>1 DEF SendingIsFirst
    <2>4. CASE <<j, date[j]>> \in torn
      BY <1>2, <1>4, <2>4 DEF TypeOK, OncePerDate
    <2>5. CASE <<j, date[j]>> \notin torn
      BY <1>2, <1>4, <2>1, <2>2, <2>3, <2>5 DEF TypeOK
    <2> QED BY <2>4, <2>5
  <1>8. TypeOK'
    <2>1. told' \subseteq Item
      BY <1>2 DEF TypeOK
    <2>2. pc' \in [Jobs -> {"idle", "sending", "marking", "gating", "saving"}]
      BY <1>1 DEF TypeOK
    <2> QED BY <1>1, <1>7, <2>1, <2>2 DEF TypeOK
  <1>9. OneItemPerKey' /\ OnePerKeyInBatch'
    BY <1>1 DEF OneItemPerKey, OnePerKeyInBatch
  <1>10. LoopIsWork'
    BY <1>1, <1>3 DEF LoopIsWork
  <1>11. MarkedIsTold'
    <2>1. \A i \in Jobs \ {j} : pc[i] # "marking"
      BY <1>1 DEF LoopIsWork
    <2> QED BY <1>1, <1>2, <1>3, <2>1 DEF MarkedIsTold
  <1>12. SentIsTold'
    <2> SUFFICES ASSUME NEW k \in Keys, NEW n \in 1..issued[k]
                 PROVE  \E i \in unsent \cup told' : i.key = k /\ i.id = n
      BY <1>1 DEF SentIsTold
    <2>1. PICK i \in unsent \cup told : i.key = k /\ i.id = n
      BY DEF SentIsTold
    <2> QED BY <1>5, <2>1
  <1>13. OncePerDate'
    <2> SUFFICES ASSUME NEW i \in Jobs, NEW d \in Days PROVE copies'[<<i, d>>] <= 1
      BY DEF OncePerDate
    <2>1. CASE <<i, d>> = <<j, date[j]>>
      BY <1>7, <2>1
    <2>2. CASE <<i, d>> # <<j, date[j]>>
      BY <1>6, <2>2 DEF OncePerDate
    <2> QED BY <2>1, <2>2
  <1>14. SendingIsFirst'
    <2> SUFFICES ASSUME NEW i \in Jobs, pc'[i] = "sending"
                 PROVE  copies'[<<i, date[i]>>] = 0 \/ <<i, date[i]>> \in torn
      BY <1>1 DEF SendingIsFirst
    <2>1. i # j /\ pc[i] = "sending" /\ date[i] \in Days
      BY <1>3 DEF LoopIsWork, TypeOK
    <2> QED BY <1>6, <2>1 DEF SendingIsFirst
  <1>15. ToldIsGated'
    <2> SUFFICES ASSUME NEW i \in Jobs, copies'[<<i, day>>] > 0
                 PROVE  \/ <<i, day>> \in torn \/ gate[i] = day
                        \/ date[i] = day /\ pc'[i] \in {"marking", "gating"}
      BY <1>1 DEF ToldIsGated
    <2>0. day \in Days
      BY DEF TypeOK
    <2>1. CASE <<i, day>> = <<j, date[j]>>
      BY <1>3, <2>1
    <2>2. CASE <<i, day>> # <<j, date[j]>>
      <3>1. copies[<<i, day>>] > 0
        BY <1>6, <2>0, <2>2
      <3>2. date[i] = day /\ pc[i] \in {"marking", "gating"} => FALSE
        BY <1>1 DEF LoopIsWork
      <3> QED BY <3>1, <3>2 DEF ToldIsGated
    <2> QED BY <2>1, <2>2
  <1>16. OldIsUngated'
    BY <1>1, <1>3 DEF OldIsUngated
  <1>17. BaselineComplete'
    BY <1>1 DEF BaselineComplete
  <1> QED BY <1>8, <1>9, <1>10, <1>11, <1>12, <1>13, <1>14, <1>15, <1>16, <1>17

LEMMA MarkStep ==
  ASSUME DigestInv, NEW j \in Jobs, MarkSent(j) PROVE DigestInv'
  <1> USE DigestConstants DEF DigestInv
  <1>1. /\ loop = j /\ pc[j] = "marking" /\ unsent' = unsent \ Marked(j)
        /\ pc' = [pc EXCEPT ![j] = "gating"] /\ batch' = [batch EXCEPT ![j] = {}]
        /\ UNCHANGED <<issued, gate, saved, day, part, loop, date, obs, told, copies, torn>>
    BY DEF MarkSent, clock, history
  <1>2. /\ pc'[j] = "gating" /\ batch'[j] = {}
        /\ \A i \in Jobs \ {j} : pc'[i] = pc[i] /\ batch'[i] = batch[i]
    BY <1>1 DEF TypeOK
  <1>3. TypeOK'
    BY <1>1 DEF TypeOK
  <1>4. OneItemPerKey' /\ OnePerKeyInBatch'
    BY <1>1, <1>2 DEF OneItemPerKey, OnePerKeyInBatch
  <1>5. LoopIsWork'
    BY <1>1, <1>2 DEF LoopIsWork
  <1>6. MarkedIsTold' /\ OncePerDate' /\ SendingIsFirst'
    BY <1>1, <1>2 DEF MarkedIsTold, OncePerDate, SendingIsFirst
  <1>7. SentIsTold'
    <2> SUFFICES ASSUME NEW k \in Keys, NEW n \in 1..issued[k]
                 PROVE  \E i \in unsent' \cup told : i.key = k /\ i.id = n
      BY <1>1 DEF SentIsTold
    <2>1. PICK i \in unsent \cup told : i.key = k /\ i.id = n
      BY DEF SentIsTold
    <2>2. CASE i \in unsent' \cup told
      BY <2>1, <2>2
    <2>3. CASE i \in Marked(j)
      <3>1. PICK b \in batch[j] : b.key = i.key /\ b.id = i.id
        BY <2>3 DEF Marked, InBatch
      <3>2. b \in told
        BY <1>1, <3>1 DEF MarkedIsTold
      <3> QED BY <2>1, <3>1, <3>2
    <2> QED BY <1>1, <2>1, <2>2, <2>3
  <1>8. ToldIsGated' /\ OldIsUngated' /\ BaselineComplete'
    BY <1>1, <1>2 DEF ToldIsGated, OldIsUngated, BaselineComplete
  <1> QED BY <1>3, <1>4, <1>5, <1>6, <1>7, <1>8

LEMMA GateStep ==
  ASSUME DigestInv, NEW j \in Jobs, SetGate(j) PROVE DigestInv'
  <1> USE DigestConstants DEF DigestInv
  <1>1. /\ loop = j /\ pc[j] = "gating" /\ gate' = [gate EXCEPT ![j] = date[j]]
        /\ UNCHANGED <<unsent, issued, saved, day, part, obs, told, copies, torn>>
    BY DEF SetGate, GateKey, clock, history
  <1>2. gate'[j] = date[j] /\ \A i \in Jobs \ {j} : gate'[i] = gate[i]
    BY <1>1 DEF TypeOK
  <1>3. date[j] \in Days
    BY <1>1 DEF LoopIsWork, TypeOK
  <1>4. \/ j = Evening /\ Finish(j)
        \/ j = Report /\ pc' = [pc EXCEPT ![j] = "saving"] /\ UNCHANGED <<loop, batch, date>>
    BY DEF SetGate
  <1> HIDE DEF DigestInv
  <1>5. /\ pc' \in [Jobs -> {"idle", "sending", "marking", "gating", "saving"}]
        /\ batch' \in [Jobs -> SUBSET Item] /\ date' \in [Jobs -> Days \cup {0}]
        /\ loop' \in Jobs \cup {NoJob} /\ OnePerKeyInBatch'
        /\ \A i \in Jobs \ {j} : pc'[i] = pc[i] /\ date'[i] = date[i] /\ batch'[i] = batch[i]
        /\ \/ j = Evening /\ pc'[j] = "idle" /\ date'[j] = 0 /\ batch'[j] = {} /\ loop' = NoJob
           \/ j = Report /\ pc'[j] = "saving" /\ date'[j] = date[j] /\ loop' = j
    <2>1. CASE j = Evening /\ Finish(j)
      BY <2>1, Finished
    <2>2. CASE j = Report /\ pc' = [pc EXCEPT ![j] = "saving"] /\ UNCHANGED <<loop, batch, date>>
      BY <1>1, <2>2 DEF DigestInv, TypeOK, OnePerKeyInBatch
    <2> QED BY <1>4, <2>1, <2>2
  <1> USE DEF DigestInv
  <1>6. TypeOK'
    <2>1. gate' \in [Jobs -> Days \cup {0}]
      BY <1>1, <1>3 DEF TypeOK
    <2> QED BY <1>1, <1>5, <2>1 DEF TypeOK
  <1>7. LoopIsWork'
    BY <1>1, <1>5 DEF LoopIsWork
  <1>8. MarkedIsTold' /\ OncePerDate' /\ SendingIsFirst'
    BY <1>1, <1>5 DEF MarkedIsTold, OncePerDate, SendingIsFirst
  <1>9. ToldIsGated'
    <2> SUFFICES ASSUME NEW i \in Jobs, copies[<<i, day>>] > 0
                 PROVE  \/ <<i, day>> \in torn \/ gate'[i] = day
                        \/ date'[i] = day /\ pc'[i] \in {"marking", "gating"}
      BY <1>1 DEF ToldIsGated
    <2>1. \/ <<i, day>> \in torn \/ gate[i] = day
          \/ date[i] = day /\ pc[i] \in {"marking", "gating"}
      BY DEF ToldIsGated
    <2>2. CASE i = j
      BY <1>1, <1>2, <2>1, <2>2 DEF OldIsUngated
    <2>3. CASE i # j
      BY <1>2, <1>5, <2>1, <2>3
    <2> QED BY <2>2, <2>3
  <1>10. OldIsUngated'
    BY <1>1, <1>2, <1>5 DEF OldIsUngated
  <1>11. BaselineComplete'
    BY <1>1, <1>2, <1>5 DEF BaselineComplete
  <1> QED BY <1>1, <1>5, <1>6, <1>7, <1>8, <1>9, <1>10, <1>11, ItemsStay

LEMMA SaveStep == ASSUME DigestInv, Save PROVE DigestInv'
  <1> USE DigestConstants DEF DigestInv
  <1>1. /\ loop = Report /\ pc[Report] = "saving"
        /\ UNCHANGED <<unsent, issued, gate, day, part, obs, told, copies, torn>>
    BY DEF Save, clock, history
  <1>2. CASE /\ \E s \in Missing(Report) : saved' = saved \cup {<<s, date[Report]>>}
             /\ UNCHANGED <<loop, pc, batch, date>>
    <2>1. saved \subseteq saved' /\ saved' \subseteq Services \X Days
      BY <1>1, <1>2 DEF Missing, LoopIsWork, TypeOK
    <2>2. TypeOK'
      BY <1>1, <1>2, <2>1 DEF TypeOK
    <2>3. OnePerKeyInBatch' /\ LoopIsWork' /\ MarkedIsTold' /\ OncePerDate' /\ SendingIsFirst'
      BY <1>1, <1>2 DEF OnePerKeyInBatch, LoopIsWork, MarkedIsTold, OncePerDate, SendingIsFirst
    <2>4. ToldIsGated' /\ OldIsUngated' /\ BaselineComplete'
      BY <1>1, <1>2, <2>1 DEF ToldIsGated, OldIsUngated, BaselineComplete
    <2> QED BY <1>1, <2>2, <2>3, <2>4, ItemsStay
  <1>3. CASE Missing(Report) = {} /\ saved' = saved /\ Finish(Report)
    <2> HIDE DEF DigestInv
    <2>1. /\ pc'[Report] = "idle" /\ date'[Report] = 0 /\ batch'[Report] = {} /\ loop' = NoJob
          /\ \A i \in Jobs \ {Report} : pc'[i] = pc[i] /\ date'[i] = date[i] /\ batch'[i] = batch[i]
          /\ pc' \in [Jobs -> {"idle", "sending", "marking", "gating", "saving"}]
          /\ batch' \in [Jobs -> SUBSET Item] /\ date' \in [Jobs -> Days \cup {0}]
          /\ loop' \in Jobs \cup {NoJob} /\ OnePerKeyInBatch'
      BY <1>3, Finished
    <2> USE DEF DigestInv
    <2>2. TypeOK'
      BY <1>1, <1>3, <2>1 DEF TypeOK
    <2>3. LoopIsWork'
      BY <1>1, <2>1 DEF LoopIsWork
    <2>4. MarkedIsTold' /\ OncePerDate' /\ SendingIsFirst'
      BY <1>1, <2>1 DEF MarkedIsTold, OncePerDate, SendingIsFirst
    <2>5. ToldIsGated' /\ OldIsUngated'
      BY <1>1, <2>1 DEF ToldIsGated, OldIsUngated
    <2>6. BaselineComplete'
      BY <1>1, <1>3, <2>1 DEF BaselineComplete, Missing
    <2> QED BY <1>1, <2>1, <2>2, <2>3, <2>4, <2>5, <2>6, ItemsStay
  <1> QED BY <1>2, <1>3 DEF Save

LEMMA LaterStep == ASSUME DigestInv, NEW p \in Parts \X Parts, Later(p) PROVE DigestInv'
  <1> USE DigestConstants DEF DigestInv
  <1>1. part' = p[2] /\ UNCHANGED <<unsent, issued, gate, saved, day, loop, pc, batch, date,
                                    obs, told, copies, torn>>
    BY DEF Later, history
  <1>2. TypeOK'
    BY <1>1 DEF TypeOK
  <1>3. OnePerKeyInBatch' /\ LoopIsWork' /\ MarkedIsTold' /\ OncePerDate' /\ SendingIsFirst'
    BY <1>1 DEF OnePerKeyInBatch, LoopIsWork, MarkedIsTold, OncePerDate, SendingIsFirst
  <1>4. ToldIsGated' /\ OldIsUngated' /\ BaselineComplete'
    BY <1>1 DEF ToldIsGated, OldIsUngated, BaselineComplete
  <1> QED BY <1>1, <1>2, <1>3, <1>4, ItemsStay

(* The date that is given up is no job's, so nothing it was used for is     *)
(* under way; the new one starts with no message and no gate.               *)
LEMMA MidnightStep == ASSUME DigestInv, Midnight PROVE DigestInv'
  <1> USE DigestConstants DEF DigestInv
  <1>1. PICK new : new = (day % Cardinality(Days)) + 1
    OBVIOUS
  <1>2. new \in Days /\ new # 0
    <2>1. \A n \in Nat : \A d \in 1..n : (d % n) + 1 \in 1..n
      OBVIOUS
    <2> QED BY <1>1, <2>1 DEF TypeOK
  <1>3. /\ \A j \in Jobs : date[j] # new
        /\ day' = new /\ part' = "night"
        /\ gate' = [j \in Jobs |-> IF gate[j] = new THEN 0 ELSE gate[j]]
        /\ saved' = {sd \in saved : sd[2] # new}
        /\ copies' = [jd \in Jobs \X Days |-> IF jd[2] = new THEN 0 ELSE copies[jd]]
        /\ torn' = {jd \in torn : jd[2] # new}
        /\ UNCHANGED <<unsent, issued, loop, pc, batch, date, obs, told>>
    BY <1>1 DEF Midnight
  <1>4. TypeOK'
    BY <1>2, <1>3 DEF TypeOK, Parts
  <1>5. OnePerKeyInBatch' /\ LoopIsWork' /\ MarkedIsTold'
    BY <1>3 DEF OnePerKeyInBatch, LoopIsWork, MarkedIsTold
  <1>6. /\ \A j \in Jobs, d \in Days :
             copies'[<<j, d>>] = IF d = new THEN 0 ELSE copies[<<j, d>>]
        /\ \A j \in Jobs, d \in Days \ {new} : <<j, d>> \in torn' <=> <<j, d>> \in torn
    BY <1>3
  <1>7. OncePerDate'
    BY <1>6 DEF OncePerDate
  <1>8. SendingIsFirst'
    <2>1. \A j \in Jobs : pc[j] = "sending" => date[j] \in Days \ {new}
      BY <1>3 DEF LoopIsWork, TypeOK
    <2> QED BY <1>3, <1>6, <2>1 DEF SendingIsFirst
  <1>9. ToldIsGated' /\ OldIsUngated'
    <2>1. \A j \in Jobs : copies'[<<j, new>>] = 0
      BY <1>2, <1>6
    <2>2. \A j \in Jobs : gate'[j] # new
      BY <1>2, <1>3
    <2>3. \A j \in Jobs : ~(copies'[<<j, day'>>] > 0)
      <3>1. day' = new
        BY <1>3
      <3>2. \A j \in Jobs : copies'[<<j, day'>>] = 0
        BY ONLY <2>1, <3>1
      <3>3. ASSUME NEW j \in Jobs PROVE ~(copies'[<<j, day'>>] > 0)
        <4>1. PICK n : n = copies'[<<j, day'>>]
          OBVIOUS
        <4>2. n = 0
          BY <3>2, <4>1
        <4>3. ~(n > 0)
          BY ONLY <4>2
        <4> QED BY ONLY <4>1, <4>3
      <3> QED BY ONLY <3>3
    <2>4. \A j \in Jobs : gate'[j] # day'
      BY <1>3, <2>2
    <2> QED BY <2>3, <2>4 DEF ToldIsGated, OldIsUngated
  <1>10. BaselineComplete'
    <2>1. gate'[Report] = IF gate[Report] = new THEN 0 ELSE gate[Report]
      BY <1>3
    <2>2. CASE gate[Report] = new
      BY <2>1, <2>2 DEF BaselineComplete
    <2>3. CASE gate[Report] = 0
      BY <2>1, <2>3 DEF BaselineComplete
    <2>4. CASE gate[Report] \in Days \ {new}
      <3>1. gate'[Report] = gate[Report] /\ gate[Report] > 0
        BY <2>1, <2>4
      <3>2. \A s \in Services : <<s, gate[Report]>> \in saved => <<s, gate[Report]>> \in saved'
        BY <1>3, <2>4
      <3> QED BY <1>3, <1>6, <2>4, <3>1, <3>2 DEF BaselineComplete
    <2> QED BY <2>2, <2>3, <2>4 DEF TypeOK
  <1> QED BY <1>3, <1>4, <1>5, <1>7, <1>8, <1>9, <1>10, ItemsStay

LEMMA TimeStep == ASSUME DigestInv, TimePasses PROVE DigestInv'
  BY LaterStep, MidnightStep DEF TimePasses, Parts

LEMMA DigestStutters == ASSUME DigestInv, UNCHANGED vars PROVE DigestInv'
  <1> USE DEF vars, clock, history, DigestInv
  <1>1. TypeOK' /\ OnePerKeyInBatch' /\ LoopIsWork' /\ MarkedIsTold' /\ OncePerDate'
    BY DEF TypeOK, OnePerKeyInBatch, LoopIsWork, MarkedIsTold, OncePerDate
  <1>2. SendingIsFirst' /\ ToldIsGated' /\ OldIsUngated' /\ BaselineComplete'
    BY DEF SendingIsFirst, ToldIsGated, OldIsUngated, BaselineComplete
  <1> QED BY <1>1, <1>2, ItemsStay

LEMMA DigestStep == DigestInv /\ [Next]_vars => DigestInv'
  <1> SUFFICES ASSUME DigestInv, [Next]_vars PROVE DigestInv'
    OBVIOUS
  <1>1. CASE \E k \in Keys : Observe(k)
    BY <1>1, ObserveStep
  <1>2. ASSUME NEW j \in Jobs, Step(j) PROVE DigestInv'
    BY <1>2, StartStep, LostStep, DeliveredStep, MarkStep, GateStep, RaiseStep DEF Step
  <1>3. CASE Nothing \/ Save \/ Crash \/ TimePasses
    BY <1>3, NothingStep, SaveStep, CrashStep, TimeStep
  <1>4. CASE UNCHANGED vars
    BY <1>4, DigestStutters
  <1> QED BY <1>1, <1>2, <1>3, <1>4 DEF Next

-----------------------------------------------------------------------------
(* The results.                                                             *)

(* The invariant holds of every run of the two jobs, with or without the    *)
(* fairness of the scheduler.                                               *)
THEOREM DigestInvHolds == Spec => []DigestInv
  BY DigestStarts, DigestStep, PTL DEF Spec

(* A date gets a second report, or a second digest, only after a failure    *)
(* between the delivery and the commit of the date gate.                    *)
THEOREM DatesAreToldOnce == FairSpec => []OncePerDate
  <1>1. DigestInv => OncePerDate
    BY DEF DigestInv
  <1> QED BY <1>1, DigestInvHolds, PTL DEF FairSpec

(* The gate of the report does not get ahead of the daily rows.             *)
THEOREM BaselinesAreComplete == FairSpec => []BaselineComplete
  <1>1. DigestInv => BaselineComplete
    BY DEF DigestInv
  <1> QED BY <1>1, DigestInvHolds, PTL DEF FairSpec

(* A subject is in one pending item at most: its observations are merged.   *)
THEOREM SubjectsHaveOneItem == FairSpec => []OneItemPerKey
  <1>1. DigestInv => OneItemPerKey
    BY DEF DigestInv
  <1> QED BY <1>1, DigestInvHolds, PTL DEF FairSpec

(* No item leaves the pending ones untold: every item ever started for a    *)
(* subject, its second and its third too, is pending or was held by a       *)
(* message that was delivered.  What MarkSent marks by id is what the       *)
(* message held, though observations are merged into it meanwhile.          *)
THEOREM SentItemsAreTold == FairSpec => []SentIsTold
  <1>1. DigestInv => SentIsTold
    BY DEF DigestInv
  <1> QED BY <1>1, DigestInvHolds, PTL DEF FairSpec
=============================================================================
