------------------------- MODULE EventEngineProofs -------------------------
(***************************************************************************)
(* Proofs about EventEngine, for any jobs, rules, keys, cooldown, cap and  *)
(* bounds that satisfy EngineAssumption, and about the ticks of PatrolJobs *)
(* that call it, for any sources, subjects, configurations and threshold   *)
(* that satisfy PatrolAssumption.                                          *)
(***************************************************************************)
EXTENDS PatrolJobs, SequenceTheorems, FiniteSetTheorems, TLAPS

-----------------------------------------------------------------------------
(* Types.  TypeOK is inductive together with the fact that a job that      *)
(* waits for an alert, or inserts, still has the finding in its list, and  *)
(* that a job that announces a recovery still has the row in its snapshot. *)

Pending ==
  \A j \in Jobs :
    /\ pc[j] \in {"alerting", "inserting"} => todo[j] # <<>>
    /\ pc[j] \in {"telling", "resolving"} => snap[j] # {}

TypeInv == TypeOK /\ Pending

(* The findings a cycle may be given form a sequence of findings.          *)
LEMMA FindingsAreSeq ==
  ASSUME NEW scope, NEW f \in FindingsOf(scope)
  PROVE  /\ f \in Seq(Finding)
         /\ \A i \in DOMAIN f : f[i].key \in KeysOf(scope)
<1>1. PICK n \in 0..MaxFindings :
        f \in [1..n -> {g \in Finding : /\ g.key \in KeysOf(scope)
                                        /\ g.immediate \in Urgency[g.key]}]
  BY DEF FindingsOf
<1>2. n \in Nat
  BY <1>1, EngineAssumption
<1>3. f \in [1..n -> Finding]
  BY <1>1
<1>4. f \in Seq(Finding)
  BY <1>2, <1>3
<1> QED
  BY <1>1, <1>4

(* The head of a list of findings is a finding, and its tail a list.       *)
LEMMA HeadTail ==
  ASSUME NEW s \in Seq(Finding), s # <<>>
  PROVE  /\ Head(s) \in Finding
         /\ Head(s).key \in Keys /\ Head(s).immediate \in BOOLEAN
         /\ Tail(s) \in Seq(Finding)
         /\ Head(s) = s[1] /\ 1 \in DOMAIN s
         /\ \A i \in DOMAIN Tail(s) : i + 1 \in DOMAIN s /\ Tail(s)[i] = s[i + 1]
<1>1. /\ Head(s) \in Finding /\ Tail(s) \in Seq(Finding)
      /\ Len(Tail(s)) = Len(s) - 1
      /\ \A i \in 1..Len(Tail(s)) : Tail(s)[i] = s[i + 1]
  BY HeadTailProperties
<1>2. Len(s) \in Nat /\ Len(s) # 0 /\ DOMAIN s = 1..Len(s) /\ Head(s) = s[1]
  OBVIOUS
<1>3. DOMAIN Tail(s) = 1..Len(Tail(s))
  BY <1>1
<1> QED
  BY <1>1, <1>2, <1>3 DEF Finding

(* open_by_key holds open rows of the scope, and one for each open key.    *)
LEMMA Snapshot ==
  ASSUME NEW scope, rows \subseteq Row
  PROVE  /\ OpenByKey(scope) \subseteq rows
         /\ \A r \in OpenByKey(scope) : r.key \in KeysOf(scope)
         /\ \A r \in rows : r.key \in KeysOf(scope) =>
              \E q \in OpenByKey(scope) : q.key = r.key
<1>1. \A k \in {r.key : r \in rows} :
        /\ (CHOOSE r \in rows : r.key = k) \in rows
        /\ (CHOOSE r \in rows : r.key = k).key = k
  OBVIOUS
<1> QED
  BY <1>1 DEF OpenByKey

LEMMA StaleInSnap ==
  ASSUME NEW j \in Jobs, snap[j] # {}
  PROVE  Stale(j) \in snap[j]
  BY DEF Stale

(* The keys of recoveries cut off before their commit are keys.            *)
LEMMA TornKeys ==
  ASSUME TypeInv, NEW js \in SUBSET Jobs
  PROVE  Torn(js) \subseteq Keys
<1>1. ASSUME NEW i \in js, pc[i] = "resolving"
      PROVE  Stale(i).key \in Keys
  <2>1. snap[i] # {} /\ snap[i] \subseteq Row
    BY <1>1 DEF TypeInv, TypeOK, Pending
  <2>2. Stale(i) \in Row
    BY <2>1, StaleInSnap
  <2> QED
    BY <2>2 DEF Row
<1> QED
  BY <1>1 DEF Torn

LEMMA InitType == Init => TypeInv
<1>1. (-MaxLag) \in (-MaxLag)..Cooldown /\ 0 \in 0..MaxLag
  BY EngineAssumption
<1>2. <<>> \in Seq(Finding)
  OBVIOUS
<1> QED
  BY <1>1, <1>2 DEF Init, TypeInv, TypeOK, Pending, States, Views, tables, cycle

(* Abandoning cycles resets their locals to values of the right type.      *)
LEMMA ForgetType ==
  ASSUME TypeInv, NEW js \in SUBSET Jobs, Forget(js)
  PROVE  /\ loop' \in Jobs \cup {NoJob}
         /\ pc' \in [Jobs -> States] /\ todo' \in [Jobs -> Seq(Finding)]
         /\ snap' \in [Jobs -> SUBSET Row] /\ firing' \in [Jobs -> SUBSET Keys]
         /\ held' \in [Jobs -> SUBSET Keys] /\ admitted' \in [Jobs -> Nat]
         /\ lag' \in [Jobs -> 0..MaxLag] /\ Pending'
<1>1. 0 \in 0..MaxLag /\ <<>> \in Seq(Finding) /\ "idle" \in States
  BY EngineAssumption DEF States
<1> QED
  BY <1>1 DEF Forget, TypeInv, TypeOK, Pending

LEMMA StepType ==
  ASSUME TypeInv, NEW j \in Jobs, Cycle(j) \/ Step(j)
  PROVE  TypeInv'
<1> USE EngineAssumption
<1>1. CASE Cycle(j)
  <2>0. PICK scope \in ScopesOf(j) :
          \E hold \in SUBSET KeysOf(scope), findings \in FindingsOf(scope), age \in 0..MaxLag :
            Begin(j, scope, hold, findings, age)
    BY <1>1 DEF Cycle
  <2>1. PICK hold \in SUBSET KeysOf(scope), findings \in FindingsOf(scope), age \in 0..MaxLag :
          Begin(j, scope, hold, findings, age)
    BY <2>0
  <2>2. findings \in Seq(Finding)
    BY FindingsAreSeq
  <2>3. OpenByKey(scope) \subseteq Row
    BY Snapshot DEF TypeInv, TypeOK
  <2>4. hold \subseteq Keys
    BY DEF KeysOf
  <2> QED
    BY <2>1, <2>2, <2>3, <2>4 DEF Begin, Ready, TypeInv, TypeOK, Pending, States, tables
<1>2. CASE Skip(j)
  <2>1. Head(todo[j]).key \in Keys /\ Tail(todo[j]) \in Seq(Finding)
    BY <1>2, HeadTail DEF Skip, AtFinding, TypeInv, TypeOK
  <2> QED
    BY <1>2, <2>1
    DEF Skip, AtFinding, Running, Fires, NextFinding, TypeInv, TypeOK, Pending, States, tables
<1>3. CASE SendAlert(j)
  <2>1. Head(todo[j]).key \in Keys /\ todo[j] # <<>>
    BY <1>3, HeadTail DEF SendAlert, AtFinding, TypeInv, TypeOK
  <2> QED
    BY <1>3, <2>1
    DEF SendAlert, AtFinding, Running, Fires, TypeInv, TypeOK, Pending, States, tables
<1>4. CASE Enqueue(j)
  <2>1. Head(todo[j]).key \in Keys /\ todo[j] # <<>>
    BY <1>4, HeadTail DEF Enqueue, AtFinding, TypeInv, TypeOK
  <2>2. admitted' \in [Jobs -> Nat]
    BY <1>4 DEF Enqueue, TypeInv, TypeOK
  <2>3. firing' \in [Jobs -> SUBSET Keys]
    BY <1>4, <2>1 DEF Enqueue, Fires, TypeInv, TypeOK
  <2>4. digest' \in [Keys -> {"none", "observed", "resolved"}] /\ view' \in [Keys -> Views]
    BY <1>4, <2>1 DEF Enqueue, TypeInv, TypeOK, Views
  <2>5. pc' \in [Jobs -> States] /\ Pending'
    BY <1>4, <2>1 DEF Enqueue, TypeInv, TypeOK, Pending, States
  <2> QED
    BY <1>4, <2>2, <2>3, <2>4, <2>5 DEF Enqueue, TypeInv, TypeOK
<1>5. CASE AlertDelivered(j)
  <2>1. admitted' \in [Jobs -> Nat]
    BY <1>5 DEF AlertDelivered, TypeInv, TypeOK
  <2>2. view' \in [Keys -> Views]
    BY <1>5 DEF AlertDelivered, TypeInv, TypeOK, Views
  <2>3. pc' \in [Jobs -> States] /\ Pending'
    BY <1>5 DEF AlertDelivered, TypeInv, TypeOK, Pending, States
  <2> QED
    BY <1>5, <2>1, <2>2, <2>3 DEF AlertDelivered, TypeInv, TypeOK, tables
<1>6. CASE AlertLost(j)
  BY <1>6, HeadTail DEF AlertLost, NextFinding, TypeInv, TypeOK, Pending, States, tables
<1>7. CASE Insert(j)
  <2> DEFINE f == Head(todo[j])
  <2>1. todo[j] \in Seq(Finding) /\ todo[j] # <<>>
    BY <1>7 DEF Insert, Running, TypeInv, TypeOK, Pending
  <2>2. f.key \in Keys /\ f.immediate \in BOOLEAN /\ Tail(todo[j]) \in Seq(Finding)
    BY <2>1, HeadTail
  <2>3. rows' \subseteq Row
    <3>1. CASE f.key \in PointKeys
      BY <1>7, <3>1 DEF Insert, TypeInv, TypeOK
    <3>2. CASE f.key \notin PointKeys
      <4>1. PICK id \in RowIds :
              rows' = rows \cup {[id |-> id, key |-> f.key, notified |-> f.immediate]}
        BY <1>7, <3>2 DEF Insert, FreeIds
      <4>2. [id |-> id, key |-> f.key, notified |-> f.immediate] \in Row
        BY <2>2 DEF Row
      <4>3. rows \subseteq Row
        BY DEF TypeInv, TypeOK
      <4> HIDE DEF f
      <4> QED
        BY <4>1, <4>2, <4>3
    <3> QED
      BY <3>1, <3>2
  <2>4. due' \in [Keys -> (-MaxLag)..Cooldown]
    <3>1. lag[j] \in 0..MaxLag /\ due \in [Keys -> (-MaxLag)..Cooldown]
      BY DEF TypeInv, TypeOK
    <3>2. Max2(due[f.key], Cooldown - lag[j]) \in (-MaxLag)..Cooldown
      BY <2>2, <3>1 DEF Max2
    <3> QED
      BY <1>7, <3>1, <3>2, ZenonT(40) DEF Insert, Until
  <2> QED
    BY <1>7, <2>1, <2>2, <2>3, <2>4
    DEF Insert, NextFinding, Running, TypeInv, TypeOK, Pending, States
<1>8. CASE InsertFails(j)
  BY <1>8, HeadTail
  DEF InsertFails, Running, NextFinding, TypeInv, TypeOK, Pending, States, tables
<1>9. CASE FindingsDone(j)
  BY <1>9 DEF FindingsDone, Running, TypeInv, TypeOK, Pending, States, tables
<1>10. CASE SendRecovery(j)
  BY <1>10
  DEF SendRecovery, AtRecovery, Running, TypeInv, TypeOK, Pending, States, tables, cycle
<1>11. CASE DeferRecovery(j)
  BY <1>11
  DEF DeferRecovery, AtRecovery, Running, TypeInv, TypeOK, Pending, States, Views, cycle
<1>12. CASE RecoveryDelivered(j)
  BY <1>12 DEF RecoveryDelivered, TypeInv, TypeOK, Pending, States, Views, tables, cycle
<1>13. CASE RecoveryLost(j)
  BY <1>13 DEF RecoveryLost, NextStale, TypeInv, TypeOK, Pending, States, tables
<1>14. CASE Resolve(j)
  BY <1>14 DEF Resolve, Running, NextStale, TypeInv, TypeOK, Pending, States, Views
<1>15. CASE Done(j)
  BY <1>15, ForgetType DEF Done, TypeInv, TypeOK, tables
<1>16. CASE Raise(j)
  <2>1. Torn({j}) \subseteq Keys
    BY TornKeys
  <2> QED
    BY <1>16, <2>1, ForgetType DEF Raise, TypeInv, TypeOK, tables
<1> QED
  BY <1>1, <1>2, <1>3, <1>4, <1>5, <1>6, <1>7, <1>8, <1>9, <1>10, <1>11, <1>12,
     <1>13, <1>14, <1>15, <1>16 DEF Step

LEMMA EnvironmentType ==
  ASSUME TypeInv, Environment
  PROVE  TypeInv'
<1> USE EngineAssumption
<1>1. CASE Tick
  <2>1. ASSUME NEW k \in Keys
        PROVE  Max2(due[k] - 1, -MaxLag) \in (-MaxLag)..Cooldown
    BY DEF Max2, TypeInv, TypeOK
  <2>2. ASSUME NEW j \in Jobs
        PROVE  (IF Busy(j) THEN lag[j] + 1 ELSE 0) \in 0..MaxLag
    BY <1>1 DEF Tick, TypeInv, TypeOK
  <2> QED
    BY <1>1, <2>1, <2>2 DEF Tick, TypeInv, TypeOK, Pending
<1>2. CASE DigestSent
  BY <1>2 DEF DigestSent, TypeInv, TypeOK, Pending, cycle
<1>3. CASE Crash
  <2>1. Torn(Jobs) \subseteq Keys
    BY TornKeys
  <2> QED
    BY <1>3, <2>1, ForgetType DEF Crash, TypeInv, TypeOK, tables
<1> QED
  BY <1>1, <1>2, <1>3 DEF Environment

LEMMA StutterType == TypeInv /\ UNCHANGED vars => TypeInv'
  BY DEF TypeInv, TypeOK, Pending, vars, tables, cycle

(* Every variable of the engine keeps its type: in particular the cooldown *)
(* of a key and the age of a cycle stay within their bounds.               *)
THEOREM TypeCorrect == Spec => []TypeOK
<1>1. TypeInv /\ [Next]_vars => TypeInv'
  BY StepType, EnvironmentType, StutterType DEF Next
<1>2. TypeInv => TypeOK
  BY DEF TypeInv
<1> QED
  BY InitType, <1>1, <1>2, PTL DEF Spec
-----------------------------------------------------------------------------
(* Safety.  A cycle compares its findings with a snapshot taken before its *)
(* awaits.  What makes the snapshot good enough is that only the owner of  *)
(* a rule opens and closes its events (Family): the snapshot misses at     *)
(* most the events this cycle opened itself, whose keys are in firing      *)
(* (Covered), so the finding in hand has no open event (InHand).           *)

FamilyOf(j) == {k \in Keys : Owner[RuleOf[k]] = j}
TodoKeys(j) == {todo[j][i].key : i \in DOMAIN todo[j]}
HasFinding(j) == pc[j] \in {"alerting", "inserting"}

Family ==
  \A j \in Jobs : /\ TodoKeys(j) \subseteq FamilyOf(j)
                  /\ \A r \in snap[j] : r.key \in FamilyOf(j)

Covered ==
  \A j \in Jobs : pc[j] \in {"finding", "alerting", "inserting"} =>
    \A r \in rows : r.key \in TodoKeys(j) => r \in snap[j] \/ r.key \in firing[j]

InHand ==
  \A j \in Jobs : HasFinding(j) =>
    /\ Head(todo[j]).key \in firing[j]
    /\ \A r \in rows : r.key # Head(todo[j]).key

IdsDistinct == \A r, q \in rows : r.id = q.id => r = q

(* What the recipients were told of the finding or the row in hand.        *)
AnnouncedBy(j) ==
  /\ pc[j] = "alerting" => Head(todo[j]).immediate
  /\ pc[j] = "inserting" =>
       view[Head(todo[j]).key] = IF Head(todo[j]).immediate THEN "firing" ELSE "queued"
  /\ pc[j] = "resolving" => view[Stale(j).key] = "recovered"

Announced == \A j \in Jobs : AnnouncedBy(j)

EngineInv ==
  /\ TypeInv
  /\ AtMostOneOpen
  /\ SnapshotIsOpen
  /\ Family
  /\ Covered
  /\ InHand
  /\ IdsDistinct

ToldInv == EngineInv /\ Announced /\ OpenIsTold /\ NotMisled

(* Dealing with the head of the list leaves a list with fewer keys.        *)
LEMMA TodoTail ==
  ASSUME TypeInv, NEW j \in Jobs, todo[j] # <<>>
  PROVE  /\ Head(todo[j]).key \in TodoKeys(j) /\ Head(todo[j]).key \in Keys
         /\ \A i \in DOMAIN Tail(todo[j]) : Tail(todo[j])[i].key \in TodoKeys(j)
<1>1. todo[j] \in Seq(Finding)
  BY DEF TypeInv, TypeOK
<1> QED
  BY <1>1, HeadTail DEF TodoKeys

LEMMA InitEngine == Init => EngineInv
<1>1. ASSUME Init, NEW j \in Jobs
      PROVE  TodoKeys(j) = {} /\ snap[j] = {} /\ pc[j] = "idle"
  BY <1>1 DEF Init, TodoKeys
<1> QED
  BY <1>1, InitType DEF Init, EngineInv, AtMostOneOpen, SnapshotIsOpen, Family, Covered,
     InHand, HasFinding, IdsDistinct, tables, cycle

(* The cycles of all jobs but j are left as they are.                      *)
OthersKept(j) ==
  \A i \in Jobs \ {j} : /\ pc'[i] = pc[i] /\ todo'[i] = todo[i]
                        /\ snap'[i] = snap[i] /\ firing'[i] = firing[i]

(* A step of a cycle that writes no row and takes on no new work keeps the *)
(* invariant, if a finding it takes in hand has no open event.             *)
LEMMA Narrowing ==
  ASSUME EngineInv, TypeInv', NEW j \in Jobs, OthersKept(j), rows' = rows,
         TodoKeys(j)' \subseteq TodoKeys(j), snap'[j] \subseteq snap[j],
         pc'[j] \in {"finding", "alerting", "inserting"} =>
           /\ pc[j] \in {"finding", "alerting", "inserting"}
           /\ snap'[j] = snap[j] /\ firing[j] \subseteq firing'[j],
         HasFinding(j)' =>
           /\ todo'[j] = todo[j] /\ Head(todo[j]).key \in firing'[j]
           /\ \A r \in rows : r.key # Head(todo[j]).key
  PROVE  EngineInv'
<1>1. \A i \in Jobs \ {j} : TodoKeys(i)' = TodoKeys(i)
  BY DEF OthersKept, TodoKeys
<1>2. SnapshotIsOpen'
  BY DEF EngineInv, SnapshotIsOpen, OthersKept
<1>3. Family'
  BY <1>1 DEF EngineInv, Family, FamilyOf, OthersKept
<1>4. Covered'
  BY <1>1 DEF EngineInv, Covered, OthersKept
<1>5. InHand'
  BY DEF EngineInv, InHand, HasFinding, OthersKept
<1> QED
  BY <1>2, <1>3, <1>4, <1>5 DEF EngineInv, AtMostOneOpen, IdsDistinct

(* Moving to the next finding narrows the list of the cycle.               *)
LEMMA NextNarrows ==
  ASSUME TypeInv, NEW j \in Jobs, todo[j] # <<>>, NextFinding(j)
  PROVE  /\ TodoKeys(j)' \subseteq TodoKeys(j) /\ ~HasFinding(j)'
         /\ pc'[j] = "finding"
         /\ \A i \in Jobs \ {j} : pc'[i] = pc[i] /\ todo'[i] = todo[i]
<1>1. todo' = [todo EXCEPT ![j] = Tail(todo[j])] /\ todo'[j] = Tail(todo[j])
  BY DEF NextFinding, TypeInv, TypeOK
<1>2. pc'[j] = "finding" /\ \A i \in Jobs \ {j} : pc'[i] = pc[i] /\ todo'[i] = todo[i]
  BY DEF NextFinding, TypeInv, TypeOK
<1>3. TodoKeys(j)' \subseteq TodoKeys(j)
  BY <1>1, TodoTail DEF TodoKeys
<1> QED
  BY <1>2, <1>3 DEF HasFinding

(* A finding that passes the checks of the cycle has no open event.        *)
LEMMA NewHasNoRow ==
  ASSUME EngineInv, NEW j \in Jobs, AtFinding(j),
         Head(todo[j]).key \notin firing[j], New(j, Head(todo[j]).key)
  PROVE  \A r \in rows : r.key # Head(todo[j]).key
<1>1. Head(todo[j]).key \in TodoKeys(j)
  BY TodoTail DEF EngineInv, AtFinding
<1> QED
  BY <1>1 DEF EngineInv, Covered, AtFinding, Running, New, IsOpen

LEMMA StepEngine ==
  ASSUME EngineInv, NEW j \in Jobs, Cycle(j) \/ Step(j)
  PROVE  EngineInv'
<1> USE EngineAssumption
<1>0. TypeInv /\ TypeInv'
  BY StepType DEF EngineInv
<1>1. CASE Cycle(j)
  <2>0. PICK scope \in ScopesOf(j) :
          \E hold \in SUBSET KeysOf(scope), findings \in FindingsOf(scope), age \in 0..MaxLag :
            Begin(j, scope, hold, findings, age)
    BY <1>1 DEF Cycle
  <2>1. PICK hold \in SUBSET KeysOf(scope), findings \in FindingsOf(scope), age \in 0..MaxLag :
          Begin(j, scope, hold, findings, age)
    BY <2>0
  <2>2. KeysOf(scope) \subseteq FamilyOf(j)
    BY DEF KeysOf, FamilyOf, ScopesOf
  <2>3. \A i \in DOMAIN findings : findings[i].key \in KeysOf(scope)
    BY FindingsAreSeq
  <2>4. /\ OpenByKey(scope) \subseteq rows
        /\ \A r \in OpenByKey(scope) : r.key \in KeysOf(scope)
        /\ \A r \in rows : r.key \in KeysOf(scope) =>
             \E q \in OpenByKey(scope) : q.key = r.key
    BY <1>0, Snapshot DEF TypeInv, TypeOK
  <2>5. /\ rows' = rows /\ pc' = [pc EXCEPT ![j] = "finding"]
        /\ todo' = [todo EXCEPT ![j] = findings]
        /\ snap' = [snap EXCEPT ![j] = OpenByKey(scope)]
        /\ OthersKept(j)
    BY <1>0, <2>1 DEF Begin, Ready, tables, OthersKept, TypeInv, TypeOK
  <2>6. TodoKeys(j)' \subseteq KeysOf(scope) /\ \A i \in Jobs \ {j} : TodoKeys(i)' = TodoKeys(i)
    BY <1>0, <2>3, <2>5 DEF TodoKeys, OthersKept, TypeInv, TypeOK
  <2>7. snap'[j] = OpenByKey(scope) /\ pc'[j] = "finding"
    BY <1>0, <2>5 DEF TypeInv, TypeOK
  <2>8. SnapshotIsOpen'
    BY <2>4, <2>5, <2>7 DEF EngineInv, SnapshotIsOpen, OthersKept
  <2>9. Family'
    <3>1. ASSUME NEW i \in Jobs
          PROVE  TodoKeys(i)' \subseteq FamilyOf(i) /\ \A r \in snap'[i] : r.key \in FamilyOf(i)
      BY <2>2, <2>4, <2>5, <2>6, <2>7 DEF EngineInv, Family, OthersKept
    <3> QED
      BY <3>1 DEF Family, FamilyOf
  <2>10. Covered'
    <3>1. ASSUME NEW r \in rows, r.key \in KeysOf(scope)
          PROVE  r \in OpenByKey(scope)
      BY <2>4, <3>1 DEF EngineInv, AtMostOneOpen
    <3>2. ASSUME NEW i \in Jobs, NEW r \in rows, r.key \in TodoKeys(i)',
                 pc'[i] \in {"finding", "alerting", "inserting"}
          PROVE  r \in snap'[i] \/ r.key \in firing'[i]
      BY <2>5, <2>6, <2>7, <3>1, <3>2 DEF EngineInv, Covered, OthersKept
    <3> QED
      BY <2>5, <3>2 DEF Covered
  <2>11. InHand'
    BY <2>5, <2>7 DEF EngineInv, InHand, HasFinding, OthersKept
  <2> QED
    BY <1>0, <2>5, <2>8, <2>9, <2>10, <2>11 DEF EngineInv, AtMostOneOpen, IdsDistinct
<1>2. CASE Skip(j)
  <2>1. todo[j] # <<>> /\ NextFinding(j) /\ Running(j, "finding")
    BY <1>2 DEF Skip, AtFinding
  <2>2. /\ OthersKept(j) /\ rows' = rows /\ snap' = snap
        /\ firing[j] \subseteq firing'[j] /\ pc[j] = "finding"
    BY <1>0, <1>2, <2>1, NextNarrows
    DEF Skip, Fires, Running, OthersKept, tables, TypeInv, TypeOK
  <2> QED
    BY <1>0, <2>1, <2>2, NextNarrows, Narrowing
<1>3. CASE SendAlert(j) \/ Enqueue(j)
  <2>1. /\ AtFinding(j) /\ Fires(j) /\ Head(todo[j]).key \notin firing[j]
        /\ New(j, Head(todo[j]).key) /\ rows' = rows /\ todo' = todo /\ snap' = snap
        /\ \E to \in {"alerting", "inserting"} : pc' = [pc EXCEPT ![j] = to]
    BY <1>3 DEF SendAlert, Enqueue, tables
  <2>2. /\ pc[j] = "finding" /\ OthersKept(j) /\ TodoKeys(j)' = TodoKeys(j)
        /\ firing[j] \subseteq firing'[j] /\ Head(todo[j]).key \in firing'[j]
    BY <1>0, <2>1
    DEF AtFinding, Running, Fires, OthersKept, TodoKeys, TypeInv, TypeOK
  <2>3. \A r \in rows : r.key # Head(todo[j]).key
    BY <2>1, NewHasNoRow
  <2> QED
    BY <1>0, <2>1, <2>2, <2>3, Narrowing
<1>4. CASE AlertDelivered(j)
  <2>1. /\ pc[j] = "alerting" /\ rows' = rows /\ OthersKept(j) /\ todo' = todo
        /\ snap' = snap /\ firing' = firing /\ TodoKeys(j)' = TodoKeys(j)
    BY <1>0, <1>4 DEF AlertDelivered, OthersKept, TodoKeys, tables, TypeInv, TypeOK
  <2>2. /\ Head(todo[j]).key \in firing[j]
        /\ \A r \in rows : r.key # Head(todo[j]).key
    BY <2>1 DEF EngineInv, InHand, HasFinding
  <2> QED
    BY <1>0, <2>1, <2>2, Narrowing
<1>5. CASE AlertLost(j) \/ InsertFails(j)
  <2>1. /\ pc[j] \in {"alerting", "inserting"} /\ NextFinding(j) /\ rows' = rows
        /\ snap' = snap /\ firing' = firing
    BY <1>5 DEF AlertLost, InsertFails, Running, tables
  <2>2. todo[j] # <<>>
    BY <1>0, <2>1 DEF TypeInv, Pending
  <2>3. OthersKept(j)
    BY <1>0, <2>1, <2>2, NextNarrows DEF OthersKept
  <2> QED
    BY <1>0, <2>1, <2>2, <2>3, NextNarrows, Narrowing
<1>6. CASE Insert(j)
  <2> DEFINE k == Head(todo[j]).key
  <2>1. /\ pc[j] = "inserting" /\ NextFinding(j) /\ snap' = snap /\ firing' = firing
        /\ todo[j] # <<>>
    BY <1>0, <1>6 DEF Insert, Running, TypeInv, Pending
  <2>2. /\ OthersKept(j) /\ TodoKeys(j)' \subseteq TodoKeys(j) /\ pc'[j] = "finding"
        /\ ~HasFinding(j)' /\ \A i \in Jobs \ {j} : TodoKeys(i)' = TodoKeys(i)
    <3>1. /\ TodoKeys(j)' \subseteq TodoKeys(j) /\ ~HasFinding(j)' /\ pc'[j] = "finding"
          /\ \A i \in Jobs \ {j} : pc'[i] = pc[i] /\ todo'[i] = todo[i]
      BY <1>0, <2>1, NextNarrows
    <3>2. \A i \in Jobs \ {j} : TodoKeys(i)' = TodoKeys(i)
      BY <3>1 DEF TodoKeys
    <3>3. OthersKept(j)
      BY <2>1, <3>1, <3>2 DEF OthersKept
    <3> QED
      BY <3>1, <3>2, <3>3
  <2>3. k \in firing[j] /\ (\A r \in rows : r.key # k) /\ k \in TodoKeys(j)
    BY <1>0, <2>1, TodoTail DEF EngineInv, InHand, HasFinding
  <2>4. CASE rows' = rows
    BY <1>0, <2>1, <2>2, <2>4, Narrowing
  <2>5. CASE k \notin PointKeys
    <3>1. PICK r \in Row : rows' = rows \cup {r} /\ r.key = k /\ r.id \in FreeIds
      <4> DEFINE new == [id |-> CHOOSE i \in FreeIds : TRUE, key |-> k,
                         notified |-> Head(todo[j]).immediate]
      <4>1. FreeIds # {} /\ rows' = rows \cup {new}
        BY <1>6, <2>5 DEF Insert
      <4>2. new.id \in FreeIds /\ new.key = k
        BY <4>1
      <4>3. new \in rows' /\ rows' \subseteq Row
        BY <1>0, <4>1 DEF TypeInv, TypeOK
      <4> QED
        BY <4>1, <4>2, <4>3
    <3>2. \A q \in rows : q.id # r.id
      BY <3>1 DEF FreeIds, UsedIds
    <3>3. AtMostOneOpen' /\ IdsDistinct'
      BY <2>3, <3>1, <3>2 DEF EngineInv, AtMostOneOpen, IdsDistinct
    <3>4. SnapshotIsOpen'
      BY <2>1, <3>1 DEF EngineInv, SnapshotIsOpen
    <3>5. Family'
      BY <2>1, <2>2 DEF EngineInv, Family, FamilyOf
    <3>6. \A i \in Jobs \ {j} : k \notin TodoKeys(i)
      BY <2>3 DEF EngineInv, Family, FamilyOf
    <3>7. Covered'
      BY <2>1, <2>2, <2>3, <3>1, <3>6 DEF EngineInv, Covered, OthersKept
    <3>8. ASSUME NEW i \in Jobs \ {j}, HasFinding(i)
          PROVE  Head(todo[i]).key # k
      BY <1>0, <3>6, <3>8, TodoTail DEF HasFinding, TypeInv, Pending
    <3>9. InHand'
      BY <2>1, <2>2, <3>1, <3>8 DEF EngineInv, InHand, HasFinding, OthersKept
    <3> QED
      BY <1>0, <3>3, <3>4, <3>5, <3>7, <3>9 DEF EngineInv
  <2> QED
    BY <1>6, <2>4, <2>5 DEF Insert
<1>7. CASE FindingsDone(j) \/ SendRecovery(j) \/ DeferRecovery(j) \/ RecoveryDelivered(j)
           \/ RecoveryLost(j)
  <2>1. /\ rows' = rows /\ todo' = todo /\ firing' = firing
        /\ \E to \in {"recovering", "telling", "resolving"} : pc' = [pc EXCEPT ![j] = to]
    BY <1>7
    DEF FindingsDone, SendRecovery, DeferRecovery, RecoveryDelivered, RecoveryLost,
        NextStale, tables, cycle
  <2>2. snap'[j] \subseteq snap[j] /\ \A i \in Jobs \ {j} : snap'[i] = snap[i]
    <3>1. CASE FindingsDone(j)
      BY <1>0, <3>1 DEF FindingsDone, TypeInv, TypeOK
    <3>2. CASE RecoveryLost(j)
      BY <1>0, <3>2 DEF RecoveryLost, NextStale, TypeInv, TypeOK
    <3> QED
      BY <1>7, <3>1, <3>2 DEF SendRecovery, DeferRecovery, RecoveryDelivered, cycle
  <2>3. /\ OthersKept(j) /\ pc'[j] \in {"recovering", "telling", "resolving"}
        /\ TodoKeys(j)' = TodoKeys(j)
    BY <1>0, <2>1, <2>2 DEF OthersKept, TodoKeys, TypeInv, TypeOK
  <2> QED
    BY <1>0, <2>1, <2>2, <2>3, Narrowing DEF HasFinding
<1>8. CASE Resolve(j)
  <2> DEFINE s == Stale(j)
  <2>1. s \in snap[j] /\ snap[j] \subseteq rows /\ s \in rows
    BY <1>0, <1>8, StaleInSnap
    DEF Resolve, Running, TypeInv, Pending, EngineInv, SnapshotIsOpen
  <2>2. rows' = rows \ {s}
    BY <1>8, <2>1 DEF Resolve, EngineInv, IdsDistinct
  <2>3. /\ todo' = todo /\ firing' = firing /\ pc'[j] = "recovering" /\ OthersKept(j)
        /\ snap'[j] = snap[j] \ {s} /\ \A i \in Jobs : TodoKeys(i)' = TodoKeys(i)
    BY <1>0, <1>8 DEF Resolve, NextStale, OthersKept, TodoKeys, TypeInv, TypeOK
  <2>4. \A i \in Jobs \ {j} : s \notin snap[i]
    BY <2>1 DEF EngineInv, Family, FamilyOf
  <2>5. SnapshotIsOpen'
    BY <2>2, <2>3, <2>4 DEF EngineInv, SnapshotIsOpen, OthersKept
  <2>6. Family'
    BY <2>3 DEF EngineInv, Family, FamilyOf, OthersKept
  <2>7. Covered' /\ InHand'
    BY <2>2, <2>3 DEF EngineInv, Covered, InHand, HasFinding, OthersKept
  <2> QED
    BY <1>0, <2>2, <2>5, <2>6, <2>7 DEF EngineInv, AtMostOneOpen, IdsDistinct
<1>9. CASE Done(j) \/ Raise(j)
  <2>1. /\ rows' = rows /\ Forget({j})
    BY <1>9 DEF Done, Raise, tables
  <2>2. /\ OthersKept(j) /\ pc'[j] = "idle" /\ todo'[j] = <<>> /\ snap'[j] = {}
    BY <2>1 DEF Forget, OthersKept
  <2>3. TodoKeys(j)' = {}
    BY <2>2 DEF TodoKeys
  <2> QED
    BY <1>0, <2>1, <2>2, <2>3, Narrowing DEF HasFinding
<1> QED
  BY <1>1, <1>2, <1>3, <1>4, <1>5, <1>6, <1>7, <1>8, <1>9 DEF Step

LEMMA KeepEngine ==
  ASSUME EngineInv, TypeInv', UNCHANGED <<rows, pc, todo, snap, firing>>
  PROVE  EngineInv'
<1>1. \A j \in Jobs : TodoKeys(j)' = TodoKeys(j)
  BY DEF TodoKeys
<1> QED
  BY <1>1 DEF EngineInv, AtMostOneOpen, SnapshotIsOpen, Family, FamilyOf, Covered, InHand,
     HasFinding, IdsDistinct

LEMMA EnvironmentEngine ==
  ASSUME EngineInv, Environment
  PROVE  EngineInv'
<1>0. TypeInv /\ TypeInv'
  BY EnvironmentType DEF EngineInv
<1>1. CASE Tick \/ DigestSent
  BY <1>0, <1>1, KeepEngine DEF Tick, DigestSent, cycle
<1>2. CASE Crash
  <2>1. /\ rows' = rows
        /\ \A j \in Jobs : pc'[j] = "idle" /\ todo'[j] = <<>> /\ snap'[j] = {}
    BY <1>2 DEF Crash, Forget, tables
  <2>2. \A j \in Jobs : TodoKeys(j)' = {}
    BY <2>1 DEF TodoKeys
  <2> QED
    BY <1>0, <2>1, <2>2 DEF EngineInv, AtMostOneOpen, SnapshotIsOpen, Family, Covered,
       InHand, HasFinding, IdsDistinct
<1> QED
  BY <1>1, <1>2 DEF Environment

LEMMA EngineInvariant == Spec => []EngineInv
<1>1. EngineInv /\ UNCHANGED vars => EngineInv'
  BY StutterType, KeepEngine DEF EngineInv, vars, tables, cycle
<1>2. EngineInv /\ [Next]_vars => EngineInv'
  BY <1>1, StepEngine, EnvironmentEngine DEF Next
<1> QED
  BY InitEngine, <1>2, PTL DEF Spec

(* However the cycles of the jobs interleave, and wherever the process     *)
(* crashes, the store never holds two open events of one (rule, subject).  *)
THEOREM OneOpenEvent == Spec => []AtMostOneOpen
<1>1. EngineInv => AtMostOneOpen
  BY DEF EngineInv
<1> QED
  BY EngineInvariant, <1>1, PTL

(* A cycle only announces the recovery of events that are still open.      *)
THEOREM NoStaleRecovery == Spec => []SnapshotIsOpen
<1>1. EngineInv => SnapshotIsOpen
  BY DEF EngineInv
<1> QED
  BY EngineInvariant, <1>1, PTL

(* No alert is in flight for an incident that is open already, whatever    *)
(* the cooldown (zero included) and however often a finding is repeated.   *)
THEOREM AlertsAreNew == Spec => []NoRepeatedAlert
<1>1. EngineInv => NoRepeatedAlert
  BY DEF EngineInv, InHand, HasFinding, NoRepeatedAlert
<1> QED
  BY EngineInvariant, <1>1, PTL

-----------------------------------------------------------------------------
(* What the recipients were told.  A job only tells of keys it owns, so    *)
(* the message a job is about to record cannot be overtaken by another.    *)

TellsOnly(j) == \A k \in Keys \ FamilyOf(j) : view'[k] = view[k]

LEMMA OthersAnnounced ==
  ASSUME ToldInv, NEW j \in Jobs, OthersKept(j), TellsOnly(j), NEW i \in Jobs \ {j}
  PROVE  AnnouncedBy(i)'
<1>1. pc'[i] = pc[i] /\ todo'[i] = todo[i] /\ snap'[i] = snap[i]
  BY DEF OthersKept
<1>2. Stale(i)' = Stale(i)
  BY <1>1 DEF Stale
<1>3. ASSUME HasFinding(i)
      PROVE  view'[Head(todo[i]).key] = view[Head(todo[i]).key]
  <2>1. Head(todo[i]).key \in TodoKeys(i) /\ Head(todo[i]).key \in Keys
    BY <1>3, TodoTail DEF HasFinding, ToldInv, EngineInv, TypeInv, Pending
  <2> QED
    BY <2>1 DEF ToldInv, EngineInv, Family, FamilyOf, TellsOnly
<1>4. ASSUME pc[i] = "resolving"
      PROVE  view'[Stale(i).key] = view[Stale(i).key]
  <2>1. Stale(i) \in snap[i]
    BY <1>4, StaleInSnap DEF ToldInv, EngineInv, TypeInv, Pending
  <2> QED
    BY <2>1 DEF ToldInv, EngineInv, Family, FamilyOf, TellsOnly
<1>5. AnnouncedBy(i)
  BY DEF ToldInv, Announced
<1> QED
  BY <1>1, <1>2, <1>3, <1>4, <1>5 DEF AnnouncedBy, HasFinding

(* The job that is resolving a row keeps resolving it while another steps. *)
LEMMA OthersResolve ==
  ASSUME NEW j \in Jobs, OthersKept(j), NEW i \in Jobs \ {j}, NEW r,
         pc[i] = "resolving" /\ Stale(i) = r
  PROVE  pc'[i] = "resolving" /\ Stale(i)' = r
  BY DEF OthersKept, Stale

LEMMA QuietTold ==
  ASSUME ToldInv, EngineInv', NEW j \in Jobs, OthersKept(j), view' = view, rows' = rows,
         torn' = torn, pc[j] # "resolving", AnnouncedBy(j)'
  PROVE  ToldInv'
<1>1. Announced'
  BY OthersAnnounced DEF Announced, TellsOnly
<1>2. NotMisled'
  BY OthersResolve DEF ToldInv, NotMisled
<1> QED
  BY <1>1, <1>2 DEF ToldInv, OpenIsTold

(* A message about a key without open events breaks no promise.            *)
LEMMA AlertTold ==
  ASSUME ToldInv, EngineInv', NEW j \in Jobs, OthersKept(j), rows' = rows, torn' = torn,
         pc[j] # "resolving", AnnouncedBy(j)', NEW k \in FamilyOf(j),
         \A r \in rows : r.key # k, \A x \in Keys \ {k} : view'[x] = view[x]
  PROVE  ToldInv'
<1>1. Announced'
  BY OthersAnnounced DEF Announced, TellsOnly
<1>2. \A r \in rows : view'[r.key] = view[r.key]
  BY DEF ToldInv, EngineInv, TypeInv, TypeOK, Row
<1>3. NotMisled'
  BY <1>2, OthersResolve DEF ToldInv, NotMisled
<1> QED
  BY <1>1, <1>2, <1>3 DEF ToldInv, OpenIsTold

LEMMA StepOthers ==
  ASSUME TypeInv, NEW j \in Jobs, Cycle(j) \/ Step(j)
  PROVE  OthersKept(j)
<1>1. CASE Cycle(j)
  BY <1>1 DEF Cycle, Begin, Ready, OthersKept, TypeInv, TypeOK
<1>2. CASE Skip(j) \/ SendAlert(j) \/ Enqueue(j) \/ AlertDelivered(j) \/ AlertLost(j)
           \/ Insert(j) \/ InsertFails(j)
  BY <1>2 DEF Skip, SendAlert, Enqueue, AlertDelivered, AlertLost, Insert, InsertFails,
     Fires, NextFinding, OthersKept, TypeInv, TypeOK
<1>3. CASE FindingsDone(j) \/ SendRecovery(j) \/ DeferRecovery(j) \/ RecoveryDelivered(j)
           \/ RecoveryLost(j) \/ Resolve(j)
  BY <1>3 DEF FindingsDone, SendRecovery, DeferRecovery, RecoveryDelivered, RecoveryLost,
     Resolve, NextStale, cycle, OthersKept, TypeInv, TypeOK
<1>4. CASE Done(j) \/ Raise(j)
  BY <1>4 DEF Done, Raise, Forget, OthersKept
<1> QED
  BY <1>1, <1>2, <1>3, <1>4 DEF Step

LEMMA InitTold == Init => ToldInv
  BY InitEngine DEF Init, ToldInv, Announced, AnnouncedBy, OpenIsTold, NotMisled

LEMMA StepTold ==
  ASSUME ToldInv, NEW j \in Jobs, Cycle(j) \/ Step(j)
  PROVE  ToldInv'
<1>0. TypeInv /\ EngineInv /\ EngineInv' /\ OthersKept(j)
  BY StepEngine, StepOthers DEF ToldInv, EngineInv
<1>1. CASE Cycle(j)
  <2>1. view' = view /\ rows' = rows /\ torn' = torn /\ pc[j] = "idle" /\ pc'[j] = "finding"
    BY <1>0, <1>1 DEF Cycle, Begin, Ready, tables, TypeInv, TypeOK
  <2> QED
    BY <1>0, <2>1, QuietTold DEF AnnouncedBy
<1>2. CASE Skip(j) \/ AlertLost(j) \/ InsertFails(j) \/ FindingsDone(j) \/ SendRecovery(j)
           \/ RecoveryLost(j)
  <2>1. /\ view' = view /\ rows' = rows /\ torn' = torn /\ pc[j] # "resolving"
        /\ \E to \in {"finding", "recovering", "telling"} : pc' = [pc EXCEPT ![j] = to]
    BY <1>2 DEF Skip, AlertLost, InsertFails, FindingsDone, SendRecovery, RecoveryLost,
       AtFinding, AtRecovery, Running, NextFinding, NextStale, tables
  <2>2. pc'[j] \in {"finding", "recovering", "telling"}
    BY <1>0, <2>1 DEF TypeInv, TypeOK
  <2> QED
    BY <1>0, <2>1, <2>2, QuietTold DEF AnnouncedBy
<1>3. CASE SendAlert(j)
  <2>1. /\ view' = view /\ rows' = rows /\ torn' = torn /\ pc[j] = "finding"
        /\ pc'[j] = "alerting" /\ todo' = todo /\ Head(todo[j]).immediate
    BY <1>0, <1>3 DEF SendAlert, AtFinding, Running, tables, TypeInv, TypeOK
  <2> QED
    BY <1>0, <2>1, QuietTold DEF AnnouncedBy
<1>4. CASE Enqueue(j)
  <2> DEFINE k == Head(todo[j]).key
  <2>1. /\ AtFinding(j) /\ k \notin firing[j] /\ New(j, k) /\ ~Head(todo[j]).immediate
        /\ view' = [view EXCEPT ![k] = "queued"] /\ rows' = rows /\ torn' = torn
        /\ todo' = todo /\ pc[j] = "finding" /\ pc'[j] = "inserting"
    BY <1>0, <1>4 DEF Enqueue, AtFinding, Running, TypeInv, TypeOK
  <2>2. k \in FamilyOf(j) /\ k \in Keys
    BY <1>0, <2>1, TodoTail DEF AtFinding, EngineInv, Family
  <2>3. \A r \in rows : r.key # k
    BY <1>0, <2>1, NewHasNoRow
  <2>4. view'[k] = "queued" /\ \A x \in Keys \ {k} : view'[x] = view[x]
    BY <1>0, <2>1, <2>2 DEF TypeInv, TypeOK
  <2>5. AnnouncedBy(j)'
    BY <2>1, <2>4 DEF AnnouncedBy
  <2> QED
    BY <1>0, <2>1, <2>2, <2>3, <2>4, <2>5, AlertTold
<1>5. CASE AlertDelivered(j)
  <2> DEFINE k == Head(todo[j]).key
  <2>1. /\ view' = [view EXCEPT ![k] = "firing"] /\ rows' = rows /\ torn' = torn
        /\ todo' = todo /\ pc[j] = "alerting" /\ pc'[j] = "inserting"
    BY <1>0, <1>5 DEF AlertDelivered, tables, TypeInv, TypeOK
  <2>2. k \in FamilyOf(j) /\ k \in Keys
    BY <1>0, <2>1, TodoTail DEF EngineInv, Family, TypeInv, Pending
  <2>3. \A r \in rows : r.key # k
    BY <1>0, <2>1 DEF EngineInv, InHand, HasFinding
  <2>4. view'[k] = "firing" /\ \A x \in Keys \ {k} : view'[x] = view[x]
    BY <1>0, <2>1, <2>2 DEF TypeInv, TypeOK
  <2>5. AnnouncedBy(j)'
    BY <2>1, <2>4 DEF AnnouncedBy, ToldInv, Announced
  <2> QED
    BY <1>0, <2>1, <2>2, <2>3, <2>4, <2>5, AlertTold
<1>6. CASE Insert(j)
  <2> DEFINE f == Head(todo[j])
  <2>1. /\ view' = view /\ torn' = torn /\ pc[j] = "inserting" /\ pc'[j] = "finding"
    BY <1>0, <1>6 DEF Insert, Running, NextFinding, TypeInv, TypeOK
  <2>2. view[f.key] = IF f.immediate THEN "firing" ELSE "queued"
    BY <2>1 DEF ToldInv, Announced, AnnouncedBy
  <2>3. AnnouncedBy(j)'
    BY <2>1 DEF AnnouncedBy
  <2>4. \A r \in rows' \ rows : r.key = f.key /\ r.notified = f.immediate
    BY <1>6 DEF Insert
  <2>5. OpenIsTold'
    BY <2>1, <2>2, <2>4 DEF ToldInv, OpenIsTold
  <2>6. NotMisled'
    <3>1. \A r \in rows' : view[r.key] = "recovered" => r \in rows
      BY <2>2, <2>4
    <3> QED
      BY <1>0, <2>1, <3>1, OthersResolve DEF ToldInv, NotMisled
  <2>7. Announced'
    BY <1>0, <2>1, <2>3, OthersAnnounced DEF Announced, TellsOnly
  <2> QED
    BY <1>0, <2>5, <2>6, <2>7 DEF ToldInv
<1>7. CASE DeferRecovery(j) \/ RecoveryDelivered(j)
  <2> DEFINE s == Stale(j)
  <2>1. /\ view' = [view EXCEPT ![s.key] = "recovered"] /\ rows' = rows /\ torn' = torn
        /\ snap' = snap /\ snap[j] # {}
        /\ pc[j] \in {"recovering", "telling"} /\ pc'[j] = "resolving"
    BY <1>0, <1>7 DEF DeferRecovery, RecoveryDelivered, AtRecovery, Running, tables, cycle,
       TypeInv, TypeOK, Pending
  <2>2. s \in snap[j] /\ s \in rows /\ s.key \in FamilyOf(j) /\ s.key \in Keys
    BY <1>0, <2>1, StaleInSnap DEF EngineInv, SnapshotIsOpen, Family, FamilyOf
  <2>3. view'[s.key] = "recovered" /\ \A x \in Keys \ {s.key} : view'[x] = view[x]
    BY <1>0, <2>1, <2>2 DEF TypeInv, TypeOK
  <2>4. Stale(j)' = s
    BY <2>1 DEF Stale
  <2>5. \A r \in rows : r = s \/ view'[r.key] = view[r.key]
    BY <1>0, <2>2, <2>3 DEF EngineInv, AtMostOneOpen, TypeInv, TypeOK, Row
  <2>6. Announced'
    <3>1. AnnouncedBy(j)'
      BY <2>1, <2>3, <2>4 DEF AnnouncedBy
    <3> QED
      BY <1>0, <2>2, <2>3, <3>1, OthersAnnounced DEF Announced, TellsOnly
  <2>7. OpenIsTold'
    BY <2>1, <2>3, <2>5 DEF ToldInv, OpenIsTold
  <2>8. NotMisled'
    BY <1>0, <2>1, <2>4, <2>5, OthersResolve DEF ToldInv, NotMisled
  <2> QED
    BY <1>0, <2>6, <2>7, <2>8 DEF ToldInv
<1>8. CASE Resolve(j)
  <2> DEFINE s == Stale(j)
  <2>1. /\ view' = [view EXCEPT ![s.key] = "silent"] /\ torn' = torn \ {s.key}
        /\ rows' = {r \in rows : r.id # s.id} /\ pc[j] = "resolving"
        /\ pc'[j] = "recovering" /\ snap[j] # {}
    BY <1>0, <1>8 DEF Resolve, Running, NextStale, TypeInv, TypeOK, Pending
  <2>2. s \in rows /\ s.key \in FamilyOf(j) /\ s.key \in Keys
    BY <1>0, <2>1, StaleInSnap DEF EngineInv, SnapshotIsOpen, Family, FamilyOf
  <2>3. \A x \in Keys \ {s.key} : view'[x] = view[x]
    BY <1>0, <2>1, <2>2 DEF TypeInv, TypeOK
  <2>4. \A r \in rows' : r \in rows /\ r.key # s.key /\ r.key \in Keys
    BY <1>0, <2>1, <2>2 DEF EngineInv, AtMostOneOpen, TypeInv, TypeOK, Row
  <2>5. Announced'
    <3>1. AnnouncedBy(j)'
      BY <2>1 DEF AnnouncedBy
    <3> QED
      BY <1>0, <2>2, <2>3, <3>1, OthersAnnounced DEF Announced, TellsOnly
  <2>6. OpenIsTold'
    BY <2>3, <2>4 DEF ToldInv, OpenIsTold
  <2>7. NotMisled'
    BY <1>0, <2>1, <2>3, <2>4, OthersResolve DEF ToldInv, NotMisled
  <2> QED
    BY <1>0, <2>5, <2>6, <2>7 DEF ToldInv
<1>9. CASE Done(j)
  <2>1. view' = view /\ rows' = rows /\ torn' = torn /\ pc[j] # "resolving" /\ pc'[j] = "idle"
    BY <1>9 DEF Done, Running, Forget, tables
  <2> QED
    BY <1>0, <2>1, QuietTold DEF AnnouncedBy
<1>10. CASE Raise(j)
  <2>1. view' = view /\ rows' = rows /\ torn' = torn \cup Torn({j}) /\ pc'[j] = "idle"
    BY <1>10 DEF Raise, Forget, tables
  <2>2. pc[j] = "resolving" => Stale(j).key \in torn'
    BY <2>1 DEF Torn
  <2>3. Announced'
    BY <1>0, <2>1, OthersAnnounced DEF Announced, AnnouncedBy, TellsOnly
  <2>4. NotMisled'
    BY <1>0, <2>1, <2>2, OthersResolve DEF ToldInv, NotMisled
  <2> QED
    BY <1>0, <2>1, <2>3, <2>4 DEF ToldInv, OpenIsTold
<1> QED
  BY <1>1, <1>2, <1>3, <1>4, <1>5, <1>6, <1>7, <1>8, <1>9, <1>10 DEF Step

LEMMA KeepTold ==
  ASSUME ToldInv, EngineInv', UNCHANGED <<rows, pc, todo, snap, view, torn>>
  PROVE  ToldInv'
  BY DEF ToldInv, Announced, AnnouncedBy, OpenIsTold, NotMisled, Stale

LEMMA EnvironmentTold ==
  ASSUME ToldInv, Environment
  PROVE  ToldInv'
<1>0. EngineInv /\ EngineInv'
  BY EnvironmentEngine DEF ToldInv
<1>1. CASE Tick \/ DigestSent
  BY <1>0, <1>1, KeepTold DEF Tick, DigestSent, cycle
<1>2. CASE Crash
  <2>1. /\ rows' = rows /\ view' = view /\ torn' = torn \cup Torn(Jobs)
        /\ \A j \in Jobs : pc'[j] = "idle"
    BY <1>2 DEF Crash, Forget, tables
  <2>2. \A j \in Jobs : pc[j] = "resolving" => Stale(j).key \in torn'
    BY <2>1 DEF Torn
  <2> QED
    BY <1>0, <2>1, <2>2 DEF ToldInv, Announced, AnnouncedBy, OpenIsTold, NotMisled
<1> QED
  BY <1>1, <1>2 DEF Environment

LEMMA ToldInvariant == Spec => []ToldInv
<1>1. ToldInv /\ UNCHANGED vars => ToldInv'
  <2> SUFFICES ASSUME ToldInv, UNCHANGED vars
               PROVE  ToldInv'
    OBVIOUS
  <2>1. EngineInv'
    BY StutterType, KeepEngine DEF ToldInv, EngineInv, vars, tables, cycle
  <2> QED
    BY <2>1, KeepTold DEF vars, tables, cycle
<1>2. ToldInv /\ [Next]_vars => ToldInv'
  BY <1>1, StepTold, EnvironmentTold DEF Next
<1> QED
  BY InitTold, <1>2, PTL DEF Spec

(* Whatever is open in the store was announced to the recipients, by the   *)
(* alert or the digest item its row says; lost broadcasts, failed inserts, *)
(* store exceptions and crashes notwithstanding.                           *)
THEOREM NothingOpenUntold == Spec => []OpenIsTold
<1>1. ToldInv => OpenIsTold
  BY DEF ToldInv
<1> QED
  BY ToldInvariant, <1>1, PTL

(* Recipients told of a recovery are misled about an open event only by a  *)
(* crash or store exception between that message and the commit.           *)
THEOREM MisledOnlyWhenTorn == Spec => []NotMisled
<1>1. ToldInv => NotMisled
  BY DEF ToldInv
<1> QED
  BY ToldInvariant, <1>1, PTL

-----------------------------------------------------------------------------
(* The refinement.                                                         *)

LEMMA StepIncidents ==
  ASSUME ToldInv, NEW j \in Jobs, Cycle(j) \/ Step(j)
  PROVE  [Board!Next]_(Board!vars)
<1>0. TypeInv /\ EngineInv /\ OthersKept(j)
  BY StepOthers DEF ToldInv, EngineInv
<1> USE DEF Board!vars, Board!Next
<1>1. CASE Cycle(j) \/ Skip(j) \/ SendAlert(j) \/ AlertLost(j) \/ InsertFails(j)
           \/ FindingsDone(j) \/ SendRecovery(j) \/ RecoveryLost(j) \/ Done(j) \/ Raise(j)
  <2>1. rows' = rows /\ view' = view
    BY <1>1 DEF Cycle, Begin, Ready, Skip, SendAlert, AlertLost, InsertFails, FindingsDone,
       SendRecovery, RecoveryLost, Done, Raise, tables
  <2> QED
    BY <2>1
<1>2. CASE Enqueue(j) \/ AlertDelivered(j)
  <2> DEFINE k == Head(todo[j]).key
  <2>1. /\ rows' = rows
        /\ \E how \in {"queued", "firing"} : view' = [view EXCEPT ![k] = how]
    BY <1>2 DEF Enqueue, AlertDelivered, tables
  <2>2. k \in Keys /\ \A r \in rows : r.key # k
    <3>1. CASE Enqueue(j)
      BY <1>0, <3>1, TodoTail, NewHasNoRow DEF Enqueue, AtFinding
    <3>2. CASE AlertDelivered(j)
      BY <1>0, <3>2, TodoTail
      DEF AlertDelivered, EngineInv, InHand, HasFinding, TypeInv, Pending
    <3> QED
      BY <1>2, <3>1, <3>2
  <2> QED
    BY <2>1, <2>2 DEF Board!Announce
<1>3. CASE Insert(j)
  <2> DEFINE f == Head(todo[j])
  <2>1. /\ view' = view /\ pc[j] = "inserting"
        /\ rows' = rows \/ \E r \in Row : rows' = rows \cup {r} /\ r.key = f.key
    <3> DEFINE new == [id |-> CHOOSE i \in FreeIds : TRUE, key |-> f.key,
                       notified |-> f.immediate]
    <3>1. rows' = rows \/ rows' = rows \cup {new}
      BY <1>3 DEF Insert
    <3>2. new \in rows' => new \in Row
      BY StepType DEF ToldInv, EngineInv, TypeInv, TypeOK
    <3>3. new.key = f.key
      OBVIOUS
    <3>4. view' = view /\ pc[j] = "inserting"
      BY <1>3 DEF Insert, Running
    <3> QED
      BY <3>1, <3>2, <3>3, <3>4
  <2>2. f.key \in Keys /\ (\A r \in rows : r.key # f.key) /\ view[f.key] \in {"queued", "firing"}
    BY <1>0, <2>1, TodoTail
    DEF ToldInv, Announced, AnnouncedBy, EngineInv, InHand, HasFinding, TypeInv, Pending
  <2>3. ASSUME NEW r \in Row, rows' = rows \cup {r}, r.key = f.key
        PROVE  {q.key : q \in rows'} = {q.key : q \in rows} \cup {f.key}
    BY <2>3
  <2>4. CASE rows' = rows
    BY <2>1, <2>4
  <2>5. CASE \E r \in Row : rows' = rows \cup {r} /\ r.key = f.key
    <3>0. PICK r \in Row : rows' = rows \cup {r} /\ r.key = f.key
      BY <2>5
    <3> QED
      BY <2>1, <2>2, <2>3, <3>0 DEF Board!Open
  <2> QED
    BY <2>1, <2>4, <2>5
<1>4. CASE DeferRecovery(j) \/ RecoveryDelivered(j)
  <2> DEFINE s == Stale(j)
  <2>1. /\ view' = [view EXCEPT ![s.key] = "recovered"] /\ rows' = rows /\ snap[j] # {}
    BY <1>0, <1>4 DEF DeferRecovery, RecoveryDelivered, AtRecovery, tables, TypeInv, Pending
  <2>2. s \in rows /\ s.key \in Keys
    BY <1>0, <2>1, StaleInSnap DEF EngineInv, SnapshotIsOpen, Family, FamilyOf
  <2> QED
    BY <2>1, <2>2 DEF Board!AnnounceRecovery
<1>5. CASE Resolve(j)
  <2> DEFINE s == Stale(j)
  <2>1. /\ view' = [view EXCEPT ![s.key] = "silent"] /\ pc[j] = "resolving"
        /\ rows' = {r \in rows : r.id # s.id} /\ snap[j] # {}
    BY <1>0, <1>5 DEF Resolve, Running, TypeInv, Pending
  <2>2. s \in rows /\ s.key \in Keys /\ view[s.key] = "recovered"
    BY <1>0, <2>1, StaleInSnap
    DEF ToldInv, Announced, AnnouncedBy, EngineInv, SnapshotIsOpen, Family, FamilyOf
  <2>3. \A r \in rows : r.id = s.id <=> r.key = s.key
    BY <1>0, <2>2 DEF EngineInv, AtMostOneOpen, IdsDistinct
  <2>4. {r.key : r \in rows'} = {r.key : r \in rows} \ {s.key}
    BY <2>1, <2>3
  <2> QED
    BY <2>1, <2>2, <2>4 DEF Board!Close
<1> QED
  BY <1>1, <1>2, <1>3, <1>4, <1>5 DEF Step

(* The event machine implements the promise made to the recipients: an     *)
(* incident is opened after its announcement only, it is closed after the  *)
(* announcement of its recovery only, and one row stands for it.           *)
THEOREM Refinement == Spec => ImplementsIncidents
<1>1. Init => Board!Init
  BY DEF Init, Board!Init
<1>2. ToldInv /\ [Next]_vars => [Board!Next]_(Board!vars)
  <2>1. Environment \/ UNCHANGED vars => UNCHANGED <<rows, view>>
    BY DEF Environment, Tick, DigestSent, Crash, vars, tables
  <2> QED
    BY <2>1, StepIncidents DEF Next, Board!vars
<1> QED
  BY <1>1, <1>2, ToldInvariant, PTL DEF Spec, ImplementsIncidents, Board!Spec

-----------------------------------------------------------------------------
(* Cooldowns.  The cooldown is read before the broadcast; as only the owner *)
(* of a rule starts one, it is still over when the row is inserted, on the  *)
(* clock of the cycle (now_ts), which the lag of the cycle stands for.      *)

NotCooling ==
  \A j \in Jobs : HasFinding(j) => ~Cooling(j, Head(todo[j]).key)

CoolInv == EngineInv /\ NotCooling

(* A step that starts no cooldown, and takes no finding in hand that cools. *)
LEMMA CoolKept ==
  ASSUME CoolInv, EngineInv', NEW j \in Jobs, OthersKept(j), due' = due,
         \A i \in Jobs \ {j} : lag'[i] = lag[i],
         HasFinding(j)' => ~Cooling(j, Head(todo[j]).key)'
  PROVE  CoolInv'
  BY DEF CoolInv, NotCooling, HasFinding, OthersKept, Cooling

LEMMA StepCool ==
  ASSUME CoolInv, NEW j \in Jobs, Cycle(j) \/ Step(j)
  PROVE  CoolInv'
<1>0. TypeInv /\ EngineInv /\ EngineInv' /\ OthersKept(j)
  BY StepEngine, StepOthers DEF CoolInv, EngineInv
<1>1. CASE Cycle(j)
  <2>1. due' = due /\ pc'[j] = "finding" /\ \A i \in Jobs \ {j} : lag'[i] = lag[i]
    BY <1>0, <1>1 DEF Cycle, Begin, Ready, tables, TypeInv, TypeOK
  <2> QED
    BY <1>0, <2>1, CoolKept DEF HasFinding
<1>2. CASE Skip(j) \/ AlertLost(j) \/ InsertFails(j)
  <2>1. due' = due /\ lag' = lag /\ pc'[j] = "finding"
    BY <1>0, <1>2 DEF Skip, AlertLost, InsertFails, NextFinding, tables, TypeInv, TypeOK
  <2> QED
    BY <1>0, <2>1, CoolKept DEF HasFinding
<1>3. CASE SendAlert(j) \/ Enqueue(j) \/ AlertDelivered(j)
  <2>1. due' = due /\ lag' = lag /\ todo' = todo
    BY <1>3 DEF SendAlert, Enqueue, AlertDelivered, tables
  <2>2. ~Cooling(j, Head(todo[j]).key)
    BY <1>3 DEF SendAlert, Enqueue, AlertDelivered, New, CoolInv, NotCooling, HasFinding
  <2> QED
    BY <1>0, <2>1, <2>2, CoolKept DEF Cooling
<1>4. CASE Insert(j)
  <2> DEFINE k == Head(todo[j]).key
  <2>1. /\ due' = [due EXCEPT ![k] = Max2(due[k], Cooldown - lag[j])] /\ lag' = lag
        /\ pc[j] = "inserting" /\ pc'[j] = "finding"
    BY <1>0, <1>4 DEF Insert, Until, Running, NextFinding, TypeInv, TypeOK
  <2>2. k \in TodoKeys(j)
    BY <1>0, <2>1, TodoTail DEF TypeInv, Pending
  <2>3. ASSUME NEW i \in Jobs \ {j}, HasFinding(i)
        PROVE  ~Cooling(i, Head(todo[i]).key)'
    <3>1. Head(todo[i]).key \in TodoKeys(i) /\ Head(todo[i]).key \in Keys
      BY <1>0, <2>3, TodoTail DEF HasFinding, TypeInv, Pending
    <3>2. Head(todo[i]).key # k
      BY <1>0, <2>2, <3>1 DEF EngineInv, Family, FamilyOf
    <3>3. due'[Head(todo[i]).key] = due[Head(todo[i]).key]
      BY <1>0, <2>1, <3>1, <3>2 DEF TypeInv, TypeOK
    <3> QED
      BY <1>0, <2>1, <2>3, <3>3 DEF CoolInv, NotCooling, Cooling, OthersKept
  <2> QED
    BY <1>0, <2>1, <2>3 DEF CoolInv, NotCooling, HasFinding, OthersKept
<1>5. CASE FindingsDone(j) \/ SendRecovery(j) \/ DeferRecovery(j) \/ RecoveryDelivered(j)
           \/ RecoveryLost(j) \/ Resolve(j)
  <2>1. /\ due' = due /\ lag' = lag
        /\ \E to \in {"recovering", "telling", "resolving"} : pc' = [pc EXCEPT ![j] = to]
    BY <1>5 DEF FindingsDone, SendRecovery, DeferRecovery, RecoveryDelivered, RecoveryLost,
       Resolve, NextStale, tables, cycle
  <2> QED
    BY <1>0, <2>1, CoolKept DEF HasFinding, TypeInv, TypeOK
<1>6. CASE Done(j) \/ Raise(j)
  <2>1. due' = due /\ pc'[j] = "idle" /\ \A i \in Jobs \ {j} : lag'[i] = lag[i]
    BY <1>6 DEF Done, Raise, Forget, tables
  <2> QED
    BY <1>0, <2>1, CoolKept DEF HasFinding
<1> QED
  BY <1>1, <1>2, <1>3, <1>4, <1>5, <1>6 DEF Step

LEMMA EnvironmentCool ==
  ASSUME CoolInv, Environment
  PROVE  CoolInv'
<1>0. EngineInv /\ EngineInv' /\ TypeInv
  BY EnvironmentEngine DEF CoolInv, EngineInv
<1>1. CASE Tick
  <2>1. ASSUME NEW j \in Jobs, HasFinding(j)
        PROVE  ~Cooling(j, Head(todo[j]).key)'
    <3> DEFINE k == Head(todo[j]).key
    <3>1. k \in Keys
      BY <1>0, <2>1, TodoTail DEF HasFinding, TypeInv, Pending
    <3>2. /\ due'[k] = Max2(due[k] - 1, -MaxLag) /\ lag'[j] = lag[j] + 1 /\ lag[j] < MaxLag
          /\ todo' = todo
      BY <1>1, <2>1, <3>1 DEF Tick, Busy, HasFinding
    <3>3. due[k] + lag[j] <= 0 /\ due[k] \in Int /\ lag[j] \in Nat /\ MaxLag \in Nat
      BY <1>0, <2>1, <3>1, EngineAssumption DEF CoolInv, NotCooling, Cooling, TypeInv, TypeOK
    <3>4. due'[k] + lag'[j] <= 0 /\ due'[k] \in Int /\ lag'[j] \in Int
      BY <3>2, <3>3 DEF Max2
    <3>5. ~(due'[k] + lag'[j] > 0)
      BY <3>4
    <3> QED
      BY <3>2, <3>5 DEF Cooling
  <2> QED
    BY <1>0, <1>1, <2>1 DEF Tick, CoolInv, NotCooling, HasFinding
<1>2. CASE DigestSent
  BY <1>0, <1>2 DEF DigestSent, cycle, CoolInv, NotCooling, HasFinding, Cooling
<1>3. CASE Crash
  BY <1>0, <1>3 DEF Crash, Forget, CoolInv, NotCooling, HasFinding
<1> QED
  BY <1>1, <1>2, <1>3 DEF Environment

LEMMA CoolInvariant == Spec => []CoolInv
<1>1. Init => CoolInv
  BY InitEngine DEF Init, CoolInv, NotCooling, HasFinding
<1>2. CoolInv /\ UNCHANGED vars => CoolInv'
  BY StutterType, KeepEngine
  DEF CoolInv, EngineInv, NotCooling, HasFinding, Cooling, vars, tables, cycle
<1>3. CoolInv /\ [Next]_vars => CoolInv'
  BY <1>2, StepCool, EnvironmentCool DEF Next
<1> QED
  BY <1>1, <1>3, PTL DEF Spec

(* Two events of one (rule, subject) are dated at least a cooldown apart.  *)
THEOREM CooldownHolds == Spec => CooldownRespected
<1> DEFINE Spaced == \A k \in Keys : due'[k] > due[k] => due[k] + (Cooldown - due'[k]) <= 0
<1>1. CoolInv /\ [Next]_vars => [Spaced]_vars
  <2> SUFFICES ASSUME CoolInv, Next, NEW k \in Keys, due'[k] > due[k]
               PROVE  due[k] + (Cooldown - due'[k]) <= 0
    OBVIOUS
  <2>1. TypeInv /\ due[k] \in Int /\ MaxLag \in Nat /\ Cooldown \in Nat
    <3>1. MaxLag \in Nat /\ Cooldown \in Nat
      BY EngineAssumption
    <3>2. TypeInv /\ due \in [Keys -> (-MaxLag)..Cooldown]
      BY DEF CoolInv, EngineInv, TypeInv, TypeOK
    <3>3. due[k] \in (-MaxLag)..Cooldown
      BY <3>2
    <3> QED
      BY <3>1, <3>2, <3>3
  <2>2. ~Tick
    <3>1. due[k] >= -MaxLag
      BY EngineAssumption DEF CoolInv, EngineInv, TypeInv, TypeOK
    <3>2. Tick => due'[k] <= due[k]
      BY <2>1, <3>1 DEF Tick, Max2
    <3> QED
      BY <2>1, <3>2 DEF Tick, Max2
  <2>3. PICK j \in Jobs : Insert(j)
    <3>1. due' # due
      BY <2>1
    <3> QED
      BY <2>2, <3>1, ZenonT(40)
      DEF Next, Environment, DigestSent, Crash, Cycle, Begin, Ready, Step, Skip, SendAlert, Enqueue,
          AlertDelivered, AlertLost, InsertFails, FindingsDone, SendRecovery, DeferRecovery,
          RecoveryDelivered, RecoveryLost, Resolve, Done, Raise, tables
  <2>4. k = Head(todo[j]).key /\ due'[k] = Max2(due[k], Cooldown - lag[j])
    BY <2>1, <2>3 DEF Insert, Until, TypeInv, TypeOK
  <2>5. due[k] + lag[j] <= 0 /\ lag[j] \in Int
    <3>1. ~(due[k] + lag[j] > 0)
      BY <2>3, <2>4 DEF Insert, Running, CoolInv, NotCooling, HasFinding, Cooling
    <3>2. lag[j] \in 0..MaxLag
      BY <2>1 DEF TypeInv, TypeOK
    <3> QED
      BY <2>1, <3>1, <3>2
  <2> QED
    BY <2>1, <2>4, <2>5 DEF Max2
<1> QED
  BY CoolInvariant, <1>1, PTL DEF Spec, CooldownRespected

-----------------------------------------------------------------------------
(* The ticks as callers.                                                    *)

KeysIn(findings) == {findings[i].key : i \in DOMAIN findings}

(* The urgency a tick gives its finding is one the rule knows.              *)
LEMMA AnyUrgency ==
  ASSUME NEW U \in (SUBSET BOOLEAN) \ {{}}
  PROVE  (TRUE \in U) \in U /\ (TRUE \in U) \in BOOLEAN
<1>1. (TRUE \in U) \in BOOLEAN
  BY SMT
<1>2. PICK b \in BOOLEAN : b = (TRUE \in U)
  BY <1>1, Zenon
<1>3. b \in U
  BY <1>2
<1> QED
  BY <1>1, <1>2, <1>3, Zenon

(* A concatenation, and its keys.                                           *)
LEMMA ConcatIsIn ==
  ASSUME NEW S, NEW m \in Nat, NEW n \in Nat, NEW s \in [1..m -> S], NEW t \in [1..n -> S]
  PROVE  s \o t \in [1..(m + n) -> S]
<1>1. s \in Seq(S) /\ t \in Seq(S) /\ Len(s) = m /\ Len(t) = n
  OBVIOUS
<1>2. s \o t \in Seq(S) /\ Len(s \o t) = m + n
  BY <1>1, ConcatProperties
<1> QED
  BY <1>2, LenProperties

LEMMA KeysOfConcat ==
  ASSUME NEW m \in Nat, NEW n \in Nat, NEW s \in [1..m -> Finding], NEW t \in [1..n -> Finding]
  PROVE  KeysIn(s \o t) = KeysIn(s) \cup KeysIn(t)
<1>1. s \in Seq(Finding) /\ t \in Seq(Finding) /\ Len(s) = m /\ Len(t) = n
  OBVIOUS
<1>2. /\ s \o t \in [1..(m + n) -> Finding] /\ DOMAIN (s \o t) = 1..(m + n)
      /\ \A i \in 1..m : (s \o t)[i] = s[i]
      /\ \A i \in 1..n : (s \o t)[m + i] = t[i]
      /\ \A i \in 1..(m + n) : (s \o t)[i] = IF i <= m THEN s[i] ELSE t[i - m]
  <2>1. s \o t \in Seq(Finding) /\ Len(s \o t) = m + n
    BY <1>1, ConcatProperties
  <2>2. \A i \in 1..(m + n) : (s \o t)[i] = IF i <= m THEN s[i] ELSE t[i - m]
    BY <1>1, ConcatProperties
  <2>3. \A i \in 1..m : i \in 1..(m + n) /\ i <= m
    OBVIOUS
  <2>4. \A i \in 1..n : m + i \in 1..(m + n) /\ ~(m + i <= m) /\ (m + i) - m = i
    OBVIOUS
  <2>5. \A i \in 1..m : (s \o t)[i] = s[i]
    BY <2>2, <2>3
  <2>6. \A i \in 1..n : (s \o t)[m + i] = t[i]
    BY <2>2, <2>4
  <2>7. s \o t \in [1..(m + n) -> Finding] /\ DOMAIN (s \o t) = 1..(m + n)
    BY <2>1, LenProperties
  <2> QED
    BY <2>2, <2>5, <2>6, <2>7
<1>3. DOMAIN s = 1..m /\ DOMAIN t = 1..n
  OBVIOUS
<1>4. KeysIn(s) \cup KeysIn(t) \subseteq KeysIn(s \o t)
  <2>1. ASSUME NEW i \in 1..m PROVE s[i].key \in KeysIn(s \o t)
    <3>1. i \in 1..(m + n) /\ (s \o t)[i] = s[i]
      BY <1>2
    <3> QED BY <1>2, <3>1 DEF KeysIn
  <2>2. ASSUME NEW i \in 1..n PROVE t[i].key \in KeysIn(s \o t)
    <3>1. m + i \in 1..(m + n) /\ (s \o t)[m + i] = t[i]
      BY <1>2
    <3> QED BY <1>2, <3>1 DEF KeysIn
  <2> QED BY <1>3, <2>1, <2>2 DEF KeysIn
<1>5. KeysIn(s \o t) \subseteq KeysIn(s) \cup KeysIn(t)
  <2> SUFFICES ASSUME NEW i \in 1..(m + n)
               PROVE  (s \o t)[i].key \in KeysIn(s) \cup KeysIn(t)
    BY <1>2 DEF KeysIn
  <2>1. CASE i <= m
    <3>1. i \in DOMAIN s /\ (s \o t)[i] = s[i]
      BY <1>2, <1>3, <2>1
    <3> QED BY <3>1 DEF KeysIn
  <2>2. CASE ~(i <= m)
    <3>1. i - m \in DOMAIN t /\ (s \o t)[i] = t[i - m]
      BY <1>2, <1>3, <2>2
    <3> QED BY <3>1 DEF KeysIn
  <2> QED BY <2>1, <2>2
<1> QED
  BY <1>2, <1>4, <1>5

(* The findings of a set of keys are as many, and one of each.              *)
LEMMA FindingsOfKeys ==
  ASSUME NEW keys \in SUBSET Keys, IsFiniteSet(keys)
  PROVE  /\ Cardinality(keys) \in Nat /\ KeysIn(Findings(keys)) = keys
         /\ Findings(keys) \in [1..Cardinality(keys) ->
              {f \in Finding : f.key \in keys /\ f.immediate \in Urgency[f.key]}]
<1> DEFINE n == Cardinality(keys)
           order == SetToSeq(keys)
<1>1. n \in Nat /\ ExistsBijection(1..n, keys)
  BY FS_CardinalityType
<1>2. order \in Injection(1..n, keys)
  <2>1. \E f \in [1..n -> keys] : IsInjective(f)
    BY <1>1 DEF ExistsBijection, Bijection, Injection
  <2> QED
    BY <2>1 DEF SetToSeq, Injection
<1>3. IsFiniteSet(1..n) /\ Cardinality(1..n) = n
  BY <1>1, FS_Interval
<1>4. order \in Surjection(1..n, keys)
  BY <1>2, <1>3, FS_Injection
<1>5. order \in [1..n -> keys] /\ \A k \in keys : \E i \in 1..n : order[i] = k
  BY <1>2, <1>4 DEF Injection, Surjection
<1> HIDE DEF n, order
<1>6. Findings(keys) = [i \in DOMAIN order |->
                          [key |-> order[i], immediate |-> TRUE \in Urgency[order[i]]]]
  BY DEF Findings, order
<1>7. ASSUME NEW k \in keys
      PROVE  (TRUE \in Urgency[k]) \in Urgency[k] /\ (TRUE \in Urgency[k]) \in BOOLEAN
  <2>1. Urgency[k] \in (SUBSET BOOLEAN) \ {{}}
    BY EngineAssumption
  <2> QED
    BY <2>1, AnyUrgency
<1>8. DOMAIN Findings(keys) = 1..n /\ \A i \in 1..n : Findings(keys)[i].key = order[i]
  BY <1>5, <1>6
<1>9. Findings(keys) \in [1..n -> {f \in Finding : f.key \in keys /\ f.immediate \in Urgency[f.key]}]
  <2>1. ASSUME NEW i \in 1..n
        PROVE  /\ Findings(keys)[i] = [key |-> order[i], immediate |-> TRUE \in Urgency[order[i]]]
               /\ order[i] \in keys
    BY <1>5, <1>6
  <2>2. ASSUME NEW k \in keys
        PROVE  [key |-> k, immediate |-> TRUE \in Urgency[k]]
                 \in {f \in Finding : f.key \in keys /\ f.immediate \in Urgency[f.key]}
    BY <1>7 DEF Finding
  <2>3. \A i \in 1..n : Findings(keys)[i]
          \in {f \in Finding : f.key \in keys /\ f.immediate \in Urgency[f.key]}
    BY <2>1, <2>2
  <2>4. Findings(keys) = [i \in 1..n |-> Findings(keys)[i]]
    BY <1>5, <1>6
  <2> QED
    BY <2>3, <2>4
<1>10. KeysIn(Findings(keys)) = keys
  BY <1>5, <1>8 DEF KeysIn
<1> QED
  BY <1>1, <1>9, <1>10 DEF n

(* What a tick found is a legal argument: of its rules, and no more of them *)
(* than it has keys, those of its scan and that of its failure together.    *)
LEMMA FindingsFit ==
  ASSUME NEW j \in Jobs, NEW scope \in ScopesOf(j), NEW hits, NEW more, hits \cap more = {},
         hits \cup more \subseteq KeysOf(scope)
  PROVE  /\ Findings(hits) \o Findings(more) \in FindingsOf(scope)
         /\ KeysIn(Findings(hits) \o Findings(more)) = hits \cup more
         /\ Findings(hits) \in FindingsOf(scope) /\ KeysIn(Findings(hits)) = hits
<1> DEFINE own == {k \in Keys : Owner[RuleOf[k]] = j}
           Legal == {f \in Finding : f.key \in KeysOf(scope) /\ f.immediate \in Urgency[f.key]}
<1>1. IsFiniteSet(own) /\ Cardinality(own) <= MaxFindings /\ MaxFindings \in Nat
  BY PatrolAssumption, EngineAssumption, FS_Subset
<1>2. KeysOf(scope) \subseteq own
  BY DEF KeysOf, ScopesOf
<1>3. IsFiniteSet(hits) /\ IsFiniteSet(more) /\ IsFiniteSet(hits \cup more)
  BY <1>1, <1>2, FS_Subset
<1>4. /\ Cardinality(hits \cup more) <= Cardinality(own)
      /\ Cardinality(hits \cup more) = Cardinality(hits) + Cardinality(more)
  <2>1. Cardinality(hits \cap more) = 0
    BY FS_EmptySet
  <2>2. Cardinality(hits \cup more) = Cardinality(hits) + Cardinality(more) - Cardinality(hits \cap more)
    BY <1>3, FS_Union
  <2>3. Cardinality(hits \cup more) <= Cardinality(own)
    BY <1>1, <1>2, FS_Subset
  <2>4. Cardinality(hits) \in Nat /\ Cardinality(more) \in Nat
    BY <1>3, FS_CardinalityType
  <2> QED
    BY <2>1, <2>2, <2>3, <2>4
<1>5. /\ Cardinality(hits) \in Nat /\ Cardinality(more) \in Nat
      /\ KeysIn(Findings(hits)) = hits /\ KeysIn(Findings(more)) = more
      /\ Findings(hits) \in [1..Cardinality(hits) -> Legal]
      /\ Findings(more) \in [1..Cardinality(more) -> Legal]
  <2>1. hits \in SUBSET Keys /\ more \in SUBSET Keys
    BY DEF KeysOf
  <2> QED
    BY <1>3, <2>1, FindingsOfKeys
<1> HIDE DEF own, Legal
<1>6. Cardinality(own) \in Nat
  BY <1>1, FS_CardinalityType
<1>7. /\ Cardinality(hits) \in 0..MaxFindings
      /\ Cardinality(hits) + Cardinality(more) \in 0..MaxFindings
  BY <1>1, <1>4, <1>5, <1>6
<1>8. Findings(hits) \in FindingsOf(scope)
  BY <1>5, <1>7 DEF FindingsOf, Legal
<1>9. /\ Findings(hits) \o Findings(more) \in [1..(Cardinality(hits) + Cardinality(more)) -> Legal]
      /\ KeysIn(Findings(hits) \o Findings(more)) = hits \cup more
  <2>1. Findings(hits) \o Findings(more) \in [1..(Cardinality(hits) + Cardinality(more)) -> Legal]
    BY <1>5, ConcatIsIn, Zenon
  <2>2. /\ Cardinality(hits) \in Nat /\ Cardinality(more) \in Nat
        /\ Findings(hits) \in [1..Cardinality(hits) -> Finding]
        /\ Findings(more) \in [1..Cardinality(more) -> Finding]
    BY <1>5 DEF Legal
  <2>3. KeysIn(Findings(hits) \o Findings(more)) = KeysIn(Findings(hits)) \cup KeysIn(Findings(more))
    BY <2>2, KeysOfConcat
  <2> QED
    BY <1>5, <2>1, <2>3
<1>10. Findings(hits) \o Findings(more) \in FindingsOf(scope)
  BY <1>7, <1>9 DEF FindingsOf, Legal
<1> QED
  BY <1>5, <1>8, <1>9, <1>10

LEMMA HitsFit ==
  ASSUME NEW j \in Jobs, NEW scope \in ScopesOf(j), NEW hits \in SUBSET KeysOf(scope)
  PROVE  Findings(hits) \in FindingsOf(scope) /\ KeysIn(Findings(hits)) = hits
<1>1. hits \cap {} = {} /\ hits \cup {} \subseteq KeysOf(scope)
  OBVIOUS
<1> QED
  BY <1>1, FindingsFit

-----------------------------------------------------------------------------
(* A tick is a cycle of the engine.  Whatever is open in its scope when it *)
(* begins is held, found firing, or was judged by its scan: seen in order, *)
(* or not listed where that holds nothing; and a tick looks at no other    *)
(* tick's keys.                                                            *)
ForClosing == {"ok", "gone"}

LosesOnlyLosable == Conditions \ visible \subseteq Losable

PatrolInv == PatrolTypeOK /\ LosesOnlyLosable /\ EngineInv

Judges(scope, hold, findings) ==
  \A r \in rows : r.key \in KeysOf(scope) =>
    r.key \in hold \cup KeysIn(findings) \/ seen'[r.key] \in ForClosing

Scanned(j, scope, hold, findings, age) ==
  /\ scope \in ScopesOf(j) /\ hold \in SUBSET KeysOf(scope)
  /\ findings \in FindingsOf(scope) /\ age \in 0..MaxLag
  /\ Begin(j, scope, hold, findings, age)
  /\ Judges(scope, hold, findings)
  /\ \A k \in Keys \ FamilyOf(j) : seen'[k] = seen[k]
  /\ seen' \in [Keys -> {"never", "ok", "bad", "gone"}]

(* What the holds of a tick are of: the rules that hold, or none when the  *)
(* open events could not be read.                                          *)
LEMMA HoldIsOfHolding ==
  ASSUME NEW rules
  PROVE  Hold(rules) = Hold(rules \cap Holding)
<1> QED
  BY DEF Hold

(* The subjects of a scope that a scan does not list are held, or gone.    *)
LEMMA UnseenIsHeldOrGone ==
  ASSUME PatrolInv, NEW rules, NEW holding \in {Holding, {}}, NEW r \in rows,
         RuleOf[r.key] \in rules, r.key \in Conditions \ visible
  PROVE  r.key \in Hold(rules \cap holding) \cup Unlisted(rules \ holding)
<1>1. r.key \in Losable \ visible /\ r.key \in OpenKeys
  BY DEF PatrolInv, LosesOnlyLosable, OpenKeys
<1>2. CASE RuleOf[r.key] \in holding
  BY <1>1, <1>2 DEF Hold
<1>3. CASE RuleOf[r.key] \notin holding
  BY <1>1, <1>3 DEF Unlisted
<1> QED
  BY <1>2, <1>3

LEMMA HoldIsOfScope ==
  ASSUME PatrolInv, NEW rules, NEW holding
  PROVE  Hold(rules \cap holding) \in SUBSET KeysOf(rules)
<1>1. OpenKeys \subseteq Keys
  BY DEF PatrolInv, EngineInv, TypeInv, TypeOK, OpenKeys, Row
<1> QED
  BY <1>1 DEF Hold, KeysOf

LEMMA GoneIsOfFamily ==
  ASSUME NEW j \in Jobs, NEW rules \in SUBSET OwnRules(j), NEW holding
  PROVE  Unlisted(rules \ holding) \subseteq FamilyOf(j)
<1>1. Losable \subseteq Keys
  BY PatrolAssumption
<1> QED
  BY <1>1 DEF Unlisted, OwnRules, FamilyOf

(* Of an open key in the scope of a whole scan, neither held nor found,    *)
(* the scan says that it is in order, or gone.                             *)
LEMMA JudgedByScan ==
  ASSUME PatrolInv, NEW j \in Counted, NEW holding \in {Holding, {}},
         Sees(Evaluated(Checked(j)) \cup {FailKey[j]}, Unlisted(Checked(j) \ holding)),
         NEW r \in rows, r.key \in KeysOf(ScopeOf(j)), r.key \notin Hold(ScopeOf(j) \cap holding),
         r.key \notin Evaluated(Checked(j)) \cap bad
  PROVE  seen'[r.key] \in ForClosing
<1>1. r.key \in Keys /\ RuleOf[r.key] \in ScopeOf(j)
  BY DEF KeysOf
<1>2. CASE r.key \in Unlisted(Checked(j) \ holding)
  BY <1>1, <1>2 DEF Sees, ForClosing
<1>3. CASE r.key \in Conditions /\ r.key \notin Unlisted(Checked(j) \ holding)
  <2>1. r.key \in visible
    BY <1>1, <1>3, UnseenIsHeldOrGone DEF Checked, ScopeOf
  <2>2. r.key \in Evaluated(Checked(j)) /\ r.key \notin bad
    BY <1>1, <2>1 DEF Evaluated, Checked, ScopeOf
  <2> QED
    BY <1>1, <1>3, <2>2 DEF Sees, ForClosing
<1>4. CASE r.key \notin Conditions /\ r.key \notin Unlisted(Checked(j) \ holding)
  <2>1. PICK i \in Counted : r.key = FailKey[i]
    BY <1>1, <1>4 DEF Conditions
  <2>2. i = j
    BY <1>1, <2>1, PatrolAssumption DEF ScopeOf, OwnRules
  <2>3. r.key \notin bad
    BY <1>4 DEF PatrolInv, PatrolTypeOK
  <2> QED
    BY <1>1, <1>4, <2>1, <2>2, <2>3 DEF Sees, ForClosing
<1> QED
  BY <1>2, <1>3, <1>4

LEMMA ScanOkScans ==
  ASSUME PatrolInv, NEW j \in Jobs, ScanOk(j)
  PROVE  \E scope, hold, findings, age : Scanned(j, scope, hold, findings, age)
<1> DEFINE scope == ScopeOf(j)
           hits == Evaluated(Checked(j)) \cap bad
<1>1. scope \in ScopesOf(j)
  BY DEF ScopeOf, OwnRules, ScopesOf
<1>2. hits \subseteq KeysOf(scope) /\ hits \subseteq Conditions
  BY DEF Evaluated, Checked, ScopeOf, KeysOf, PatrolInv, PatrolTypeOK, Conditions
<1>3. Findings(hits) \in FindingsOf(scope) /\ KeysIn(Findings(hits)) = hits
  BY <1>1, <1>2, HitsFit
<1>4. Hold(scope) = Hold(scope \cap Holding) /\ Hold(scope) \in SUBSET KeysOf(scope)
  BY HoldIsOfScope, HoldIsOfHolding
<1>5. PICK age \in 0..MaxLag : Begin(j, scope, Hold(scope), Findings(hits), age)
  BY DEF ScanOk
<1>6. /\ j \in Counted
      /\ Sees(Evaluated(Checked(j)) \cup {FailKey[j]}, Unlisted(Checked(j) \ Holding))
  BY DEF ScanOk
<1>7. \A k \in Keys \ FamilyOf(j) : seen'[k] = seen[k]
  <2>1. Evaluated(Checked(j)) \cup {FailKey[j]} \subseteq FamilyOf(j)
    BY <1>6, PatrolAssumption
    DEF Evaluated, Checked, OwnRules, FamilyOf, PatrolInv, PatrolTypeOK, Conditions
  <2>2. Unlisted(Checked(j) \ Holding) \subseteq FamilyOf(j)
    BY GoneIsOfFamily DEF Checked
  <2> QED
    BY <1>6, <2>1, <2>2 DEF Sees
<1>8. seen' \in [Keys -> {"never", "ok", "bad", "gone"}]
  BY <1>6 DEF Sees, PatrolInv, PatrolTypeOK
<1>9. Judges(scope, Hold(scope), Findings(hits))
  <2> SUFFICES ASSUME NEW r \in rows, r.key \in KeysOf(scope), r.key \notin Hold(scope),
                      r.key \notin hits
               PROVE  seen'[r.key] \in ForClosing
    BY <1>3 DEF Judges
  <2> QED
    BY <1>4, <1>6, JudgedByScan
<1> HIDE DEF scope, hits
<1> QED
  BY <1>1, <1>3, <1>4, <1>5, <1>7, <1>8, <1>9 DEF Scanned

LEMMA ScanBreaksScans ==
  ASSUME PatrolInv, NEW j \in Jobs, ScanBreaks(j)
  PROVE  \E scope, hold, findings, age : Scanned(j, scope, hold, findings, age)
<1> DEFINE scope == ScopeOf(j)
           hits == Evaluated(Checked(j)) \cap bad
           more == FailKeys(j, 1)
           found == Findings(hits) \o Findings(more)
<1>0. j \in Counted /\ FailKey[j] \in Keys /\ Owner[RuleOf[FailKey[j]]] = j
      /\ RuleOf[FailKey[j]] \notin Optional /\ RuleOf[FailKey[j]] \in Rules
  BY PatrolAssumption, EngineAssumption DEF ScanBreaks
<1>1. scope \in ScopesOf(j)
  BY DEF ScopeOf, OwnRules, ScopesOf
<1>2. hits \subseteq KeysOf(scope) /\ hits \subseteq Conditions
  BY DEF Evaluated, Checked, ScopeOf, KeysOf, PatrolInv, PatrolTypeOK, Conditions
<1>3. more \subseteq {FailKey[j]} /\ more \subseteq KeysOf(scope) /\ hits \cap more = {}
  BY <1>0, <1>2 DEF FailKeys, Conditions, ScopeOf, OwnRules, KeysOf, PatrolInv, PatrolTypeOK
<1>4. found \in FindingsOf(scope) /\ KeysIn(found) = hits \cup more
  <2>1. hits \cap more = {} /\ hits \cup more \subseteq KeysOf(scope)
    BY <1>2, <1>3
  <2> HIDE DEF hits, more, scope
  <2> QED
    BY <1>1, <2>1, FindingsFit
<1>5. PICK holding \in {Holding, {}}, age \in 0..MaxLag :
        /\ Begin(j, scope, Hold(scope \cap holding), found, age)
        /\ Sees(Evaluated(Checked(j)) \cup {FailKey[j]}, Unlisted(Checked(j) \ holding))
  BY DEF ScanBreaks
<1>6. Hold(scope \cap holding) \in SUBSET KeysOf(scope)
  BY HoldIsOfScope
<1>7. \A k \in Keys \ FamilyOf(j) : seen'[k] = seen[k]
  <2>1. Evaluated(Checked(j)) \cup {FailKey[j]} \subseteq FamilyOf(j)
    BY <1>0, PatrolAssumption
    DEF Evaluated, Checked, OwnRules, FamilyOf, PatrolInv, PatrolTypeOK, Conditions
  <2>2. Unlisted(Checked(j) \ holding) \subseteq FamilyOf(j)
    BY GoneIsOfFamily DEF Checked
  <2> QED
    BY <1>5, <2>1, <2>2 DEF Sees
<1>8. seen' \in [Keys -> {"never", "ok", "bad", "gone"}]
  BY <1>5 DEF Sees, PatrolInv, PatrolTypeOK
<1>9. Judges(scope, Hold(scope \cap holding), found)
  <2> SUFFICES ASSUME NEW r \in rows, r.key \in KeysOf(scope),
                      r.key \notin Hold(scope \cap holding), r.key \notin hits
               PROVE  seen'[r.key] \in ForClosing
    BY <1>4 DEF Judges
  <2> QED
    BY <1>0, <1>5, JudgedByScan
<1> HIDE DEF scope, hits, more, found
<1> QED
  BY <1>1, <1>4, <1>5, <1>6, <1>7, <1>8, <1>9 DEF Scanned

(* run_hygiene: whatever part of the checks succeeds.                      *)
LEMMA ScanPiecesScans ==
  ASSUME PatrolInv, NEW j \in Jobs, ScanPieces(j)
  PROVE  \E scope, hold, findings, age : Scanned(j, scope, hold, findings, age)
<1>1. PICK rules \in SUBSET Checked(j) :
        /\ \E age \in 0..MaxLag :
             Begin(j, rules, Hold(rules), Findings(Evaluated(rules) \cap bad), age)
        /\ Sees(Evaluated(rules), Unlisted(rules \ Holding))
  BY DEF ScanPieces
<1> DEFINE hits == Evaluated(rules) \cap bad
<1>2. PICK age \in 0..MaxLag : Begin(j, rules, Hold(rules), Findings(hits), age)
  BY <1>1
<1>3. rules \in ScopesOf(j)
  BY DEF Checked, OwnRules, ScopesOf
<1>4. hits \subseteq KeysOf(rules)
  BY DEF Evaluated, KeysOf, PatrolInv, PatrolTypeOK, Conditions
<1>5. Findings(hits) \in FindingsOf(rules) /\ KeysIn(Findings(hits)) = hits
  BY <1>3, <1>4, HitsFit
<1>6. Hold(rules) = Hold(rules \cap Holding) /\ Hold(rules) \in SUBSET KeysOf(rules)
  BY HoldIsOfScope, HoldIsOfHolding
<1>7. \A k \in Keys \ FamilyOf(j) : seen'[k] = seen[k]
  <2>1. Evaluated(rules) \subseteq FamilyOf(j)
    BY DEF Evaluated, Checked, OwnRules, FamilyOf, PatrolInv, PatrolTypeOK, Conditions
  <2>2. Unlisted(rules \ Holding) \subseteq FamilyOf(j)
    BY GoneIsOfFamily DEF Checked
  <2> QED
    BY <1>1, <2>1, <2>2 DEF Sees
<1>8. seen' \in [Keys -> {"never", "ok", "bad", "gone"}]
  BY <1>1 DEF Sees, PatrolInv, PatrolTypeOK
<1>9. Judges(rules, Hold(rules), Findings(hits))
  <2> SUFFICES ASSUME NEW r \in rows, r.key \in KeysOf(rules), r.key \notin Hold(rules),
                      r.key \notin hits
               PROVE  seen'[r.key] \in ForClosing
    BY <1>5 DEF Judges
  <2>1. r.key \in Keys /\ RuleOf[r.key] \in rules
    BY DEF KeysOf
  <2>2. r.key \in Conditions
    <3> SUFFICES ASSUME NEW i \in Counted, r.key = FailKey[i]
                 PROVE  FALSE
      BY <2>1 DEF Conditions
    <3>1. i = j
      BY <2>1, PatrolAssumption DEF Checked, OwnRules
    <3> QED
      BY <3>1, PatrolAssumption DEF ScanPieces
  <2>3. r.key \in visible \/ r.key \in Unlisted(rules \ Holding)
    BY <1>6, <2>1, <2>2, UnseenIsHeldOrGone
  <2> QED
    BY <1>1, <2>1, <2>3 DEF Evaluated, Sees, ForClosing
<1> HIDE DEF hits
<1> QED
  BY <1>2, <1>3, <1>5, <1>6, <1>7, <1>8, <1>9 DEF Scanned

(* A scan that failed: only the rule of the failure may be in scope.       *)
LEMMA ScanErrorScans ==
  ASSUME PatrolInv, NEW j \in Jobs, ScanError(j)
  PROVE  \E scope, hold, findings, age : Scanned(j, scope, hold, findings, age)
<1>0. /\ j \in Counted /\ FailKey[j] \in Keys /\ Owner[RuleOf[FailKey[j]]] = j
      /\ RuleOf[FailKey[j]] \in Rules /\ seen' = [seen EXCEPT ![FailKey[j]] = "bad"]
  BY PatrolAssumption, EngineAssumption DEF ScanError
<1> DEFINE n == Count(fails[j])
           scope == FailScope(j, n)
           hits == FailKeys(j, n)
<1>1. PICK age \in 0..MaxLag : Begin(j, scope, {}, Findings(hits), age)
  BY DEF ScanError
<1>2. scope \in ScopesOf(j)
  BY <1>0 DEF FailScope, ScopesOf
<1>3. hits \subseteq KeysOf(scope)
  BY <1>0 DEF FailScope, FailKeys, KeysOf
<1>4. Findings(hits) \in FindingsOf(scope) /\ KeysIn(Findings(hits)) = hits
  BY <1>2, <1>3, HitsFit
<1>5. \A k \in Keys \ FamilyOf(j) : seen'[k] = seen[k]
  BY <1>0 DEF FamilyOf, PatrolInv, PatrolTypeOK
<1>6. seen' \in [Keys -> {"never", "ok", "bad", "gone"}]
  BY <1>0 DEF PatrolInv, PatrolTypeOK
<1>7. Judges(scope, {}, Findings(hits))
  <2> SUFFICES ASSUME NEW r \in rows, r.key \in KeysOf(scope)
               PROVE  r.key \in hits
    BY <1>4 DEF Judges
  <2>1. r.key \in Keys /\ RuleOf[r.key] \in scope
    BY DEF KeysOf
  <2>2. n >= Threshold /\ RuleOf[r.key] = RuleOf[FailKey[j]]
    BY <2>1 DEF FailScope
  <2> QED
    BY <1>0, <2>1, <2>2, PatrolAssumption DEF FailKeys
<1>8. {} \in SUBSET KeysOf(scope)
  OBVIOUS
<1> HIDE DEF n, scope, hits
<1> QED
  BY <1>1, <1>2, <1>4, <1>5, <1>6, <1>7, <1>8 DEF Scanned

LEMMA ScanScans ==
  ASSUME PatrolInv, NEW j \in Jobs, Scan(j)
  PROVE  \E scope, hold, findings, age : Scanned(j, scope, hold, findings, age)
<1> QED
  BY ScanOkScans, ScanErrorScans, ScanBreaksScans, ScanPiecesScans DEF Scan

-----------------------------------------------------------------------------
(* What a cycle still has to recover was judged by its scan: it was seen   *)
(* in order or is gone, is held, or is among the findings, dealt with or   *)
(* not.  The recovery loop is left with those in order and those gone.     *)

Judged(j) ==
  \A r \in snap[j] :
    /\ pc[j] \in {"finding", "alerting", "inserting"} =>
         seen[r.key] \in ForClosing \/ r.key \in held[j] \cup firing[j] \cup TodoKeys(j)
    /\ pc[j] \in {"recovering", "telling", "resolving"} => seen[r.key] \in ForClosing

JudgedInv == PatrolInv /\ \A j \in Jobs : Judged(j)

LEMMA ScanCycles ==
  ASSUME PatrolInv, NEW j \in Jobs, Scan(j)
  PROVE  Cycle(j)
<1>1. PICK scope, hold, findings, age : Scanned(j, scope, hold, findings, age)
  BY ScanScans
<1> QED
  BY <1>1 DEF Scanned, Cycle, Begin

LEMMA ScanTypes ==
  ASSUME PatrolInv, NEW j \in Jobs, Scan(j)
  PROVE  PatrolTypeOK' /\ LosesOnlyLosable'
<1>1. seen' \in [Keys -> {"never", "ok", "bad", "gone"}]
  BY ScanScans DEF Scanned
<1>2. UNCHANGED <<world, off>>
  BY DEF Scan, ScanOk, ScanError, ScanBreaks, ScanPieces
<1>3. fails' \in [Counted -> 0..Threshold]
  <2>1. \A n \in 0..Threshold : Count(n) \in 0..Threshold
    BY PatrolAssumption DEF Count
  <2>2. 0 \in 0..Threshold /\ 1 \in 0..Threshold
    BY PatrolAssumption
  <2>3. fails \in [Counted -> 0..Threshold]
    BY DEF PatrolInv, PatrolTypeOK
  <2> QED
    BY <2>1, <2>2, <2>3 DEF Scan, ScanOk, ScanError, ScanBreaks, ScanPieces
<1> QED
  BY <1>1, <1>2, <1>3 DEF PatrolInv, PatrolTypeOK, LosesOnlyLosable, Conditions, world

LEMMA ScanJudged ==
  ASSUME JudgedInv, NEW j \in Jobs, Scan(j), NEW i \in Jobs
  PROVE  Judged(i)'
<1>0. PatrolInv /\ EngineInv /\ TypeInv
  BY DEF JudgedInv, PatrolInv, EngineInv
<1>1. PICK scope, hold, findings, age : Scanned(j, scope, hold, findings, age)
  BY <1>0, ScanScans
<1>2. /\ pc' = [pc EXCEPT ![j] = "finding"] /\ todo' = [todo EXCEPT ![j] = findings]
      /\ snap' = [snap EXCEPT ![j] = OpenByKey(scope)]
      /\ firing' = [firing EXCEPT ![j] = {}] /\ held' = [held EXCEPT ![j] = hold]
  BY <1>1 DEF Scanned, Begin
<1>3. CASE i = j
  <2>1. /\ pc'[j] = "finding" /\ todo'[j] = findings /\ snap'[j] = OpenByKey(scope)
        /\ held'[j] = hold
    BY <1>0, <1>2 DEF TypeInv, TypeOK
  <2>2. TodoKeys(j)' = KeysIn(findings)
    BY <2>1 DEF TodoKeys, KeysIn
  <2>3. \A r \in OpenByKey(scope) : r \in rows /\ r.key \in KeysOf(scope)
    BY <1>0, Snapshot DEF TypeInv, TypeOK
  <2>4. \A r \in OpenByKey(scope) : r.key \in hold \cup KeysIn(findings) \/ seen'[r.key] \in ForClosing
    BY <1>1, <2>3 DEF Scanned, Judges
  <2> QED
    BY <1>3, <2>1, <2>2, <2>4 DEF Judged
<1>4. CASE i # j
  <2>1. /\ pc'[i] = pc[i] /\ todo'[i] = todo[i] /\ snap'[i] = snap[i]
        /\ firing'[i] = firing[i] /\ held'[i] = held[i]
    BY <1>0, <1>2, <1>4 DEF TypeInv, TypeOK
  <2>2. TodoKeys(i)' = TodoKeys(i)
    BY <2>1 DEF TodoKeys
  <2>3. \A r \in snap[i] : r.key \in Keys \ FamilyOf(j)
    BY <1>0, <1>4 DEF EngineInv, Family, FamilyOf
  <2>4. \A r \in snap[i] : seen'[r.key] = seen[r.key]
    BY <1>1, <2>3 DEF Scanned
  <2> QED
    BY <2>1, <2>2, <2>4 DEF JudgedInv, Judged
<1> QED
  BY <1>3, <1>4

(* A cycle that goes on keeps its hold; it touches no other's.             *)
LEMMA StepHolds ==
  ASSUME TypeInv, NEW j \in Jobs, Step(j)
  PROVE  /\ \A i \in Jobs \ {j} : held'[i] = held[i]
         /\ pc'[j] = "idle" \/ held'[j] = held[j]
<1>1. CASE held' = held
  BY <1>1
<1>2. CASE Done(j) \/ Raise(j)
  BY <1>2 DEF Done, Raise, Forget, TypeInv, TypeOK
<1> QED
  BY <1>1, <1>2
  DEF Step, Skip, SendAlert, Enqueue, AlertDelivered, AlertLost, Insert, InsertFails,
      FindingsDone, SendRecovery, DeferRecovery, RecoveryDelivered, RecoveryLost, Resolve, cycle

LEMMA TodoSplits ==
  ASSUME TypeInv, NEW j \in Jobs, todo[j] # <<>>, todo'[j] = Tail(todo[j])
  PROVE  TodoKeys(j) \subseteq {Head(todo[j]).key} \cup TodoKeys(j)'
<1>1. todo[j] \in Seq(Finding)
  BY DEF TypeInv, TypeOK
<1> SUFFICES ASSUME NEW i \in DOMAIN todo[j], i # 1
             PROVE  \E k \in DOMAIN Tail(todo[j]) : Tail(todo[j])[k] = todo[j][i]
  BY <1>1 DEF TodoKeys
<1>2. DOMAIN todo[j] = 1..Len(todo[j]) /\ Len(todo[j]) \in Nat
  BY <1>1
<1>3. /\ Tail(todo[j]) \in Seq(Finding) /\ Len(Tail(todo[j])) = Len(todo[j]) - 1
      /\ \A k \in 1..Len(Tail(todo[j])) : Tail(todo[j])[k] = todo[j][k + 1]
  BY <1>1, HeadTailProperties
<1>4. DOMAIN Tail(todo[j]) = 1..(Len(todo[j]) - 1)
  BY <1>3, LenProperties
<1>5. i - 1 \in 1..(Len(todo[j]) - 1) /\ (i - 1) + 1 = i
  BY <1>2
<1>6. Tail(todo[j])[i - 1] = todo[j][i]
  BY <1>3, <1>5
<1> QED
  BY <1>4, <1>5, <1>6

LEMMA StepJudged ==
  ASSUME JudgedInv, NEW j \in Jobs, Step(j), seen' = seen, NEW i \in Jobs
  PROVE  Judged(i)'
<1>0. TypeInv /\ EngineInv /\ OthersKept(j) /\ Judged(i) /\ Judged(j)
  BY StepOthers DEF JudgedInv, PatrolInv, EngineInv
<1>1. CASE i # j
  <2>1. /\ pc'[i] = pc[i] /\ todo'[i] = todo[i] /\ snap'[i] = snap[i]
        /\ firing'[i] = firing[i] /\ held'[i] = held[i]
    BY <1>0, <1>1, StepHolds DEF OthersKept
  <2> QED
    BY <1>0, <2>1 DEF Judged, TodoKeys
<1>2. CASE i = j
  <2>1. CASE Skip(j)
    <3>1. /\ AtFinding(j) /\ todo'[j] = Tail(todo[j]) /\ pc'[j] = "finding" /\ snap' = snap
          /\ held' = held /\ firing'[j] = firing[j] \cup {Head(todo[j]).key}
      BY <1>0, <2>1 DEF Skip, Fires, NextFinding, TypeInv, TypeOK
    <3>2. TodoKeys(j) \subseteq {Head(todo[j]).key} \cup TodoKeys(j)'
      BY <1>0, <3>1, TodoSplits DEF AtFinding
    <3> QED
      BY <1>0, <1>2, <3>1, <3>2 DEF Judged, AtFinding, Running
  <2>2. CASE SendAlert(j) \/ Enqueue(j) \/ AlertDelivered(j)
    <3>1. /\ pc[j] \in {"finding", "alerting"} /\ pc'[j] \in {"alerting", "inserting"}
          /\ todo' = todo /\ snap' = snap /\ held' = held /\ firing[j] \subseteq firing'[j]
      BY <1>0, <2>2 DEF SendAlert, Enqueue, AlertDelivered, AtFinding, Running, Fires, TypeInv, TypeOK
    <3>2. TodoKeys(j)' = TodoKeys(j)
      BY <3>1 DEF TodoKeys
    <3> QED
      BY <1>0, <1>2, <3>1, <3>2 DEF Judged
  <2>3. CASE AlertLost(j) \/ Insert(j) \/ InsertFails(j)
    <3>1. /\ pc[j] \in {"alerting", "inserting"} /\ pc'[j] = "finding" /\ todo'[j] = Tail(todo[j])
          /\ snap' = snap /\ held' = held /\ firing' = firing
      BY <1>0, <2>3 DEF AlertLost, Insert, InsertFails, NextFinding, Running, TypeInv, TypeOK
    <3>2. todo[j] # <<>> /\ Head(todo[j]).key \in firing[j]
      BY <1>0, <3>1 DEF TypeInv, Pending, EngineInv, InHand, HasFinding
    <3>3. TodoKeys(j) \subseteq {Head(todo[j]).key} \cup TodoKeys(j)'
      BY <1>0, <3>1, <3>2, TodoSplits
    <3> QED
      BY <1>0, <1>2, <3>1, <3>2, <3>3 DEF Judged
  <2>4. CASE FindingsDone(j)
    <3>1. /\ pc[j] = "finding" /\ todo[j] = <<>> /\ pc'[j] = "recovering"
          /\ snap'[j] = {r \in snap[j] : r.key \notin firing[j] \cup held[j]}
      BY <1>0, <2>4 DEF FindingsDone, Running, TypeInv, TypeOK
    <3>2. TodoKeys(j) = {}
      BY <3>1 DEF TodoKeys
    <3> QED
      BY <1>0, <1>2, <3>1, <3>2 DEF Judged
  <2>5. CASE SendRecovery(j) \/ DeferRecovery(j) \/ RecoveryDelivered(j)
    <3>1. /\ pc[j] \in {"recovering", "telling"} /\ pc'[j] \in {"telling", "resolving"}
          /\ snap' = snap
      BY <1>0, <2>5 DEF SendRecovery, DeferRecovery, RecoveryDelivered, AtRecovery, Running, cycle,
                       TypeInv, TypeOK
    <3> QED
      BY <1>0, <1>2, <3>1 DEF Judged
  <2>6. CASE RecoveryLost(j) \/ Resolve(j)
    <3>1. /\ pc[j] \in {"telling", "resolving"} /\ pc'[j] = "recovering" /\ snap'[j] \subseteq snap[j]
      BY <1>0, <2>6 DEF RecoveryLost, Resolve, NextStale, Running, TypeInv, TypeOK
    <3> QED
      BY <1>0, <1>2, <3>1 DEF Judged
  <2>7. CASE Done(j) \/ Raise(j)
    <3>1. pc'[j] = "idle"
      BY <2>7 DEF Done, Raise, Forget
    <3> QED
      BY <1>2, <3>1 DEF Judged
  <2> QED
    BY <2>1, <2>2, <2>3, <2>4, <2>5, <2>6, <2>7 DEF Step
<1> QED
  BY <1>1, <1>2

LEMMA InitPatrol == PatrolInit => JudgedInv
<1> SUFFICES ASSUME PatrolInit
             PROVE  JudgedInv
  OBVIOUS
<1>1. EngineInv /\ \A j \in Jobs : snap[j] = {}
  BY InitEngine DEF PatrolInit, Init, cycle, tables
<1>2. PatrolTypeOK /\ LosesOnlyLosable
  BY PatrolAssumption DEF PatrolInit, PatrolTypeOK, LosesOnlyLosable, Conditions
<1> QED
  BY <1>1, <1>2 DEF JudgedInv, PatrolInv, Judged

(* The world changes: only the keys declared losable go out of sight.      *)
LEMMA WorldTypes ==
  ASSUME PatrolTypeOK, LosesOnlyLosable, World
  PROVE  PatrolTypeOK' /\ LosesOnlyLosable'
<1>1. UNCHANGED <<off, fails, seen>>
  BY DEF World
<1>2. CASE \E k \in Conditions : bad' = SymDiff(bad, {k}) /\ UNCHANGED <<up, visible>>
  BY <1>1, <1>2 DEF PatrolTypeOK, LosesOnlyLosable, Conditions, SymDiff
<1>3. CASE \E j \in Jobs : up' = SymDiff(up, {j}) /\ UNCHANGED <<bad, visible>>
  BY <1>1, <1>3 DEF PatrolTypeOK, LosesOnlyLosable, Conditions, SymDiff
<1>4. CASE \E k \in Losable : visible' = SymDiff(visible, {k}) /\ UNCHANGED <<bad, up>>
  BY <1>1, <1>4, PatrolAssumption DEF PatrolTypeOK, LosesOnlyLosable, Conditions, SymDiff
<1> QED
  BY <1>2, <1>3, <1>4 DEF World

(* Every step of the ticks and their environment is a step of the engine.  *)
LEMMA PatrolSteps ==
  ASSUME PatrolInv, PatrolNext \/ UNCHANGED patrolVars
  PROVE  [Next]_vars /\ PatrolInv'
<1>0. EngineInv /\ PatrolTypeOK /\ LosesOnlyLosable
  BY DEF PatrolInv
<1>1. CASE \E j \in Jobs : Scan(j)
  BY <1>0, <1>1, ScanCycles, ScanTypes, StepEngine DEF PatrolInv, Next
<1>2. CASE \E j \in Jobs : Step(j) /\ UNCHANGED patrol
  BY <1>0, <1>2, StepEngine DEF PatrolInv, Next, PatrolTypeOK, LosesOnlyLosable, Conditions, patrol, world
<1>3. CASE (Tick \/ DigestSent) /\ UNCHANGED patrol
  BY <1>0, <1>3, EnvironmentEngine
  DEF PatrolInv, Next, Environment, PatrolTypeOK, LosesOnlyLosable, Conditions, patrol, world
<1>4. CASE Restart
  <2>1. 0 \in 0..Threshold
    BY PatrolAssumption
  <2>2. PatrolTypeOK' /\ LosesOnlyLosable'
    BY <1>0, <1>4, <2>1 DEF Restart, PatrolTypeOK, LosesOnlyLosable, Conditions, world
  <2> QED
    BY <1>0, <1>4, <2>2, EnvironmentEngine DEF Restart, PatrolInv, Next, Environment
<1>5. CASE World \/ UNCHANGED patrolVars
  <2>1. UNCHANGED vars
    BY <1>5 DEF World, patrolVars
  <2>2. EngineInv'
    BY <1>0, <2>1, StutterType, KeepEngine DEF EngineInv, vars, tables, cycle
  <2>3. PatrolTypeOK' /\ LosesOnlyLosable'
    BY <1>0, <1>5, WorldTypes
    DEF PatrolTypeOK, LosesOnlyLosable, Conditions, patrolVars, patrol, world
  <2> QED
    BY <2>1, <2>2, <2>3 DEF PatrolInv
<1> QED
  BY <1>1, <1>2, <1>3, <1>4, <1>5 DEF PatrolNext

LEMMA PatrolJudges ==
  ASSUME JudgedInv, PatrolNext \/ UNCHANGED patrolVars, NEW i \in Jobs
  PROVE  Judged(i)'
<1>0. TypeInv /\ Judged(i)
  BY DEF JudgedInv, PatrolInv, EngineInv
<1>1. CASE \E j \in Jobs : Scan(j)
  BY <1>1, ScanJudged
<1>2. CASE \E j \in Jobs : Step(j) /\ UNCHANGED patrol
  BY <1>2, StepJudged DEF patrol
<1>3. CASE Restart
  <2>1. snap'[i] = {}
    BY <1>3 DEF Restart, Crash, Forget
  <2> QED
    BY <2>1 DEF Judged
<1>4. CASE ((Tick \/ DigestSent) /\ UNCHANGED patrol) \/ World \/ UNCHANGED patrolVars
  <2>1. UNCHANGED <<pc, todo, snap, firing, held, seen>>
    BY <1>4 DEF Tick, DigestSent, World, patrolVars, patrol, vars, cycle
  <2> QED
    BY <1>0, <2>1 DEF Judged, TodoKeys
<1> QED
  BY <1>1, <1>2, <1>3, <1>4 DEF PatrolNext

LEMMA JudgedInvariant == PatrolSpec => []JudgedInv
<1>1. JudgedInv /\ [PatrolNext]_patrolVars => JudgedInv'
  <2> SUFFICES ASSUME JudgedInv, PatrolNext \/ UNCHANGED patrolVars
               PROVE  JudgedInv'
    OBVIOUS
  <2>1. PatrolInv'
    BY PatrolSteps DEF JudgedInv
  <2> QED
    BY <2>1, PatrolJudges DEF JudgedInv
<1> QED
  BY InitPatrol, <1>1, PTL DEF PatrolSpec

(* The ticks of app.py, with their scans, failure counters, scopes and     *)
(* holds, use apply_findings as EventEngine allows: whatever holds of the  *)
(* engine under any callers holds under these.                             *)
THEOREM TicksUseEngine == PatrolSpec => UsesEngineAsSpecified
<1>1. PatrolInit => Init
  BY DEF PatrolInit
<1>2. PatrolInv /\ [PatrolNext]_patrolVars => [Next]_vars
  BY PatrolSteps
<1>3. JudgedInv => PatrolInv
  BY DEF JudgedInv
<1> QED
  BY JudgedInvariant, <1>1, <1>2, <1>3, PTL DEF PatrolSpec, UsesEngineAsSpecified, Spec

(* An event is closed only on the word of the last scan of its rule that   *)
(* succeeded, for any jobs, rules that hold and subjects that a scan may   *)
(* not list: nothing is closed by a source that fails, a check switched    *)
(* off, or a restart.                                                      *)
THEOREM ClosedByAScan == PatrolSpec => NotScannedIsNotRecovered
<1> DEFINE Closing == \A r \in rows \ rows' : seen[r.key] \in {"ok", "gone"}
<1>1. ASSUME JudgedInv, PatrolNext \/ UNCHANGED patrolVars, NEW r \in rows \ rows'
      PROVE  seen[r.key] \in {"ok", "gone"}
  <2>1. PICK j \in Jobs : Resolve(j)
    <3>1. rows' # rows
      BY <1>1
    <3> QED
      BY <1>1, <3>1, ZenonT(40)
      DEF PatrolNext, Scan, ScanOk, ScanError, ScanBreaks, ScanPieces, Begin, Restart, Crash, World,
          Tick, DigestSent, patrolVars, vars, tables, Step, Skip, SendAlert, Enqueue, AlertDelivered,
          AlertLost, Insert, InsertFails, FindingsDone, SendRecovery, DeferRecovery,
          RecoveryDelivered, RecoveryLost, Done, Raise
  <2>2. EngineInv /\ TypeInv /\ Judged(j)
    BY <1>1 DEF JudgedInv, PatrolInv, EngineInv
  <2>3. pc[j] = "resolving" /\ snap[j] # {} /\ r.id = Stale(j).id
    BY <1>1, <2>1, <2>2 DEF Resolve, Running, TypeInv, Pending
  <2>4. Stale(j) \in snap[j] /\ Stale(j) \in rows
    BY <2>2, <2>3, StaleInSnap DEF EngineInv, SnapshotIsOpen
  <2>5. r = Stale(j)
    BY <1>1, <2>2, <2>3, <2>4 DEF EngineInv, IdsDistinct
  <2> QED
    BY <2>2, <2>3, <2>4, <2>5 DEF Judged, ForClosing
<1>2. JudgedInv /\ [PatrolNext]_patrolVars => [Closing]_patrolVars
  BY <1>1
<1> QED
  BY JudgedInvariant, <1>2, PTL DEF PatrolSpec, NotScannedIsNotRecovered
=============================================================================
