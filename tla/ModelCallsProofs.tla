--------------------------- MODULE ModelCallsProofs ---------------------------
(***************************************************************************)
(* Proofs about what asks the models: the answers the reset monitor keeps  *)
(* (ModelCache), for any number of processes and texts, any waits and any  *)
(* lease, and the diagnosis of events (Diagnosis), for any events, runs,   *)
(* attempts and faults.                                                    *)
(***************************************************************************)
EXTENDS ModelCache, Diagnosis, SequenceTheorems, TLAPS

(* ModelCache: a tick uses the answer about its own text, and no text is     *)
(* asked about again that was answered undisturbed.  The history settled is *)
(* what the second is about, so most of the invariant says what a settled   *)
(* text means for the row and for the ticks at work.                        *)


(* The parts of the type that the argument needs: no age, and no wait.      *)
TickText ==
  /\ DOMAIN ticks = Monitors
  /\ \A p \in Monitors :
       /\ DOMAIN ticks[p] = {"at", "age", "text", "answer", "crossed"}
       /\ ticks[p].crossed \in BOOLEAN
       /\ ticks[p].text \in {NoText} \cup Texts
       /\ ticks[p].at # "idle" => ticks[p].text \in Texts

CacheText ==
  /\ text \in [Subjects -> Texts]
  /\ DOMAIN cache = Subjects
  /\ \A k \in Subjects : DOMAIN cache[k] = {"text", "answer", "failures", "wait"}
  /\ settled \in [Subjects -> SUBSET Texts]
  /\ TickText

(* An answer of a row is about the text of the row.                         *)
RowIsOfText == \A k \in Subjects : cache[k].answer \in {NoText, cache[k].text}

Works(p, k) == ticks[p].at \in AtWork(k)

(* A settled text is answered still, or it is not the text any more.        *)
SettledIsKept ==
  \A k \in Subjects : \A x \in settled[k] :
    x <= text[k] /\ (HasAnswer(cache[k], x) \/ x < text[k])

(* A tick that no other crossed knows the latest of the settled texts, and  *)
(* does not ask about it.                                                   *)
TickIsFresh(p, k) ==
  Works(p, k) =>
    /\ ticks[p].text <= text[k]
    /\ ~ticks[p].crossed => \A x \in settled[k] : x <= ticks[p].text
    /\ ~ticks[p].crossed /\ ticks[p].text \in settled[k] =>
         ticks[p].at = "classify" /\ HasAnswer(cache[k], ticks[p].text)

TicksAreFresh ==
  /\ \A p \in Monitors, k \in Subjects : TickIsFresh(p, k)
  /\ \A p \in Monitors : ticks[p].at = "translate" => ~ticks[p].crossed

CacheInv == CacheText /\ RowIsOfText /\ AnswerIsOfText /\ SettledIsKept /\ TicksAreFresh

LEMMA TextsAreNaturals == MaxText \in Nat \ {0} /\ Texts \subseteq Nat \ {0} /\ NoText = 0
  BY CacheAssumption DEF Texts, NoText

LEMMA CacheStarts == CacheInit => CacheInv
  <1> SUFFICES ASSUME CacheInit PROVE CacheInv
    OBVIOUS
  <1>1. 1 \in Texts
    BY TextsAreNaturals DEF Texts
  <1>2. CacheText
    BY <1>1 DEF CacheInit, CacheText, TickText, AtRest, NoAnswer
  <1>3. RowIsOfText /\ AnswerIsOfText
    BY DEF CacheInit, RowIsOfText, AnswerIsOfText, NoAnswer, AtRest
  <1>4. SettledIsKept
    BY DEF CacheInit, SettledIsKept
  <1>5. TicksAreFresh
    BY DEF CacheInit, TicksAreFresh, TickIsFresh, Works, AtWork, AtRest, Subjects
  <1> QED BY <1>2, <1>3, <1>4, <1>5 DEF CacheInv

-----------------------------------------------------------------------------
(* What a step of the tick p leaves of the ticks, and of the rows.          *)

Others(p, crosses) ==
  \A q \in Monitors \ {p} :
    /\ ticks'[q].at = ticks[q].at /\ ticks'[q].text = ticks[q].text
    /\ ticks'[q].answer = ticks[q].answer
    /\ ticks'[q].crossed = (ticks[q].crossed \/ ticks[q].at \in crosses)

LEMMA TickGoes ==
  ASSUME TickText, NEW p \in Monitors, NEW at, NEW x \in Texts, NEW a, NEW crosses,
         Goes(p, at, x, a, crosses)
  PROVE  /\ TickText' /\ Others(p, crosses)
         /\ ticks'[p].at = at /\ ticks'[p].text = x /\ ticks'[p].answer = a
         /\ ticks'[p].crossed = (ticks[p].crossed /\ at = "classifying")
  <1> DEFINE mine == [ticks[p] EXCEPT !.at = at, !.text = x, !.answer = a,
                                      !.crossed = @ /\ at = "classifying"]
             other(q) == [ticks[q] EXCEPT !.crossed = @ \/ ticks[q].at \in crosses]
  <1>1. /\ DOMAIN ticks' = Monitors
        /\ ticks'[p] = mine /\ \A q \in Monitors \ {p} : ticks'[q] = other(q)
    BY DEF Goes
  <1>2. /\ DOMAIN mine = {"at", "age", "text", "answer", "crossed"}
        /\ mine.at = at /\ mine.text = x /\ mine.answer = a
        /\ mine.crossed = (ticks[p].crossed /\ at = "classifying")
    BY DEF TickText
  <1>3. \A q \in Monitors \ {p} :
          /\ DOMAIN other(q) = {"at", "age", "text", "answer", "crossed"}
          /\ other(q).at = ticks[q].at /\ other(q).text = ticks[q].text
          /\ other(q).answer = ticks[q].answer
          /\ other(q).crossed = (ticks[q].crossed \/ ticks[q].at \in crosses)
    BY DEF TickText
  <1> HIDE DEF mine, other
  <1>4. Others(p, crosses)
    BY <1>1, <1>3 DEF Others
  <1>5. ASSUME NEW q \in Monitors PROVE ticks'[q].crossed \in BOOLEAN
    <2>1. CASE q = p
      <3>1. ticks'[q].crossed = (ticks[p].crossed /\ at = "classifying")
        BY <2>1, <1>1, <1>2
      <3> QED BY <3>1
    <2>2. CASE q # p
      <3>1. ticks'[q].crossed = (ticks[q].crossed \/ ticks[q].at \in crosses)
        BY <2>2, <1>1, <1>3
      <3> QED BY <3>1
    <2> QED BY <2>1, <2>2
  <1>6. TickText'
    BY <1>1, <1>2, <1>3, <1>5 DEF TickText
  <1> QED BY <1>1, <1>2, <1>4, <1>6

LEMMA RowsAre ==
  ASSUME NEW x \in Texts, NEW row, NEW age
  PROVE  /\ DOMAIN Answer(x) = {"text", "answer", "failures", "wait"}
         /\ Answer(x).text = x /\ Answer(x).answer = x
         /\ DOMAIN Postponed(row, x, age) = {"text", "answer", "failures", "wait"}
         /\ Postponed(row, x, age).text = x /\ Postponed(row, x, age).answer = NoText
  BY DEF Answer, Postponed

(* Ticks at work on one subject are not at work on the other.               *)
LEMMA OneWork ==
  ASSUME NEW p \in Monitors, NEW k \in Subjects, Works(p, k)
  PROVE  \A l \in Subjects : Works(p, l) => l = k
  BY DEF Works, AtWork, Subjects

(* The three tests that let a tick ask: what it asks is not settled.        *)
LEMMA AsksUnsettled ==
  ASSUME CacheInv, NEW p \in Monitors, NEW k \in Subjects, NEW x \in Texts,
         ~HasAnswer(cache[k], x), ~ticks[p].crossed,
         (Works(p, k) /\ x = ticks[p].text) \/ x = text[k]
  PROVE  x \notin settled[k]
  <1>1. CASE Works(p, k) /\ x = ticks[p].text
    BY <1>1 DEF CacheInv, TicksAreFresh, TickIsFresh
  <1>2. CASE x = text[k]
    BY <1>2, TextsAreNaturals DEF CacheInv, SettledIsKept, CacheText
  <1> QED BY <1>1, <1>2

Consulting(k) == IF k = "post" THEN "classify" ELSE "translate"
Asks(k) == IF k = "post" THEN "classifying" ELSE "translating"
After(k) == IF k = "post" THEN "translate" ELSE "sent"

(* A tick that consults a row and goes on to ask.                           *)
LEMMA AskedIsUnsettled ==
  ASSUME CacheInv, NEW p \in Monitors, NEW k \in Subjects, NEW x \in Texts,
         ticks[p].at = Consulting(k), Consults(p, k, x, Asks(k), After(k)),
         IF k = "post" THEN x = ticks[p].text ELSE x = text[k],
         ticks'[p].at = Asks(k)
  PROVE  x \notin settled'[k]
  <1>c. TickText /\ CacheText
    BY DEF CacheInv, CacheText
  <1>w. k = "post" => Works(p, k)
    BY DEF Works, AtWork, Consulting
  <1>2. /\ ~HasAnswer(cache[k], x)
        /\ settled' = [settled EXCEPT ![k] = @ \ (IF ticks[p].crossed THEN {x} ELSE {})]
    <2>1. Asks(k) # After(k)
      BY DEF Asks, After
    <2>2. ASSUME NEW b, Goes(p, After(k), x, b, {}) PROVE FALSE
      BY <2>1, <2>2, <1>c, TickGoes
    <2> QED BY <2>2 DEF Consults, Unsettles
  <1>3. CASE ticks[p].crossed
    BY <1>2, <1>3, <1>c DEF CacheText
  <1>4. CASE ~ticks[p].crossed
    <2>1. settled'[k] = settled[k]
      BY <1>2, <1>4, <1>c DEF CacheText
    <2> QED BY <1>2, <1>4, <1>w, <2>1, AsksUnsettled
  <1> QED BY <1>3, <1>4

LEMMA ConsultStep ==
  ASSUME CacheInv, NEW p \in Monitors, NEW k \in Subjects, NEW x \in Texts,
         ticks[p].at = Consulting(k), Consults(p, k, x, Asks(k), After(k)),
         IF k = "post" THEN x = ticks[p].text ELSE x = text[k]
  PROVE  CacheInv'
  <1> USE TextsAreNaturals
  <1>c. TickText /\ CacheText /\ text' = text /\ cache' = cache
    BY DEF CacheInv, CacheText, Consults
  <1>w. k = "post" => Works(p, k)
    BY DEF Works, AtWork, Consulting
  <1>x. x <= text[k]
    BY <1>w DEF CacheInv, TicksAreFresh, TickIsFresh, CacheText
  <1>n. k = "summary" => ~ticks[p].crossed
    BY DEF CacheInv, TicksAreFresh, Consulting
  <1>i. k = "post" \/ k = "summary"
    BY DEF Subjects
  <1>s. \A l \in Subjects : settled'[l] \subseteq settled[l]
    BY <1>c DEF Consults, Unsettles, CacheText
  <1>d. settled' \in [Subjects -> SUBSET Texts]
    BY <1>c DEF Consults, Unsettles, CacheText
  <1>1. PICK at \in {Asks(k), After(k)}, a \in {NoText, x} : Goes(p, at, x, a, {})
    BY DEF Consults, HasAnswer, CacheInv, RowIsOfText
  <1>2. /\ TickText' /\ Others(p, {})
        /\ ticks'[p].at = at /\ ticks'[p].text = x /\ ticks'[p].answer = a
        /\ ticks'[p].crossed = (ticks[p].crossed /\ at = "classifying")
    BY <1>1, <1>c, TickGoes
  <1>3. CacheText'
    BY <1>2, <1>c, <1>d DEF CacheText
  <1>4. RowIsOfText' /\ SettledIsKept'
    BY <1>c, <1>s DEF CacheInv, RowIsOfText, SettledIsKept
  <1>5. AnswerIsOfText'
    BY <1>2 DEF CacheInv, AnswerIsOfText, Others
  <1>6. ASSUME at = Asks(k) PROVE x \notin settled'[k]
    BY <1>2, <1>6, AskedIsUnsettled
  <1>7. ASSUME NEW l \in Subjects PROVE TickIsFresh(p, l)'
    <2>1. CASE at = After(k)
      BY <2>1, <1>2 DEF After, TickIsFresh, Works, AtWork
    <2>2. CASE at = Asks(k)
      <3>1. Works(p, l)' => l = k
        BY <2>2, <1>2 DEF Works, AtWork, Asks, Subjects
      <3>2. ~ticks'[p].crossed => \A y \in settled'[k] : y <= x
        <4>1. CASE k = "post"
          BY <4>1, <2>2, <1>2, <1>w, <1>s
          DEF Asks, CacheInv, TicksAreFresh, TickIsFresh
        <4>2. CASE k = "summary"
          BY <4>2, <1>s DEF CacheInv, SettledIsKept
        <4> QED BY <4>1, <4>2, <1>i
      <3> QED BY <2>2, <3>1, <3>2, <1>2, <1>6, <1>x, <1>c DEF TickIsFresh
    <2> QED BY <2>1, <2>2
  <1>8. ASSUME NEW q \in Monitors \ {p}, NEW l \in Subjects PROVE TickIsFresh(q, l)'
    <2>1. TickIsFresh(q, l)
      BY DEF CacheInv, TicksAreFresh
    <2> QED BY <2>1, <1>2, <1>c, <1>s DEF TickIsFresh, Others, Works
  <1>9. TicksAreFresh'
    <2>1. \A q \in Monitors : ticks'[q].at = "translate" => ~ticks'[q].crossed
      BY <1>2 DEF Others, CacheInv, TicksAreFresh
    <2> QED BY <1>7, <1>8, <2>1 DEF TicksAreFresh
  <1> QED BY <1>3, <1>4, <1>5, <1>9 DEF CacheInv

(* What a write of the row of k leaves for the other ticks: those at work   *)
(* on k are crossed, and the others do not look at it.                      *)
LEMMA OthersStayFresh ==
  ASSUME CacheInv, NEW p \in Monitors, NEW k \in Subjects, Others(p, AtWork(k)),
         text' = text, \A l \in Subjects \ {k} : cache'[l] = cache[l] /\ settled'[l] = settled[l],
         NEW q \in Monitors \ {p}, NEW l \in Subjects
  PROVE  TickIsFresh(q, l)'
  <1>1. TickIsFresh(q, l)
    BY DEF CacheInv, TicksAreFresh
  <1>2. Works(q, l)' => Works(q, l)
    BY DEF Others, Works, AtWork
  <1>3. CASE l = k
    <2>1. Works(q, l) => ticks'[q].crossed
      BY <1>3 DEF Others, Works
    <2> QED BY <1>1, <1>2, <2>1 DEF TickIsFresh, Others
  <1>4. CASE l # k
    <2>1. Works(q, l) => ticks[q].at \notin AtWork(k)
      BY <1>4 DEF Works, AtWork, Subjects
    <2>2. Works(q, l) => (ticks'[q].crossed <=> ticks[q].crossed)
      BY <2>1 DEF Others
    <2> QED BY <1>1, <1>2, <1>4, <2>2 DEF TickIsFresh, Others
  <1> QED BY <1>3, <1>4

LEMMA WriteStep ==
  ASSUME CacheInv, NEW p \in Monitors, NEW k \in Subjects, NEW row, NEW a, NEW S,
         ticks[p].at = Asks(k),
         DOMAIN row = {"text", "answer", "failures", "wait"},
         row.text = ticks[p].text, row.answer \in {NoText, row.text}, a \in {NoText, row.text},
         Records(p, k, row), Goes(p, After(k), ticks[p].text, a, AtWork(k)),
         settled' = [settled EXCEPT ![k] = S],
         \/ S = settled[k] \ {ticks[p].text, cache[k].text}
         \/ S = settled[k] /\ ~ticks[p].crossed
         \/ S = settled[k] \cup {ticks[p].text} /\ ~ticks[p].crossed /\ row.answer = row.text
  PROVE  CacheInv'
  <1> USE TextsAreNaturals
  <1> DEFINE x == ticks[p].text
  <1>w. Works(p, k) /\ ticks[p].at # "idle" /\ ticks[p].at # "classify"
    BY DEF Works, Asks, AtWork
  <1>x. x \in Texts /\ x <= text[k]
    BY <1>w DEF CacheInv, CacheText, TickText, TicksAreFresh, TickIsFresh
  <1>c. /\ text' = text /\ cache' = [cache EXCEPT ![k] = row]
        /\ cache'[k] = row /\ \A l \in Subjects \ {k} : cache'[l] = cache[l]
        /\ settled'[k] = S /\ \A l \in Subjects \ {k} : settled'[l] = settled[l]
    BY DEF Records, CacheInv, CacheText
  <1>2. /\ TickText' /\ Others(p, AtWork(k))
        /\ ticks'[p].at = After(k) /\ ticks'[p].text = x /\ ticks'[p].answer = a
        /\ ticks'[p].crossed = (ticks[p].crossed /\ After(k) = "classifying")
    BY <1>x, TickGoes DEF CacheInv, CacheText
  <1>d. S \subseteq Texts
    BY <1>x DEF CacheInv, CacheText
  <1>3. CacheText'
    BY <1>2, <1>c, <1>d DEF CacheInv, CacheText
  <1>4. RowIsOfText'
    BY <1>c DEF CacheInv, RowIsOfText
  <1>5. AnswerIsOfText'
    BY <1>2 DEF CacheInv, AnswerIsOfText, Others
  <1>6. ASSUME NEW y \in settled'[k]
        PROVE  y <= text[k] /\ (HasAnswer(row, y) \/ y < text[k])
    <2>y. y \in Nat /\ text[k] \in Nat /\ x \in Nat
      <3>1. y \in Texts /\ text[k] \in Texts
        BY <1>c, <1>d, <1>6 DEF CacheInv, CacheText
      <3> QED BY <3>1, <1>x
    <2>1. CASE S = settled[k] \ {x, cache[k].text}
      <3>1. y \in settled[k] /\ y # cache[k].text
        BY <1>c, <1>6, <2>1
      <3>2. y <= text[k] /\ (HasAnswer(cache[k], y) \/ y < text[k])
        BY <3>1 DEF CacheInv, SettledIsKept
      <3> QED BY <3>1, <3>2 DEF HasAnswer
    <2>2. CASE y \in settled[k] /\ ~ticks[p].crossed
      <3>1. y <= x /\ x \notin settled[k]
        BY <2>2, <1>w DEF CacheInv, TicksAreFresh, TickIsFresh
      <3>2. y # x
        BY <2>2, <3>1
      <3>3. y < text[k]
        BY <2>y, <3>1, <3>2, <1>x
      <3> QED BY <2>y, <3>3
    <2>3. CASE y = x /\ row.answer = row.text
      BY <2>3, <1>x DEF HasAnswer
    <2> QED BY <1>c, <1>6, <2>1, <2>2, <2>3
  <1>7. SettledIsKept'
    BY <1>c, <1>6 DEF CacheInv, SettledIsKept
  <1>8. ASSUME NEW q \in Monitors \ {p}, NEW l \in Subjects PROVE TickIsFresh(q, l)'
    BY <1>2, <1>c, OthersStayFresh
  <1>9. ASSUME NEW l \in Subjects PROVE TickIsFresh(p, l)'
    BY <1>2 DEF TickIsFresh, Works, AtWork, After
  <1>10. TicksAreFresh'
    <2>1. After(k) # "classifying"
      BY DEF After
    <2>2. \A q \in Monitors \ {p} : ticks'[q].at = "translate" => ~ticks'[q].crossed
      BY <1>2 DEF Others, AtWork, CacheInv, TicksAreFresh
    <2>3. ~ticks'[p].crossed
      BY <1>2, <2>1
    <2> QED BY <1>8, <1>9, <2>2, <2>3 DEF TicksAreFresh
  <1> QED BY <1>3, <1>4, <1>5, <1>7, <1>10 DEF CacheInv

LEMMA SucceedStep ==
  ASSUME CacheInv, NEW p \in Monitors, NEW k \in Subjects, ticks[p].at = Asks(k),
         Succeeds(p, k, After(k))
  PROVE  CacheInv'
  <1> DEFINE x == ticks[p].text
             S == IF ticks[p].crossed THEN settled[k] \ {x, cache[k].text}
                  ELSE settled[k] \cup {x}
  <1>x. x \in Texts
    BY DEF CacheInv, CacheText, TickText, Asks
  <1>1. settled' = [settled EXCEPT ![k] = S]
    BY DEF Succeeds, Unsettles
  <1>2. Records(p, k, Answer(x)) /\ Goes(p, After(k), x, x, AtWork(k))
    BY DEF Succeeds
  <1>3. /\ DOMAIN Answer(x) = {"text", "answer", "failures", "wait"}
        /\ Answer(x).text = x /\ Answer(x).answer = x
    BY <1>x, RowsAre
  <1>4. \/ S = settled[k] \ {x, cache[k].text}
        \/ S = settled[k] \cup {x} /\ ~ticks[p].crossed
    OBVIOUS
  <1> HIDE DEF S
  <1> QED BY <1>1, <1>2, <1>3, <1>4, WriteStep

LEMMA FailStep ==
  ASSUME CacheInv, NEW p \in Monitors, NEW k \in Subjects, ticks[p].at = Asks(k),
         Fails(p, k, After(k))
  PROVE  CacheInv'
  <1> DEFINE x == ticks[p].text
             row == Postponed(cache[k], x, ticks[p].age)
             S == settled[k] \ (IF ticks[p].crossed THEN {x, cache[k].text} ELSE {})
  <1>x. x \in Texts
    BY DEF CacheInv, CacheText, TickText, Asks
  <1>1. settled' = [settled EXCEPT ![k] = S]
    BY DEF Fails, Unsettles
  <1>2. Records(p, k, row) /\ Goes(p, After(k), x, NoText, AtWork(k))
    BY DEF Fails
  <1>3. /\ DOMAIN row = {"text", "answer", "failures", "wait"}
        /\ row.text = x /\ row.answer = NoText
    BY <1>x, RowsAre
  <1>4. \/ S = settled[k] \ {x, cache[k].text}
        \/ S = settled[k] /\ ~ticks[p].crossed
    OBVIOUS
  <1> HIDE DEF S, row
  <1> QED BY <1>1, <1>2, <1>3, <1>4, WriteStep

LEMMA StartStep ==
  ASSUME CacheInv, NEW p \in Monitors, Starts(p) \/ Ends(p) PROVE CacheInv'
  <1> USE TextsAreNaturals
  <1> DEFINE r == IF Starts(p) THEN [AtRest EXCEPT !.at = "classify", !.text = text["post"]]
                  ELSE AtRest
  <1>1. /\ ticks' = [ticks EXCEPT ![p] = r] /\ UNCHANGED <<text, cache, settled>>
        /\ r.answer = NoText /\ r.crossed = FALSE
        /\ DOMAIN r = {"at", "age", "text", "answer", "crossed"}
        /\ \/ r.at = "classify" /\ r.text = text["post"]
           \/ r.at = "idle" /\ r.text = NoText
    BY DEF Starts, Ends, AtRest
  <1> HIDE DEF r
  <1>2. ticks'[p] = r /\ DOMAIN ticks' = Monitors /\ \A q \in Monitors \ {p} : ticks'[q] = ticks[q]
    BY <1>1 DEF CacheInv, CacheText, TickText
  <1>t. text["post"] \in Texts /\ "post" \in Subjects
    BY DEF CacheInv, CacheText, Subjects
  <1>3. CacheText'
    BY <1>1, <1>2, <1>t DEF CacheInv, CacheText, TickText
  <1>4. RowIsOfText' /\ SettledIsKept'
    BY <1>1 DEF CacheInv, RowIsOfText, SettledIsKept
  <1>5. AnswerIsOfText'
    BY <1>1, <1>2 DEF CacheInv, AnswerIsOfText
  <1>6. ASSUME NEW l \in Subjects PROVE TickIsFresh(p, l)'
    <2>1. CASE r.at = "idle"
      BY <2>1, <1>2 DEF TickIsFresh, Works, AtWork
    <2>2. CASE r.at = "classify" /\ r.text = text["post"]
      <3>1. Works(p, l)' => l = "post"
        BY <2>2, <1>2 DEF Works, AtWork, Subjects
      <3>2. \A y \in settled["post"] :
              y <= text["post"] /\ (y = text["post"] => HasAnswer(cache["post"], y))
        <4>1. text["post"] \in Nat
          BY <1>t
        <4>2. ~(text["post"] < text["post"])
          BY <4>1
        <4> QED BY <1>t, <4>2 DEF CacheInv, SettledIsKept
      <3>3. /\ ticks'[p].text = text["post"] /\ text'["post"] = text["post"]
            /\ text["post"] \in Nat /\ settled'["post"] = settled["post"] /\ cache' = cache
        BY <2>2, <1>1, <1>2, <1>t
      <3> QED BY <2>2, <1>2, <3>1, <3>2, <3>3 DEF TickIsFresh, HasAnswer
    <2> QED BY <1>1, <2>1, <2>2
  <1>7. ASSUME NEW q \in Monitors \ {p}, NEW l \in Subjects PROVE TickIsFresh(q, l)'
    BY <1>1, <1>2 DEF CacheInv, TicksAreFresh, TickIsFresh, Works
  <1>8. TicksAreFresh'
    BY <1>1, <1>2, <1>6, <1>7 DEF CacheInv, TicksAreFresh
  <1> QED BY <1>3, <1>4, <1>5, <1>8 DEF CacheInv

LEMMA RewriteStep ==
  ASSUME CacheInv, NEW k \in Subjects, Rewritten(k) PROVE CacheInv'
  <1> USE TextsAreNaturals
  <1>1. /\ text' = [text EXCEPT ![k] = @ + 1] /\ text[k] < MaxText
        /\ UNCHANGED <<cache, ticks, settled>>
    BY DEF Rewritten
  <1>2. text' \in [Subjects -> Texts] /\ \A l \in Subjects : text[l] <= text'[l]
    BY <1>1 DEF CacheInv, CacheText, Texts
  <1>3. CacheText' /\ RowIsOfText' /\ AnswerIsOfText'
    BY <1>1, <1>2 DEF CacheInv, CacheText, TickText, RowIsOfText, AnswerIsOfText
  <1>4. SettledIsKept'
    <2>1. ASSUME NEW l \in Subjects, NEW x \in settled[l]
          PROVE  x <= text'[l] /\ (HasAnswer(cache[l], x) \/ x < text'[l])
      <3>1. x <= text[l] /\ (HasAnswer(cache[l], x) \/ x < text[l])
        BY DEF CacheInv, SettledIsKept
      <3>2. x \in Texts /\ text[l] \in Texts /\ text'[l] \in Texts /\ text[l] <= text'[l]
        BY <1>2 DEF CacheInv, CacheText
      <3>3. x \in Nat /\ text[l] \in Nat /\ text'[l] \in Nat
        BY <3>2
      <3> QED BY <3>1, <3>2, <3>3
    <2> QED BY <1>1, <2>1 DEF SettledIsKept, HasAnswer
  <1>5. ASSUME NEW q \in Monitors, NEW l \in Subjects PROVE TickIsFresh(q, l)'
    <2>1. /\ TickIsFresh(q, l) /\ ticks' = ticks /\ cache' = cache /\ settled' = settled
          /\ text[l] \in Texts /\ text'[l] \in Texts /\ text[l] <= text'[l]
          /\ ticks[q].text \in {NoText} \cup Texts
      BY <1>1, <1>2 DEF CacheInv, TicksAreFresh, CacheText, TickText
    <2>2. text[l] \in Nat /\ text'[l] \in Nat /\ ticks[q].text \in Nat
      <3>1. \A n \in {NoText} \cup Texts : n \in Nat
        OBVIOUS
      <3> QED BY <2>1, <3>1
    <2>3. ticks[q].text <= text[l] => ticks[q].text <= text'[l]
      BY <2>1, <2>2
    <2> QED BY <2>1, <2>3 DEF TickIsFresh, Works, HasAnswer
  <1>6. TicksAreFresh'
    BY <1>1, <1>5 DEF CacheInv, TicksAreFresh
  <1> QED BY <1>3, <1>4, <1>6 DEF CacheInv

LEMMA TimeStep == ASSUME CacheInv, TimePasses PROVE CacheInv'
  <1> USE TextsAreNaturals
  <1>1. /\ UNCHANGED <<text, settled>>
        /\ DOMAIN cache' = Subjects
        /\ \A k \in Subjects :
             /\ DOMAIN cache'[k] = {"text", "answer", "failures", "wait"}
             /\ cache'[k].text = cache[k].text /\ cache'[k].answer = cache[k].answer
    BY DEF TimePasses, CacheInv, CacheText
  <1>2. /\ DOMAIN ticks' = Monitors
        /\ \A p \in Monitors :
             ticks'[p] = IF ticks[p].at = "idle" THEN AtRest ELSE [ticks[p] EXCEPT !.age = @ + 1]
    BY DEF TimePasses
  <1>3. \A p \in Monitors :
          /\ DOMAIN ticks'[p] = {"at", "age", "text", "answer", "crossed"}
          /\ ticks'[p].at = ticks[p].at
          /\ \/ /\ ticks'[p].text = ticks[p].text /\ ticks'[p].answer = ticks[p].answer
                /\ ticks'[p].crossed = ticks[p].crossed
             \/ /\ ticks[p].at = "idle" /\ ticks'[p].text = NoText
                /\ ticks'[p].answer = NoText /\ ticks'[p].crossed = FALSE
    BY <1>2 DEF AtRest, CacheInv, CacheText, TickText
  <1>4. CacheText'
    BY <1>1, <1>2, <1>3 DEF CacheInv, CacheText, TickText
  <1>5. RowIsOfText' /\ AnswerIsOfText'
    BY <1>1, <1>3 DEF CacheInv, RowIsOfText, AnswerIsOfText
  <1>6. SettledIsKept'
    <2>1. ASSUME NEW k \in Subjects, NEW x \in settled[k]
          PROVE  x <= text[k] /\ (HasAnswer(cache'[k], x) \/ x < text[k])
      <3>1. x <= text[k] /\ (HasAnswer(cache[k], x) \/ x < text[k])
        BY DEF CacheInv, SettledIsKept
      <3>2. HasAnswer(cache[k], x) => HasAnswer(cache'[k], x)
        BY <1>1 DEF HasAnswer
      <3> QED BY <3>1, <3>2
    <2> QED BY <1>1, <2>1 DEF SettledIsKept, HasAnswer
  <1>7. ASSUME NEW q \in Monitors, NEW l \in Subjects PROVE TickIsFresh(q, l)'
    <2>1. CASE ticks[q].at = "idle"
      BY <2>1, <1>3 DEF TickIsFresh, Works, AtWork
    <2>2. CASE ticks[q].at # "idle"
      BY <2>2, <1>1, <1>3 DEF TickIsFresh, Works, HasAnswer, CacheInv, TicksAreFresh
    <2> QED BY <2>1, <2>2
  <1>8. TicksAreFresh'
    BY <1>3, <1>7 DEF CacheInv, TicksAreFresh
  <1> QED BY <1>4, <1>5, <1>6, <1>8 DEF CacheInv

-----------------------------------------------------------------------------
(* The steps of a tick in the form the lemmas have.                         *)
LEMMA TickStep ==
  ASSUME CacheInv, NEW p \in Monitors,
         \/ Starts(p) \/ Ends(p) \/ Classify(p) \/ Classified(p) \/ NotClassified(p)
         \/ Translate(p) \/ Translated(p) \/ NotTranslated(p)
  PROVE  CacheInv'
  <1> "post" \in Subjects /\ "summary" \in Subjects
    BY DEF Subjects
  <1>n. /\ Consulting("post") = "classify" /\ Asks("post") = "classifying"
        /\ After("post") = "translate"
        /\ Consulting("summary") = "translate" /\ Asks("summary") = "translating"
        /\ After("summary") = "sent"
    BY DEF Consulting, Asks, After
  <1>t. /\ text["summary"] \in Texts
        /\ ticks[p].at # "idle" => ticks[p].text \in Texts
    BY DEF CacheInv, CacheText, TickText
  <1>1. CASE Classify(p)
    BY <1>1, <1>n, <1>t, ConsultStep DEF Classify
  <1>2. CASE Translate(p)
    BY <1>2, <1>n, <1>t, ConsultStep DEF Translate
  <1>3. CASE Classified(p)
    BY <1>3, <1>n, SucceedStep DEF Classified
  <1>4. CASE Translated(p)
    BY <1>4, <1>n, SucceedStep DEF Translated
  <1>5. CASE NotClassified(p)
    BY <1>5, <1>n, FailStep DEF NotClassified
  <1>6. CASE NotTranslated(p)
    BY <1>6, <1>n, FailStep DEF NotTranslated
  <1> QED BY <1>1, <1>2, <1>3, <1>4, <1>5, <1>6, StartStep

(* Rows are read and written by the hash of their text (store.py:262-441),  *)
(* between which a model is awaited; the invariant, and from it that what   *)
(* a tick says of a text is the answer about that text.                     *)
THEOREM CacheInvHolds == CacheInit /\ [][CacheNext]_cacheVars => []CacheInv
  <1>1. CacheInv /\ [CacheNext]_cacheVars => CacheInv'
    <2> SUFFICES ASSUME CacheInv, [CacheNext]_cacheVars PROVE CacheInv'
      OBVIOUS
    <2>1. CASE UNCHANGED cacheVars
      BY <2>1 DEF cacheVars, CacheInv, CacheText, TickText, RowIsOfText, AnswerIsOfText,
         SettledIsKept, TicksAreFresh, TickIsFresh, Works
    <2> QED BY <2>1, TickStep, RewriteStep, TimeStep DEF CacheNext
  <1> QED BY CacheStarts, <1>1, PTL

(* "Polling does not consume calls again": what a tick begins to ask is not *)
(* settled, but for what other ticks did to the row meanwhile.              *)
THEOREM AsksOnce == CacheInit /\ [][CacheNext]_cacheVars => AskedOnce
  <1> DEFINE Once ==
        \A p \in Monitors, k \in Subjects, x \in Texts :
          Asking(ticks'[p], k, x) /\ ~Asking(ticks[p], k, x) => x \notin settled'[k]
  <1>1. CacheInv /\ [CacheNext]_cacheVars => [Once]_cacheVars
    <2> SUFFICES ASSUME CacheInv, CacheNext,
                        NEW p \in Monitors, NEW k \in Subjects, NEW x \in Texts,
                        Asking(ticks'[p], k, x), ~Asking(ticks[p], k, x)
                 PROVE  x \notin settled'[k]
      OBVIOUS
    <2>1. ASSUME NEW q \in Monitors, NEW l \in Subjects, NEW y \in Texts,
                 ticks[q].at = Consulting(l), Consults(q, l, y, Asks(l), After(l)),
                 IF l = "post" THEN y = ticks[q].text ELSE y = text[l]
          PROVE  x \notin settled'[k]
      <3>1. PICK at \in {Asks(l), After(l)} : \E a : Goes(q, at, y, a, {})
        BY <2>1 DEF Consults
      <3>2. Others(q, {}) /\ ticks'[q].at = at /\ ticks'[q].text = y
        BY <3>1, <2>1, TickGoes DEF CacheInv, CacheText
      <3>3. q = p /\ y = x /\ at = Asks(l) /\ l = k
        BY <3>2 DEF Others, Asking, Asks, After, Subjects
      <3> QED BY <2>1, <3>2, <3>3, AskedIsUnsettled
    <2>2. ASSUME NEW q \in Monitors, NEW l \in Subjects, ticks[q].at = Asks(l),
                 Succeeds(q, l, After(l)) \/ Fails(q, l, After(l))
          PROVE  FALSE
      <3>1. PICK a : Goes(q, After(l), ticks[q].text, a, AtWork(l))
        BY <2>2 DEF Succeeds, Fails
      <3>2. ticks[q].text \in Texts
        BY <2>2 DEF CacheInv, CacheText, TickText, Asks
      <3>3. Others(q, AtWork(l)) /\ ticks'[q].at = After(l)
        BY <3>1, <3>2, TickGoes DEF CacheInv, CacheText
      <3> QED BY <3>3 DEF Others, Asking, After, Subjects
    <2>3. ASSUME NEW q \in Monitors, Starts(q) \/ Ends(q) PROVE FALSE
      <3> DEFINE first == [AtRest EXCEPT !.at = "classify", !.text = text["post"]]
      <3>0. AtRest.at = "idle" /\ first.at = "classify"
        BY DEF AtRest
      <3> HIDE DEF first
      <3>1. PICK r : ticks' = [ticks EXCEPT ![q] = r] /\ (r = AtRest \/ r = first)
        BY <2>3 DEF Starts, Ends, first
      <3>2. r.at \in {"idle", "classify"}
        BY <3>0, <3>1
      <3>3. ticks'[p] = IF p = q THEN r ELSE ticks[p]
        BY <3>1 DEF CacheInv, CacheText, TickText
      <3> QED BY <3>2, <3>3 DEF Asking
    <2>4. ASSUME (\E l \in Subjects : Rewritten(l)) PROVE FALSE
      BY <2>4 DEF Rewritten
    <2>5. ASSUME TimePasses PROVE FALSE
      <3>1. ticks'[p] = IF ticks[p].at = "idle" THEN AtRest ELSE [ticks[p] EXCEPT !.age = @ + 1]
        BY <2>5 DEF TimePasses
      <3>2. CASE ticks[p].at = "idle"
        BY <3>1, <3>2 DEF AtRest, Asking
      <3>3. CASE ticks[p].at # "idle"
        <4>1. ticks'[p].at = ticks[p].at /\ ticks'[p].text = ticks[p].text
          BY <3>1, <3>3 DEF CacheInv, CacheText, TickText
        <4> QED BY <4>1 DEF Asking
      <3> QED BY <3>2, <3>3
    <2>n. /\ Consulting("post") = "classify" /\ Asks("post") = "classifying"
          /\ After("post") = "translate"
          /\ Consulting("summary") = "translate" /\ Asks("summary") = "translating"
          /\ After("summary") = "sent" /\ "post" \in Subjects /\ "summary" \in Subjects
      BY DEF Consulting, Asks, After, Subjects
    <2>t. /\ text["summary"] \in Texts
          /\ \A q \in Monitors : ticks[q].at # "idle" => ticks[q].text \in Texts
      BY <2>n DEF CacheInv, CacheText, TickText
    <2>6. ASSUME NEW q \in Monitors, Classify(q) \/ Translate(q) PROVE x \notin settled'[k]
      <3>1. CASE Classify(q)
        BY <3>1, <2>n, <2>t, <2>1 DEF Classify
      <3>2. CASE Translate(q)
        BY <3>2, <2>n, <2>t, <2>1 DEF Translate
      <3> QED BY <2>6, <3>1, <3>2
    <2>7. ASSUME NEW q \in Monitors,
                 Classified(q) \/ NotClassified(q) \/ Translated(q) \/ NotTranslated(q)
          PROVE  FALSE
      BY <2>7, <2>n, <2>2 DEF Classified, NotClassified, Translated, NotTranslated
    <2> QED BY <2>3, <2>4, <2>5, <2>6, <2>7 DEF CacheNext
  <1> QED BY <1>1, CacheInvHolds, PTL DEF AskedOnce

-----------------------------------------------------------------------------
(* Diagnosis: what is worked on is pending and in one pair of hands, and    *)
(* what an event cost is bounded by where it stands.                        *)

(* A batch under way: events in the order of their number.                  *)
Ready(b) ==
  /\ b \in Seq(Events) /\ b # <<>>
  /\ \A i, k \in 1..Len(b) : i < k => b[i] < b[k]

Statuses == {"none", "pending", "done", "failed"}

DiagnosisTyped ==
  /\ driver \in {"container", "host"}
  /\ status \in [Events -> Statuses]
  /\ stored \in [Events -> Nat] /\ calls \in [Events -> Nat] /\ faults \in Nat
  /\ job \in [pc : {"idle", "current", "currentRead", "fallback", "fallbackRead", "ask", "tell"},
              batch : Seq(Events), tried : Nat, spare : BOOLEAN]
  /\ runs \in [Runs -> [pc : {"idle", "ask", "done", "failed"}, batch : Seq(Events), tried : Nat]]
  /\ lock \in Runs \cup {NoRun}
  /\ cards \in SUBSET (Events \X Nat) /\ sentCards \in SUBSET (Events \X Nat)

(* One of the two diagnoses, and one run at a time.                         *)
OneDiagnoses ==
  /\ driver = "container" => cards = {} /\ \A r \in Runs : runs[r] = NoWork
  /\ driver = "host" => job = NoTick
  /\ \A r \in Runs : runs[r] # NoWork => lock = r

(* What is worked on is still pending, but for the event a card is sent of. *)
JobIsPending ==
  /\ job.pc = "ask" =>
       /\ Ready(job.batch) /\ job.tried < Attempts + (IF job.spare THEN 1 ELSE 0)
       /\ \A i \in 1..Len(job.batch) : status[job.batch[i]] = "pending"
  /\ job.pc = "tell" =>
       /\ Ready(job.batch) /\ status[Head(job.batch)] = "done"
       /\ \A i \in 2..Len(job.batch) : status[job.batch[i]] = "pending"

RunsArePending ==
  \A r \in Runs : runs[r] # NoWork =>
    /\ Ready(runs[r].batch)
    /\ runs[r].pc \in {"ask", "done"} => runs[r].tried < Attempts
    /\ runs[r].pc # "idle" /\ runs[r].tried <= Attempts
    /\ \A i \in 1..Len(runs[r].batch) : status[runs[r].batch[i]] = "pending"

CardsAreStored ==
  \A c \in cards \cup sentCards : status[c[1]] = "done" /\ stored[c[1]] = c[2]

(* What an event may have cost: a full round for every fault, and the round *)
(* it is in, or was settled in.                                             *)
Limit(f) == (Attempts + 1) * f
Spent(w) == w.tried + (IF w.pc = "done" THEN 1 ELSE 0)

Within(e) ==
  \/ calls[e] <= Limit(faults)
  \/ status[e] \in {"done", "failed"} /\ calls[e] <= Limit(faults) + Attempts + 1
  \/ job.pc = "ask" /\ e = Head(job.batch) /\ calls[e] <= Limit(faults) + job.tried
  \/ \E r \in Runs : /\ runs[r] # NoWork /\ e = Head(runs[r].batch)
                     /\ calls[e] <= Limit(faults) + Spent(runs[r])

DiagnosisInv ==
  /\ DiagnosisTyped /\ OneDiagnoses /\ JobIsPending /\ RunsArePending /\ CardsAreStored
  /\ \A e \in Events : Within(e)

LEMMA DiagnosisConstants ==
  /\ MaxPerTick \in Nat /\ MaxPerTick > 0 /\ Attempts \in Nat /\ Attempts > 0 /\ NoRun \notin Runs
  /\ \A e \in Events : e \in Nat
  BY DiagnosisAssumption DEF Events

LEMMA LimitGrows ==
  ASSUME NEW f \in Nat
  PROVE  Limit(f) \in Nat /\ Limit(f + 1) = Limit(f) + Attempts + 1
  BY DiagnosisConstants DEF Limit

LEMMA BatchIsSeq ==
  ASSUME NEW b \in Batches PROVE b \in Seq(Events) /\ DOMAIN b = 1..Len(b) /\ Len(b) \in Nat
  <1>1. PICK n \in 0..MaxPerTick : b \in [1..n -> Events]
    BY DEF Batches
  <1>2. n \in Nat /\ DOMAIN b = 1..n
    BY <1>1, DiagnosisConstants
  <1>3. b \in Seq(Events)
    BY <1>1, <1>2, SeqDef
  <1> QED BY <1>3, LenProperties

LEMMA OldestIsReady ==
  ASSUME NEW b \in Batches, Oldest(b), Pending # {}
  PROVE  Ready(b) /\ \A i \in 1..Len(b) : status[b[i]] = "pending"
  <1>1. b \in Seq(Events) /\ DOMAIN b = 1..Len(b)
    BY BatchIsSeq
  <1>2. \A i \in 1..Len(b) : b[i] \in Pending
    BY <1>1 DEF Oldest
  <1>3. b # <<>>
    <2> SUFFICES ASSUME b = <<>> PROVE FALSE
      OBVIOUS
    <2>1. Len(b) = 0 /\ DOMAIN b = {}
      BY <1>1
    <2>2. PICK e \in Pending : TRUE
      OBVIOUS
    <2>3. Len(b) = MaxPerTick
      BY <2>1, <2>2 DEF Oldest
    <2> QED BY <2>1, <2>3, DiagnosisConstants
  <1> QED BY <1>1, <1>2, <1>3 DEF Ready, Oldest, Pending

LEMMA ReadyTurns ==
  ASSUME NEW b, Ready(b)
  PROVE  /\ Head(b) \in Events /\ Head(b) = b[1] /\ Len(b) \in Nat /\ Len(b) >= 1
         /\ \A i \in 1..Len(b) : b[i] \in Events
         /\ \A i \in 2..Len(b) : b[i] # Head(b)
         /\ Len(b) # 1 =>
              /\ Ready(Tail(b)) /\ Len(Tail(b)) = Len(b) - 1
              /\ \A i \in 1..Len(Tail(b)) : Tail(b)[i] = b[i + 1] /\ i + 1 \in 2..Len(b)
  <1>1. /\ b \in Seq(Events) /\ Len(b) \in Nat /\ Len(b) >= 1 /\ Head(b) = b[1]
        /\ \A i \in 1..Len(b) : b[i] \in Events
    BY DEF Ready
  <1>2. ASSUME NEW i \in 2..Len(b) PROVE b[i] # b[1]
    <2>1. b[1] < b[i] /\ b[1] \in Nat /\ b[i] \in Nat
      BY <1>1, DiagnosisConstants DEF Ready
    <2> QED BY <2>1
  <1>3. ASSUME Len(b) # 1
        PROVE  /\ Ready(Tail(b)) /\ Len(Tail(b)) = Len(b) - 1
               /\ \A i \in 1..Len(Tail(b)) : Tail(b)[i] = b[i + 1] /\ i + 1 \in 2..Len(b)
    <2>1. Tail(b) \in Seq(Events) /\ Len(Tail(b)) = Len(b) - 1
          /\ \A i \in 1..Len(Tail(b)) : Tail(b)[i] = b[i + 1] /\ i + 1 \in 2..Len(b)
      BY <1>1, <1>3, HeadTailProperties
    <2>2. Tail(b) # <<>>
      <3>1. Len(b) - 1 # 0
        BY <1>1, <1>3
      <3>2. Len(Tail(b)) # 0
        BY <2>1, <3>1
      <3> QED BY <3>2, EmptySeq
    <2>3. ASSUME NEW i \in 1..Len(Tail(b)), NEW k \in 1..Len(Tail(b)), i < k
          PROVE  Tail(b)[i] < Tail(b)[k]
      <3>1. i + 1 \in 1..Len(b) /\ k + 1 \in 1..Len(b) /\ i + 1 < k + 1
        BY <2>1, <2>3, <1>1
      <3> QED BY <2>1, <3>1 DEF Ready
    <2> QED BY <2>1, <2>2, <2>3 DEF Ready
  <1> QED BY <1>1, <1>2, <1>3

LEMMA DiagnosisStarts == DiagnosisInit => DiagnosisInv
  <1> SUFFICES ASSUME DiagnosisInit PROVE DiagnosisInv
    OBVIOUS
  <1>1. DiagnosisTyped
    <2>1. <<>> \in Seq(Events)
      BY EmptySeq
    <2> QED BY <2>1 DEF DiagnosisInit, DiagnosisTyped, Statuses, NoTick, NoWork
  <1>2. OneDiagnoses /\ JobIsPending /\ RunsArePending /\ CardsAreStored
    BY DEF DiagnosisInit, OneDiagnoses, JobIsPending, RunsArePending, CardsAreStored, NoTick
  <1>3. ASSUME NEW e \in Events PROVE Within(e)
    <2>1. calls[e] = 0 /\ faults = 0
      BY DEF DiagnosisInit
    <2>2. 0 <= Limit(0)
      BY LimitGrows
    <2> QED BY <2>1, <2>2 DEF Within
  <1> QED BY <1>1, <1>2, <1>3 DEF DiagnosisInv

(* A step of which only the job knows: the looks at the file.               *)
LEMMA JobLooks ==
  ASSUME DiagnosisInv, job' \in [pc : {"idle", "current", "currentRead", "fallback", "fallbackRead"},
                                 batch : Seq(Events), tried : Nat, spare : BOOLEAN],
         driver = "host" => job' = job, job.pc \notin {"ask", "tell"},
         UNCHANGED <<driver, status, stored, runs, lock, cards, sentCards, calls, faults>>
  PROVE  DiagnosisInv'
  <1> USE DEF DiagnosisInv
  <1>1. DiagnosisTyped' /\ OneDiagnoses' /\ RunsArePending' /\ CardsAreStored'
    BY DEF DiagnosisTyped, OneDiagnoses, RunsArePending, CardsAreStored
  <1>2. job'.pc \notin {"ask", "tell"}
    OBVIOUS
  <1>3. JobIsPending'
    BY <1>2 DEF JobIsPending
  <1>4. \A e \in Events : Within(e)'
    BY DEF Within
  <1> QED BY <1>1, <1>3, <1>4

(* An event leaves "pending" for good: the cards, and the costs.            *)
LEMMA NoCardOfPending ==
  ASSUME CardsAreStored, NEW e, status[e] # "done", NEW c \in cards \cup sentCards
  PROVE  c[1] # e
  BY DEF CardsAreStored

LEMMA RaisedStep ==
  ASSUME DiagnosisInv, Raised PROVE DiagnosisInv'
  <1> USE DEF DiagnosisInv
  <1>1. PICK e \in Events : status[e] = "none" /\ status' = [status EXCEPT ![e] = "pending"]
    BY DEF Raised
  <1>2. UNCHANGED <<driver, stored, job, runs, lock, cards, sentCards, calls, faults>>
    BY DEF Raised, process, host
  <1>3. DiagnosisTyped' /\ OneDiagnoses'
    BY <1>1, <1>2 DEF DiagnosisTyped, OneDiagnoses, Statuses
  <1>4. \A d \in Events : /\ status[d] = "pending" => status'[d] = "pending"
                          /\ status[d] \in {"done", "failed"} => status'[d] = status[d]
    BY <1>1 DEF DiagnosisTyped
  <1>5. JobIsPending'
    BY <1>2, <1>4, ReadyTurns DEF JobIsPending
  <1>6. RunsArePending'
    BY <1>2, <1>4, ReadyTurns DEF RunsArePending
  <1>7. CardsAreStored'
    BY <1>2, <1>4 DEF CardsAreStored, DiagnosisTyped
  <1>8. \A d \in Events : Within(d)'
    BY <1>2, <1>4 DEF Within
  <1> QED BY <1>3, <1>5, <1>6, <1>7, <1>8

(* In the container nothing but the job works, on the host nothing but one  *)
(* run.                                                                     *)
LEMMA JobWorks ==
  ASSUME DiagnosisInv, job.pc # "idle"
  PROVE  /\ driver = "container" /\ cards = {} /\ \A r \in Runs : runs[r] = NoWork
         /\ job.batch \in Seq(Events) /\ job.tried \in Nat /\ job.spare \in BOOLEAN
  BY DEF DiagnosisInv, OneDiagnoses, DiagnosisTyped, NoTick

LEMMA SelectsStep ==
  ASSUME DiagnosisInv, Selects PROVE DiagnosisInv'
  <1> USE DEF DiagnosisInv
  <1>1. /\ UNCHANGED <<driver, status, stored, runs, lock, cards, sentCards, calls, faults>>
        /\ job.pc \in {"fallback", "fallbackRead"}
    BY DEF Selects, Reloaded, process, table, host
  <1>2. job.pc \notin {"idle", "ask", "tell"} /\ driver = "container"
    BY <1>1, JobWorks DEF DiagnosisTyped
  <1>3. CASE job' = NoTick
    <2>1. <<>> \in Seq(Events)
      BY EmptySeq
    <2> QED BY <1>1, <1>2, <1>3, <2>1, JobLooks DEF NoTick
  <1>4. CASE job' # NoTick
    <2>1. PICK b \in Batches : /\ Oldest(b) /\ Pending # {}
                               /\ job' = [pc |-> "ask", batch |-> b, tried |-> 0,
                                          spare |-> lastGood'.fallback # NoProfile]
      BY <1>4 DEF Selects
    <2>2. Ready(b) /\ (\A i \in 1..Len(b) : status[b[i]] = "pending") /\ b \in Seq(Events)
      BY <2>1, OldestIsReady DEF Ready
    <2>3. job'.pc = "ask" /\ job'.batch = b /\ job'.tried = 0 /\ job'.spare \in BOOLEAN
      BY <2>1
    <2>4. DiagnosisTyped'
      BY <1>1, <2>1, <2>2 DEF DiagnosisTyped
    <2>5. JobIsPending'
      BY <1>1, <2>2, <2>3, DiagnosisConstants DEF JobIsPending
    <2>6. OneDiagnoses' /\ RunsArePending' /\ CardsAreStored'
      BY <1>1, <1>2 DEF OneDiagnoses, RunsArePending, CardsAreStored
    <2>7. \A e \in Events : Within(e)'
      BY <1>1, <1>2 DEF Within
    <2> QED BY <2>4, <2>5, <2>6, <2>7
  <1> QED BY <1>3, <1>4

(* The job's event: pending, and what it cost so far.                       *)
LEMMA AskedOf ==
  ASSUME DiagnosisInv, job.pc = "ask", NEW e, e = Head(job.batch)
  PROVE  /\ e \in Events /\ status[e] = "pending" /\ calls[e] \in Nat
         /\ calls[e] <= Limit(faults) + job.tried
         /\ job.tried \in Nat /\ job.tried <= Attempts /\ Limit(faults) \in Nat
  <1> USE DEF DiagnosisInv
  <1>1. Ready(job.batch) /\ job.tried < Attempts + (IF job.spare THEN 1 ELSE 0)
        /\ \A i \in 1..Len(job.batch) : status[job.batch[i]] = "pending"
    BY DEF JobIsPending
  <1>2. e \in Events /\ status[e] = "pending"
    BY <1>1, ReadyTurns
  <1>3. Limit(faults) \in Nat /\ calls[e] \in Nat
    BY <1>2, LimitGrows DEF DiagnosisTyped
  <1>4. \A r \in Runs : runs[r] = NoWork
    BY JobWorks
  <1>5. Within(e)
    BY <1>2
  <1>6. calls[e] <= Limit(faults) + job.tried /\ job.tried \in Nat
    BY <1>2, <1>3, <1>4, <1>5, JobWorks DEF Within
  <1>7. job.tried <= Attempts
    BY <1>1, <1>6, DiagnosisConstants
  <1> QED BY <1>2, <1>3, <1>6, <1>7

(* The job goes on to the rest of its batch.                                *)
LEMMA JobTurns ==
  ASSUME DiagnosisTyped, Ready(job.batch), NEW next, next = JobTurn
  PROVE  /\ next \in [pc : {"idle", "ask"}, batch : Seq(Events), tried : Nat, spare : BOOLEAN]
         /\ next.pc = "ask" => Len(job.batch) # 1 /\ next.batch = Tail(job.batch) /\ next.tried = 0
  <1>1. CASE Len(job.batch) = 1
    BY <1>1, EmptySeq DEF JobTurn, NoTick
  <1>2. CASE Len(job.batch) # 1
    <2>1. PICK rest : rest = Tail(job.batch) /\ rest \in Seq(Events)
      BY <1>2, ReadyTurns DEF Ready
    <2>2. next = [job EXCEPT !.pc = "ask", !.batch = rest, !.tried = 0]
      BY <1>2, <2>1 DEF JobTurn, Turn
    <2>3. next = [pc |-> "ask", batch |-> rest, tried |-> 0, spare |-> job.spare]
          /\ job.spare \in BOOLEAN
      BY <2>2 DEF DiagnosisTyped
    <2> QED BY <1>2, <2>1, <2>3
  <1> QED BY <1>1, <1>2

LEMMA RestIsPending ==
  ASSUME DiagnosisTyped, Ready(job.batch), job' = JobTurn,
         \A i \in 2..Len(job.batch) : status'[job.batch[i]] = "pending"
  PROVE  JobIsPending' /\ job'.pc # "tell"
  <1>1. /\ job' \in [pc : {"idle", "ask"}, batch : Seq(Events), tried : Nat, spare : BOOLEAN]
        /\ job'.pc = "ask" => Len(job.batch) # 1 /\ job'.batch = Tail(job.batch) /\ job'.tried = 0
    BY JobTurns
  <1>2. ASSUME job'.pc = "ask"
        PROVE  /\ Ready(job'.batch) /\ job'.tried < Attempts + (IF job'.spare THEN 1 ELSE 0)
               /\ \A i \in 1..Len(job'.batch) : status'[job'.batch[i]] = "pending"
    <2>1. Ready(Tail(job.batch))
          /\ \A i \in 1..Len(Tail(job.batch)) :
               Tail(job.batch)[i] = job.batch[i + 1] /\ i + 1 \in 2..Len(job.batch)
      BY <1>1, <1>2, ReadyTurns
    <2>2. 0 < Attempts + 1 /\ 0 < Attempts + 0
      BY DiagnosisConstants
    <2>3. job'.tried < Attempts + (IF job'.spare THEN 1 ELSE 0)
      BY <1>1, <1>2, <2>2
    <2>4. job'.batch = Tail(job.batch)
      BY <1>1, <1>2
    <2>5. \A i \in 1..Len(job'.batch) : status'[job'.batch[i]] = "pending"
      BY <2>1, <2>4
    <2> QED BY <2>1, <2>3, <2>4, <2>5
  <1> QED BY <1>1, <1>2 DEF JobIsPending

LEMMA DiagnosedStep ==
  ASSUME DiagnosisInv, Diagnosed PROVE DiagnosisInv'
  <1> USE DEF DiagnosisInv
  <1> DEFINE e == Head(job.batch)
  <1>1. /\ job.pc = "ask" /\ calls' = [calls EXCEPT ![e] = calls[e] + 1]
        /\ status' = [status EXCEPT ![e] = "done"] /\ stored' = [stored EXCEPT ![e] = calls'[e]]
        /\ job' = [job EXCEPT !.pc = "tell"]
        /\ UNCHANGED <<driver, runs, lock, cards, sentCards, faults>>
    BY DEF Diagnosed, Asked, SetDiagnosis, process, host
  <1>2. /\ e \in Events /\ status[e] = "pending" /\ calls[e] \in Nat
        /\ calls[e] <= Limit(faults) + job.tried
        /\ job.tried \in Nat /\ job.tried <= Attempts /\ Limit(faults) \in Nat
    BY <1>1, AskedOf
  <1>3. driver = "container" /\ cards = {} /\ \A r \in Runs : runs[r] = NoWork
    BY <1>1, JobWorks
  <1>r. Ready(job.batch) /\ \A i \in 1..Len(job.batch) : status[job.batch[i]] = "pending"
    BY <1>1 DEF JobIsPending
  <1> HIDE DEF e
  <1>4. calls'[e] = calls[e] + 1 /\ calls[e] + 1 \in Nat /\ status'[e] = "done"
        /\ \A d \in Events \ {e} : calls'[d] = calls[d] /\ status'[d] = status[d] /\ stored'[d] = stored[d]
    BY <1>1, <1>2 DEF DiagnosisTyped
  <1>j. job'.pc = "tell" /\ job'.batch = job.batch
    BY <1>1 DEF DiagnosisTyped
  <1>5. DiagnosisTyped' /\ OneDiagnoses'
    BY <1>1, <1>2, <1>3, <1>4 DEF DiagnosisTyped, OneDiagnoses, Statuses
  <1>6. JobIsPending'
    <2>1. \A i \in 2..Len(job.batch) : job.batch[i] \in Events \ {e} /\ i \in 1..Len(job.batch)
      BY <1>r, ReadyTurns DEF e
    <2> QED BY <1>j, <1>r, <1>4, <2>1 DEF JobIsPending, e
  <1>7. RunsArePending'
    BY <1>1, <1>3 DEF RunsArePending
  <1>8. CardsAreStored'
    BY <1>1, <1>2, <1>4, NoCardOfPending DEF CardsAreStored, DiagnosisTyped
  <1>9. ASSUME NEW d \in Events PROVE Within(d)'
    <2>1. CASE d = e
      <3>1. calls[e] + 1 <= Limit(faults) + Attempts + 1
        BY <1>2, DiagnosisConstants
      <3> QED BY <2>1, <3>1, <1>1, <1>4 DEF Within
    <2>2. CASE d # e
      <3>1. Within(d)
        OBVIOUS
      <3> QED BY <2>2, <3>1, <1>1, <1>3, <1>4, <1>j DEF Within, e
    <2> QED BY <2>1, <2>2
  <1> QED BY <1>5, <1>6, <1>7, <1>8, <1>9

LEMMA UndecidedStep ==
  ASSUME DiagnosisInv, Undecided PROVE DiagnosisInv'
  <1> USE DEF DiagnosisInv
  <1> DEFINE e == Head(job.batch)
  <1>1. /\ job.pc = "ask" /\ ~LastTry /\ calls' = [calls EXCEPT ![e] = calls[e] + 1]
        /\ job' = [job EXCEPT !.tried = job.tried + 1]
        /\ UNCHANGED <<driver, status, stored, runs, lock, cards, sentCards, faults>>
    BY DEF Undecided, Asked, process, table, host
  <1>2. /\ e \in Events /\ status[e] = "pending" /\ calls[e] \in Nat
        /\ calls[e] <= Limit(faults) + job.tried
        /\ job.tried \in Nat /\ job.tried <= Attempts /\ Limit(faults) \in Nat
    BY <1>1, AskedOf
  <1>3. driver = "container" /\ cards = {} /\ \A r \in Runs : runs[r] = NoWork
    BY <1>1, JobWorks
  <1>r. Ready(job.batch) /\ job.tried < Attempts + (IF job.spare THEN 1 ELSE 0)
        /\ \A i \in 1..Len(job.batch) : status[job.batch[i]] = "pending"
    BY <1>1 DEF JobIsPending
  <1> HIDE DEF e
  <1>4. calls'[e] = calls[e] + 1 /\ calls[e] + 1 \in Nat
        /\ \A d \in Events \ {e} : calls'[d] = calls[d]
    BY <1>1, <1>2 DEF DiagnosisTyped
  <1>j. job'.pc = "ask" /\ job'.batch = job.batch /\ job'.tried = job.tried + 1
        /\ job'.spare = job.spare
    BY <1>1 DEF DiagnosisTyped
  <1>5. DiagnosisTyped' /\ OneDiagnoses'
    <2>1. job.tried + 1 \in Nat
      BY <1>2
    <2> QED BY <1>1, <1>2, <1>3, <1>4, <2>1 DEF DiagnosisTyped, OneDiagnoses
  <1>6. JobIsPending'
    <2>1. job.tried + 1 < Attempts + (IF job.spare THEN 1 ELSE 0)
      BY <1>1, <1>2, <1>r, DiagnosisConstants DEF LastTry
    <2> QED BY <1>1, <1>j, <1>r, <2>1 DEF JobIsPending
  <1>7. RunsArePending' /\ CardsAreStored'
    BY <1>1, <1>3 DEF RunsArePending, CardsAreStored
  <1>9. ASSUME NEW d \in Events PROVE Within(d)'
    <2>1. CASE d = e
      <3>1. calls[e] + 1 <= Limit(faults) + (job.tried + 1)
        BY <1>2
      <3> QED BY <2>1, <3>1, <1>1, <1>4, <1>j DEF Within, e
    <2>2. CASE d # e
      <3>1. Within(d)
        OBVIOUS
      <3> QED BY <2>2, <3>1, <1>1, <1>3, <1>4, <1>j DEF Within, e
    <2> QED BY <2>1, <2>2
  <1> QED BY <1>5, <1>6, <1>7, <1>9

LEMMA GivesUpStep ==
  ASSUME DiagnosisInv, GivesUp PROVE DiagnosisInv'
  <1> USE DEF DiagnosisInv
  <1> DEFINE e == Head(job.batch)
  <1>1. /\ job.pc = "ask" /\ calls' = [calls EXCEPT ![e] = calls[e] + 1]
        /\ status' = [status EXCEPT ![e] = "failed"] /\ stored' = [stored EXCEPT ![e] = 0]
        /\ job' = JobTurn
        /\ UNCHANGED <<driver, runs, lock, cards, sentCards, faults>>
    BY DEF GivesUp, Asked, SetDiagnosis, process, host
  <1>2. /\ e \in Events /\ status[e] = "pending" /\ calls[e] \in Nat
        /\ calls[e] <= Limit(faults) + job.tried
        /\ job.tried \in Nat /\ job.tried <= Attempts /\ Limit(faults) \in Nat
    BY <1>1, AskedOf
  <1>3. driver = "container" /\ cards = {} /\ \A r \in Runs : runs[r] = NoWork
    BY <1>1, JobWorks
  <1>r. Ready(job.batch) /\ \A i \in 1..Len(job.batch) : status[job.batch[i]] = "pending"
    BY <1>1 DEF JobIsPending
  <1>t. job' \in [pc : {"idle", "ask"}, batch : Seq(Events), tried : Nat, spare : BOOLEAN]
    BY <1>1, <1>r, JobTurns
  <1>n. /\ \A i \in 2..Len(job.batch) : job.batch[i] \in Events \ {e} /\ i \in 1..Len(job.batch)
    BY <1>r, ReadyTurns
  <1> HIDE DEF e
  <1>4. calls'[e] = calls[e] + 1 /\ calls[e] + 1 \in Nat /\ status'[e] = "failed"
        /\ \A d \in Events \ {e} : calls'[d] = calls[d] /\ status'[d] = status[d] /\ stored'[d] = stored[d]
    BY <1>1, <1>2 DEF DiagnosisTyped
  <1>5. DiagnosisTyped' /\ OneDiagnoses'
    BY <1>1, <1>2, <1>3, <1>4, <1>t DEF DiagnosisTyped, OneDiagnoses, Statuses
  <1>6. JobIsPending'
    BY <1>1, <1>r, <1>n, <1>4, RestIsPending
  <1>7. RunsArePending'
    BY <1>1, <1>3 DEF RunsArePending
  <1>8. CardsAreStored'
    BY <1>1, <1>2, <1>4, NoCardOfPending DEF CardsAreStored, DiagnosisTyped
  <1>9. ASSUME NEW d \in Events PROVE Within(d)'
    <2>1. CASE d = e
      <3>1. calls[e] + 1 <= Limit(faults) + Attempts + 1
        BY <1>2, DiagnosisConstants
      <3> QED BY <2>1, <3>1, <1>1, <1>4 DEF Within
    <2>2. CASE d # e
      <3>1. Within(d)
        OBVIOUS
      <3> QED BY <2>2, <3>1, <1>1, <1>3, <1>4 DEF Within, e
    <2> QED BY <2>1, <2>2
  <1> QED BY <1>5, <1>6, <1>7, <1>8, <1>9

LEMMA ToldStep ==
  ASSUME DiagnosisInv, Told PROVE DiagnosisInv'
  <1> USE DEF DiagnosisInv
  <1> DEFINE e == Head(job.batch)
  <1>1. /\ job.pc = "tell" /\ job' = JobTurn /\ sentCards' = sentCards \cup {<<e, stored[e]>>}
        /\ UNCHANGED <<driver, status, stored, runs, lock, cards, calls, faults>>
    BY DEF Told, process, table, host
  <1>3. driver = "container" /\ cards = {} /\ \A r \in Runs : runs[r] = NoWork
    BY <1>1, JobWorks
  <1>r. Ready(job.batch) /\ status[e] = "done"
        /\ \A i \in 2..Len(job.batch) : status[job.batch[i]] = "pending"
    BY <1>1 DEF JobIsPending
  <1>t. job' \in [pc : {"idle", "ask"}, batch : Seq(Events), tried : Nat, spare : BOOLEAN]
    BY <1>1, <1>r, JobTurns
  <1>e. e \in Events /\ stored[e] \in Nat
    BY <1>r, ReadyTurns DEF DiagnosisTyped
  <1> HIDE DEF e
  <1>5. DiagnosisTyped' /\ OneDiagnoses'
    BY <1>1, <1>3, <1>e, <1>t DEF DiagnosisTyped, OneDiagnoses
  <1>6. JobIsPending'
    BY <1>1, <1>r, RestIsPending
  <1>7. RunsArePending' /\ CardsAreStored'
    BY <1>1, <1>3, <1>r DEF RunsArePending, CardsAreStored
  <1>9. \A d \in Events : Within(d)'
    BY <1>1, <1>3 DEF Within
  <1> QED BY <1>5, <1>6, <1>7, <1>9

(* A run that works is the only one, and holds the lock.                    *)
LEMMA RunWorks ==
  ASSUME DiagnosisInv, NEW r \in Runs, runs[r] # NoWork
  PROVE  /\ driver = "host" /\ job = NoTick /\ lock = r
         /\ \A q \in Runs \ {r} : runs[q] = NoWork
         /\ Ready(runs[r].batch) /\ runs[r].pc \in {"ask", "done", "failed"}
         /\ \A i \in 1..Len(runs[r].batch) : status[runs[r].batch[i]] = "pending"
         /\ runs[r].tried \in Nat /\ runs[r].tried <= Attempts
         /\ runs[r].pc \in {"ask", "done"} => runs[r].tried < Attempts
  <1> USE DEF DiagnosisInv
  <1>1. driver = "host" /\ job = NoTick /\ lock = r /\ \A q \in Runs \ {r} : runs[q] = NoWork
    BY DEF OneDiagnoses, DiagnosisTyped
  <1>2. runs[r].pc \in {"idle", "ask", "done", "failed"} /\ runs[r].tried \in Nat
    BY DEF DiagnosisTyped
  <1> QED BY <1>1, <1>2 DEF RunsArePending

LEMMA RunAskedOf ==
  ASSUME DiagnosisInv, NEW r \in Runs, runs[r] # NoWork, NEW e, e = Head(runs[r].batch)
  PROVE  /\ e \in Events /\ status[e] = "pending" /\ calls[e] \in Nat
         /\ calls[e] <= Limit(faults) + Spent(runs[r])
         /\ Spent(runs[r]) \in Nat /\ Spent(runs[r]) <= Attempts /\ Limit(faults) \in Nat
  <1> USE DEF DiagnosisInv
  <1>1. e \in Events /\ status[e] = "pending"
    BY RunWorks, ReadyTurns
  <1>2. calls[e] \in Nat /\ Limit(faults) \in Nat
    BY <1>1, LimitGrows DEF DiagnosisTyped
  <1>3. Spent(runs[r]) \in Nat /\ Spent(runs[r]) <= Attempts
    <2>1. PICK t \in Nat : t = runs[r].tried
      BY RunWorks
    <2> QED BY <2>1, RunWorks, DiagnosisConstants DEF Spent
  <1>4. Within(e)
    BY <1>1
  <1>5. job.pc # "ask" /\ status[e] \notin {"done", "failed"}
    BY <1>1, RunWorks DEF NoTick
  <1>6. calls[e] <= Limit(faults) + Spent(runs[r])
    <2>1. CASE calls[e] <= Limit(faults)
      BY <2>1, <1>2, <1>3
    <2>2. CASE \E q \in Runs : runs[q] # NoWork /\ calls[e] <= Limit(faults) + Spent(runs[q])
      BY <2>2, RunWorks
    <2> QED BY <1>4, <1>5, <2>1, <2>2 DEF Within
  <1> QED BY <1>1, <1>2, <1>3, <1>6

(* Nothing an event has cost is above what one more fault allows.           *)
LEMMA FaultCovers ==
  ASSUME DiagnosisInv, NEW e \in Events PROVE calls[e] <= Limit(faults + 1)
  <1> USE DEF DiagnosisInv
  <1>1. /\ calls[e] \in Nat /\ faults \in Nat /\ Limit(faults) \in Nat
        /\ Limit(faults + 1) = Limit(faults) + Attempts + 1
    BY LimitGrows DEF DiagnosisTyped
  <1>2. CASE calls[e] <= Limit(faults)
    BY <1>1, <1>2, DiagnosisConstants
  <1>3. CASE calls[e] <= Limit(faults) + Attempts + 1
    BY <1>1, <1>3
  <1>4. CASE job.pc = "ask" /\ e = Head(job.batch)
    <2>1. PICK t \in Nat : t <= Attempts /\ calls[e] <= Limit(faults) + t
      BY <1>4, AskedOf
    <2> QED BY <1>1, <2>1, DiagnosisConstants
  <1>5. ASSUME NEW r \in Runs, runs[r] # NoWork, e = Head(runs[r].batch)
        PROVE  calls[e] <= Limit(faults + 1)
    <2>1. PICK t \in Nat : t <= Attempts /\ calls[e] <= Limit(faults) + t
      BY <1>5, RunAskedOf
    <2> QED BY <1>1, <2>1, DiagnosisConstants
  <1>6. Within(e)
    OBVIOUS
  <1> QED BY <1>2, <1>3, <1>4, <1>5, <1>6 DEF Within

LEMMA WithinAfterFault ==
  ASSUME DiagnosisInv, faults' = faults + 1, UNCHANGED calls
  PROVE  \A e \in Events : Within(e)'
  <1> SUFFICES ASSUME NEW e \in Events PROVE Within(e)'
    OBVIOUS
  <1>1. calls[e] <= Limit(faults + 1)
    BY FaultCovers
  <1>2. calls'[e] <= Limit(faults')
    BY <1>1
  <1> QED BY <1>2 DEF Within

LEMMA RunStartsStep ==
  ASSUME DiagnosisInv, NEW r \in Runs, RunStarts(r) PROVE DiagnosisInv'
  <1> USE DEF DiagnosisInv
  <1>1. /\ driver = "host" /\ runs[r] = NoWork /\ lock = NoRun /\ Pending # {} /\ lock' = r
        /\ UNCHANGED <<driver, status, stored, job, cards, sentCards, calls, faults>>
    BY DEF RunStarts, Free, process, table
  <1>2. PICK b \in Batches : /\ Oldest(b)
                            /\ runs' = [runs EXCEPT ![r] = [pc |-> "ask", batch |-> b, tried |-> 0]]
    BY DEF RunStarts
  <1>3. Ready(b) /\ b \in Seq(Events) /\ \A i \in 1..Len(b) : status[b[i]] = "pending"
    BY <1>1, <1>2, OldestIsReady DEF Ready
  <1>4. \A q \in Runs : runs[q] = NoWork
    BY <1>1, DiagnosisConstants DEF OneDiagnoses
  <1>5. /\ runs'[r] = [pc |-> "ask", batch |-> b, tried |-> 0]
        /\ \A q \in Runs \ {r} : runs'[q] = NoWork
    BY <1>2, <1>4 DEF DiagnosisTyped
  <1>6. DiagnosisTyped' /\ OneDiagnoses'
    BY <1>1, <1>2, <1>3, <1>5 DEF DiagnosisTyped, OneDiagnoses
  <1>7. JobIsPending' /\ CardsAreStored'
    BY <1>1 DEF JobIsPending, CardsAreStored
  <1>8. RunsArePending'
    BY <1>1, <1>3, <1>5, DiagnosisConstants DEF RunsArePending
  <1>9. \A e \in Events : Within(e)'
    BY <1>1, <1>4 DEF Within
  <1> QED BY <1>6, <1>7, <1>8, <1>9

LEMMA RunAsksStep ==
  ASSUME DiagnosisInv, NEW r \in Runs, RunAsks(r) PROVE DiagnosisInv'
  <1> USE DEF DiagnosisInv
  <1>1. PICK e : e = Head(runs[r].batch)
    OBVIOUS
  <1>2. /\ runs[r].pc = "ask" /\ calls' = [calls EXCEPT ![e] = calls[e] + 1]
        /\ UNCHANGED <<driver, status, stored, job, lock, cards, sentCards, faults>>
    BY <1>1 DEF RunAsks, Asked, process, table
  <1>3. runs[r] # NoWork
    BY <1>2 DEF NoWork
  <1>4. /\ driver = "host" /\ job = NoTick /\ lock = r /\ \A q \in Runs \ {r} : runs[q] = NoWork
        /\ Ready(runs[r].batch) /\ runs[r].tried \in Nat /\ runs[r].tried < Attempts
        /\ \A i \in 1..Len(runs[r].batch) : status[runs[r].batch[i]] = "pending"
    BY <1>2, <1>3, RunWorks
  <1>5. /\ e \in Events /\ calls[e] \in Nat /\ Limit(faults) \in Nat
        /\ calls[e] <= Limit(faults) + runs[r].tried
    <2>1. Spent(runs[r]) = runs[r].tried
      BY <1>2, <1>4 DEF Spent
    <2> QED BY <1>1, <1>3, <2>1, RunAskedOf
  <1>6. PICK work : /\ runs' = [runs EXCEPT ![r] = work]
                    /\ work \in [pc : {"ask", "done", "failed"}, batch : Seq(Events), tried : Nat]
                    /\ work.batch = runs[r].batch
                    /\ work.pc \in {"ask", "done"} => work.tried < Attempts
                    /\ work.tried <= Attempts /\ Spent(work) = runs[r].tried + 1
    <2>1. PICK t \in Nat, b \in Seq(Events) :
            /\ t = runs[r].tried /\ b = runs[r].batch
            /\ runs[r] = [pc |-> "ask", batch |-> b, tried |-> t]
      BY <1>2 DEF DiagnosisTyped
    <2>2. t < Attempts /\ t + 1 <= Attempts /\ t + 1 \in Nat
      BY <1>4, <2>1, DiagnosisConstants
    <2>s. \A w : w \in [pc : {"ask", "done", "failed"}, batch : Seq(Events), tried : Nat]
                  => Spent(w) = IF w.pc = "done" THEN w.tried + 1 ELSE w.tried
      BY DEF Spent
    <2>3. CASE runs' = [runs EXCEPT ![r].pc = "done"]
      <3>1. PICK work : work = [pc |-> "done", batch |-> b, tried |-> t]
        OBVIOUS
      <3>2. [runs[r] EXCEPT !.pc = "done"] = work
        BY <2>1, <3>1
      <3>3. runs' = [runs EXCEPT ![r] = work]
        BY <2>3, <3>2
      <3>4. work \in [pc : {"ask", "done", "failed"}, batch : Seq(Events), tried : Nat]
            /\ work.batch = b /\ work.tried = t /\ work.pc = "done"
        BY <2>1, <3>1
      <3>5. Spent(work) = t + 1
        BY <2>s, <3>4
      <3>7. /\ work.pc \in {"ask", "done"} => work.tried < Attempts
            /\ work.tried <= Attempts
        BY <2>2, <3>4, DiagnosisConstants
      <3> WITNESS work
      <3> QED BY <2>1, <3>3, <3>4, <3>5, <3>7
    <2>4. CASE runs' = [runs EXCEPT ![r].tried = @ + 1,
                                    ![r].pc = IF runs[r].tried + 1 = Attempts THEN "failed" ELSE @]
      <3>p. PICK p : p = (IF t + 1 = Attempts THEN "failed" ELSE "ask")
        OBVIOUS
      <3>1. PICK work : work = [pc |-> p, batch |-> b, tried |-> t + 1]
        OBVIOUS
      <3>q. (IF runs[r].tried + 1 = Attempts THEN "failed" ELSE runs[r].pc) = p
        BY <2>1, <3>p
      <3>2. [runs[r] EXCEPT !.tried = t + 1, !.pc = p] = work
        <4>1. PICK n \in Nat : n = t + 1
          BY <2>2
        <4>2. [[pc |-> "ask", batch |-> b, tried |-> t] EXCEPT !.tried = n, !.pc = p]
                = [pc |-> p, batch |-> b, tried |-> n]
          <5>1. [[pc |-> "ask", batch |-> b, tried |-> t] EXCEPT !.tried = n]
                  = [pc |-> "ask", batch |-> b, tried |-> n]
            OBVIOUS
          <5>2. [[pc |-> "ask", batch |-> b, tried |-> n] EXCEPT !.pc = p]
                  = [pc |-> p, batch |-> b, tried |-> n]
            BY <3>p
          <5> QED BY <5>1, <5>2
        <4> QED BY <2>1, <3>1, <4>1, <4>2
      <3>3. runs' = [runs EXCEPT ![r] = work]
        BY <2>1, <2>4, <3>2, <3>q
      <3>4. /\ work \in [pc : {"ask", "done", "failed"}, batch : Seq(Events), tried : Nat]
            /\ work.batch = b /\ work.tried = t + 1 /\ work.pc # "done"
            /\ work.pc = "ask" => t + 1 # Attempts
        BY <2>1, <2>2, <3>1, <3>p
      <3>5. Spent(work) = t + 1
        BY <2>s, <3>4
      <3>6. t + 1 # Attempts => t + 1 < Attempts
        BY <2>2, DiagnosisConstants
      <3>7. /\ work.pc = "ask" => work.tried < Attempts
            /\ work.tried <= Attempts
        BY <2>2, <3>4, <3>6
      <3> WITNESS work
      <3> QED BY <2>1, <3>3, <3>4, <3>5, <3>7
    <2> QED BY <2>3, <2>4 DEF RunAsks
  <1>7. runs'[r] = work /\ \A q \in Runs \ {r} : runs'[q] = NoWork
    BY <1>4, <1>6 DEF DiagnosisTyped
  <1>8. /\ calls[e] + 1 \in Nat /\ calls'[e] = calls[e] + 1
        /\ \A d \in Events \ {e} : calls'[d] = calls[d]
    BY <1>2, <1>5 DEF DiagnosisTyped
  <1>9. DiagnosisTyped' /\ OneDiagnoses'
    BY <1>2, <1>4, <1>6, <1>7, <1>8 DEF DiagnosisTyped, OneDiagnoses
  <1>10. JobIsPending' /\ CardsAreStored'
    BY <1>2, <1>4 DEF JobIsPending, CardsAreStored
  <1>11. RunsArePending'
    BY <1>2, <1>4, <1>6, <1>7 DEF RunsArePending
  <1>12. ASSUME NEW d \in Events PROVE Within(d)'
    <2>1. CASE d = e
      <3>1. calls[e] + 1 <= Limit(faults) + (runs[r].tried + 1)
        BY <1>4, <1>5
      <3>2. calls'[e] <= Limit(faults') + Spent(runs'[r])
        BY <1>2, <1>6, <1>7, <1>8, <3>1
      <3>3. runs'[r] # NoWork /\ e = Head(runs'[r].batch)
        BY <1>1, <1>6, <1>7 DEF NoWork
      <3> QED BY <2>1, <3>2, <3>3 DEF Within
    <2>2. CASE d # e
      <3>1. Within(d)
        OBVIOUS
      <3> QED BY <2>2, <3>1, <1>1, <1>2, <1>4, <1>8 DEF Within, NoTick
    <2> QED BY <2>1, <2>2
  <1> QED BY <1>9, <1>10, <1>11, <1>12

(* A run goes on to the rest of its batch, or ends and frees the lock.      *)
LEMMA RunTurns ==
  ASSUME DiagnosisInv, NEW r \in Runs, runs[r] # NoWork, RunTurn(r)
  PROVE  /\ runs' \in [Runs -> [pc : {"idle", "ask", "done", "failed"}, batch : Seq(Events),
                                tried : Nat]]
         /\ \A q \in Runs \ {r} : runs'[q] = NoWork
         /\ \/ runs'[r] = NoWork /\ lock' = NoRun
            \/ /\ lock' = r /\ runs'[r].pc = "ask" /\ runs'[r].tried = 0
               /\ Len(runs[r].batch) # 1 /\ runs'[r].batch = Tail(runs[r].batch)
  <1> USE DEF DiagnosisInv
  <1>1. PICK w : w = runs[r] /\ w \in [pc : {"idle", "ask", "done", "failed"},
                                       batch : Seq(Events), tried : Nat]
    BY DEF DiagnosisTyped
  <1>2. Ready(w.batch) /\ lock = r /\ \A q \in Runs \ {r} : runs[q] = NoWork
    BY <1>1, RunWorks
  <1>3. runs' = [runs EXCEPT ![r] = Turn(w)]
    BY <1>1 DEF RunTurn
  <1>4. runs'[r] = Turn(w) /\ \A q \in Runs \ {r} : runs'[q] = NoWork
    BY <1>2, <1>3 DEF DiagnosisTyped
  <1>5. CASE Len(w.batch) = 1
    <2>1. Turn(w) = NoWork
      BY <1>1, <1>5 DEF Turn, NoWork
    <2>2. lock' = NoRun
      BY <1>1, <1>2, <1>5 DEF RunTurn
    <2>3. NoWork \in [pc : {"idle", "ask", "done", "failed"}, batch : Seq(Events), tried : Nat]
      BY EmptySeq DEF NoWork
    <2>4. runs' \in [Runs -> [pc : {"idle", "ask", "done", "failed"}, batch : Seq(Events),
                              tried : Nat]]
      BY <1>3, <2>1, <2>3 DEF DiagnosisTyped
    <2> QED BY <1>4, <2>1, <2>2, <2>4
  <1>6. CASE Len(w.batch) # 1
    <2>1. PICK rest : rest = Tail(w.batch) /\ rest \in Seq(Events)
      BY <1>2, <1>6, ReadyTurns DEF Ready
    <2>2. Turn(w) = [pc |-> "ask", batch |-> rest, tried |-> 0]
      <3>1. Turn(w) = [w EXCEPT !.pc = "ask", !.batch = rest, !.tried = 0]
        BY <1>6, <2>1 DEF Turn
      <3> QED BY <1>1, <3>1
    <2>3. [pc |-> "ask", batch |-> rest, tried |-> 0]
            \in [pc : {"idle", "ask", "done", "failed"}, batch : Seq(Events), tried : Nat]
      BY <2>1
    <2>4. runs' \in [Runs -> [pc : {"idle", "ask", "done", "failed"}, batch : Seq(Events),
                              tried : Nat]]
      BY <1>3, <2>2, <2>3 DEF DiagnosisTyped
    <2>5. lock' = r
      BY <1>1, <1>2, <1>6 DEF RunTurn
    <2> QED BY <1>1, <1>4, <1>6, <2>1, <2>2, <2>4, <2>5
  <1> QED BY <1>5, <1>6

LEMMA RunRestIsPending ==
  ASSUME DiagnosisInv, NEW r \in Runs, runs[r] # NoWork, RunTurn(r),
         \A i \in 2..Len(runs[r].batch) : status'[runs[r].batch[i]] = "pending"
  PROVE  /\ RunsArePending' /\ \A q \in Runs : runs'[q] # NoWork => lock' = q
         /\ lock' \in Runs \cup {NoRun}
  <1>1. Ready(runs[r].batch)
    BY RunWorks
  <1>2. /\ \A q \in Runs \ {r} : runs'[q] = NoWork
        /\ \/ runs'[r] = NoWork /\ lock' = NoRun
           \/ /\ lock' = r /\ runs'[r].pc = "ask" /\ runs'[r].tried = 0
              /\ Len(runs[r].batch) # 1 /\ runs'[r].batch = Tail(runs[r].batch)
    BY RunTurns
  <1>3. CASE Len(runs[r].batch) # 1 /\ runs'[r].batch = Tail(runs[r].batch)
             /\ lock' = r /\ runs'[r].pc = "ask" /\ runs'[r].tried = 0
    <2>1. Ready(Tail(runs[r].batch))
          /\ \A i \in 1..Len(Tail(runs[r].batch)) :
               /\ Tail(runs[r].batch)[i] = runs[r].batch[i + 1]
               /\ i + 1 \in 2..Len(runs[r].batch)
      BY <1>1, <1>3, ReadyTurns
    <2>2. 0 < Attempts /\ 0 <= Attempts
      BY DiagnosisConstants
    <2>3. \A i \in 1..Len(runs'[r].batch) : status'[runs'[r].batch[i]] = "pending"
      BY <1>3, <2>1
    <2> QED BY <1>2, <1>3, <2>1, <2>2, <2>3 DEF RunsArePending
  <1> QED BY <1>2, <1>3 DEF RunsArePending

LEMMA PostedStep ==
  ASSUME DiagnosisInv, NEW r \in Runs, Posted(r) PROVE DiagnosisInv'
  <1> USE DEF DiagnosisInv
  <1>1. PICK e : e = Head(runs[r].batch)
    OBVIOUS
  <1>2. PICK s \in {"done", "failed"} :
          /\ runs[r].pc = s /\ RunTurn(r)
          /\ status' = [status EXCEPT ![e] = s]
          /\ stored' = [stored EXCEPT ![e] = IF s = "done" THEN calls[e] ELSE 0]
          /\ cards' = IF s = "done" THEN cards \cup {<<e, calls[e]>>} ELSE cards
          /\ UNCHANGED <<driver, job, sentCards, calls, faults>>
    BY <1>1 DEF Posted, SetDiagnosis, process
  <1>3. runs[r] # NoWork
    BY <1>2 DEF NoWork
  <1>4. /\ driver = "host" /\ job = NoTick /\ Ready(runs[r].batch)
        /\ \A i \in 1..Len(runs[r].batch) : status[runs[r].batch[i]] = "pending"
        /\ \A q \in Runs \ {r} : runs[q] = NoWork
    BY <1>3, RunWorks
  <1>5. /\ e \in Events /\ status[e] = "pending" /\ calls[e] \in Nat /\ Limit(faults) \in Nat
        /\ calls[e] <= Limit(faults) + Spent(runs[r])
        /\ Spent(runs[r]) \in Nat /\ Spent(runs[r]) <= Attempts
    BY <1>1, <1>3, RunAskedOf
  <1>6. /\ status'[e] = s /\ (s = "done" => stored'[e] = calls[e])
        /\ \A d \in Events \ {e} : status'[d] = status[d] /\ stored'[d] = stored[d]
    BY <1>2, <1>5 DEF DiagnosisTyped
  <1>7. \A i \in 2..Len(runs[r].batch) :
          runs[r].batch[i] \in Events \ {e} /\ i \in 1..Len(runs[r].batch)
    BY <1>1, <1>4, ReadyTurns
  <1>8. /\ RunsArePending' /\ \A q \in Runs : runs'[q] # NoWork => lock' = q
        /\ lock' \in Runs \cup {NoRun}
    BY <1>2, <1>3, <1>4, <1>6, <1>7, RunRestIsPending
  <1>9. runs' \in [Runs -> [pc : {"idle", "ask", "done", "failed"}, batch : Seq(Events),
                            tried : Nat]]
    BY <1>2, <1>3, RunTurns
  <1>10. DiagnosisTyped'
    <2>1. status' \in [Events -> Statuses]
      BY <1>2 DEF DiagnosisTyped, Statuses
    <2>2. stored' \in [Events -> Nat]
      BY <1>2, <1>5 DEF DiagnosisTyped
    <2>3. cards' \in SUBSET (Events \X Nat)
      BY <1>2, <1>5 DEF DiagnosisTyped
    <2> QED BY <1>2, <1>8, <1>9, <2>1, <2>2, <2>3 DEF DiagnosisTyped
  <1>11. OneDiagnoses' /\ JobIsPending'
    BY <1>2, <1>4, <1>8 DEF OneDiagnoses, JobIsPending, NoTick
  <1>12. CardsAreStored'
    <2>1. ASSUME NEW c \in cards \cup sentCards
          PROVE  status'[c[1]] = "done" /\ stored'[c[1]] = c[2]
      <3>1. c[1] \in Events \ {e} /\ status[c[1]] = "done" /\ stored[c[1]] = c[2]
        BY <1>5 DEF CardsAreStored, DiagnosisTyped
      <3> QED BY <1>6, <3>1
    <2>2. \A c \in cards' \cup sentCards' :
            c \in cards \cup sentCards \/ (s = "done" /\ c = <<e, calls[e]>>)
      BY <1>2
    <2> QED BY <1>6, <2>1, <2>2 DEF CardsAreStored
  <1>13. ASSUME NEW d \in Events PROVE Within(d)'
    <2>1. CASE d = e
      <3>1. calls[e] <= Limit(faults) + Attempts + 1
        <4>1. PICK n \in Nat : n = Spent(runs[r]) /\ n <= Attempts
          BY <1>5
        <4>2. calls[e] <= Limit(faults) + n
          BY <1>5, <4>1
        <4> QED BY <1>5, <4>1, <4>2, DiagnosisConstants
      <3>2. calls'[e] <= Limit(faults') + Attempts + 1 /\ status'[e] \in {"done", "failed"}
        BY <1>2, <1>6, <3>1
      <3> QED BY <2>1, <3>2 DEF Within
    <2>2. CASE d # e
      <3>1. Within(d)
        OBVIOUS
      <3>2. \/ calls[d] <= Limit(faults)
            \/ status[d] \in {"done", "failed"} /\ calls[d] <= Limit(faults) + Attempts + 1
        BY <1>1, <1>4, <2>2, <3>1 DEF Within, NoTick
      <3> QED BY <1>2, <1>6, <2>2, <3>2 DEF Within
    <2> QED BY <2>1, <2>2
  <1> QED BY <1>8, <1>10, <1>11, <1>12, <1>13

LEMMA PostFailsStep ==
  ASSUME DiagnosisInv, NEW r \in Runs, PostFails(r) PROVE DiagnosisInv'
  <1> USE DEF DiagnosisInv
  <1>1. /\ runs[r].pc \in {"done", "failed"} /\ RunTurn(r) /\ faults' = faults + 1
        /\ UNCHANGED <<driver, status, stored, job, cards, sentCards, calls>>
    BY DEF PostFails, process, table
  <1>2. runs[r] # NoWork
    BY <1>1 DEF NoWork
  <1>3. /\ driver = "host" /\ job = NoTick /\ Ready(runs[r].batch)
        /\ \A i \in 1..Len(runs[r].batch) : status[runs[r].batch[i]] = "pending"
    BY <1>2, RunWorks
  <1>4. \A i \in 2..Len(runs[r].batch) : status'[runs[r].batch[i]] = "pending"
    BY <1>1, <1>3, ReadyTurns
  <1>5. /\ RunsArePending' /\ \A q \in Runs : runs'[q] # NoWork => lock' = q
        /\ lock' \in Runs \cup {NoRun}
    BY <1>1, <1>2, <1>4, RunRestIsPending
  <1>6. runs' \in [Runs -> [pc : {"idle", "ask", "done", "failed"}, batch : Seq(Events),
                            tried : Nat]]
    BY <1>1, <1>2, RunTurns
  <1>7. DiagnosisTyped' /\ OneDiagnoses'
    <2>1. faults + 1 \in Nat
      BY DEF DiagnosisTyped
    <2>2. DiagnosisTyped'
      BY <1>1, <1>5, <1>6, <2>1 DEF DiagnosisTyped
    <2>3. OneDiagnoses'
      BY <1>1, <1>3, <1>5 DEF OneDiagnoses
    <2> QED BY <2>2, <2>3
  <1>8. JobIsPending' /\ CardsAreStored'
    BY <1>1, <1>3 DEF JobIsPending, CardsAreStored, NoTick
  <1> QED BY <1>1, <1>5, <1>7, <1>8, WithinAfterFault

LEMMA RunKilledStep ==
  ASSUME DiagnosisInv, NEW r \in Runs, RunKilled(r) PROVE DiagnosisInv'
  <1> USE DEF DiagnosisInv
  <1>1. /\ runs[r] # NoWork /\ runs' = [runs EXCEPT ![r] = NoWork] /\ faults' = faults + 1
        /\ lock' = IF lock = r THEN NoRun ELSE lock
        /\ UNCHANGED <<driver, status, stored, job, cards, sentCards, calls>>
    BY DEF RunKilled, process, table
  <1>2. /\ driver = "host" /\ job = NoTick /\ lock = r
        /\ \A q \in Runs \ {r} : runs[q] = NoWork
    BY <1>1, RunWorks
  <1>3. NoWork \in [pc : {"idle", "ask", "done", "failed"}, batch : Seq(Events), tried : Nat]
    BY EmptySeq DEF NoWork
  <1>4. \A q \in Runs : runs'[q] = NoWork
    BY <1>1, <1>2 DEF DiagnosisTyped
  <1>5. DiagnosisTyped'
    <2>1. runs' \in [Runs -> [pc : {"idle", "ask", "done", "failed"}, batch : Seq(Events), tried : Nat]]
      BY <1>1, <1>3 DEF DiagnosisTyped
    <2>2. lock' \in Runs \cup {NoRun} /\ faults' \in Nat
      BY <1>1 DEF DiagnosisTyped
    <2> QED BY <1>1, <2>1, <2>2 DEF DiagnosisTyped
  <1>6. OneDiagnoses' /\ JobIsPending' /\ RunsArePending' /\ CardsAreStored'
    BY <1>1, <1>2, <1>4 DEF OneDiagnoses, JobIsPending, RunsArePending, CardsAreStored, NoTick
  <1> QED BY <1>1, <1>5, <1>6, WithinAfterFault

LEMMA CardSentStep ==
  ASSUME DiagnosisInv, NEW c \in cards, CardSent(c) PROVE DiagnosisInv'
  <1> USE DEF DiagnosisInv
  <1>1. /\ cards' = cards \ {c} /\ sentCards' = sentCards \cup {c}
        /\ UNCHANGED <<driver, status, stored, job, runs, lock, calls, faults>>
    BY DEF CardSent, process, table
  <1>2. DiagnosisTyped' /\ OneDiagnoses'
    BY <1>1 DEF DiagnosisTyped, OneDiagnoses
  <1>3. CardsAreStored'
    <2>1. \A d \in cards' \cup sentCards' : d \in cards \cup sentCards
      BY <1>1
    <2> QED BY <1>1, <2>1 DEF CardsAreStored
  <1>4. JobIsPending' /\ RunsArePending'
    BY <1>1 DEF JobIsPending, RunsArePending
  <1>5. \A e \in Events : Within(e)'
    BY <1>1 DEF Within
  <1> QED BY <1>2, <1>3, <1>4, <1>5

LEMMA RestartedStep ==
  ASSUME DiagnosisInv, Restarted PROVE DiagnosisInv'
  <1> USE DEF DiagnosisInv
  <1>1. /\ faults' = faults + 1 /\ job' = NoTick /\ cards' = {}
        /\ UNCHANGED <<driver, status, stored, runs, lock, sentCards, calls>>
    BY DEF Restarted, table
  <1>2. DiagnosisTyped'
    BY <1>1, EmptySeq DEF DiagnosisTyped, NoTick
  <1>3. OneDiagnoses' /\ JobIsPending' /\ RunsArePending' /\ CardsAreStored'
    BY <1>1 DEF OneDiagnoses, JobIsPending, RunsArePending, CardsAreStored, NoTick
  <1> QED BY <1>1, <1>2, <1>3, WithinAfterFault

(* What only touches the file of the model, and where the job looks at it.  *)
LEMMA LookingSteps ==
  ASSUME DiagnosisInv, Edited \/ Tick \/ Looks \/ ActiveKnown PROVE DiagnosisInv'
  <1> USE DEF DiagnosisInv
  <1>t. <<>> \in Seq(Events) /\ job.batch \in Seq(Events) /\ job.tried \in Nat /\ job.spare \in BOOLEAN
    BY EmptySeq DEF DiagnosisTyped
  <1>1. CASE Edited
    <2>1. UNCHANGED <<driver, status, stored, job, runs, lock, cards, sentCards, calls, faults>>
      BY <1>1 DEF Edited, process, table, host
    <2>2. DiagnosisTyped' /\ OneDiagnoses' /\ JobIsPending' /\ RunsArePending' /\ CardsAreStored'
      BY <2>1 DEF DiagnosisTyped, OneDiagnoses, JobIsPending, RunsArePending, CardsAreStored
    <2>3. \A e \in Events : Within(e)'
      BY <2>1 DEF Within
    <2> QED BY <2>2, <2>3
  <1>2. CASE Tick
    <2>1. /\ job' = [NoTick EXCEPT !.pc = "current"] /\ driver = "container" /\ job.pc = "idle"
          /\ UNCHANGED <<driver, status, stored, runs, lock, cards, sentCards, calls, faults>>
      BY <1>2 DEF Tick, process, table, host
    <2>2. job' = [pc |-> "current", batch |-> <<>>, tried |-> 0, spare |-> FALSE]
      BY <2>1 DEF NoTick
    <2>3. job' \in [pc : {"idle", "current", "currentRead", "fallback", "fallbackRead"},
                    batch : Seq(Events), tried : Nat, spare : BOOLEAN]
      BY <1>t, <2>2
    <2>4. job.pc \notin {"ask", "tell"} /\ driver # "host"
      BY <2>1
    <2> QED BY <2>1, <2>3, <2>4, JobLooks
  <1>3. CASE Looks
    <2>1. /\ job.pc \in {"current", "fallback"}
          /\ job' = [job EXCEPT !.pc = IF job.pc = "current" THEN "currentRead" ELSE "fallbackRead"]
          /\ UNCHANGED <<driver, status, stored, runs, lock, cards, sentCards, calls, faults>>
      BY <1>3 DEF Looks, process, table, host
    <2>2. job' \in [pc : {"idle", "current", "currentRead", "fallback", "fallbackRead"},
                    batch : Seq(Events), tried : Nat, spare : BOOLEAN]
      BY <2>1 DEF DiagnosisTyped
    <2>3. driver = "container"
      BY <2>1, JobWorks
    <2> QED BY <2>1, <2>2, <2>3, JobLooks
  <1>4. CASE ActiveKnown
    <2>1. /\ job.pc \in {"current", "currentRead"}
          /\ job' = NoTick \/ job' = [job EXCEPT !.pc = "fallback"]
          /\ UNCHANGED <<driver, status, stored, runs, lock, cards, sentCards, calls, faults>>
      BY <1>4 DEF ActiveKnown, Reloaded, process, table, host
    <2>2. job' \in [pc : {"idle", "current", "currentRead", "fallback", "fallbackRead"},
                    batch : Seq(Events), tried : Nat, spare : BOOLEAN]
      <3>1. NoTick \in [pc : {"idle", "current", "currentRead", "fallback", "fallbackRead"},
                        batch : Seq(Events), tried : Nat, spare : BOOLEAN]
        BY <1>t DEF NoTick
      <3>2. [job EXCEPT !.pc = "fallback"]
              \in [pc : {"idle", "current", "currentRead", "fallback", "fallbackRead"},
                   batch : Seq(Events), tried : Nat, spare : BOOLEAN]
        BY DEF DiagnosisTyped
      <3> QED BY <2>1, <3>1, <3>2
    <2>3. driver = "container"
      BY <2>1, JobWorks
    <2> QED BY <2>1, <2>2, <2>3, JobLooks
  <1> QED BY <1>1, <1>2, <1>3, <1>4

LEMMA DiagnosisStep ==
  ASSUME DiagnosisInv, [DiagnosisNext]_diagnosisVars PROVE DiagnosisInv'
  <1>1. CASE UNCHANGED diagnosisVars
    <2>1. UNCHANGED <<driver, status, stored, job, runs, lock, cards, sentCards, calls, faults>>
      BY <1>1 DEF diagnosisVars
    <2>2. DiagnosisTyped' /\ OneDiagnoses' /\ JobIsPending' /\ RunsArePending' /\ CardsAreStored'
      BY <2>1 DEF DiagnosisInv, DiagnosisTyped, OneDiagnoses, JobIsPending, RunsArePending,
                  CardsAreStored
    <2>3. \A e \in Events : Within(e)'
      BY <2>1 DEF DiagnosisInv, Within
    <2> QED BY <2>2, <2>3 DEF DiagnosisInv
  <1>2. CASE Raised \/ Edited \/ Tick \/ JobStep \/ Restarted
    BY <1>2, RaisedStep, LookingSteps, SelectsStep, DiagnosedStep, UndecidedStep, GivesUpStep,
       ToldStep, RestartedStep DEF JobStep
  <1>3. ASSUME NEW r \in Runs, RunStarts(r) \/ RunStep(r) \/ PostFails(r) \/ RunKilled(r)
        PROVE  DiagnosisInv'
    BY <1>3, RunStartsStep, RunAsksStep, PostedStep, PostFailsStep, RunKilledStep DEF RunStep
  <1>4. ASSUME NEW c \in cards, CardSent(c) PROVE DiagnosisInv'
    BY <1>4, CardSentStep
  <1> QED BY <1>1, <1>2, <1>3, <1>4 DEF DiagnosisNext

(* The invariant gives the two properties the run checks.                   *)
LEMMA DiagnosesAreKnown == DiagnosisInv => CardIsStored /\ CallsAreBounded
  <1> SUFFICES ASSUME DiagnosisInv PROVE CardIsStored /\ CallsAreBounded
    OBVIOUS
  <1>1. CardIsStored
    BY DEF DiagnosisInv, CardsAreStored, CardIsStored
  <1>2. ASSUME NEW e \in Events PROVE calls[e] <= (Attempts + 1) * (1 + faults)
    <2>1. calls[e] <= Limit(faults + 1)
      BY FaultCovers
    <2>2. faults \in Nat
      BY DEF DiagnosisInv, DiagnosisTyped
    <2>3. faults + 1 = 1 + faults
      BY <2>2
    <2> QED BY <2>1, <2>3 DEF Limit
  <1> QED BY <1>1, <1>2 DEF CallsAreBounded

(* diag_tick (app.py) and the orchestrator (diag_orchestrator.py), over     *)
(* kills, restarts and lost posts: the invariant, for any number of events, *)
(* runs and attempts.                                                       *)
THEOREM DiagnosisInvHolds ==
  DiagnosisInit /\ [][DiagnosisNext]_diagnosisVars => []DiagnosisInv
  BY DiagnosisStarts, DiagnosisStep, PTL
=============================================================================
