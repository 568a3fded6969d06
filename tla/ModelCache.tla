----------------------------- MODULE ModelCache -----------------------------
(***************************************************************************)
(* What the reset monitor asks a model, and the two tables that keep the   *)
(* answers: _semantic_evidence and _translated_event of                    *)
(* sentinel/codex_reset/engine.py over codex_reset_semantic_cache and      *)
(* codex_reset_translation_cache of codex_reset/store.py.  A tick first    *)
(* has a post classified, the text of which it fetched at its start, then  *)
(* the summary of an event translated, as it is when a message is due.     *)
(*                                                                         *)
(* A text stands for itself, its hash and the answer about it; ages and    *)
(* waits are told from now.  Two processes share the store; a tick that    *)
(* outlives its lease goes on beside the tick of the other.                *)
(***************************************************************************)
EXTENDS Integers, FiniteSets

CONSTANTS
  Monitors,    \* the processes
  MaxText,     \* bound: the texts of a subject, one after the other
  Plain,       \* texts of a subject no model is asked about
  AskBase, AskMax, \* retry_base_seconds, retry_max_seconds
  MaxAttempts, \* bound: failures counted, the wait grows no more
  CacheLease,  \* lease_seconds
  MaxLate      \* bound: how long a tick takes

ASSUME CacheAssumption ==
  /\ {MaxText, AskBase, AskMax, MaxAttempts, CacheLease, MaxLate} \subseteq Nat \ {0}
  /\ Plain \subseteq {"post", "summary"} \X (1..MaxText)
  /\ AskBase * 2^(MaxAttempts - 1) >= AskMax

Subjects == {"post", "summary"}
Texts == 1..MaxText
NoText == 0

VARIABLES
  text,   \* the text of a subject, at its source
  cache,  \* the rows of the two tables
  ticks,  \* the ticks of the processes
  settled \* history: texts an answer of which was stored, no other tick being at
          \* work on the subject then or since

cacheVars == <<text, cache, ticks, settled>>

NoAnswer == [text |-> NoText, answer |-> NoText, failures |-> 0, wait |-> -MaxLate]
AtRest == [at |-> "idle", age |-> 0, text |-> NoText, answer |-> NoText, crossed |-> FALSE]

CacheTypeOK ==
  /\ text \in [Subjects -> Texts]
  /\ cache \in [Subjects -> [text : {NoText} \cup Texts, answer : {NoText} \cup Texts,
                             failures : 0..MaxAttempts, wait : -MaxLate..AskMax]]
  /\ ticks \in [Monitors -> [at : {"idle", "classify", "classifying", "translate",
                                   "translating", "sent"},
                             age : 0..MaxLate, text : {NoText} \cup Texts,
                             answer : {NoText} \cup Texts, crossed : BOOLEAN]]
  /\ settled \in [Subjects -> SUBSET Texts]

CacheInit ==
  /\ text = [k \in Subjects |-> 1] /\ cache = [k \in Subjects |-> NoAnswer]
  /\ ticks = [p \in Monitors |-> AtRest]
  /\ settled = [k \in Subjects |-> {}]

-----------------------------------------------------------------------------
(* The rows.                                                                *)

HasAnswer(row, x) == row.text = x /\ row.answer # NoText

(* next_attempt_ts is compared with the time the tick began.                *)
Due(row, x, age) == row.text # x \/ (row.answer = NoText /\ row.wait + age <= 0)

(* Mutant: the row of a text that was answered keeps no answer.             *)
AnswerUnkept(x) == [text |-> x, answer |-> NoText, failures |-> 0, wait |-> -MaxLate]
Answer(x) == [text |-> x, answer |-> x, failures |-> 0, wait |-> -MaxLate]

Smaller(m, n) == IF m < n THEN m ELSE n
Failures(row, x) == Smaller((IF row.text = x THEN row.failures ELSE 0) + 1, MaxAttempts)
Delay(n) == Smaller(AskMax, AskBase * 2^(n - 1))

(* Mutant: the columns of the answer are left as they are.                  *)
PostponedOnly(row, x, age) ==
  LET n == Failures(row, x)
  IN [text |-> x, answer |-> row.answer, failures |-> n, wait |-> Delay(n) - age]
Postponed(row, x, age) ==
  LET n == Failures(row, x)
  IN [text |-> x, answer |-> NoText, failures |-> n, wait |-> Delay(n) - age]

-----------------------------------------------------------------------------
(* The tick.                                                                *)

Starts(p) ==
  /\ ticks[p].at = "idle"
  /\ \A q \in Monitors \ {p} : ticks[q].at = "idle" \/ ticks[q].age >= CacheLease
  /\ ticks' = [ticks EXCEPT ![p] = [AtRest EXCEPT !.at = "classify", !.text = text["post"]]]
  /\ UNCHANGED <<text, cache, settled>>

(* The tick of p goes on with what it knows of a text; the others that are  *)
(* at work on the subject of a row that is written are crossed by it.       *)
Goes(p, at, x, a, crosses) ==
  ticks' = [q \in Monitors |->
    IF q = p THEN [ticks[p] EXCEPT !.at = at, !.text = x, !.answer = a,
                                   !.crossed = @ /\ at = "classifying"]
    ELSE [ticks[q] EXCEPT !.crossed = @ \/ ticks[q].at \in crosses]]

(* What a crossed tick asks or stores is settled no more.                   *)
Unsettles(k, S) == settled' = [settled EXCEPT ![k] = @ \ S]

Consults(p, k, x, ask, on) ==
  LET row == cache[k]
      due == Due(row, x, ticks[p].age)
  IN
  /\ \/ /\ <<k, x>> \in Plain /\ Goes(p, on, x, NoText, {}) /\ UNCHANGED settled
     \/ /\ <<k, x>> \notin Plain /\ HasAnswer(row, x)
        /\ Goes(p, on, x, row.answer, {}) /\ UNCHANGED settled
     \/ /\ <<k, x>> \notin Plain /\ ~HasAnswer(row, x) /\ ~due
        /\ Goes(p, on, x, NoText, {}) /\ UNCHANGED settled
     \/ /\ <<k, x>> \notin Plain /\ ~HasAnswer(row, x) /\ due
        /\ Goes(p, ask, x, NoText, {}) /\ Unsettles(k, IF ticks[p].crossed THEN {x} ELSE {})
  /\ UNCHANGED <<text, cache>>

Records(p, k, row) == cache' = [cache EXCEPT ![k] = row] /\ UNCHANGED text

AtWork(k) == IF k = "post" THEN {"classify", "classifying"} ELSE {"translating"}

Succeeds(p, k, on) ==
  LET x == ticks[p].text
  IN /\ Records(p, k, Answer(x)) /\ Goes(p, on, x, x, AtWork(k))
     /\ IF ticks[p].crossed THEN Unsettles(k, {x, cache[k].text})
        ELSE settled' = [settled EXCEPT ![k] = @ \cup {x}]

Fails(p, k, on) ==
  LET x == ticks[p].text
  IN /\ Records(p, k, Postponed(cache[k], x, ticks[p].age))
     /\ Goes(p, on, x, NoText, AtWork(k))
     /\ Unsettles(k, IF ticks[p].crossed THEN {x, cache[k].text} ELSE {})

Classify(p) == ticks[p].at = "classify" /\ Consults(p, "post", ticks[p].text, "classifying", "translate")
Classified(p) == ticks[p].at = "classifying" /\ Succeeds(p, "post", "translate")
NotClassified(p) == ticks[p].at = "classifying" /\ Fails(p, "post", "translate")

Translate(p) ==
  ticks[p].at = "translate" /\ Consults(p, "summary", text["summary"], "translating", "sent")
Translated(p) == ticks[p].at = "translating" /\ Succeeds(p, "summary", "sent")
NotTranslated(p) == ticks[p].at = "translating" /\ Fails(p, "summary", "sent")

(* Ends, or is killed: nothing is told of a call that did not return.       *)
Ends(p) ==
  /\ ticks[p].at # "idle" /\ ticks' = [ticks EXCEPT ![p] = AtRest]
  /\ UNCHANGED <<text, cache, settled>>

(* A post is edited; the evidence of an event gives it another summary.     *)
Rewritten(k) ==
  /\ text[k] < MaxText /\ text' = [text EXCEPT ![k] = @ + 1]
  /\ UNCHANGED <<cache, ticks, settled>>

TimePasses ==
  /\ \A p \in Monitors : ticks[p].at # "idle" => ticks[p].age < MaxLate
  /\ ticks' = [p \in Monitors |->
                 IF ticks[p].at = "idle" THEN AtRest ELSE [ticks[p] EXCEPT !.age = @ + 1]]
  /\ cache' = [k \in Subjects |->
                 [cache[k] EXCEPT !.wait = IF @ > -MaxLate THEN @ - 1 ELSE @]]
  /\ UNCHANGED <<text, settled>>

CacheNext ==
  \/ \E p \in Monitors :
       \/ Starts(p) \/ Ends(p) \/ Classify(p) \/ Classified(p) \/ NotClassified(p)
       \/ Translate(p) \/ Translated(p) \/ NotTranslated(p)
  \/ \E k \in Subjects : Rewritten(k)
  \/ TimePasses

-----------------------------------------------------------------------------
(* What a tick says of a text is the answer about that text: a text may be  *)
(* edited, and the row written by another tick, while a model is asked.     *)
AnswerIsOfText == \A p \in Monitors : ticks[p].answer \in {NoText, ticks[p].text}

Asking(t, k, x) ==
  t.text = x /\ t.at = (IF k = "post" THEN "classifying" ELSE "translating")

(* "The answers are kept by the hash of the text; polling does not consume  *)
(* calls again" (docs/codex-reset-monitor.md): no tick asks about a text    *)
(* with an answer, unless ticks overlapped at work on the subject since.    *)
AskedOnce ==
  [][\A p \in Monitors, k \in Subjects, x \in Texts :
       Asking(ticks'[p], k, x) /\ ~Asking(ticks[p], k, x) => x \notin settled'[k]
    ]_cacheVars
=============================================================================
