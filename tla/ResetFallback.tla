--------------------------- MODULE ResetFallback ---------------------------
(***************************************************************************)
(* The source of last resort of the reset monitor, a page of HTML that is  *)
(* asked only when the others do not suffice or report a reset, and not    *)
(* more often than once an interval: the first half of tick and            *)
(* _fetch_sources of sentinel/codex_reset/engine.py over                   *)
(* codex_reset_source_health of codex_reset/store.py.                      *)
(*                                                                         *)
(* Ages are told from now.  A tick reads the clock once, at its start, and *)
(* may outlive its lease, so that another process ticks beside it.         *)
(***************************************************************************)
EXTENDS Integers

CONSTANTS
  Rounds,       \* the processes
  HtmlInterval, \* sentinel_codex_reset_html_poll_seconds
  RoundLease,   \* sentinel_codex_reset_lease_seconds
  RoundTime     \* bound: how long a tick takes

ASSUME FallbackAssumption ==
  /\ {RoundLease, RoundTime} \subseteq Nat \ {0} /\ HtmlInterval \in Nat /\ RoundTime < HtmlInterval

Never == -1

VARIABLES
  round,     \* the ticks of the processes
  attempted, \* last_attempt_ts of reset_html, as an age
  asked,     \* history: when the page was last asked for, as an age
  unrecorded \* history: an attempt was killed, and none recorded since

fallbackVars == <<round, attempted, asked, unrecorded>>

NoRound == [at |-> "idle", age |-> 0, fetched |-> 0, landed |-> FALSE]

FallbackTypeOK ==
  /\ round \in [Rounds -> [at : {"idle", "fetching", "thinking", "asking", "filing"},
                           age : 0..RoundTime, fetched : 0..2, landed : BOOLEAN]]
  /\ {attempted, asked} \subseteq Never..HtmlInterval + RoundTime
  /\ unrecorded \in BOOLEAN

FallbackInit ==
  /\ round = [p \in Rounds |-> NoRound]
  /\ attempted = Never /\ asked = Never /\ unrecorded = FALSE

Does(p, pc) == round[p].at = pc
GoesOn(p, pc) == round' = [round EXCEPT ![p].at = pc]

RoundStarts(p) ==
  /\ Does(p, "idle")
  /\ \A q \in Rounds \ {p} : Does(q, "idle") \/ round[q].age >= RoundLease
  /\ round' = [round EXCEPT ![p] = [NoRound EXCEPT !.at = "fetching"]]
  /\ UNCHANGED <<attempted, asked, unrecorded>>

(* Of the other sources none, one or more answered; a recent reset may be   *)
(* among what they and the model, asked next, said.                         *)
OthersAnswered(p) ==
  /\ Does(p, "fetching")
  /\ \E n \in 0..2, b \in BOOLEAN :
       /\ b => n > 0
       /\ round' = [round EXCEPT ![p].at = "thinking", ![p].fetched = n, ![p].landed = b]
  /\ UNCHANGED <<attempted, asked, unrecorded>>

(* source_due compares the row with the time the tick began.                *)
SourceDue(p) == attempted = Never \/ attempted - round[p].age >= HtmlInterval
Needed(p) == round[p].fetched < 2 \/ round[p].landed

AsksPage(p) ==
  /\ Does(p, "thinking") /\ Needed(p) /\ SourceDue(p)
  /\ GoesOn(p, "asking") /\ asked' = 0 /\ UNCHANGED <<attempted, unrecorded>>

DoesNotAsk(p) ==
  /\ Does(p, "thinking") /\ ~(Needed(p) /\ SourceDue(p))
  /\ GoesOn(p, "filing") /\ UNCHANGED <<attempted, asked, unrecorded>>

RecordSuccess(p) == attempted' = round[p].age
(* Mutant: a failure leaves last_attempt_ts as it is.                       *)
RecordFailureOnly(p) == attempted' = attempted
RecordFailure(p) == attempted' = round[p].age

(* The page came, or it did not in four attempts.                           *)
PageCame(p) ==
  /\ Does(p, "asking") /\ RecordSuccess(p) /\ GoesOn(p, "filing") /\ unrecorded' = FALSE
  /\ UNCHANGED asked
PageFailed(p) ==
  /\ Does(p, "asking") /\ RecordFailure(p) /\ GoesOn(p, "filing") /\ unrecorded' = FALSE
  /\ UNCHANGED asked

(* Ends, or is killed.                                                      *)
RoundEnds(p) ==
  /\ ~Does(p, "idle") /\ round' = [round EXCEPT ![p] = NoRound]
  /\ unrecorded' = (unrecorded \/ Does(p, "asking"))
  /\ UNCHANGED <<attempted, asked>>

Older(age) == IF age \in {Never, HtmlInterval + RoundTime} THEN age ELSE age + 1

MinutePasses ==
  /\ \A p \in Rounds : ~Does(p, "idle") => round[p].age < RoundTime
  /\ round' = [p \in Rounds |-> IF Does(p, "idle") THEN NoRound ELSE [round[p] EXCEPT !.age = @ + 1]]
  /\ attempted' = Older(attempted) /\ asked' = Older(asked) /\ UNCHANGED unrecorded

FallbackNext ==
  \/ \E p \in Rounds :
       \/ RoundStarts(p) \/ OthersAnswered(p) \/ AsksPage(p) \/ DoesNotAsk(p)
       \/ PageCame(p) \/ PageFailed(p) \/ RoundEnds(p)
  \/ MinutePasses

-----------------------------------------------------------------------------
(* "By default at most once an hour" (docs/codex-reset-monitor.md): between *)
(* two requests for the page an interval passes, less the length of a tick, *)
(* whatever fails or restarts; but for a request that was killed, and one   *)
(* under way beside it.                                                     *)
FallbackIsRare ==
  [][\A p \in Rounds :
       Does(p, "thinking") /\ round'[p].at = "asking" =>
         \/ asked = Never \/ asked >= HtmlInterval - RoundTime
         \/ unrecorded \/ \E q \in Rounds \ {p} : Does(q, "asking")
    ]_fallbackVars
=============================================================================
