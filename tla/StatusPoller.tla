---------------------------- MODULE StatusPoller ----------------------------
(***************************************************************************)
(* The vendor status poller: run_cycle of sentinel/poller.py over the      *)
(* snapshots table of sentinel/store.py.                                   *)
(*                                                                         *)
(* One task polls the providers in order.  A card is sent, then the        *)
(* snapshot it is about is stored; a snapshot without news is stored       *)
(* without a card; with the editor in gate mode, so is one whose news is   *)
(* not urgent and that the editor (a language model: any answer) wants     *)
(* suppressed.  Failure counts, sent warnings and the time of the last     *)
(* card live in the process.                                               *)
(***************************************************************************)
EXTENDS Differ, Sequences

CONSTANTS
  Providers,
  Adapters,      \* the providers in the order they are polled
  Pages,         \* for a provider, the snapshots its page may show
  Mode,          \* sentinel_editor_mode
  FailThreshold, \* sentinel_fail_threshold
  MinGap,        \* sentinel_provider_card_min_gap_s, in clock units
  MayCrash       \* whether the process may be killed

ASSUME PollerAssumption ==
  /\ Adapters \in Seq(Providers)
  /\ Pages \in [Providers -> SUBSET Snapshot] /\ \A p \in Providers : Pages[p] # {}
  /\ NoSnapshot \notin Snapshot
  /\ Mode \in {"off", "shadow", "enrich", "gate"}
  /\ FailThreshold \in Nat \ {0} /\ MinGap \in Nat /\ MayCrash \in BOOLEAN

VARIABLES
  page,    \* what the page of a provider shows
  up,      \* providers whose page can be fetched and parsed
  stored,  \* table snapshots
  fails,   \* fail_counts, counted up to FailThreshold
  warned,  \* meta_sent: providers whose failure was reported
  gap,     \* time since the last card of a provider, up to MinGap
  at, pc,  \* the adapter of the cycle, and where the cycle is
  fetched, \* the snapshot of the cycle's adapter
  told,    \* history: the snapshot of the last card, or the first one stored
  muted,   \* history: providers with news suppressed since their last card
  torn     \* history: providers with a card whose snapshot was not stored

process == <<fails, warned, gap, at, pc, fetched>>
history == <<told, muted, torn>>
vars == <<page, up, stored, process, history>>

Steps == {"sleeping", "fetching", "warning", "analyzing", "sending", "storing"}
StoredSnapshot == Snapshot \cup {NoSnapshot}

TypeOK ==
  /\ page \in [Providers -> Snapshot]
  /\ up \subseteq Providers
  /\ stored \in [Providers -> StoredSnapshot]
  /\ fails \in [Providers -> 0..FailThreshold]
  /\ warned \subseteq Providers
  /\ gap \in [Providers -> 0..MinGap]
  /\ at \in 0..Len(Adapters) /\ pc \in Steps
  /\ fetched \in StoredSnapshot
  /\ told \in [Providers -> StoredSnapshot]
  /\ muted \subseteq Providers /\ torn \subseteq Providers

Init ==
  /\ page \in {f \in [Providers -> UNION {Pages[p] : p \in Providers}] :
                 \A p \in Providers : f[p] \in Pages[p]}
  /\ up = Providers
  /\ stored = [p \in Providers |-> NoSnapshot]
  /\ fails = [p \in Providers |-> 0] /\ warned = {}
  /\ gap = [p \in Providers |-> MinGap]
  /\ at = 0 /\ pc = "sleeping" /\ fetched = NoSnapshot
  /\ told = [p \in Providers |-> NoSnapshot]
  /\ muted = {} /\ torn = {}

-----------------------------------------------------------------------------
Current == Adapters[at]
News == Diff(stored[Current], fetched)

(* The next adapter, or the end of the cycle.                              *)
Advance ==
  /\ fetched' = NoSnapshot
  /\ \/ at < Len(Adapters) /\ at' = at + 1 /\ pc' = "fetching"
     \/ at = Len(Adapters) /\ at' = 0 /\ pc' = "sleeping"

Wake ==
  /\ pc = "sleeping" /\ Adapters # <<>>
  /\ at' = 1 /\ pc' = "fetching"
  /\ UNCHANGED <<page, up, stored, fails, warned, gap, fetched, history>>

Count(n) == IF n < FailThreshold THEN n + 1 ELSE n

(* Mutants: the warning is only tried when the threshold is reached; a     *)
(* failed fetch ends the cycle.                                            *)
FetchFailsWarnsOnce ==
  /\ pc = "fetching" /\ Current \notin up
  /\ fails' = [fails EXCEPT ![Current] = Count(@)]
  /\ \/ /\ fails[Current] = FailThreshold - 1
        /\ pc' = "warning" /\ UNCHANGED <<at, fetched>>
     \/ fails[Current] # FailThreshold - 1 /\ Advance
  /\ UNCHANGED <<page, up, stored, warned, gap, history>>

FetchFailsEndsCycle ==
  /\ pc = "fetching" /\ Current \notin up
  /\ fails' = [fails EXCEPT ![Current] = Count(@)]
  /\ at' = 0 /\ pc' = "sleeping" /\ UNCHANGED fetched
  /\ UNCHANGED <<page, up, stored, warned, gap, history>>

FetchFails ==
  /\ pc = "fetching" /\ Current \notin up
  /\ fails' = [fails EXCEPT ![Current] = Count(@)]
  /\ \/ /\ fails'[Current] = FailThreshold /\ Current \notin warned
        /\ pc' = "warning" /\ UNCHANGED <<at, fetched>>
     \/ /\ fails'[Current] < FailThreshold \/ Current \in warned
        /\ Advance
  /\ UNCHANGED <<page, up, stored, warned, gap, history>>

WarningDelivered ==
  /\ pc = "warning"
  /\ warned' = warned \cup {Current}
  /\ Advance
  /\ UNCHANGED <<page, up, stored, fails, gap, history>>

WarningLost ==
  /\ pc = "warning"
  /\ Advance
  /\ UNCHANGED <<page, up, stored, fails, warned, gap, history>>

Fetched ==
  /\ pc = "fetching" /\ Current \in up
  /\ fails' = [fails EXCEPT ![Current] = 0]
  /\ warned' = warned \ {Current}
  /\ UNCHANGED <<page, up, stored, gap, history>>

Held(events) == gap[Current] < MinGap /\ ~IsUrgent(events)

Hold ==
  LET news == Diff(stored[Current], page[Current]) IN
  /\ Fetched
  /\ news # {} /\ Held(news)
  /\ Advance

Take ==
  LET news == Diff(stored[Current], page[Current]) IN
  /\ Fetched
  /\ ~(news # {} /\ Held(news))
  /\ fetched' = page[Current]
  /\ pc' = IF news = {} THEN "storing" ELSE IF Mode = "off" THEN "sending" ELSE "analyzing"
  /\ UNCHANGED at

(* The editor says notify, fails, or is not asked to decide.               *)
Answer ==
  /\ pc = "analyzing"
  /\ pc' = "sending"
  /\ UNCHANGED <<page, up, stored, fails, warned, gap, at, fetched, history>>

Suppress ==
  /\ pc = "analyzing" /\ Mode = "gate" /\ ~IsUrgent(News)
  /\ pc' = "storing"
  /\ muted' = muted \cup {Current}
  /\ UNCHANGED <<page, up, stored, fails, warned, gap, at, fetched, told, torn>>

CardDelivered ==
  /\ pc = "sending"
  /\ gap' = [gap EXCEPT ![Current] = 0]
  /\ told' = [told EXCEPT ![Current] = fetched]
  /\ muted' = muted \ {Current} /\ torn' = torn \ {Current}
  /\ pc' = "storing"
  /\ UNCHANGED <<page, up, stored, fails, warned, at, fetched>>

(* Mutant: stored whatever the broadcast returned.                         *)
CardLostCommits ==
  /\ pc = "sending" /\ pc' = "storing"
  /\ UNCHANGED <<page, up, stored, fails, warned, gap, at, fetched, history>>

CardLost ==
  /\ pc = "sending"
  /\ Advance
  /\ UNCHANGED <<page, up, stored, fails, warned, gap, history>>

(* put: the first snapshot of a provider is the one its readers start from. *)
Put ==
  /\ pc = "storing"
  /\ stored' = [stored EXCEPT ![Current] = fetched]
  /\ told' = [told EXCEPT ![Current] = IF @ = NoSnapshot THEN fetched ELSE @]
  /\ Advance
  /\ UNCHANGED <<page, up, fails, warned, gap, muted, torn>>

(* A crash or a failing store between the card and its snapshot.           *)
Torn == IF pc = "storing" /\ told[Current] = fetched /\ News # {} THEN {Current} ELSE {}

(* The store raises: the exception ends the cycle for all providers.       *)
Raise ==
  /\ pc = "storing"
  /\ torn' = torn \cup Torn
  /\ at' = 0 /\ pc' = "sleeping" /\ fetched' = NoSnapshot
  /\ UNCHANGED <<page, up, stored, fails, warned, gap, told, muted>>

Crash ==
  /\ MayCrash
  /\ torn' = torn \cup Torn
  /\ fails' = [p \in Providers |-> 0] /\ warned' = {}
  /\ gap' = [p \in Providers |-> MinGap]
  /\ at' = 0 /\ pc' = "sleeping" /\ fetched' = NoSnapshot
  /\ UNCHANGED <<page, up, stored, told, muted>>

-----------------------------------------------------------------------------
Tick ==
  /\ \E p \in Providers : gap[p] < MinGap
  /\ gap' = [p \in Providers |-> IF gap[p] < MinGap THEN gap[p] + 1 ELSE gap[p]]
  /\ UNCHANGED <<page, up, stored, fails, warned, at, pc, fetched, history>>

Vendor ==
  /\ \E p \in Providers :
       \/ \E s \in Pages[p] \ {page[p]} : page' = [page EXCEPT ![p] = s] /\ up' = up
       \/ up' = (up \ {p}) \cup ({p} \ up) /\ page' = page
  /\ UNCHANGED <<stored, process, history>>

Poll ==
  \/ Wake \/ FetchFails \/ WarningDelivered \/ WarningLost \/ Hold \/ Take \/ Answer
  \/ Suppress \/ CardDelivered \/ CardLost \/ Put \/ Raise

Next == Poll \/ Crash \/ Tick \/ Vendor

Spec == Init /\ [][Next]_vars

(* The loop never stops and time passes; a broadcast or a commit tried     *)
(* again and again for a provider succeeds in the end.                     *)
Fairness ==
  /\ WF_vars(Poll) /\ WF_vars(Tick)
  /\ \A p \in Providers :
       /\ SF_vars(at # 0 /\ Current = p /\ WarningDelivered)
       /\ SF_vars(at # 0 /\ Current = p /\ CardDelivered)
       /\ SF_vars(at # 0 /\ Current = p /\ Put)

FairSpec == Spec /\ Fairness

-----------------------------------------------------------------------------
(* Properties.                                                             *)

(* What the store holds is what the readers were told, up to changes that  *)
(* are no news and, with the gate, news that is not urgent: held cards,    *)
(* lost cards and pages that change back and forth leave no gap, because   *)
(* each card is about the difference to the stored snapshot.  A card whose *)
(* snapshot could not be stored leaves a gap until the next card.          *)
ToldIsCurrent ==
  \A p \in Providers \ torn :
    told[p] = NoSnapshot
    \/ (at # 0 /\ Current = p /\ pc = "storing")
    \/ LET missed == Diff(told[p], stored[p]) IN
       ~IsUrgent(missed) /\ (missed # {} => p \in muted)

(* "An LLM never gets to suppress a major or critical incident" (README):  *)
(* a snapshot stored without a card lists no such incident that was not    *)
(* in the stored one.                                                      *)
MajorIsNeverSuppressed ==
  pc = "storing" /\ Current \in muted =>
    \A k \in DOMAIN fetched.incidents :
      IsUrgentImpact(fetched.incidents[k].impact) =>
        stored[Current] # NoSnapshot /\ k \in DOMAIN stored[Current].incidents

(* A page that stays as it is, and can be fetched, is the stored one in    *)
(* the end: held and lost cards, and other providers that fail, do not     *)
(* keep it from its readers for ever.                                      *)
PageIsTold ==
  \A p \in Providers : \A s \in Pages[p] :
    <>[](page[p] = s /\ p \in up) => <>[](stored[p] = s)

(* A page that cannot be fetched any more is reported in the end.          *)
FailureIsTold == \A p \in Providers : <>[](p \notin up) => <>[](p \in warned)
=============================================================================
