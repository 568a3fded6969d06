----------------------------- MODULE ResetStore -----------------------------
(***************************************************************************)
(* What the reset monitor decides from its tables: the targets an item of  *)
(* evidence may be filed under (sentinel/codex_reset/store.py), the stage  *)
(* the evidence of an event supports (engine.py, confirmation.py) and the  *)
(* row of the event it makes.                                              *)
(*                                                                         *)
(* An item is a record; its title, summary and text are left out but for   *)
(* what decides something.  Times are numbers from 1; NoTime is NULL.      *)
(* Where a query takes the first of several rows, every row that may come  *)
(* first is in the set of the answers; an empty set is None.               *)
(***************************************************************************)
EXTENDS Integers, FiniteSets

CONSTANTS
  Canon,          \* canonical ids
  NoUrl,          \* the url of an item that has none
  References,     \* the canonical ids 'local-reference:...' and 'local-banked:...'
  WindowSlack,    \* 6 h: find_confirmation_target, find_silent_confirmation_target
  MergeSlack,     \* 10 min: find_confirmation_evidence_target
  HintReach,      \* 42 h: find_prior_hint_target, find_followup_confirmation_target
  BankedReach,    \* 7 days: find_banked_confirmation_target
  Near, Apart,    \* 30 min and 1 h: find_silent_confirmation_target
  NotifyMaxAge    \* sentinel_codex_reset_notify_max_age_hours

ASSUME StoreAssumption ==
  /\ References \subseteq Canon /\ NoUrl \notin Canon
  /\ {WindowSlack, MergeSlack, HintReach, BankedReach, Near, Apart, NotifyMaxAge} \subseteq Nat

NoTime == 0
Time == Nat
Stages == {"hint", "announced", "delayed", "confirmed"}
Types == {"direct", "banked", "none"}

Rank == [none |-> 0, hint |-> 1, announced |-> 2, delayed |-> 3, confirmed |-> 4]

ItemFields == {"key", "source", "family", "stage", "type", "hint", "self", "url", "at",
               "start", "end", "official", "completed", "local", "live"}

IsItem(i) ==
  /\ i = [f \in ItemFields |-> i[f]]
  /\ i.stage \in Stages \ {"delayed"} /\ i.type \in Types
  /\ {i.hint, i.self} \subseteq Canon /\ i.url \in Canon \cup {NoUrl}
  /\ i.at \in Time \ {NoTime} /\ {i.start, i.end} \subseteq Time
  /\ {i.official, i.completed, i.local, i.live} \subseteq BOOLEAN

EventRow == [stage : Stages, type : Types, announced : Time, start : Time, end : Time,
             confirmed : Time]

Distance(s, t) == IF s < t THEN t - s ELSE s - t
Between(lo, t, hi) == lo <= t /\ t <= hi
Coalesce(s, t) == IF s # NoTime THEN s ELSE t

(* The members of S with the least f, and the only member of a set.         *)
Best(S, f(_)) == {x \in S : \A y \in S : f(x) <= f(y)}
TheOnly(S) == IF Cardinality(S) = 1 THEN S ELSE {}
Or(S, T) == IF S # {} THEN S ELSE T

RecentEnough(ts, now) == ts # NoTime /\ Between(0, now - ts, NotifyMaxAge)

-----------------------------------------------------------------------------
(* Queries.  ev maps the key of an item, its source and id, to the item and *)
(* the canonical id it is filed under; evts maps a canonical id to its row. *)

Filed(ev, c) == {ev[k].item : k \in {j \in DOMAIN ev : ev[j].canon = c}}
CanonsOf(ev, P(_)) == {ev[k].canon : k \in {j \in DOMAIN ev : P(ev[j].item)}}
EvidenceTarget(ev, i) == IF i.key \in DOMAIN ev THEN {ev[i.key].canon} ELSE {}

FindConfirmation(evts, t) ==
  LET Open == {c \in DOMAIN evts :
                 LET e == evts[c]
                 IN /\ e.stage \in {"announced", "delayed"} /\ e.end # NoTime
                    /\ e.type # "banked"
                    /\ Coalesce(e.start, Coalesce(e.announced, e.end)) <= t + WindowSlack
                    /\ e.end + WindowSlack >= t}
  IN Best(Open, LAMBDA c : 0 - evts[c].end)

FindConfirmationEvidence(ev, t) ==
  LET Close == {k \in DOMAIN ev : /\ ev[k].item.stage = "confirmed" /\ ~ev[k].item.local
                                  /\ Distance(ev[k].item.at, t) <= MergeSlack}
  IN {ev[k].canon : k \in Best(Close, LAMBDA k : Distance(ev[k].item.at, t))}

FindPriorHint(ev, evts, t) ==
  TheOnly({c \in CanonsOf(ev, LAMBDA i : /\ i.stage \in {"hint", "announced"} /\ i.official
                                         /\ i.type = "direct"
                                         /\ Between(t - HintReach, i.at, t)) :
             c \in DOMAIN evts /\ evts[c].stage \in {"hint", "announced", "delayed"}})

OfficialReset(i) ==
  i.stage = "confirmed" /\ i.completed /\ ~i.local /\ i.official /\ i.type = "direct"

FindFollowup(ev, evts, t) ==
  TheOnly({c \in CanonsOf(ev, LAMBDA i : OfficialReset(i) /\ Between(t, i.at, t + HintReach)) :
             c \in DOMAIN evts /\ evts[c].stage = "confirmed"})

FindBanked(ev, evts, t) ==
  LET Told == {k \in DOMAIN ev :
                 LET i == ev[k].item
                 IN /\ i.stage \in {"hint", "announced"} /\ i.official /\ i.type = "banked"
                    /\ Between(t - BankedReach, i.at, t)
                    /\ ev[k].canon \in DOMAIN evts
                    /\ evts[ev[k].canon].stage \in {"hint", "announced"}}
  IN {ev[k].canon : k \in Best(Told, LAMBDA k : 0 - ev[k].item.at)}

(* The only official reset within six hours, or one much nearer than the    *)
(* others; with no clear answer, none.                                      *)
FindSilent(ev, t) ==
  LET Reset(c) == {k \in DOMAIN ev : /\ ev[k].canon = c /\ OfficialReset(ev[k].item)
                                     /\ Distance(ev[k].item.at, t) <= WindowSlack}
      Found == {c \in CanonsOf(ev, OfficialReset) : Reset(c) # {}}
      Far(c) == CHOOSE d \in {Distance(ev[k].item.at, t) : k \in Reset(c)} :
                  \A k \in Reset(c) : d <= Distance(ev[k].item.at, t)
  IN IF Cardinality(Found) <= 1 THEN Found
     ELSE {c \in Found : Far(c) <= Near /\ \A d \in Found \ {c} : Far(d) - Far(c) >= Apart}

(* _canonical_target.                                                       *)
Targets(ev, evts, i) ==
  LET previous == EvidenceTarget(ev, i)
      forecast ==
        Or(previous,
           Or(IF i.stage = "hint" THEN FindFollowup(ev, evts, i.at) ELSE {}, {i.hint}))
      local ==
        Or(previous \cap DOMAIN evts,
           Or(IF i.type = "banked" THEN FindBanked(ev, evts, i.at)
              ELSE Or(FindSilent(ev, i.at), FindConfirmation(evts, i.at)),
              {i.hint}))
      public ==
        Or(previous,
           IF Filed(ev, i.hint) # {} \/ i.hint \in DOMAIN evts THEN {i.hint}
           ELSE Or(FindPriorHint(ev, evts, i.at),
                   Or(FindConfirmationEvidence(ev, i.at),
                      Or(FindConfirmation(evts, i.at), {i.hint}))))
  IN IF i.stage # "confirmed" THEN forecast ELSE IF i.local THEN local ELSE public

-----------------------------------------------------------------------------
(* confirmation_basis: whether a set of items makes a reset certain.        *)

(* Mutant: two sites are enough, whatever post they cite.                   *)
CertainByCount(S) ==
  LET done   == {i \in S : i.stage = "confirmed" /\ i.completed}
      public == {i \in done : ~i.local /\ i.url # NoUrl}
      officialDone == {i \in public : i.official /\ i.type = "direct"}
      announced == \E i \in S : /\ i.stage = "announced" /\ i.official
                                /\ i.type = "direct" /\ i.end # NoTime
  IN \/ \E i \in done : i.local /\ i.type = "banked"
     \/ \E i \in officialDone : i.live
     \/ (\E i \in done : i.local) /\ (announced \/ officialDone # {})
     \/ \E i, j \in public : i.family # j.family

Certain(S) ==
  LET done   == {i \in S : i.stage = "confirmed" /\ i.completed}
      public == {i \in done : ~i.local /\ i.url # NoUrl}
      officialDone == {i \in public : i.official /\ i.type = "direct"}
      announced == \E i \in S : /\ i.stage = "announced" /\ i.official
                                /\ i.type = "direct" /\ i.end # NoTime
  IN \/ \E i \in done : i.local /\ i.type = "banked"
     \/ \E i \in officialDone : i.live
     \/ (\E i \in done : i.local) /\ (announced \/ officialDone # {})
     \/ \E i, j \in public : i.family # j.family /\ i.url # j.url

(* _classify: the stages, at most one, a set of items supports.             *)
Classify(S) ==
  LET announcements == {i \in S : /\ i.stage = "announced" /\ i.official /\ i.end # NoTime
                                  /\ i.type # "none" /\ i.url # NoUrl}
  IN IF \E i \in S : i.stage = "confirmed" /\ i.local /\ i.type = "banked" THEN {"confirmed"}
     ELSE IF \E i \in announcements : i.type = "banked" THEN {"announced"}
     ELSE IF Certain(S) THEN {"confirmed"}
     ELSE IF announcements # {} THEN {"announced"}
     ELSE IF \E i \in S : i.stage = "hint" /\ i.official /\ i.url # NoUrl THEN {"hint"}
     ELSE {}

(* upsert_event: the row that is written, where old is the row there is and *)
(* seen the one that was read before; with none, it is NoRow.  The stage is *)
(* judged by what was seen.  The latest item of a kind speaks for it; a     *)
(* time once set stays.                                                     *)
LatestOf(S) == {i \in S : \A j \in S : j.at <= i.at}

NoRow == [stage |-> "none", type |-> "none", announced |-> NoTime, start |-> NoTime,
          end |-> NoTime, confirmed |-> NoTime]

RowOf(evts, c) == IF c \in DOMAIN evts THEN evts[c] ELSE NoRow

(* Mutant: to any other stage.                                              *)
CanAdvanceAnywhere(seen, target) == target # seen.stage
CanAdvance(seen, target) == Rank[target] > Rank[seen.stage]

Rows(S, seen, old, target) ==
  LET stage == IF CanAdvance(seen, target) THEN target ELSE seen.stage
      typed == LatestOf({i \in S : i.type # "none"})
      said  == LatestOf({i \in S : i.stage = "announced"})
      landed == LatestOf({i \in S : stage = "confirmed" /\ i.stage = "confirmed"})
  IN {[stage |-> stage, type |-> ty, announced |-> Coalesce(old.announced, a[1]),
       start |-> Coalesce(old.start, a[2]), end |-> Coalesce(old.end, a[3]),
       confirmed |-> Coalesce(old.confirmed, d)] :
        ty \in Or({i.type : i \in typed}, {old.type}),
        a \in Or({<<i.at, i.start, i.end>> : i \in said}, {<<NoTime, NoTime, NoTime>>}),
        d \in Or({i.at : i \in landed}, {NoTime})}

(* The time the age of a stage is counted from.                             *)
RelevantTime(S, row, target) ==
  LET t == IF target = "confirmed" THEN row.confirmed ELSE row.announced
  IN IF t # NoTime THEN t ELSE CHOOSE m \in {i.at : i \in S} : \A i \in S : i.at <= m
=============================================================================
