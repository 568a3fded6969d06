----------------------------- MODULE ResetPosts -----------------------------
(***************************************************************************)
(* What the parsers of sentinel/codex_reset/sources.py and reference.py    *)
(* make of the entries of a source: at most one item of evidence each, in  *)
(* the form of ResetStore.  An entry without an id, a text or a time that  *)
(* can be read is skipped before.                                          *)
(*                                                                         *)
(* An entry is a record.  Its address is the canonical id of the post it   *)
(* links to, official if that is of an official account; self and own are  *)
(* the ids x:<its id> and, should it link to none, public:<its id>.  What  *)
(* its text says is a set of marks, one for an expression looked for.      *)
(***************************************************************************)
EXTENDS ResetStore

CONSTANTS
  Day,              \* 86400 s
  ReferenceMaxAge   \* sentinel_codex_reset_reference_max_reset_age_seconds

ASSUME PostsAssumption == Day \in Nat /\ ReferenceMaxAge \in Nat

\* _COMPLETED, _RESTORED, _FUTURE_RESET, _DURING_DAY; "will", "not", ...; a word
\* infer_reset_type takes for a reset, or for a banked one; the parser's own.
Marks == {"completed", "restored", "future", "day", "modal", "direct", "banked", "reset"}

IsEntry(e) ==
  /\ e.address \in Canon \cup {NoUrl} /\ {e.self, e.own} \subseteq Canon
  /\ e.official \in BOOLEAN /\ (e.address = NoUrl => ~e.official)
  /\ e.says \subseteq Marks /\ e.at \in Time \ {NoTime}

CanonicalFrom(e) == IF e.address = NoUrl THEN e.own ELSE e.address

InferType(kind, says) ==
  IF kind = "banked" \/ "banked" \in says THEN "banked"
  ELSE IF kind \in {"hard", "direct"} \/ "direct" \in says THEN "direct" ELSE "none"

BankedAnnouncement(e) ==
  InferType(e.kind, e.says) = "banked" /\ e.official /\ "day" \in e.says

Evidence(source, family, e, stage, type) ==
  [key |-> <<source, e.id>>, source |-> source, family |-> family, stage |-> stage,
   type |-> type, hint |-> CanonicalFrom(e), self |-> e.self, url |-> e.address, at |-> e.at,
   start |-> NoTime, end |-> NoTime, official |-> e.official, completed |-> FALSE,
   local |-> FALSE, live |-> FALSE]

During(i, start, end) == [i EXCEPT !.start = start, !.end = end]
Landed(i) == [i EXCEPT !.completed = TRUE]

-----------------------------------------------------------------------------
(* _timeline_evidence: an event of the timeline, or of the feed.            *)
TimelineItem(source, e) ==
  LET type    == InferType(e.kind, e.says)
      credits == e.group = "credits" /\ BankedAnnouncement(e)
      done    == \/ "completed" \in e.says
                 \/ ~e.preview /\ type = "direct" /\ "restored" \in e.says /\ "modal" \notin e.says
      open    == credits /\ e.end = NoTime
      start   == IF open THEN e.at ELSE e.start
      end     == IF open THEN e.at + Day ELSE e.end
      Is(stage) == {[During(Evidence(source, "codexreset", e, stage, type), start, end)
                       EXCEPT !.completed = done, !.live = e.live]}
  IN IF e.address = NoUrl \/ ~(e.group = "reset" \/ credits) THEN {}
     ELSE IF credits THEN Is("announced")
     ELSE IF done /\ (e.official \/ (e.archived /\ type # "none") \/ e.verified) THEN Is("confirmed")
     ELSE IF e.official /\ e.state = "announced" /\ end # NoTime /\ type # "none"
          THEN Is("announced")
     ELSE IF e.official /\ (e.state = "hinted" \/ "future" \in e.says) THEN Is("hint")
     ELSE {}

(* parse_reset_feed: a post of the feed, after its event in the timeline of *)
(* the same answer; a reply goes to the thread of its context, and what the *)
(* feed verified replaces what it forecast.                                 *)
FeedItem(known, t) ==
  LET Says(stage, type) == Evidence("reset_feed", "codexreset", t, stage, type)
      teased == t.tease /\ t.official /\ "reset" \in t.says
      found == IF known # {} THEN known
               ELSE IF teased THEN {Says("hint", "direct")}
               ELSE IF BankedAnnouncement(t)
                    THEN {During(Says("announced", "banked"), t.at, t.at + Day)}
               ELSE {}
      threaded == IF t.context = NoUrl THEN found ELSE {[i EXCEPT !.hint = t.context] : i \in found}
      thread == IF threaded # {} THEN {i.hint : i \in threaded}
                ELSE {IF t.context # NoUrl THEN t.context ELSE CanonicalFrom(t)}
  IN IF ~t.verified \/ t.address = NoUrl THEN threaded
     ELSE {[Landed(Says("confirmed", InferType("hard", t.says))) EXCEPT !.hint = c] : c \in thread}

(* parse_radar_current: the one window the radar shows.                     *)
RadarItem(w) ==
  IF w.open /\ w.official
  THEN {Evidence("radar_current", "codexradar", w, "hint", InferType("none", w.says))} ELSE {}

(* parse_radar_rss: an item is about a window that opens, or one that       *)
(* closed; r.lasts is the duration it names.                                *)
RssItem(r) ==
  LET type == InferType("none", r.says)
      done == "completed" \in r.says \/ r.closes
      timed == r.lasts # NoTime
      Is(stage) ==
        {[During(Evidence("radar_rss", "codexradar", r, stage, type),
                 IF timed THEN r.at ELSE NoTime, IF timed THEN r.at + r.lasts ELSE NoTime)
            EXCEPT !.completed = done]}
  IN IF r.address = NoUrl THEN {}
     ELSE IF done THEN Is("confirmed")
     ELSE IF r.official /\ r.opens /\ timed /\ type # "none" THEN Is("announced")
     ELSE IF r.official /\ (r.opens \/ "future" \in r.says) THEN Is("hint")
     ELSE {}

(* parse_reset_html: an item of the page.                                   *)
HtmlItem(h) ==
  IF h.confirmed /\ "reset" \in h.says
  THEN {Landed(Evidence("reset_html", "codexreset_org", h, "confirmed",
                        InferType("hard", h.says)))}
  ELSE {}

(* evidence_from_rate_limits: the window of the reference account, by its   *)
(* start; one that has not begun, or began long ago, is no evidence.        *)
Observed(source, r, type) ==
  [Landed(Evidence(source, "local_reference", r, "confirmed", type)) EXCEPT !.local = TRUE]

ReferenceItem(r, t) ==
  IF Between(0, t - r.at, ReferenceMaxAge)
  THEN {Observed("reference_account", [r EXCEPT !.address = NoUrl, !.official = FALSE], "none")}
  ELSE {}

(* fetch: what two readings agree on; last is the candidate of the reading  *)
(* before, a set of at most one.                                            *)
AccountReading(last, r, t) ==
  LET found == ReferenceItem(r, t)
      current == {<<i.key, i.at>> : i \in found}
  IN [items |-> IF current = last THEN found ELSE {}, candidate |-> current]

(* _banked_balance_evidence: an increase of the balance, which has the      *)
(* address of the latest announcement but its own id.                       *)
IncreaseItem(r) ==
  {[Observed("reference_account_banked", [r EXCEPT !.official = FALSE], "banked")
      EXCEPT !.hint = r.own]}

(* _semantic_evidence: a post a model has an intent read from; whatever the *)
(* model says, it is no more than a hint.                                   *)
SemanticItem(known, t, answer) ==
  IF known = {} /\ t.official /\ answer.decision # "ignore" /\ answer.sure
  THEN {Evidence("reset_feed_semantic", "codexreset", t, "hint", answer.type)} ELSE {}
=============================================================================
