--------------------------- MODULE MCResetMonitor ---------------------------
(* A post that announces a reset, two sites that repeat one post about its *)
(* arrival, and the window of the reference account.  The sources asked    *)
(* first answer together or not at all.                                    *)
EXTENDS ResetMonitor, ResetPosts, TLC

CONSTANTS a, b  \* the processes

Processes == {a, b}

Entry(id, address, at) ==
  [id |-> id, self |-> id, own |-> id, address |-> address, official |-> FALSE, at |-> at,
   says |-> {"direct", "reset"}, kind |-> "none"]

(* The account is read twice.                                               *)
Readings(r, t) == AccountReading(AccountReading({}, r, t).candidate, r, t).items

(* The announcement is of an official account and ends at 1.                *)
Announcement ==
  [group |-> "reset", state |-> "announced", preview |-> TRUE, archived |-> FALSE,
   verified |-> FALSE, live |-> FALSE, start |-> NoTime, end |-> 1]
  @@ [Entry("x:1", "x:1", 1) EXCEPT !.official = TRUE]
Tweet == [tease |-> FALSE, verified |-> TRUE, context |-> NoUrl] @@ Entry("x:2", "x:2", 2)
Card == [confirmed |-> TRUE] @@ Entry("x:2", "x:2", 2)
Window == Entry("ref:1", NoUrl, 2)

First(S) == {[i EXCEPT !.source = "first"] : i \in S}
AllItems ==
  HtmlItem(Card) \cup First(TimelineItem("reset_timeline", Announcement) \cup FeedItem({}, Tweet)
                              \cup Readings(Window, 2))
AllCanon == {"x:1", "x:2", "ref:1"}
=============================================================================
