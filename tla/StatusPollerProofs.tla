------------------------- MODULE StatusPollerProofs -------------------------
(***************************************************************************)
(* Proofs about StatusPoller, for any pages: types; then the invariant     *)
(* that ties the last card to the stored snapshot, by the commits between  *)
(* them; then the adapters of StatusPages, that make the snapshots.        *)
(***************************************************************************)
EXTENDS StatusPoller, StatusPages, TLAPS

-----------------------------------------------------------------------------
(* Types, with what the program counter says of the adapter at hand.       *)

Polling == {"fetching", "warning", "analyzing", "sending", "storing"}
Holding == {"analyzing", "sending", "storing"}

TypeInv ==
  /\ TypeOK
  /\ page \in [Providers -> Snapshot] /\ \A p \in Providers : page[p] \in Pages[p]
  /\ \A p \in Providers : stored[p] \in Pages[p] \cup {NoSnapshot}
  /\ \A p \in Providers : told[p] \in Pages[p] \cup {NoSnapshot}
  /\ pc \in Polling => at # 0
  /\ pc \in Holding => fetched \in Pages[Current]

LEMMA CurrentIsProvider ==
  ASSUME at \in 0..Len(Adapters), at # 0 PROVE Current \in Providers
  BY PollerAssumption DEF Current

LEMMA PagesAreSnapshots ==
  ASSUME NEW p \in Providers, NEW s \in Pages[p]
  PROVE  s \in Snapshot /\ s # NoSnapshot
  BY PollerAssumption

LEMMA TypeInit == Init => TypeInv
  <1> SUFFICES ASSUME Init PROVE TypeInv
    OBVIOUS
  <1>1. /\ page \in [Providers -> UNION {Pages[p] : p \in Providers}]
        /\ \A p \in Providers : page[p] \in Pages[p]
    BY DEF Init
  <1>2. page \in [Providers -> Snapshot]
    BY <1>1, PagesAreSnapshots
  <1>3. at \in 0..Len(Adapters)
    BY PollerAssumption DEF Init
  <1> QED BY <1>1, <1>2, <1>3, PollerAssumption
    DEF Init, TypeInv, TypeOK, StoredSnapshot, Steps, Polling, Holding

(* The end of an adapter's turn.                                           *)
LEMMA AdvanceType ==
  ASSUME at \in 0..Len(Adapters), Advance
  PROVE  /\ at' \in 0..Len(Adapters) /\ pc' \in {"fetching", "sleeping"}
         /\ pc' = "fetching" => at' # 0
         /\ fetched' = NoSnapshot
  <1>1. Len(Adapters) \in Nat
    BY PollerAssumption
  <1> QED BY <1>1 DEF Advance

LEMMA TypeStep == TypeInv /\ [Next]_vars => TypeInv'
  <1> SUFFICES ASSUME TypeInv, [Next]_vars PROVE TypeInv'
    OBVIOUS
  <1> USE DEF TypeInv, TypeOK, StoredSnapshot, Steps, Polling, Holding
  <1>a. FailThreshold \in Nat /\ FailThreshold > 0 /\ MinGap \in Nat
    BY PollerAssumption
  <1>b. at # 0 => Current \in Providers
    BY CurrentIsProvider
  <1>c. \A p \in Providers : Pages[p] \subseteq Snapshot
    BY PollerAssumption
  <1>d. at' = at => Current' = Current
    BY DEF Current
  <1>e. \A n \in 0..FailThreshold : Count(n) \in 0..FailThreshold
    BY <1>a DEF Count
  <1>1. CASE Wake
    <2>1. 1 \in 0..Len(Adapters)
      BY <1>1, PollerAssumption DEF Wake
    <2> QED BY <1>1, <2>1 DEF Wake, history
  <1>2. CASE FetchFails
    <2>1. fails' \in [Providers -> 0..FailThreshold]
      BY <1>2, <1>b, <1>e DEF FetchFails
    <2>2. CASE Advance
      BY <1>2, <2>1, <2>2, AdvanceType DEF FetchFails, history
    <2>3. CASE pc' = "warning" /\ UNCHANGED <<at, fetched>>
      BY <1>2, <2>1, <2>3 DEF FetchFails, history
    <2> QED BY <1>2, <2>2, <2>3 DEF FetchFails
  <1>3. CASE WarningDelivered
    BY <1>3, <1>b, AdvanceType DEF WarningDelivered, history
  <1>4. CASE WarningLost
    BY <1>4, AdvanceType DEF WarningLost, history
  <1>5. CASE Hold
    <2>1. Fetched /\ Advance
      BY <1>5 DEF Hold
    <2> QED BY <2>1, <1>a, <1>b, AdvanceType DEF Fetched, history
  <1>6. CASE Take
    <2>1. Fetched /\ fetched' = page[Current] /\ at' = at
          /\ pc' \in {"storing", "sending", "analyzing"}
      BY <1>6 DEF Take
    <2> QED BY <2>1, <1>a, <1>b, <1>d DEF Fetched, history
  <1>7. CASE Answer
    BY <1>7, <1>d DEF Answer, history
  <1>8. CASE Suppress
    BY <1>8, <1>b, <1>d DEF Suppress
  <1>9. CASE CardDelivered
    BY <1>9, <1>a, <1>b, <1>c, <1>d DEF CardDelivered
  <1>10. CASE CardLost
    BY <1>10, AdvanceType DEF CardLost, history
  <1>11. CASE Put
    BY <1>11, <1>b, <1>c, AdvanceType DEF Put
  <1>t. Torn \subseteq Providers
    BY <1>b DEF Torn
  <1>z. 0 \in 0..Len(Adapters)
    BY PollerAssumption
  <1>12. CASE Raise
    BY <1>12, <1>t, <1>z DEF Raise
  <1>13. CASE Crash
    BY <1>13, <1>a, <1>t, <1>z DEF Crash
  <1>14. CASE Tick
    BY <1>14, <1>a, <1>d DEF Tick, history
  <1>15. CASE Vendor
    BY <1>15, <1>c, <1>d DEF Vendor, process, history
  <1>16. CASE UNCHANGED vars
    BY <1>16, <1>d DEF vars, process, history
  <1> QED BY <1>1, <1>2, <1>3, <1>4, <1>5, <1>6, <1>7, <1>8, <1>9, <1>10, <1>11,
             <1>12, <1>13, <1>14, <1>15, <1>16 DEF Next, Poll

(* Every variable keeps its type.                                          *)
THEOREM PollerTypes == Spec => []TypeOK
  <1>1. TypeInv => TypeOK
    BY DEF TypeInv
  <1> QED BY <1>1, TypeInit, TypeStep, PTL DEF Spec

-----------------------------------------------------------------------------
(* What was told.  Between a card and its commit the readers are ahead of  *)
(* the store; otherwise a chain of commits leads from what they know to    *)
(* what is stored, and each was no news, or news that the gate suppressed  *)
(* and that is not urgent.  The step that a commit needs is NewsIsQuiet.   *)

Ahead(p) == p = Current /\ pc = "storing" /\ told[p] = fetched /\ News # {}

(* No news from s to t for provider p, but for suppressed one; m are the   *)
(* providers with news suppressed.                                         *)
Quiet(p, s, t, m) ==
  ~IsUrgent(Diff(s, t)) /\ (Diff(s, t) # {} => Mode = "gate" /\ p \in m)

Chain(p, s, t, m) ==
  \E n \in Nat : \E f \in [0..n -> Pages[p]] :
    f[0] = s /\ f[n] = t /\ \A i \in 1..n : Quiet(p, f[i - 1], f[i], m)

ToldIsStored ==
  \A p \in Providers \ torn :
    \/ told[p] = NoSnapshot
    \/ Ahead(p)
    \/ stored[p] # NoSnapshot /\ Chain(p, told[p], stored[p], muted)

NewsAtHand == pc \in {"analyzing", "sending"} => News # {}

NewsIsQuiet ==
  pc = "storing" /\ ~Ahead(Current) =>
    ~IsUrgent(News) /\ (News # {} => Mode = "gate" /\ Current \in muted)

ToldInv == ToldIsStored /\ NewsAtHand /\ NewsIsQuiet

LEMMA ChainSame ==
  ASSUME NEW p \in Providers, NEW s \in Pages[p], NEW m PROVE Chain(p, s, s, m)
  <1> DEFINE f == [i \in 0..0 |-> s]
  <1>1. f \in [0..0 -> Pages[p]] /\ f[0] = s /\ \A i \in 1..0 : Quiet(p, f[i - 1], f[i], m)
    OBVIOUS
  <1> HIDE DEF f
  <1> QED BY <1>1 DEF Chain

LEMMA ChainExtends ==
  ASSUME NEW p \in Providers, NEW s, NEW t, NEW u \in Pages[p], NEW m,
         Chain(p, s, t, m), Quiet(p, t, u, m)
  PROVE  Chain(p, s, u, m)
  <1>0. PICK n \in Nat : \E f \in [0..n -> Pages[p]] :
          f[0] = s /\ f[n] = t /\ \A i \in 1..n : Quiet(p, f[i - 1], f[i], m)
    BY DEF Chain
  <1>1. PICK f \in [0..n -> Pages[p]] :
          f[0] = s /\ f[n] = t /\ \A i \in 1..n : Quiet(p, f[i - 1], f[i], m)
    BY <1>0
  <1> DEFINE g == [i \in 0..n + 1 |-> IF i = n + 1 THEN u ELSE f[i]]
  <1>2. g \in [0..n + 1 -> Pages[p]] /\ n + 1 \in Nat
    OBVIOUS
  <1>3. g[0] = s /\ g[n + 1] = u /\ g[n] = t
    BY <1>1
  <1>4. ASSUME NEW i \in 1..n + 1 PROVE Quiet(p, g[i - 1], g[i], m)
    <2>1. CASE i = n + 1
      <3>1. g[i - 1] = t /\ g[i] = u
        BY <1>3, <2>1
      <3> QED BY <3>1
    <2>2. CASE i # n + 1
      <3>1. i \in 1..n /\ g[i - 1] = f[i - 1] /\ g[i] = f[i]
        BY <2>2
      <3> QED BY <1>1, <3>1
    <2> QED BY <2>1, <2>2
  <1> HIDE DEF g
  <1> QED BY <1>2, <1>3, <1>4 DEF Chain

(* A chain holds on as long as what was suppressed is remembered.          *)
LEMMA ChainKept ==
  ASSUME NEW p, NEW s, NEW t, NEW m, NEW l, Chain(p, s, t, m), p \in m => p \in l
  PROVE  Chain(p, s, t, l)
  BY DEF Chain, Quiet

LEMMA NoNewsIsCalm == ~IsUrgent({})
  BY DEF IsUrgent

LEMMA ToldInit == Init => ToldInv
  BY DEF Init, ToldInv, ToldIsStored, NewsAtHand, NewsIsQuiet

(* A step that leaves the store, the history and the turn before it is     *)
(* committed alone.                                                        *)
LEMMA ToldAside ==
  ASSUME ToldIsStored, UNCHANGED <<stored, told>>, torn \subseteq torn',
         \A p \in Providers : p \in muted => p \in muted',
         \A p \in Providers : Ahead(p) => p \in torn' \/ Ahead(p)'
  PROVE  ToldIsStored'
  BY ChainKept DEF ToldIsStored

LEMMA ToldStep == TypeInv /\ ToldInv /\ [Next]_vars => ToldInv'
  <1> SUFFICES ASSUME TypeInv, ToldInv, [Next]_vars PROVE ToldInv'
    OBVIOUS
  <1> USE DEF ToldInv
  <1>b. at # 0 => Current \in Providers
    BY CurrentIsProvider DEF TypeInv, TypeOK
  <1>d. at' = at => Current' = Current
    BY DEF Current
  <1>n. at' = at /\ fetched' = fetched /\ UNCHANGED stored => News' = News
    BY DEF News, Current
  <1>e. Advance => pc' \notin Holding
    BY DEF Advance, Holding
  (* The end of a turn, or of the cycle, with nothing at hand any more.    *)
  <1>r. ASSUME pc' \notin Holding, pc # "storing" \/ torn' = torn \cup Torn,
               UNCHANGED <<stored, told, muted>>, torn \subseteq torn'
        PROVE  ToldInv'
    <2>1. \A p \in Providers : Ahead(p) => p \in torn'
      BY <1>r DEF Ahead, Torn
    <2>2. ToldIsStored'
      BY <1>r, <2>1, ToldAside
    <2> QED BY <1>r, <2>2 DEF NewsAtHand, NewsIsQuiet, Holding
  (* The world and the clock.                                              *)
  <1>w. ASSUME UNCHANGED <<stored, told, muted, torn, at, pc, fetched>> PROVE ToldInv'
    <2>1. News' = News /\ Current' = Current
      BY <1>w, <1>n, <1>d
    <2>2. \A p : Ahead(p)' <=> Ahead(p)
      BY <1>w, <2>1 DEF Ahead
    <2>3. ToldIsStored'
      BY <1>w, <2>2 DEF ToldIsStored
    <2>4. NewsAtHand' /\ NewsIsQuiet'
      BY <1>w, <2>1, <2>2 DEF NewsAtHand, NewsIsQuiet
    <2> QED BY <2>3, <2>4
  <1>1. CASE Wake
    BY <1>1, <1>r DEF Wake, Holding, history
  <1>2. CASE FetchFails
    BY <1>2, <1>e, <1>r DEF FetchFails, Holding, history
  <1>3. CASE WarningDelivered \/ WarningLost
    BY <1>3, <1>e, <1>r DEF WarningDelivered, WarningLost, history
  <1>4. CASE Hold
    BY <1>4, <1>e, <1>r DEF Hold, Fetched, history
  <1>5. CASE CardLost
    BY <1>5, <1>e, <1>r DEF CardLost, history
  <1>6. CASE Raise
    BY <1>6, <1>r DEF Raise, Holding
  <1>7. CASE Crash
    BY <1>7, <1>r DEF Crash, Holding
  <1>8. CASE Tick \/ Vendor \/ UNCHANGED vars
    BY <1>8, <1>w DEF Tick, Vendor, vars, process, history
  <1>9. CASE Take
    <2> DEFINE news == Diff(stored[Current], page[Current])
    <2>1. /\ fetched' = page[Current] /\ at' = at /\ pc = "fetching"
          /\ UNCHANGED <<stored, told, muted, torn>>
          /\ pc' = IF news = {} THEN "storing" ELSE IF Mode = "off" THEN "sending" ELSE "analyzing"
      BY <1>9 DEF Take, Fetched, history
    <2>2. News' = news
      BY <2>1, <1>d DEF News
    <2>3. ToldIsStored'
      <3>1. \A p \in Providers : ~Ahead(p)
        BY <2>1 DEF Ahead
      <3> QED BY <2>1, <3>1, ToldAside
    <2> QED BY <2>1, <2>2, <2>3, NoNewsIsCalm DEF NewsAtHand, NewsIsQuiet
  <1>10. CASE Answer
    <2>1. /\ pc = "analyzing" /\ pc' = "sending" /\ News' = News
          /\ UNCHANGED <<stored, told, muted, torn>>
      BY <1>10, <1>n DEF Answer, history
    <2>2. ToldIsStored'
      <3>1. \A p \in Providers : ~Ahead(p)
        BY <2>1 DEF Ahead
      <3> QED BY <2>1, <3>1, ToldAside
    <2> QED BY <2>1, <2>2 DEF NewsAtHand, NewsIsQuiet
  <1>11. CASE Suppress
    <2>1. /\ pc = "analyzing" /\ pc' = "storing" /\ News' = News /\ Current' = Current
          /\ Mode = "gate" /\ ~IsUrgent(News) /\ muted' = muted \cup {Current}
          /\ UNCHANGED <<stored, told, torn>>
      BY <1>11, <1>n, <1>d DEF Suppress
    <2>2. ToldIsStored'
      <3>1. \A p \in Providers : ~Ahead(p)
        BY <2>1 DEF Ahead
      <3> QED BY <2>1, <3>1, ToldAside
    <2> QED BY <2>1, <2>2 DEF NewsAtHand, NewsIsQuiet
  <1>12. CASE CardDelivered
    <2>1. /\ pc = "sending" /\ pc' = "storing" /\ News' = News /\ Current' = Current
          /\ fetched' = fetched /\ told' = [told EXCEPT ![Current] = fetched]
          /\ muted' = muted \ {Current} /\ torn' = torn \ {Current}
          /\ UNCHANGED stored
      BY <1>12, <1>n, <1>d DEF CardDelivered
    <2>2. Current \in Providers /\ News # {}
      BY <2>1, <1>b DEF NewsAtHand, TypeInv, Polling
    <2>3. Ahead(Current)'
      BY <2>1, <2>2 DEF Ahead, TypeInv, TypeOK
    <2>4. ToldIsStored'
      <3> SUFFICES ASSUME NEW p \in Providers \ torn', p # Current
                   PROVE  \/ told'[p] = NoSnapshot
                          \/ stored'[p] # NoSnapshot /\ Chain(p, told'[p], stored'[p], muted')
        BY <2>1, <2>3 DEF ToldIsStored
      <3>1. told'[p] = told[p] /\ p \notin torn /\ ~Ahead(p)
        BY <2>1 DEF TypeInv, TypeOK, Ahead
      <3> QED BY <2>1, <3>1, ChainKept DEF ToldIsStored
    <2> QED BY <2>1, <2>3, <2>4 DEF NewsAtHand, NewsIsQuiet
  <1>13. CASE Put
    <2> DEFINE c == Current
    <2>1. /\ pc = "storing" /\ pc' \notin Holding
          /\ stored' = [stored EXCEPT ![c] = fetched]
          /\ told' = [told EXCEPT ![c] = IF @ = NoSnapshot THEN fetched ELSE @]
          /\ UNCHANGED <<muted, torn>>
      BY <1>13, <1>e DEF Put
    <2>2. c \in Providers /\ fetched \in Pages[c] /\ fetched # NoSnapshot
      BY <2>1, <1>b, PagesAreSnapshots DEF TypeInv, Polling, Holding
    <2>3. ASSUME c \notin torn PROVE stored'[c] # NoSnapshot /\ Chain(c, told'[c], stored'[c], muted)
      <3>1. stored'[c] = fetched
        BY <2>1, <2>2 DEF TypeInv, TypeOK
      <3>2. CASE told[c] = NoSnapshot \/ Ahead(c)
        <4>1. told'[c] = fetched
          BY <2>1, <2>2, <3>2 DEF Ahead, TypeInv, TypeOK
        <4> QED BY <2>2, <3>1, <4>1, ChainSame
      <3>3. CASE told[c] # NoSnapshot /\ ~Ahead(c)
        <4>1. told'[c] = told[c]
          BY <2>1, <2>2, <3>3 DEF TypeInv, TypeOK
        <4>2. Chain(c, told[c], stored[c], muted)
          BY <2>2, <2>3, <3>3 DEF ToldIsStored
        <4>3. Quiet(c, stored[c], fetched, muted)
          BY <2>1, <3>3 DEF NewsIsQuiet, News, Quiet
        <4> QED BY <2>2, <3>1, <4>1, <4>2, <4>3, ChainExtends
      <3> QED BY <3>2, <3>3
    <2>4. ToldIsStored'
      <3> SUFFICES ASSUME NEW p \in Providers \ torn
                   PROVE  \/ told'[p] = NoSnapshot
                          \/ stored'[p] # NoSnapshot /\ Chain(p, told'[p], stored'[p], muted')
        BY <2>1 DEF ToldIsStored
      <3>1. CASE p = c
        BY <2>1, <2>3, <3>1
      <3>2. CASE p # c
        <4>1. told'[p] = told[p] /\ stored'[p] = stored[p] /\ ~Ahead(p)
          BY <2>1, <3>2 DEF TypeInv, TypeOK, Ahead
        <4> QED BY <2>1, <4>1 DEF ToldIsStored
      <3> QED BY <3>1, <3>2
    <2> QED BY <2>1, <2>4 DEF NewsAtHand, NewsIsQuiet, Holding
  <1> QED BY <1>1, <1>2, <1>3, <1>4, <1>5, <1>6, <1>7, <1>8, <1>9, <1>10, <1>11,
             <1>12, <1>13 DEF Next, Poll

(* Whatever the pages show, components that come and go and impacts that   *)
(* rise included: unless a card is being stored or its commit failed, what *)
(* is stored is reached from the snapshot of the last card by commits each *)
(* of which was no news to differ, or, in gate mode only, news that is not *)
(* urgent and that was suppressed.  Held and lost cards, failing commits   *)
(* and crashes put no commit with other news in between.                   *)
KnownByCommits ==
  \A p \in Providers \ torn :
    \/ told[p] = NoSnapshot
    \/ at # 0 /\ Current = p /\ pc = "storing"
    \/ Chain(p, told[p], stored[p], muted)

THEOREM StoredIsKnown == Spec => []KnownByCommits
  <1>1. TypeInv /\ ToldInv => KnownByCommits
    BY DEF KnownByCommits, ToldInv, ToldIsStored, Ahead, TypeInv, Polling
  <1>2. Init => TypeInv /\ ToldInv
    BY TypeInit, ToldInit
  <1>3. TypeInv /\ ToldInv /\ [Next]_vars => (TypeInv /\ ToldInv)'
    BY TypeStep, ToldStep
  <1> QED BY <1>1, <1>2, <1>3, PTL DEF Spec

-----------------------------------------------------------------------------
(* The adapters: whatever a status page answers, they make a snapshot of it *)
(* that differ can compare.                                                 *)

(* An answer of the form the adapters read; any words stand in its fields.  *)
IsIncidentOf(i) ==
  /\ i.own \in Updates
  /\ i.updates \in Seq(Updates)

IsDocument(doc) ==
  /\ DOMAIN doc.components \subseteq Components
  /\ DOMAIN doc.incidents \subseteq Incidents
  /\ \A k \in DOMAIN doc.incidents : IsIncidentOf(doc.incidents[k])

IsList(list) ==
  /\ DOMAIN list \subseteq Incidents
  /\ \A k \in DOMAIN list : list[k].when \in Updates

LEMMA WordsAreKnown ==
  ASSUME NEW s
  PROVE  /\ ComponentStatus(s) \in Statuses /\ Indicator(s) \in Indicators
         /\ IncidentStatus(s) \in Phases
  <1>1. ComponentStatus(s) \in Statuses
    BY DEF ComponentStatus, ComponentStatuses, Statuses
  <1>2. Indicator(s) \in Indicators
    BY DEF Indicator, Indicators
  <1>3. IncidentStatus(s) \in Phases
    BY DEF IncidentStatus, Phases
  <1> QED BY <1>1, <1>2, <1>3

LEMMA ShownIsIncident ==
  ASSUME NEW i, IsIncidentOf(i) PROVE ShownIncident(i) \in Incident
  <1>1. (IF i.updates = <<>> THEN i.own ELSE Head(i.updates)) \in Updates
    BY DEF IsIncidentOf
  <1> QED BY <1>1, WordsAreKnown DEF ShownIncident, Incident

LEMMA SnapshotOf ==
  ASSUME NEW indicator \in Indicators, NEW D \in SUBSET Components, NEW E \in SUBSET Incidents,
         NEW f \in [D -> Statuses], NEW g \in [E -> Incident]
  PROVE  [indicator |-> indicator, components |-> f, incidents |-> g] \in Snapshot
  BY DEF Snapshot

(* StatuspageAdapter (adapters/statuspage.py:63-117) maps words it does not *)
(* know to "unknown" or "investigating": no answer gets past the types of   *)
(* the poller, as its proofs assume of Pages.                               *)
THEOREM StatuspageIsSnapshot ==
  ASSUME NEW doc, NEW track \in BOOLEAN, IsDocument(doc)
  PROVE  StatuspageSnapshot(doc, track) \in Snapshot
  <1>1. Tracked(doc, track) \in SUBSET Components
    BY DEF Tracked, IsDocument
  <1>2. [c \in Tracked(doc, track) |-> ComponentStatus(doc.components[c].status)]
          \in [Tracked(doc, track) -> Statuses]
    BY WordsAreKnown
  <1>3. [k \in DOMAIN doc.incidents |-> ShownIncident(doc.incidents[k])]
          \in [DOMAIN doc.incidents -> Incident]
    BY ShownIsIncident DEF IsDocument
  <1>4. DOMAIN doc.incidents \in SUBSET Incidents
    BY DEF IsDocument
  <1>5. Indicator(doc.indicator) \in Indicators
    BY WordsAreKnown
  <1> QED BY <1>1, <1>2, <1>3, <1>4, <1>5, SnapshotOf DEF StatuspageSnapshot

(* GoogleCloudAdapter (adapters/google_cloud.py:47-99) likewise.            *)
THEOREM GoogleIsSnapshot ==
  ASSUME NEW list, NEW watched, IsList(list)
  PROVE  GoogleSnapshot(list, watched) \in Snapshot
  <1> DEFINE open == OpenIncidents(list, watched)
  <1>1. open \in SUBSET Incidents /\ open \subseteq DOMAIN list
    BY DEF OpenIncidents, IsList
  <1>2. \A k \in open : GoogleIncident(list[k]) \in Incident
    BY <1>1 DEF IsList, GoogleIncident, GoogleImpact, Incident, Phases, Indicators
  <1>3. [k \in open |-> GoogleIncident(list[k])] \in [open -> Incident]
    BY <1>2
  <1>4. [c \in {} |-> "unknown"] \in [{} -> Statuses] /\ {} \in SUBSET Components
    OBVIOUS
  <1>5. WorstImpact({GoogleImpact(list[k]) : k \in open}) \in Indicators
    BY DEF WorstImpact, Indicators
  <1> HIDE DEF open
  <1> QED BY <1>1, <1>3, <1>4, <1>5, SnapshotOf DEF GoogleSnapshot, open

(* All incidents of Google are "investigating": with the verbosity "phase"  *)
(* no update of one is news, only that it opens, and that it ends; and no   *)
(* component is ever news.                                                  *)
THEOREM GoogleUpdatesAreNoNews ==
  ASSUME NEW old, NEW new, NEW watched, Verbosity = "phase"
  PROVE  /\ Updated(GoogleSnapshot(old, watched), GoogleSnapshot(new, watched)) = {}
         /\ ComponentEvents(GoogleSnapshot(old, watched), GoogleSnapshot(new, watched)) = {}
  <1> DEFINE s == GoogleSnapshot(old, watched)
             t == GoogleSnapshot(new, watched)
  <1>1. /\ \A k \in DOMAIN s.incidents : s.incidents[k].phase = "investigating"
        /\ \A k \in DOMAIN t.incidents : t.incidents[k].phase = "investigating"
        /\ DOMAIN s.components = {} /\ DOMAIN t.components = {}
    BY DEF GoogleSnapshot, GoogleIncident
  <1> HIDE DEF s, t
  <1>2. Updated(s, t) = {}
    BY <1>1 DEF Updated
  <1>3. ComponentEvents(s, t) = {}
    BY <1>1 DEF ComponentEvents, Recovered, Degraded
  <1> QED BY <1>2, <1>3 DEF s, t
=============================================================================
