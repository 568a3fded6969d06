--------------------------- MODULE MCStatusPoller ---------------------------
(***************************************************************************)
(* Small instances of StatusPoller.  An incident keeps its impact and a    *)
(* page keeps its list of components.                                      *)
(***************************************************************************)
EXTENDS StatusPoller, StatusPages, TLC

CONSTANTS openai, google, small, large, api, u1, u2, gemini, maps

(* What a page answers: a component, the group it is in and a link; maybe   *)
(* an incident.                                                             *)
Answered(indicator, incidents, status) ==
  [indicator |-> indicator, incidents |-> incidents,
   components |-> (api :> [status |-> status, group |-> FALSE, pseudo |-> FALSE])
     @@ [c \in {"group", "more"} |->
           [status |-> "major_outage", group |-> c = "group", pseudo |-> c = "more"]]]
Page(indicator, incidents, status) ==
  StatuspageSnapshot(Answered(indicator, incidents, status), TRUE)

Shown(k, phase, update) ==
  [i \in {k} |-> [status |-> phase, updates |-> IF update = u1 THEN <<>> ELSE <<u2, u1>>,
                  own |-> u1, impact |-> IF k = large THEN "major" ELSE "minor"]]

Quiet == <<>>
Green == Page("none", Quiet, "operational")

(* The page of one provider: cosmetic indicators, a component that sinks   *)
(* and gets better in steps, an incident of either impact.                 *)
RichPages ==
  {Green,
   Page("minor", Quiet, "operational"),
   Page("minor", Quiet, "degraded_performance"),
   Page("none", Quiet, "partial_outage"),
   Page("down", Quiet, "asleep"),
   Page("minor", Shown(small, "investigating", u1), "operational"),
   Page("minor", Shown(small, "scheduled", u2), "degraded_performance"),
   Page("major", Shown(large, "investigating", u1), "operational"),
   Page("minor", Shown(large, "identified", u1), "under_maintenance")}

OneProvider == <<openai>>
OneRich == [p \in {openai} |-> RichPages]

(* A list with an incident that is over, one of another product, and one    *)
(* that is open.                                                            *)
Listed(ended, product, severity) ==
  [ended |-> ended, products |-> {product}, outage |-> FALSE, severity |-> severity, when |-> u1]
GoogleList == (large :> Listed(FALSE, gemini, "high"))
  @@ (small :> Listed(FALSE, maps, "high")) @@ ("past" :> Listed(TRUE, gemini, "low"))

TwoProviders == <<openai, google>>
TwoSmall ==
  [p \in {openai, google} |->
     IF p = openai
       THEN {Green, Page("none", Shown(small, "investigating", u1), "operational")}
       ELSE {GoogleSnapshot(GoogleList, {gemini})}]

(* What makes differences compose: a page keeps its list of components, and *)
(* an incident its impact.  differ takes it for granted: a component that   *)
(* leaves the page and one that joins it are no events, and neither is an   *)
(* impact that rises.                                                       *)
Alike(s, t) ==
  /\ DOMAIN s.components = DOMAIN t.components
  /\ \A k \in DOMAIN s.incidents \cap DOMAIN t.incidents :
       s.incidents[k].impact = t.incidents[k].impact

ASSUME SteadyPages == \A p \in Providers : \A s, t \in Pages[p] : Alike(s, t)
=============================================================================
