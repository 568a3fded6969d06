----------------------------- MODULE StatusPages -----------------------------
(***************************************************************************)
(* The snapshots the adapters make of what a status page answers:          *)
(* sentinel/adapters/statuspage.py for pages of Atlassian Statuspage,      *)
(* sentinel/adapters/google_cloud.py for the list of incidents of Google   *)
(* Cloud.  An answer that is not of this form raises, as one that cannot   *)
(* be fetched.  Names, titles and addresses are left out, but for a name   *)
(* by which a component is skipped.                                        *)
(***************************************************************************)
EXTENDS Differ, Sequences

ComponentStatuses ==
  [operational |-> "operational", under_maintenance |-> "maintenance",
   degraded_performance |-> "degraded", partial_outage |-> "partial_outage",
   major_outage |-> "major_outage"]

ComponentStatus(s) ==
  IF s \in DOMAIN ComponentStatuses THEN ComponentStatuses[s] ELSE "unknown"
Indicator(s) == IF s \in Indicators THEN s ELSE "unknown"
IncidentStatus(s) == IF s \in Phases THEN s ELSE "investigating"

(* The page lists all its components: a group of others, or a link to more  *)
(* information, is none.  With track_components off there are none at all.  *)
Tracked(doc, track) ==
  {c \in DOMAIN doc.components :
     track /\ ~doc.components[c].group /\ ~doc.components[c].pseudo}

(* The first update of an incident is the latest; one without has itself.   *)
ShownIncident(i) ==
  [phase |-> IncidentStatus(i.status), impact |-> Indicator(i.impact),
   update |-> IF i.updates = <<>> THEN i.own ELSE Head(i.updates)]

StatuspageSnapshot(doc, track) ==
  [indicator |-> Indicator(doc.indicator),
   components |-> [c \in Tracked(doc, track) |-> ComponentStatus(doc.components[c].status)],
   incidents |-> [k \in DOMAIN doc.incidents |-> ShownIncident(doc.incidents[k])]]

-----------------------------------------------------------------------------
(* Google lists incidents past and present, of all its products.            *)

OpenIncidents(list, watched) ==
  {k \in DOMAIN list : ~list[k].ended /\ list[k].products \cap watched # {}}

GoogleImpact(i) ==
  IF i.outage THEN "critical" ELSE IF i.severity = "high" THEN "major" ELSE "minor"

GoogleIncident(i) ==
  [phase |-> "investigating", impact |-> GoogleImpact(i), update |-> i.when]

(* The worst impact of an open incident; Indicator.rank.                    *)
WorstImpact(impacts) ==
  IF "critical" \in impacts THEN "critical"
  ELSE IF "major" \in impacts THEN "major"
  ELSE IF "minor" \in impacts THEN "minor" ELSE "none"

GoogleSnapshot(list, watched) ==
  LET open == OpenIncidents(list, watched)
  IN [indicator |-> WorstImpact({GoogleImpact(list[k]) : k \in open}),
      components |-> [c \in {} |-> "unknown"],
      incidents |-> [k \in open |-> GoogleIncident(list[k])]]
=============================================================================
