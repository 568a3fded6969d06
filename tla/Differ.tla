-------------------------------- MODULE Differ --------------------------------
(***************************************************************************)
(* What is news between two snapshots of a vendor's status page: diff of   *)
(* sentinel/differ.py, with the urgency that sentinel/poller.py reads off  *)
(* the events.  An event is its type and whether it is urgent; its texts   *)
(* are left out.                                                           *)
(***************************************************************************)
EXTENDS Integers

CONSTANTS
  Incidents,  \* ids of incidents (a snapshot lists the unresolved ones)
  Components, \* ids of components
  Updates,    \* ids of incident updates
  Verbosity,  \* sentinel_incident_verbosity
  NoSnapshot  \* "None": nothing stored yet

ASSUME DifferAssumption == Verbosity \in {"phase", "all"}

Indicators == {"unknown", "none", "minor", "major", "critical"}
Statuses == {"unknown", "operational", "maintenance", "degraded",
             "partial_outage", "major_outage"}
Phases == {"investigating", "identified", "monitoring", "resolved", "postmortem"}

(* ComponentStatus.rank.                                                   *)
Rank(status) ==
  CASE status = "unknown" -> -1
    [] status = "operational" -> 0
    [] status = "maintenance" -> 1
    [] status = "degraded" -> 2
    [] status = "partial_outage" -> 3
    [] status = "major_outage" -> 4

Incident == [phase : Phases, impact : Indicators, update : Updates]

Snapshot ==
  [indicator : Indicators,
   incidents : UNION {[keys -> Incident] : keys \in SUBSET Incidents},
   components : UNION {[keys -> Statuses] : keys \in SUBSET Components}]

Event(type, urgent) == [type |-> type, urgent |-> urgent]
IsUrgentImpact(impact) == impact \in {"major", "critical"}

-----------------------------------------------------------------------------
Opened(old, new) == DOMAIN new.incidents \ DOMAIN old.incidents
Resolved(old, new) == DOMAIN old.incidents \ DOMAIN new.incidents

Updated(old, new) ==
  {k \in DOMAIN new.incidents \cap DOMAIN old.incidents :
     \/ old.incidents[k].phase # new.incidents[k].phase
     \/ Verbosity = "all" /\ old.incidents[k].update # new.incidents[k].update}

IncidentEvents(old, new) ==
  {Event("opened", IsUrgentImpact(new.incidents[k].impact)) : k \in Opened(old, new)}
    \cup {Event("updated", IsUrgentImpact(new.incidents[k].impact)) : k \in Updated(old, new)}
    \cup {Event("resolved", IsUrgentImpact(old.incidents[k].impact)) : k \in Resolved(old, new)}

(* A component that is new to the page, or better but not yet operational, *)
(* is no news.                                                             *)
Recovered(old, new) ==
  {c \in DOMAIN old.components \cap DOMAIN new.components :
     old.components[c] # "operational" /\ new.components[c] = "operational"}

Degraded(old, new) ==
  {c \in DOMAIN old.components \cap DOMAIN new.components :
     /\ new.components[c] # "operational"
     /\ Rank(new.components[c]) > Rank(old.components[c])}

ComponentEvents(old, new) ==
  {Event("recovered", FALSE) : c \in Recovered(old, new)}
    \cup {Event("degraded", new.components[c] \in {"partial_outage", "major_outage"}) :
            c \in Degraded(old, new)}

Cosmetic == {"none", "minor"}

(* The indicator moving between none and minor is news only along with     *)
(* something else.                                                         *)
IndicatorMoved(old, new, others) ==
  /\ old.indicator # new.indicator
  /\ {old.indicator, new.indicator} \subseteq Cosmetic => others # {}

IndicatorEvents(old, new, others) ==
  IF IndicatorMoved(old, new, others)
    THEN {Event("indicator", IsUrgentImpact(new.indicator))} ELSE {}

Changes(old, new) ==
  LET others == IncidentEvents(old, new) \cup ComponentEvents(old, new) IN
  others \cup IndicatorEvents(old, new, others)

(* Cold start: one event, and none for a page without substance.           *)
Substantive(new) ==
  \/ DOMAIN new.incidents # {}
  \/ \E c \in DOMAIN new.components : new.components[c] # "operational"
  \/ new.indicator \notin {"none", "minor", "unknown"}

Baseline(new) == IF Substantive(new) THEN {Event("baseline", FALSE)} ELSE {}

Diff(old, new) == IF old = NoSnapshot THEN Baseline(new) ELSE Changes(old, new)

IsUrgent(events) == \E e \in events : e.urgent
=============================================================================
