--------------------------- MODULE MCEventEngine ---------------------------
(* The rules of the small instances.  Two jobs of disjoint families: probe *)
(* with an immediate state rule; metrics with a state rule and a point     *)
(* rule of mixed urgency (mem_pressure by its severity, container_restart  *)
(* by its kind).  The cfg says which of the jobs and rules take part.  A   *)
(* key is named as its rule.                                               *)
EXTENDS EventEngine

CONSTANTS probe, metrics, service_down, mem_pressure, container_restart

MCRuleOf == [r \in Rules |-> r]
MCOwner == [r \in Rules |-> IF r = service_down THEN probe ELSE metrics]
MCPointKeys == Rules \cap {container_restart}
MCUrgency == [r \in Rules |-> IF r = service_down THEN {TRUE} ELSE BOOLEAN]
MCCap == [j \in Jobs |-> IF j = probe THEN MaxFindings ELSE 1]
=============================================================================
