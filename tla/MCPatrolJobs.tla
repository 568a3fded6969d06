---------------------------- MODULE MCPatrolJobs ----------------------------
(* Jobs and rules of the small instances, named as in findings.py; a key   *)
(* is named as its rule.                                                   *)
EXTENDS PatrolJobs

CONSTANTS metrics, docker, hygiene,
          disk_usage, middleware_down, scan_failed_prometheus,
          container_down, scan_failed_docker, mem_pressure, backup_stale, cert_expiry

MCRuleOf == [r \in Rules |-> r]
MCOwner == [r \in Rules |->
  CASE r \in {disk_usage, mem_pressure, middleware_down, scan_failed_prometheus} -> metrics
    [] r \in {container_down, scan_failed_docker} -> docker
    [] OTHER -> hygiene]
MCUrgency == [r \in Rules |-> {r \notin {backup_stale, cert_expiry}}]
MCCap == [j \in Jobs |-> MaxFindings]
MCFailKey == [j \in Counted |->
  IF j = metrics THEN scan_failed_prometheus ELSE scan_failed_docker]
=============================================================================
