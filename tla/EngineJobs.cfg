SPECIFICATION Spec
CONSTANTS
  NoJob = NoJob
  probe = probe
  metrics = metrics
  service_down = service_down
  mem_pressure = mem_pressure
  container_restart = container_restart
  Jobs = {probe, metrics}
  Rules = {service_down, mem_pressure}
  Keys = {service_down, mem_pressure}
  RuleOf <- MCRuleOf
  Owner <- MCOwner
  PointKeys <- MCPointKeys
  Urgency <- MCUrgency
  Cap <- MCCap
  Cooldown = 2
  RowIds = {1, 2}
  MaxFindings = 2
  MaxLag = 1
  MayCrash = TRUE
INVARIANTS
  AtMostOneOpen
  NotMisled
PROPERTIES
  ImplementsIncidents
  CooldownRespected
