SPECIFICATION Spec
CONSTANTS
  NoJob = NoJob
  probe = probe
  metrics = metrics
  service_down = service_down
  mem_pressure = mem_pressure
  container_restart = container_restart
  Jobs = {metrics}
  Rules = {container_restart}
  Keys = {container_restart}
  RuleOf <- MCRuleOf
  Owner <- MCOwner
  PointKeys <- MCPointKeys
  Urgency <- MCUrgency
  Cap <- MCCap
  Cooldown = 2
  RowIds = {1, 2}
  MaxFindings = 1
  MaxLag = 1
  MayCrash = FALSE
INVARIANT HardAlertIsTold
