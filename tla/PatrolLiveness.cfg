SPECIFICATION FairPatrolSpec
CONSTANTS
  NoJob = NoJob
  metrics = metrics
  docker = docker
  hygiene = hygiene
  disk_usage = disk_usage
  middleware_down = middleware_down
  scan_failed_prometheus = scan_failed_prometheus
  container_down = container_down
  scan_failed_docker = scan_failed_docker
  backup_stale = backup_stale
  cert_expiry = cert_expiry
  mem_pressure = mem_pressure
  Jobs = {docker}
  Rules = {container_down, scan_failed_docker}
  Keys = {container_down, scan_failed_docker}
  RuleOf <- MCRuleOf
  Owner <- MCOwner
  PointKeys = {}
  Urgency <- MCUrgency
  Cap <- MCCap
  Cooldown = 1
  RowIds = {1, 2}
  MaxFindings = 2
  MaxLag = 0
  MayCrash = FALSE
  Counted = {docker}
  Piecewise = {}
  FailKey <- MCFailKey
  Fragile = {docker}
  Optional = {}
  Losable = {container_down}
  Holding = {container_down}
  Threshold = 2
PROPERTIES
  OutageReported
  RecoveryReported
  BlindnessReported
  UsesEngineAsSpecified
