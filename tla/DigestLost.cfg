SPECIFICATION Spec
CONSTANTS
  Report = Report
  Evening = Evening
  NoJob = NoJob
  mem_pressure = mem_pressure
  backup_stale = backup_stale
  api = api
  Keys = {mem_pressure}
  Critical = {}
  Services = {api}
  Limit = 1
  MaxObs <- MCMaxObs
  Days = {1, 2}
INVARIANT LatestIsKept
