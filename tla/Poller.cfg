SPECIFICATION Spec
CONSTANTS
  openai = openai
  google = google
  small = small
  large = large
  api = api
  u1 = u1
  u2 = u2
  gemini = gemini
  maps = maps
  NoSnapshot = NoSnapshot
  Incidents = {small, large}
  Components = {api}
  Updates = {u1, u2}
  Verbosity = "phase"
  Providers = {openai}
  Adapters <- OneProvider
  Pages <- OneRich
  Mode = "gate"
  FailThreshold = 2
  MinGap = 2
  MayCrash = TRUE
INVARIANT ToldIsCurrent
