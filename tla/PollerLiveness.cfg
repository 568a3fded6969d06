SPECIFICATION FairSpec
CONSTANTS
  openai = openai
  google = google
  small = small
  large = large
  api = api
  u1 = u1
  u2 = u2
  gemini = gemini
  maps = maps
  NoSnapshot = NoSnapshot
  Incidents = {small, large}
  Components = {api}
  Updates = {u1, u2}
  Verbosity = "phase"
  Providers = {openai, google}
  Adapters <- TwoProviders
  Pages <- TwoSmall
  Mode = "off"
  FailThreshold = 2
  MinGap = 1
  MayCrash = FALSE
PROPERTIES PageIsTold FailureIsTold
