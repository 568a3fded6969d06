SPECIFICATION Spec
CONSTANTS
  LoopThreshold = 2
  LoopWindow = 5
  Period = 2
  Lifetime = 8
  MaxCount = 7
  Confirmations = 2
  MaxBalance = 2
  MaxGrants = 3
  Hour = 4
  Streak = 3
  MinSamples = 2
  Ratio = 2
  Margin = 1
  Latencies = {1, 3, 5}
  Baselines = {1, 2}
  Criticals = {"e1", "e2"}
  ErrorWindow = 4
  ErrorInterval = 2
  Drift = 1
  QueryLimit = 2
  MaxSends = 1
  Crowd = 2
  ErrorCooldown = 5
  MetricsInterval = 30
  DockerInterval = 2
  MetricsTime = 1
  ScanTime = 1
  MaxRestarts = 1
  Profiles = {"a", "b"}
  NoProfile = "none"
  EnvProfile = "none"
  Contents <- MCContents
  MaxEvents = 3
  MaxPerTick = 2
  Attempts = 1
  Runs = {r1, r2}
  NoRun = NoRun
  MaxFaults = 1
  Turns = {"t1", "t2"}
  Retries = 1
  RetentionDays = 0
  MaxDays = 1
  MaxKills = 1
  Monitors = {p1, p2}
  MaxText = 2
  Plain <- MCPlain
  AskBase = 1
  AskMax = 2
  MaxAttempts = 2
  CacheLease = 1
  MaxLate = 1
  Rounds = {q1, q2}
  HtmlInterval = 4
  RoundLease = 1
  RoundTime = 2
  Sends = {1, 2}
  Settings <- MCSettings
  MinGap = 2
INVARIANTS LoopIsReal LoopIsReported CreditedOnce NoLineSlips KillIsReported
  CardIsStored CallsAreBounded DeliveredOnce AnswerIsTrue AnswerIsOfText CountIsTrue
PROPERTIES RecoveryIsSeen BalanceIsStored EventsAreSettled AskedOnce FallbackIsRare PostsAreSpaced
CHECK_DEADLOCK FALSE
