SPECIFICATION Spec
CONSTANTS
  a = a
  b = b
  NoOne = NoOne
  Instances <- Processes
  Items <- AllItems
  Canon <- AllCanon
  References = {"ref:1"}
  NoUrl = "none"
  Sources = {"first", "reset_html"}
  Fallback = "reset_html"
  WindowSlack = 1
  MergeSlack = 0
  HintReach = 2
  BankedReach = 2
  Near = 0
  Apart = 1
  NotifyMaxAge = 2
  LeaseTtl = 1
  TickTime = 1
  DelayGrace = 0
  ReferenceAge = 2
  RetryBase = 1
  RetryMax = 2
  MaxAttempts = 2
  MaxTime = 3
  MaxFaults = 1
  Day = 1
  ReferenceMaxAge = 2
INVARIANTS OnePostIsNotEnough ToldOnce
PROPERTIES StagesOnlyAdvance StageIsSettled
