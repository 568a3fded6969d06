SPECIFICATION Spec
CONSTANTS
  NoTurn = NoTurn
  NoSend = NoSend
  Ids <- SomeIds
  Results = {"input", "other"}
  Grace = 1
  LongTurn = 1
  BackoffUnit = 1
  BackoffMax = 1
  SeenMax = 3
  RetentionDays = 1
  MaxDays = 1
  MaxFaults = 1
PROPERTIES AnsweredIsNotSent NotToldTwice CandidateSettles
