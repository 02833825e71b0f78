SPECIFICATION Spec
CONSTANTS
  Sectors = {0, 1}
  Bytes = {0, 255}
  BlockLen = 2
  InfoLen = 1
  ReadTimeout = 4
  WriteTimeout = 4
  R1Polls = 3
  InitTries = 2
  Gaps = {0, 2}
  HighCapacity = TRUE
  Faults = {"deaf"}
  MaxCalls = 1
PROPERTY CallReturns
CHECK_DEADLOCK FALSE
