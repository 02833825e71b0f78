CONSTANTS
  Bytes = {"a"}
  Calls <- MissWrite
  MaxLen = 1
  Patient = FALSE
  MayRefuse = FALSE
  MaxCalls = 3
SPECIFICATION Spec
INVARIANTS NackMeansRefused
CHECK_DEADLOCK FALSE
