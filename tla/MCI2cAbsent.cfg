CONSTANTS
  Bytes = {"a"}
  Calls <- MissRead
  MaxLen = 1
  Patient = TRUE
  MayRefuse = FALSE
  MaxCalls = 3
SPECIFICATION Spec
INVARIANTS Reached
CHECK_DEADLOCK FALSE
