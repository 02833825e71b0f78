CONSTANTS
  Bytes = {"a", "b"}
  Calls <- AllCalls
  MaxLen = 3
  Patient = TRUE
  MayRefuse = TRUE
  MaxCalls = 4
SPECIFICATION Spec
CHECK_DEADLOCK FALSE
INVARIANTS
    Delivered
    NackMeansRefused
PROPERTIES
    BusFreed
