SPECIFICATION Spec
CONSTANTS
  Sources = {"I2C1", "I2C2"}
  Leds = {"main", "I2C2"}
  Ops = {"toggle"}
  SysCalls = {"brk", "read", "write", "gettimeofday", "unknown"}
  Base = 2
  MaxHigh = 3
  Delta = 2
  MaxTime = 3
  MaxEvents = 2
PROPERTY TogglesKept
CHECK_DEADLOCK FALSE
