SPECIFICATION Spec
CONSTANTS
  Sources = {"I2C1", "I2C2"}
  Leds = {"I2C2"}
  Ops = {"compute", "jump"}
  SysCalls = {"brk", "read", "write", "gettimeofday", "unknown"}
  Base = 2
  MaxHigh = 3
  Delta = 2
  MaxTime = 3
  MaxEvents = 2
PROPERTY TrapTransparent
CHECK_DEADLOCK FALSE
