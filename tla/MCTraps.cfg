SPECIFICATION Spec
CONSTANTS
  Sources = {"I2C1", "I2C2"}
  Leds = {"I2C2"}
  Ops = {"compute", "putc", "time", "ecall", "ebreak", "fault", "toggle"}
  SysCalls = {"brk", "read", "write", "gettimeofday", "unknown"}
  Base = 2
  MaxHigh = 3
  Delta = 2
  MaxTime = 3
  MaxEvents = 2
CHECK_DEADLOCK FALSE
PROPERTIES
    TimeIsTrue
    TrapTransparent
    TicksApart
    EventServed
    PutcReturns
