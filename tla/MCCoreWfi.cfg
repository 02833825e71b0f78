SPECIFICATION Spec
CONSTANTS
    N = 8
    Programs <- SleepEffect
    Target <- MCTarget
    Mtvec = 5
    BadPcs = {}
    DivCycles = 5
    MaxWait = 4
    HaltReqs = {FALSE}
    Irqs = {TRUE, FALSE}
    Nmis = {FALSE}
    BusErrs = {FALSE}
    Resets = {FALSE}
    DbgWrites = {}
INVARIANTS AccessOnce WritersWrite
PROPERTIES TrapInitiation
