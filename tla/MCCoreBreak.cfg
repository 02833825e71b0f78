SPECIFICATION Spec
CONSTANTS
    N = 8
    Programs <- Loop
    Target <- MCTarget
    Mtvec = 5
    BadPcs = {}
    DivCycles = 2
    MaxWait = 1
    HaltReqs = {TRUE, FALSE}
    Irqs = {FALSE}
    Nmis = {FALSE}
    BusErrs = {FALSE}
    Resets = {FALSE}
    DbgWrites <- BreakWrites
PROPERTIES BreakpointHit
