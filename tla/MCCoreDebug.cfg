SPECIFICATION Spec
CONSTANTS
    N = 8
    Programs <- DebugPrograms
    Target <- MCTarget
    Mtvec = 5
    BadPcs = {}
    DivCycles = 2
    MaxWait = 1
    HaltReqs = {TRUE, FALSE}
    Irqs = {TRUE, FALSE}
    Nmis = {FALSE}
    BusErrs = {FALSE}
    Resets = {FALSE}
    DbgWrites <- StepWrites
INVARIANTS HaltAckInDebug
PROPERTIES StepExactlyOne DpcExact MieClearedByTrap ImplementsHart HaltHonoured
