SPECIFICATION Spec
CONSTANTS
    N = 8
    Programs <- TrapPrograms
    Target <- MCTarget
    Mtvec = 5
    BadPcs = {}
    DivCycles = 2
    MaxWait = 1
    HaltReqs = {FALSE}
    Irqs = {TRUE, FALSE}
    Nmis = {FALSE}
    BusErrs = {TRUE, FALSE}
    Resets = {TRUE}
    DbgWrites = {}
INVARIANTS
    ExecutesArch
    AccessOnce
    WritersWrite
PROPERTIES
    TrapSavesArch
    TrapInitiation
