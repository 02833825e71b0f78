\* One property at a time: DpcIsNext or MieClearedByTrap.
SPECIFICATION Spec
CONSTANTS
    N = 8
    Programs <- HaltPrograms
    Target <- MCTarget
    Mtvec = 5
    BadPcs = {}
    DivCycles = 2
    MaxWait = 1
    HaltReqs = {TRUE, FALSE}
    Irqs = {TRUE, FALSE}
    Nmis = {FALSE}
    BusErrs = {FALSE}
    Resets = {FALSE}
    DbgWrites = {}
PROPERTIES DpcIsNext MieClearedByTrap
