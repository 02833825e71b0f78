\* One property at a time: NmiNotNested or TrapSavesArch.
SPECIFICATION Spec
CONSTANTS
    N = 8
    Programs <- NmiPrograms
    Target <- NmiTarget
    Mtvec = 5
    BadPcs = {}
    DivCycles = 2
    MaxWait = 1
    HaltReqs = {FALSE}
    Irqs = {TRUE, FALSE}
    Nmis = {TRUE, FALSE}
    BusErrs = {FALSE}
    Resets = {FALSE}
    DbgWrites = {}
PROPERTIES NmiNotNested TrapSavesArch
