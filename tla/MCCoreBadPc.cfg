SPECIFICATION Spec
CONSTANTS
    N = 8
    Programs <- JumpBad
    Target <- BadTarget
    Mtvec = 2
    BadPcs = {6, 7}
    DivCycles = 2
    MaxWait = 1
    HaltReqs = {FALSE}
    Irqs = {FALSE}
    Nmis = {FALSE}
    BusErrs = {FALSE}
    Resets = {FALSE}
    DbgWrites = {}
PROPERTIES TrapInitiation
