\* One property at a time: AccessHalted, HaveResetKept or ResetWhenInactive.
SPECIFICATION Spec
CONSTANTS
    NumWords = 2
    Commands <- ReadCommands
    Controls <- AllControls
    BadAddrs = {}
    MaxWait = 1
    Timeout = 4
    Gap = 1
    Resets = {TRUE}
PROPERTIES AccessHalted HaveResetKept ResetWhenInactive
