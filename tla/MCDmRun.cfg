SPECIFICATION Spec
CONSTANTS
    NumWords = 1
    Commands <- ReadCommands
    Controls <- AllControls
    BadAddrs = {}
    MaxWait = 1
    Timeout = 4
    Gap = 1
    Resets = {TRUE}
INVARIANTS ResumeAckMeansResumed
PROPERTIES CommandEnds
