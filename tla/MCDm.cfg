SPECIFICATION Spec
CONSTANTS
    NumWords = 2
    Commands <- AllCommands
    Controls <- HaltOnly
    BadAddrs = {1}
    MaxWait = 1
    Timeout = 4
    Gap = 1
    Resets = {}
PROPERTIES CommandDoesIt ErrorInPlace
