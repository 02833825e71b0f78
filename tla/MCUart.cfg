SPECIFICATION Spec
CONSTANTS
    MaxBits = 3
    Configs <- Formats
    PutDelay = 1
    GetDelay = 2
    Disturbances <- GlitchAndBreak
INVARIANTS
    NoFalseError
PROPERTIES
    ImplementsChannel
    BreakReported
