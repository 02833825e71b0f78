SPECIFICATION Spec
CONSTANTS
    MaxBits = 3
    Configs <- Plain
    PutDelay = 1
    GetDelay = 60
    Disturbances = {}
PROPERTY DataIsReceived
