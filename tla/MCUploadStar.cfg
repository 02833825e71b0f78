SPECIFICATION UploadSpec
CONSTANTS
    Uploads <- OneUpload
    TypedLines <- MCTyped
    Addr <- MCAddr
    Window = 1
    Greeting <- MCGreeting
    BreakResets = FALSE
    LineCap = 1
    MaxLine = 4
    MaxSessions = 1
    MaxChat = 0
CHECK_DEADLOCK FALSE
PROPERTY TransferredWhenOk
