SPECIFICATION UploadSpec
CONSTANTS
    Uploads <- MCUploads
    TypedLines <- MCTyped
    Addr <- MCAddr
    Window = 1
    Greeting <- MCGreeting
    BreakResets = TRUE
    LineCap = 1
    MaxLine = 4
    MaxSessions = 2
    MaxChat = 1
CHECK_DEADLOCK FALSE
PROPERTIES
    OkMeansLoaded
    NothingLost
    FailsOnlyAtWindow
    ToolEnds
