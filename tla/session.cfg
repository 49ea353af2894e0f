SPECIFICATION Spec
CONSTANTS
    MAX31 = 15
    MAX16 = 3
    None = None
    Raised = Raised
    Text = {"work", "log", "sleep"}
    Bytes = {"bytes"}
    Path = {"work", "log"}
    Kind <- KindOf
    MaxSize = 2
    MaxEvents = 2
    Garbage = {1, 7}
    Stray = {"log", "bytes"}
    Tests <- AllTests
    Pids = {5}
    Errno = {12}
    Codes = {0}
    destPort = 3
    ShortReads <- AfterMost
    Misread = {0, 7}
    MaxOps = 2
CHECK_DEADLOCK FALSE
INVARIANTS
    TypeOK
    CommandAsSent
    NoticeAsMeant
    CrashIsExplained
    CodecsAgree
    
    EventsAsAsked
PROPERTIES
    SizeIsReported
    WaitedFor
    KillEnds
