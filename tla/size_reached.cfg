SPECIFICATION Spec
CONSTANTS
    MAX31 = 15
    MAX16 = 3
    None = None
    Raised = Raised
    Text = {"tmp", "sleep"}
    Bytes = {"bytes"}
    Path = {"tmp"}
    Kind <- KindOf
    MaxSize = 2
    MaxEvents = 2
    Garbage = {1, 7}
    Stray = {"bytes"}
    Tests <- Elsewhere
    Pids = {5}
    Errno = {12}
    Codes = {0}
    destPort = 3
    ShortReads = {}
    Misread = {0, 7}
    MaxOps = 2
CHECK_DEADLOCK FALSE
INVARIANTS
    ReachedIsReal
