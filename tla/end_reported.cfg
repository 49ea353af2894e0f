SPECIFICATION FairSpec
CONSTANTS
    j1 = j1  j2 = j2  j3 = j3
    p1 = p1  p2 = p2  p3 = p3
    c1 = c1  c2 = c2
    NULL = NULL
    STDOUT = STDOUT
    Job = {j1, j2}
    Pid = {p1, p2}
    Conn = {c1}
    MAX_PROCESS = 2
    ExitCode = {0}
    ERRNO = 2
    MAX_EVENTS = 4
    Env <- Nothing
    Window = 2
    MaxInbox = 1
CHECK_DEADLOCK FALSE
PROPERTIES
    EndIsReported
