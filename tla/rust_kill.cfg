SPECIFICATION FairSpec
CONSTANTS
    c1 = c1  c2 = c2  j1 = j1  j2 = j2
    NULL = NULL
    Conn = {c1}
    Job = {j1}
    Watches <- NoneWatched
    Workers = 2
    Leavers = {}
    Env <- Kills
CHECK_DEADLOCK FALSE
PROPERTIES
    KillIsServed
