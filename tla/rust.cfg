SPECIFICATION FairSpec
CONSTANTS
    c1 = c1  c2 = c2  j1 = j1  j2 = j2
    NULL = NULL
    Conn = {c1, c2}
    Job = {j1, j2}
    Watches <- SomeWatched
    Workers = 2
    Leavers = {c1}
    Env <- EnvMoves
CHECK_DEADLOCK FALSE
INVARIANTS
    TypeOK
    OneAtATime
    NoOrphan
PROPERTIES
    JobsSpec
    RequestIsAnswered
    EndIsReported
    KillFromElsewhere
