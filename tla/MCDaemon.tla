------------------------------ MODULE MCDaemon ------------------------------
(* Constants of the runs of Daemon.                                        *)
EXTENDS DaemonJobs, TLC

CONSTANTS j1, j2, j3, p1, p2, p3, c1, c2

(* Jobs, pids and connections are only ever compared for equality.         *)
Symmetry ==
    Permutations(Job) \cup Permutations(Pid) \cup Permutations(Conn)

(* What the environment does in each run.                                  *)
Nothing == {}
Kills == {"kill"}
Failures == {"open", "pipe", "clone", "epoll", "reuse", "shutdown"}
Signals == {"stop", "reuse", "crash"}
Clients == {"kill", "shutdown", "other", "empty", "short", "leave"}
=============================================================================
