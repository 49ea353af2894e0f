------------------------------- MODULE Daemon -------------------------------
(***************************************************************************)
(* The event loop of the C daemon: c/daemon-core.c, c/daemon-features/     *)
(* events.c and clone.c, with the processes it launches, the kernel that   *)
(* tells it about them, and the clients.                                   *)
(*                                                                         *)
(* The daemon is one thread.  It blocks in epoll_wait, receives a batch of *)
(* ready descriptors and handles them one after the other; each handler is *)
(* one action here, and children, clients and the kernel take steps        *)
(* between two of them.  A child steps inside a handler in the code too,   *)
(* but it can only touch its pipe and the pending SIGCHLD, and the daemon  *)
(* looks at neither before its next epoll_wait: the order in which a batch *)
(* is handled, which is left open, is all that such a step can change.     *)
(*                                                                         *)
(* Requests carry no surveillance here (to_watch is empty).                *)
(***************************************************************************)
EXTENDS ProcessManager, Sequences

CONSTANTS
    Conn,           \* client connections
    ExitCode,       \* codes with which programs end
    ERRNO,          \* errno of a failed execve
    MAX_EVENTS,     \* descriptors returned by one epoll_wait (128)
    Env,            \* what the environment may do, a subset of EnvMoves
    Window,         \* jobs a client keeps under way at a time (bound)
    MaxInbox        \* unread messages of a connection (bound)

EnvMoves ==
    {"open",        \* the error file of a child cannot be opened
     "pipe",        \* pipe() fails
     "clone",       \* clone() or an allocation before it fails
     "epoll",       \* epoll_ctl cannot add a descriptor
     "reuse",       \* the pid of a reaped process is given out again
     "stop",        \* children are stopped and continued
     "crash",       \* children are killed by someone else
     "kill",        \* clients ask for processes to be killed
     "shutdown",    \* clients ask for the daemon to be killed
     "other",       \* clients send messages of no expected type
     "empty",       \* clients send a message of size 0
     "short",       \* a message is not there in full when it is read
     "leave"}       \* clients close their connection

SIGKILL == 9
SIGPIPE == 13
SIGTERM == 15

ASSUME ConnAssumption == NULL \notin Conn
ASSUME CodeAssumption == ExitCode \subseteq Nat /\ ERRNO \in Nat
ASSUME EventsAssumption == MAX_EVENTS \in Nat \ {0}
ASSUME EnvAssumption == Env \subseteq EnvMoves
ASSUME BoundAssumption == Window \in Nat /\ MaxInbox \in Nat

VARIABLES
    state,          \* where each job is
    status,         \* the wait status of each ended job
    pidOf,          \* the pid of each launched job
    pipe,           \* the pipe on which a child reports a failed execve
    pending,        \* pid of the one SIGCHLD that can be pending, or NULL
    exec,           \* history: how the execve of each child went
    manager,        \* the process table
    nb_process,     \* the daemon's count of its children
    errf,           \* the error file of each job
    conn,           \* connections, as the daemon sees them
    gone,           \* connections their client has closed
    inbox,          \* what each connection holds to be read
    communication_socket,   \* where notices about jobs go
    batch,          \* events of the last epoll_wait still to be handled
    waiting,        \* the pid waitpid is blocked on, or NULL
    daemon,         \* "up", or how the daemon ended
    mail            \* every notice sent about each job, in order

jobVars  == <<state, status, pidOf, pipe, pending, exec>>
tabVars  == <<manager, nb_process, errf>>
connVars == <<conn, gone, inbox, communication_socket>>
loopVars == <<batch, waiting>>
vars == <<jobVars, tabVars, connVars, loopVars, daemon, mail>>

-----------------------------------------------------------------------------
(* Types.                                                                  *)

Alive == {"cloned", "running", "failed", "stopped"}
Unreaped == Alive \cup {"zombie"}
JobState == Unreaped \cup {"unborn", "requested", "refused", "reaped"}

WaitStatus == [how : {"exited", "signaled"}, code : Nat]

Message == [type : {"run", "kill", "shutdown", "other", "empty", "short"},
            job  : Job \cup {NULL},
            pid  : Pid \cup {NULL}]

Notice == [type : {"ProcessLaunched", "ChildCreationError",
                   "ExecveTerminated", "ProcessTerminated"},
           to   : Conn \cup {NULL},     \* NULL: it reached nobody
           val  : Nat]

Event == [src : {"SIGNALFD", "SOCK_CONNEXION", "SOCK_MESSAGE", "EXECVE"},
          id  : Conn \cup Job \cup {NULL}]

TypeOK ==
    /\ state \in [Job -> JobState]
    /\ status \in [Job -> WaitStatus \cup {NULL}]
    /\ pidOf \in [Job -> Pid \cup {NULL}]
    /\ pipe \in [Job -> {"none", "quiet", "errno", "cloexec", "hangup", "closed"}]
    /\ pending \in Pid \cup {NULL}
    /\ exec \in [Job -> {"none", "ok", "failed"}]
    /\ manager \in Table
    /\ nb_process \in Int
    /\ errf \in [Job -> {"none", "open", "stdout", "closed", "reclosed"}]
    /\ conn \in [Conn -> {"none", "backlog", "open", "closed"}]
    /\ gone \in SUBSET Conn
    /\ inbox \in [Conn -> Seq(Message)]
    /\ communication_socket \in Conn \cup {NULL}
    /\ batch \in SUBSET Event
    /\ waiting \in Pid \cup {NULL}
    /\ daemon \in {"up", "segv", "sigpipe", "exited", "terminated"}
    /\ mail \in [Job -> Seq(Notice)]

Init ==
    /\ state = [j \in Job |-> "unborn"]
    /\ status = [j \in Job |-> NULL]
    /\ pidOf = [j \in Job |-> NULL]
    /\ pipe = [j \in Job |-> "none"]
    /\ pending = NULL
    /\ exec = [j \in Job |-> "none"]
    /\ manager = create_process_manager
    /\ nb_process = 0
    /\ errf = [j \in Job |-> "none"]
    /\ conn = [c \in Conn |-> "none"]
    /\ gone = {}
    /\ inbox = [c \in Conn |-> <<>>]
    /\ communication_socket = NULL
    /\ batch = {}
    /\ waiting = NULL
    /\ daemon = "up"
    /\ mail = [j \in Job |-> <<>>]

Up == daemon = "up"

(* The notices of one type sent about job j.                               *)
Sent(j, type) == {i \in 1 .. Len(mail[j]) : mail[j][i].type = type}

-----------------------------------------------------------------------------
(* Clients.                                                                *)

Connect(c) ==
    /\ Up
    /\ conn[c] = "none"
    /\ conn' = [conn EXCEPT ![c] = "backlog"]
    /\ UNCHANGED <<jobVars, tabVars, gone, inbox, communication_socket,
                   loopVars, daemon, mail>>

(* A client hears of the end of a job from ChildCreationError, or from     *)
(* ExecveTerminated and ProcessTerminated together.                        *)
UnderWay(j) ==
    /\ state[j] # "unborn"
    /\ Sent(j, "ChildCreationError") = {}
    /\ Sent(j, "ExecveTerminated") = {} \/ Sent(j, "ProcessTerminated") = {}

Put(c, m) ==
    /\ Up
    /\ conn[c] \in {"backlog", "open"}
    /\ c \notin gone
    /\ Len(inbox[c]) < MaxInbox
    /\ inbox' = [inbox EXCEPT ![c] = Append(@, m)]
    /\ UNCHANGED <<status, pidOf, pipe, pending, exec, tabVars, conn, gone,
                   communication_socket, loopVars, daemon, mail>>

SendRun(c, j) ==
    /\ state[j] = "unborn"
    /\ Cardinality({k \in Job : UnderWay(k)}) < Window
    /\ Put(c, [type |-> "run", job |-> j, pid |-> NULL])
    /\ state' = [state EXCEPT ![j] = "requested"]

(* A client names a pid it was told of, of a process that may be long gone. *)
SendKill(c, j) ==
    /\ "kill" \in Env
    /\ Sent(j, "ProcessLaunched") # {}
    /\ Put(c, [type |-> "kill", job |-> NULL, pid |-> pidOf[j]])
    /\ UNCHANGED state

SendPlain(c, type) ==
    /\ type \in Env \cap {"shutdown", "other", "empty", "short"}
    /\ Put(c, [type |-> type, job |-> NULL, pid |-> NULL])
    /\ UNCHANGED state

(* The kernel drops what was not read when it answers with a reset.        *)
Disconnect(c) ==
    /\ Up
    /\ "leave" \in Env
    /\ conn[c] \in {"backlog", "open"}
    /\ c \notin gone
    /\ gone' = gone \cup {c}
    /\ inbox' \in {inbox, [inbox EXCEPT ![c] = <<>>]}
    /\ UNCHANGED <<jobVars, tabVars, conn, communication_socket, loopVars,
                   daemon, mail>>

-----------------------------------------------------------------------------
(* Children and the kernel.  At most one SIGCHLD is pending: one raised    *)
(* while another waits to be read is dropped, and with it its pid.         *)

Raise(p) == pending' = IF pending = NULL THEN p ELSE pending

ChildVarsOnly ==
    UNCHANGED <<pidOf, tabVars, connVars, loopVars, daemon, mail>>

(* The end of a process closes its end of the pipe, if it still has it.    *)
Dies(j, ws) ==
    /\ state' = [state EXCEPT ![j] = "zombie"]
    /\ status' = [status EXCEPT ![j] = ws]
    /\ pipe' = [pipe EXCEPT ![j] = IF @ = "quiet" THEN "hangup" ELSE @]
    /\ Raise(pidOf[j])

(* Seeded fault: the pipe is not marked FD_CLOEXEC.                        *)
PipeKeptByExec(p) == p

(* The pipe p once execve has closed its writing end.                      *)
PipeAfterExec(p) == IF p = "quiet" THEN "cloexec" ELSE p

ChildExec(j) ==
    /\ Up
    /\ state[j] = "cloned"
    /\ state' = [state EXCEPT ![j] = "running"]
    /\ pipe' = [pipe EXCEPT ![j] = PipeAfterExec(@)]
    /\ exec' = [exec EXCEPT ![j] = "ok"]
    /\ UNCHANGED <<status, pending>>
    /\ ChildVarsOnly

(* execve fails and errno is written.                                      *)
ChildExecFail(j) ==
    /\ Up
    /\ state[j] = "cloned"
    /\ state' = [state EXCEPT ![j] = "failed"]
    /\ pipe' = [pipe EXCEPT ![j] = IF @ = "quiet" THEN "errno" ELSE @]
    /\ exec' = [exec EXCEPT ![j] = "failed"]
    /\ UNCHANGED <<status, pending>>
    /\ ChildVarsOnly

(* execve fails and nobody has the pipe open to read errno.                *)
ChildSigpipe(j) ==
    /\ Up
    /\ state[j] = "cloned"
    /\ pipe[j] = "closed"
    /\ Dies(j, [how |-> "signaled", code |-> SIGPIPE])
    /\ exec' = [exec EXCEPT ![j] = "failed"]
    /\ ChildVarsOnly

ChildFailExit(j) ==
    /\ Up
    /\ state[j] = "failed"
    /\ Dies(j, [how |-> "exited", code |-> ERRNO])
    /\ UNCHANGED exec
    /\ ChildVarsOnly

ChildExit(j, code) ==
    /\ Up
    /\ state[j] = "running"
    /\ Dies(j, [how |-> "exited", code |-> code])
    /\ UNCHANGED exec
    /\ ChildVarsOnly

ChildCrash(j) ==
    /\ Up
    /\ "crash" \in Env
    /\ state[j] \in Alive
    /\ Dies(j, [how |-> "signaled", code |-> SIGKILL])
    /\ UNCHANGED exec
    /\ ChildVarsOnly

(* Stopping and continuing raise SIGCHLD like an exit does.                *)
ChildStop(j) ==
    /\ Up
    /\ "stop" \in Env
    /\ state[j] = "running"
    /\ state' = [state EXCEPT ![j] = "stopped"]
    /\ Raise(pidOf[j])
    /\ UNCHANGED <<status, pipe, exec>>
    /\ ChildVarsOnly

ChildContinue(j) ==
    /\ Up
    /\ state[j] = "stopped"
    /\ state' = [state EXCEPT ![j] = "running"]
    /\ Raise(pidOf[j])
    /\ UNCHANGED <<status, pipe, exec>>
    /\ ChildVarsOnly

-----------------------------------------------------------------------------
(* The loop.                                                               *)

Ev(src, id) == [src |-> src, id |-> id]

Ready ==
    {Ev("SIGNALFD", NULL) : p \in {pending} \ {NULL}}
    \cup {Ev("SOCK_CONNEXION", NULL) : c \in {d \in Conn : conn[d] = "backlog"}}
    \cup {Ev("SOCK_MESSAGE", c) :
             c \in {d \in Conn : conn[d] = "open" /\ (inbox[d] # <<>> \/ d \in gone)}}
    \cup {Ev("EXECVE", j) : j \in {k \in Job : pipe[k] \in {"errno", "cloexec", "hangup"}}}

(* The batch is a set: the order of its events is left open.               *)
EpollWait ==
    /\ Up
    /\ waiting = NULL
    /\ batch = {}
    /\ Ready # {}
    /\ batch' \in {S \in SUBSET Ready :
                      \/ S = Ready /\ Cardinality(Ready) <= MAX_EVENTS
                      \/ Cardinality(S) = MAX_EVENTS}
    /\ UNCHANGED <<jobVars, tabVars, connVars, waiting, daemon, mail>>

(* The handler of event e runs.                                            *)
Handles(e) ==
    /\ Up
    /\ waiting = NULL
    /\ e \in batch
    /\ batch' = batch \ {e}

(* send_message on connection c, of a notice about the jobs in js.  A peer *)
(* that has left is not told, and the daemon may be ended by SIGPIPE; a    *)
(* closed descriptor only makes send fail.                                 *)
Notify(c, js, type, val) ==
    \/ /\ mail' = [j \in Job |->
                     IF j \notin js THEN mail[j]
                     ELSE Append(mail[j],
                            [type |-> type, val |-> val,
                             to |-> IF conn[c] = "open" /\ c \notin gone
                                    THEN c ELSE NULL])]
       /\ UNCHANGED daemon
    \/ /\ conn[c] = "open" /\ c \in gone
       /\ daemon' = "sigpipe"
       /\ UNCHANGED mail

-----------------------------------------------------------------------------
(* SOCK_CONNEXION.                                                         *)

(* The greeting (TCPSocketListening) can meet a peer that has left.        *)
Accept(c) ==
    /\ Handles(Ev("SOCK_CONNEXION", NULL))
    /\ conn[c] = "backlog"
    /\ conn' = [conn EXCEPT ![c] = "open"]
    /\ communication_socket' = c
    /\ daemon' \in {"up"} \cup {"sigpipe" : d \in gone \cap {c}}
    /\ UNCHANGED <<jobVars, tabVars, gone, inbox, waiting, mail>>

AcceptFails ==
    /\ "epoll" \in Env
    /\ Handles(Ev("SOCK_CONNEXION", NULL))
    /\ daemon' = "exited"
    /\ UNCHANGED <<jobVars, tabVars, connVars, waiting, mail>>

-----------------------------------------------------------------------------
(* SOCK_MESSAGE.                                                           *)

(* Seeded faults: a message is looked at and left; everything that has     *)
(* arrived is taken for one message.                                       *)
AllKept(msgs) == msgs
AllTaken(msgs) == <<>>

(* What read_socket_message leaves of the messages that have arrived.      *)
RestOf(msgs) == Tail(msgs)

(* read_socket_message returns a message of this type on connection c.     *)
Reads(c, type) ==
    /\ Handles(Ev("SOCK_MESSAGE", c))
    /\ inbox[c] # <<>>
    /\ Head(inbox[c]).type = type
    /\ inbox' = [inbox EXCEPT ![c] = RestOf(@)]
    /\ UNCHANGED <<gone, waiting>>

(* read_socket_message returns NULL, which the caller dereferences.        *)
ReadsNull(c) ==
    /\ Handles(Ev("SOCK_MESSAGE", c))
    /\ inbox[c] # <<>> => Head(inbox[c]).type = "short"
    /\ daemon' = "segv"
    /\ UNCHANGED <<jobVars, tabVars, connVars, waiting, mail>>

(* Seeded fault: the wrong socket is closed.                               *)
ClosesCommunicationSocket(c) ==
    /\ Reads(c, "empty")
    /\ conn' = [conn EXCEPT ![communication_socket] = "closed"]
    /\ UNCHANGED <<jobVars, tabVars, communication_socket, daemon, mail>>

ReadsEmpty(c) ==
    /\ Reads(c, "empty")
    /\ conn' = [conn EXCEPT ![c] = "closed"]
    /\ UNCHANGED <<jobVars, tabVars, communication_socket, daemon, mail>>

(* Seeded fault: what is no command is read as one.                        *)
ReadsOtherAsRun(c) ==
    /\ Reads(c, "other")
    /\ daemon' = "segv"
    /\ UNCHANGED <<jobVars, tabVars, conn, communication_socket, mail>>

ReadsOther(c) ==
    /\ Reads(c, "other")
    /\ UNCHANGED <<jobVars, tabVars, conn, communication_socket, daemon, mail>>

(* A child may have the pid of no process that is still to be reaped.      *)
FreshPids ==
    {p \in Pid : \A j \in Job :
        pidOf[j] = p => state[j] = "reaped" /\ "reuse" \in Env}

(* The descriptors initialize_error_file can give job j.                   *)
ErrFiles(j) == {j} \cup {STDOUT : m \in Env \cap {"open"}}

ErrFileState(fd) ==
    IF fd = NULL THEN "none" ELSE IF fd = STDOUT THEN "stdout" ELSE "open"

(* process_command_request: the error file, the clone, the table, the      *)
(* answer to the client that asked, and the pipe under epoll.              *)
LaunchProcess(c, j, p, fd, watched) ==
    /\ Reads(c, "run")
    /\ Head(inbox[c]).job = j
    /\ p \in FreshPids
    /\ fd \in ErrFiles(j)
    /\ watched \/ "epoll" \in Env
    /\ state' = [state EXCEPT ![j] = "cloned"]
    /\ pidOf' = [pidOf EXCEPT ![j] = p]
    /\ pipe' = [pipe EXCEPT ![j] = IF watched THEN "quiet" ELSE "closed"]
    /\ errf' = [errf EXCEPT ![j] = ErrFileState(fd)]
    /\ manager' = manager_add_process(p, manager, fd, j, nb_process)
    /\ nb_process' = nb_process
                     + (IF add_result(manager, nb_process) # 0 THEN 1 ELSE 0)
    /\ Notify(c, {j}, "ProcessLaunched", 0)
    /\ UNCHANGED <<status, pending, exec, conn, communication_socket>>

(* No parameters can be extracted from the request (fd is NULL, no error   *)
(* file was opened), or launch_process returns NULL and the error file is  *)
(* left open.                                                              *)
LaunchRefused(c, j, fd) ==
    /\ "clone" \in Env
    /\ Reads(c, "run")
    /\ Head(inbox[c]).job = j
    /\ fd \in ErrFiles(j) \cup {NULL}
    /\ state' = [state EXCEPT ![j] = "refused"]
    /\ errf' = [errf EXCEPT ![j] = ErrFileState(fd)]
    /\ Notify(c, {j}, "ChildCreationError", 0)
    /\ UNCHANGED <<status, pidOf, pipe, pending, exec, manager, nb_process,
                   conn, communication_socket>>

PipeFails(c) ==
    /\ "pipe" \in Env
    /\ Reads(c, "run")
    /\ daemon' = "exited"
    /\ UNCHANGED <<jobVars, tabVars, conn, communication_socket, mail>>

Holders(p) == {j \in Job : pidOf[j] = p /\ state[j] \in Unreaped}

(* Seeded fault: only processes found in the table are killed.             *)
TrackedVictims(p) ==
    {j \in Holders(p) : state[j] \in Alive /\ Matches(p, manager, nb_process) # {}}

(* The process kill(p, SIGKILL) ends: none for a zombie or an unknown pid. *)
Victims(p) == {j \in Holders(p) : state[j] \in Alive}

KillProcess(c) ==
    /\ Reads(c, "kill")
    /\ LET victims == Victims(Head(inbox[c]).pid)
       IN  IF victims = {}
           THEN UNCHANGED <<state, status, pipe, pending>>
           ELSE \E j \in victims :
                   Dies(j, [how |-> "signaled", code |-> SIGKILL])
    /\ UNCHANGED <<pidOf, exec, tabVars, conn, communication_socket, daemon, mail>>

Closed(S) ==
    [j \in Job |-> IF j \notin S THEN errf[j]
                   ELSE IF errf[j] = "open" THEN "closed" ELSE "reclosed"]

(* KILL_PROCESS 0: free_manager, then SIGTERM to the whole group.  What    *)
(* has not reached its program dies of it, a program may handle it.        *)
KillDaemon(c) ==
    /\ Reads(c, "shutdown")
    /\ \/ /\ nb_process > MAX_PROCESS
          /\ daemon' = "segv"
          /\ UNCHANGED <<state, status, errf, manager>>
       \/ /\ daemon' = "terminated"
          /\ errf' = Closed(free_manager(manager, nb_process))
          /\ manager' = [i \in Slot |->
                           IF i \in Scanned(nb_process)
                           THEN [manager[i] EXCEPT !.stack_p = NULL]
                           ELSE manager[i]]
          /\ \E spared \in SUBSET {j \in Job : state[j] \in {"running", "stopped"}} :
                LET hit == {j \in Job : state[j] \in Alive} \ spared
                IN  /\ state' = [j \in Job |-> IF j \in hit THEN "zombie" ELSE state[j]]
                    /\ status' = [j \in Job |->
                                    IF j \in hit
                                    THEN [how |-> "signaled", code |-> SIGTERM]
                                    ELSE status[j]]
    /\ UNCHANGED <<pidOf, pipe, pending, exec, nb_process, conn,
                   communication_socket, mail>>

-----------------------------------------------------------------------------
(* EXECVE: a read of the pipe gives errno, or end of file for whatever     *)
(* reason.  The EPOLLIN and the EPOLLHUP branch of main do the same.       *)

(* Seeded fault: what the read returned is not looked at.                  *)
AlwaysSuccess(p) == 1

success(p) == IF p = "errno" THEN 0 ELSE 1

(* Seeded fault: the pipe stays under epoll.                               *)
PipeKept(p) == p

(* EPOLL_CTL_DEL and close.                                                *)
PipeAfterNotice(p) == "closed"

HandleExecve(j) ==
    /\ Handles(Ev("EXECVE", j))
    /\ Notify(communication_socket, {j}, "ExecveTerminated", success(pipe[j]))
    /\ pipe' = [pipe EXCEPT ![j] = PipeAfterNotice(@)]
    /\ UNCHANGED <<state, status, pidOf, pending, exec, tabVars, connVars, waiting>>

-----------------------------------------------------------------------------
(* SIGNALFD: one siginfo is read and its pid waited for.                   *)

(* Seeded fault: a signal is told apart by its sign.                       *)
NegatedSignal(ws) == IF ws.how = "exited" THEN ws.code ELSE -ws.code

(* WEXITSTATUS and WTERMSIG go into the same field of the notice.          *)
exit_status(ws) == ws.code

(* Seeded fault: the count goes down before the scan.                      *)
ScanOfTheRest == nb_process - 1

(* The number of records manager_remove_process is told to scan.           *)
ScanSize == nb_process

(* Seeded fault: only a process found in the table is counted down.        *)
CountedIfFound(p) ==
    IF Matches(p, manager, ScanSize) = {} THEN nb_process ELSE nb_process - 1

CountAfter(p) == nb_process - 1

(* handle_SIGCHLD once waitpid has returned, and the notice main sends.    *)
AfterWait(p, js, code) ==
    \/ /\ ScanOverruns(p, manager, ScanSize)
       /\ daemon' = "segv"
       /\ UNCHANGED <<manager, nb_process, errf, mail>>
    \/ /\ manager' = manager_remove_process(p, manager, ScanSize)
       /\ errf' = Closed({removed_err_file(p, manager, ScanSize)})
       /\ nb_process' = CountAfter(p)
       /\ Notify(communication_socket, js, "ProcessTerminated", code)

(* Seeded fault: a process ended by a signal gives no notice.              *)
ReportedIfExited(j) == {k \in {j} : status[k].how = "exited"}

(* The job the notice is about, exited or signaled.                        *)
Reported(j) == {j}

(* waitpid returns the status of job j, which is reaped.                   *)
Reap(j) ==
    /\ state[j] = "zombie"
    /\ state' = [state EXCEPT ![j] = "reaped"]
    /\ AfterWait(pidOf[j], Reported(j), exit_status(status[j]))

(* Seeded fault: the siginfo stays queued.                                 *)
SignalKept == pending

(* read(2) takes the siginfo.                                              *)
SignalAfterRead == NULL

HandleSignal ==
    /\ Handles(Ev("SIGNALFD", NULL))
    /\ pending' = SignalAfterRead
    /\ \E j \in Holders(pending) : Reap(j)
    /\ UNCHANGED <<status, pidOf, pipe, exec, connVars, waiting>>

(* Seeded fault: waitpid does not wait (WNOHANG) and its result is unused.  *)
SignalDoesNotWait ==
    /\ Handles(Ev("SIGNALFD", NULL))
    /\ pending' = SignalAfterRead
    /\ \E j \in Holders(pending), garbage \in ExitCode :
          state[j] \in Alive /\ AfterWait(pending, {j}, garbage)
    /\ UNCHANGED <<state, status, pidOf, pipe, exec, connVars, waiting>>

(* The child of the siginfo has not ended: waitpid blocks the loop.        *)
HandleSignalBlocks ==
    /\ Handles(Ev("SIGNALFD", NULL))
    /\ pending' = SignalAfterRead
    /\ \E j \in Holders(pending) : state[j] \in Alive
    /\ waiting' = pending
    /\ UNCHANGED <<state, status, pidOf, pipe, exec, tabVars, connVars, daemon,
                   mail>>

WaitReturns ==
    /\ Up
    /\ waiting # NULL
    /\ waiting' = NULL
    /\ \E j \in Holders(waiting) : Reap(j)
    /\ UNCHANGED <<status, pidOf, pipe, pending, exec, connVars, batch>>

(* The child was reaped before: waitpid fails with ECHILD, which nobody    *)
(* looks at, and wstatus was never written.                                *)
HandleSignalStale ==
    /\ Handles(Ev("SIGNALFD", NULL))
    /\ pending' = SignalAfterRead
    /\ Holders(pending) = {}
    /\ \E garbage \in ExitCode :
          AfterWait(pending, {j \in Job : pidOf[j] = pending}, garbage)
    /\ UNCHANGED <<state, status, pidOf, pipe, exec, connVars, waiting>>

-----------------------------------------------------------------------------
ClientStep ==
    \E c \in Conn :
       \/ Connect(c)
       \/ \E j \in Job : SendRun(c, j) \/ SendKill(c, j)
       \/ \E type \in EnvMoves : SendPlain(c, type)
       \/ Disconnect(c)

ChildStep ==
    \E j \in Job :
       \/ ChildExec(j) \/ ChildExecFail(j) \/ ChildSigpipe(j)
       \/ ChildFailExit(j)
       \/ \E code \in ExitCode : ChildExit(j, code)
       \/ ChildCrash(j) \/ ChildStop(j) \/ ChildContinue(j)

HandleMessage(c) ==
    \/ ReadsNull(c) \/ ReadsEmpty(c) \/ ReadsOther(c)
    \/ \E j \in Job, fd \in Job \cup {STDOUT}, p \in Pid, watched \in BOOLEAN :
          LaunchProcess(c, j, p, fd, watched)
    \/ \E j \in Job, fd \in Job \cup {NULL, STDOUT} : LaunchRefused(c, j, fd)
    \/ PipeFails(c)
    \/ KillProcess(c) \/ KillDaemon(c)

DaemonStep ==
    \/ EpollWait
    \/ AcceptFails \/ \E c \in Conn : Accept(c) \/ HandleMessage(c)
    \/ \E j \in Job : HandleExecve(j)
    \/ HandleSignal \/ HandleSignalBlocks \/ HandleSignalStale \/ WaitReturns

Next == ClientStep \/ ChildStep \/ DaemonStep

Spec == Init /\ [][Next]_vars

(* The daemon, when it has an event, is scheduled; so is a child on its    *)
(* short way to execve, and to _exit after a failed one.  Nothing is       *)
(* assumed of programs and clients.                                        *)
Fairness ==
    /\ WF_vars(DaemonStep)
    /\ \A j \in Job : /\ WF_vars(ChildExec(j) \/ ChildExecFail(j))
                      /\ WF_vars(ChildFailExit(j))

FairSpec == Spec /\ Fairness

-----------------------------------------------------------------------------
(* Properties of the table.                                                *)

(* manager_add_process and manager_remove_process keep the record of a     *)
(* child, and with it the stack the child may still run on, until waitpid  *)
(* has returned for that child.                                            *)
NeverFreesLive ==
    [][Up' => \A i \in Occupied(manager) :
                 manager'[i].stack_p # manager[i].stack_p
                    => state'[manager[i].stack_p] = "reaped"]_vars

(* The loop of manager_remove_process compares no child_id that was never  *)
(* written, although create_process_manager leaves all of them undefined.  *)
ScanReadsWritten ==
    Up => \A i \in Scanned(nb_process) : manager[i].child_id # NULL

(* nb_process is the number of children still to be waited for.            *)
CountIsExact ==
    Up => nb_process = Cardinality({j \in Job : state[j] \in Unreaped})

(* No error file is closed twice, as the second close would hit whatever   *)
(* has its descriptor by then, unless the pid of its process was given to  *)
(* another one while the record of the first still shows it.               *)
ErrFileClosedOnce ==
    \A j \in Job : errf[j] = "reclosed" =>
                      \E k \in Job \ {j} : pidOf[k] = pidOf[j]

(* Between two jobs of a client that waits for each one's end, the table   *)
(* is empty, the count is zero and every error file opened for a child is  *)
(* closed.                                                                 *)
IdleIsClean ==
    (Up /\ \A j \in Job : state[j] \notin Unreaped) =>
       /\ Occupied(manager) = {}
       /\ nb_process = 0
       /\ \A j \in Job : state[j] = "reaped" => errf[j] # "open"

(* A pid names at most one process that was not waited for.                *)
PidInv ==
    /\ \A j \in Job : state[j] \in Unreaped \cup {"reaped"} => pidOf[j] \in Pid
    /\ \A j, k \in Job :
          (state[j] \in Unreaped /\ state[k] \in Unreaped /\ pidOf[j] = pidOf[k])
             => j = k

(* An occupied record belongs to a launched process and shows its pid.     *)
RecordInv ==
    \A i \in Occupied(manager) :
       /\ state[manager[i].stack_p] \in Unreaped \cup {"reaped"}
       /\ manager[i].child_id = pidOf[manager[i].stack_p]

IsRun(c, i) == inbox[c][i].type = "run"

(* A request to be read is of a job that was not launched, and it is the   *)
(* only one of that job.                                                   *)
RequestInv ==
    /\ \A c \in Conn : \A i \in 1 .. Len(inbox[c]) : IsRun(c, i) =>
          inbox[c][i].job \in Job /\ state[inbox[c][i].job] = "requested"
    /\ \A c, d \in Conn :
       \A i \in 1 .. Len(inbox[c]), k \in 1 .. Len(inbox[d]) :
          (IsRun(c, i) /\ IsRun(d, k) /\ inbox[c][i].job = inbox[d][k].job)
             => c = d /\ i = k

(* The kernel's processes, the table and the requests still to be read     *)
(* agree: what NeverFreesLive rests on.                                    *)
Consistent == PidInv /\ RecordInv /\ RequestInv

(* An ended process has its wait status.                                   *)
StatusInv ==
    \A j \in Job : state[j] \in {"zombie", "reaped"} => status[j] \in WaitStatus

-----------------------------------------------------------------------------
(* Properties of the loop.                                                 *)

(* An event is still there when its turn in the batch comes, so no read,   *)
(* accept or waitpid of the loop blocks on a descriptor already drained.   *)
BatchStaysReady == Up => batch \subseteq Ready

(* The daemon ends when it is asked to, and otherwise only because of a    *)
(* client that has left or a message that has not arrived in full: not     *)
(* because of messages without content or of no known type, of kills that  *)
(* come late, or of the order in which several clients send them.          *)
EndsForAReason ==
    /\ daemon = "segv" =>
          \E c \in Conn : /\ conn[c] = "open"
                          /\ \/ c \in gone
                             \/ inbox[c] # <<>> /\ Head(inbox[c]).type = "short"
    /\ daemon = "sigpipe" => gone # {}
    /\ daemon # "exited"

-----------------------------------------------------------------------------
(* Properties of the notices.                                              *)

(* The first notice about a job is the answer to its request, it is the    *)
(* only answer, and nothing follows a refusal.                             *)
AnsweredFirst ==
    \A j \in Job :
       /\ \A i \in 1 .. Len(mail[j]) :
             mail[j][i].type \in {"ProcessLaunched", "ChildCreationError"} <=> i = 1
       /\ Sent(j, "ChildCreationError") # {} => Len(mail[j]) = 1

(* ExecveTerminated is sent once at most, not before the child has either  *)
(* gone through execve or ended, and says failure exactly for a child that *)
(* wrote the errno of its execve, also when that child has ended, and was  *)
(* waited for, by the time its pipe is read.  Of a child that was killed   *)
(* before that, success is told.                                           *)
ExecNoticeSound ==
    \A j \in Job :
       LET told == Sent(j, "ExecveTerminated")
       IN  /\ Cardinality(told) <= 1
           /\ state[j] \in {"cloned", "requested", "refused"} => told = {}
           /\ \A i \in told : mail[j][i].val = 0 <=> exec[j] = "failed"

(* ProcessTerminated is sent for a process that was waited for, and the    *)
(* first such notice has the code the process ended with.                  *)
TerminatedSound ==
    \A j \in Job : \A i \in Sent(j, "ProcessTerminated") :
       /\ state[j] = "reaped"
       /\ (\A k \in Sent(j, "ProcessTerminated") : i <= k)
             => mail[j][i].val = status[j].code

-----------------------------------------------------------------------------
(* What eventually happens.                                                *)

(* Every request is answered.                                              *)
RequestIsAnswered ==
    \A j \in Job : (state[j] = "requested") ~> (mail[j] # <<>> \/ ~Up)

(* Every launched child's execve is reported, success or not.              *)
ExecIsReported ==
    \A j \in Job :
       (state[j] = "cloned") ~> (Sent(j, "ExecveTerminated") # {} \/ ~Up)

(* A kill sent for a process ends it, whatever else is going on.           *)
KillIsServed ==
    \A j \in Job, c \in Conn :
       (/\ state[j] \in Alive
        /\ \E i \in 1 .. Len(inbox[c]) :
              inbox[c][i].type = "kill" /\ inbox[c][i].pid = pidOf[j])
          ~> (state[j] \notin Alive \/ ~Up)

(* Every process that ends is reported.                                    *)
EndIsReported ==
    \A j \in Job :
       (state[j] = "zombie") ~> (Sent(j, "ProcessTerminated") # {} \/ ~Up)

=============================================================================
