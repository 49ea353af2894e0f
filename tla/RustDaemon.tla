----------------------------- MODULE RustDaemon -----------------------------
(***************************************************************************)
(* The Rust daemon: rust/src/bin/main.rs with the monitoring tools it      *)
(* uses.  A task per connection reads a message, handles it to its end and *)
(* reads the next one.  Every await is a point where other tasks run, and  *)
(* an action goes from one to the next.                                    *)
(*                                                                         *)
(* Tasks run on the threads of tokio.  The task that waits for a change of *)
(* a file does so in a system call and keeps its thread; when all threads  *)
(* are kept, no task takes a step, and no connection is accepted.          *)
(***************************************************************************)
EXTENDS Naturals, Sequences, FiniteSets

CONSTANTS
    Conn,       \* client connections
    Job,        \* jobs clients ask for
    Watches,    \* to_watch of each job: a sequence of "file" and "port"
    Workers,    \* threads of the runtime
    NULL,
    Leavers,    \* connections whose client may close them
    Env         \* what the environment may do, a subset of EnvMoves

EnvMoves ==
    {"spawn",   \* spawn fails for a reason other than a missing program
     "path",    \* the path of a watch does not exist, or not any more
     "kill",    \* clients ask for processes to be killed
     "group",   \* clients send pid 0
     "other",   \* clients send messages of another type
     "bad"}     \* clients send what is not a message, or no known watch

ASSUME WatchesAssumption == Watches \in [Job -> Seq({"file", "port"})]
ASSUME WorkersAssumption == Workers \in Nat \ {0}
ASSUME NullAssumption == NULL \notin Conn \cup Job
ASSUME EnvAssumption == Env \subseteq EnvMoves

VARIABLES
    conn,       \* "none", "backlog", "open", or "closed" by the daemon
    gone,       \* connections whose client has left
    inbox,      \* messages to be read on each connection
    task,       \* the task of each connection
    child,      \* the process of each job
    mail,       \* the notices about each job, in order
    daemon      \* "up" or "killed"

vars == <<conn, gone, inbox, task, child, mail, daemon>>

(* Where a task is: at read_exact, at one of the two sends after spawn, at *)
(* child.wait, before the watch number at, in it, or at the last send.     *)
Pc == {"none", "read", "exec", "absent", "refused", "wait", "watch", "armed",
       "blocked", "polling", "end", "dead"}

(* Behind child.wait, or where spawn has failed.                           *)
Behind == {"watch", "armed", "blocked", "polling", "end"}
Busy == {"exec", "absent", "refused", "wait"} \cup Behind

Message == [type : {"run", "kill", "group", "other", "bad"},
            job  : Job \cup {NULL}]
Types == {"ProcessLaunched", "ChildCreationError", "ExecveTerminated",
          "ProcessTerminated"}
Idle == [pc |-> "read", job |-> NULL, at |-> 0]

VarTypes ==
    /\ conn \in [Conn -> {"none", "backlog", "open", "closed"}]
    /\ gone \subseteq Conn
    /\ inbox \in [Conn -> Seq(Message)]
    /\ task \in [Conn -> [pc : Pc, job : Job \cup {NULL}, at : Nat]]
    /\ child \in [Job -> {"unborn", "asked", "alive", "zombie", "reaped", "none"}]
    /\ mail \in [Job -> Seq(Types)]
    /\ daemon \in {"up", "killed"}

(* A task has a job while handle_message runs and none while it reads; it  *)
(* keeps it if it panics.                                                  *)
Employed ==
    \A c \in Conn : /\ task[c].pc \in Busy => task[c].job \in Job
                    /\ task[c].pc \in {"none", "read"} => task[c].job = NULL

TypeOK == VarTypes /\ Employed

Init ==
    /\ conn = [c \in Conn |-> "none"]
    /\ gone = {}
    /\ inbox = [c \in Conn |-> <<>>]
    /\ task = [c \in Conn |-> [Idle EXCEPT !.pc = "none"]]
    /\ child = [j \in Job |-> "unborn"]
    /\ mail = [j \in Job |-> <<>>]
    /\ daemon = "up"

Up == daemon = "up"

Blocked == {c \in Conn : task[c].pc = "blocked"}

(* Seeded fault: a runtime with one thread.                                 *)
OneThread == Blocked = {}

(* A thread is free to poll a task.                                        *)
Free == Cardinality(Blocked) < Workers

-----------------------------------------------------------------------------
(* Clients, processes and files.                                           *)

Connect(c) ==
    /\ Up /\ conn[c] = "none"
    /\ conn' = [conn EXCEPT ![c] = "backlog"]
    /\ UNCHANGED <<gone, inbox, task, child, mail, daemon>>

(* A client has at most one message unread (a bound).                      *)
Put(c, m) ==
    /\ Up /\ conn[c] \in {"backlog", "open"} /\ c \notin gone
    /\ inbox[c] = <<>>
    /\ inbox' = [inbox EXCEPT ![c] = <<m>>]
    /\ UNCHANGED <<conn, gone, task, mail, daemon>>

SendRun(c, j) ==
    /\ child[j] = "unborn"
    /\ Put(c, [type |-> "run", job |-> j])
    /\ child' = [child EXCEPT ![j] = "asked"]

SendKill(c, j) ==
    /\ "kill" \in Env
    /\ child[j] = "alive" /\ mail[j] # <<>>
    /\ Put(c, [type |-> "kill", job |-> j])
    /\ UNCHANGED child

SendPlain(c, type) ==
    /\ type \in Env \cap {"group", "other", "bad"}
    /\ Put(c, [type |-> type, job |-> NULL])
    /\ UNCHANGED child

Leave(c) ==
    /\ c \in Leavers
    /\ Up /\ conn[c] \in {"backlog", "open"} /\ c \notin gone
    /\ gone' = gone \cup {c}
    /\ UNCHANGED <<conn, inbox, task, child, mail, daemon>>

ChildEnds(j) ==
    /\ Up /\ child[j] = "alive"
    /\ child' = [child EXCEPT ![j] = "zombie"]
    /\ UNCHANGED <<conn, gone, inbox, task, mail, daemon>>

-----------------------------------------------------------------------------
(* Tasks.                                                                  *)

Goto(c, pc) == task' = [task EXCEPT ![c].pc = pc]

(* send_on_socket: what write returns is not looked at, so that a client   *)
(* that has left changes nothing.                                          *)
Notify(j, type) == mail' = [mail EXCEPT ![j] = Append(@, type)]

(* The task of connection c is polled at pc.                               *)
At(c, pc) ==
    /\ Up /\ Free
    /\ task[c].pc = pc
    /\ UNCHANGED <<gone, daemon>>

(* A panic drops the socket with the task.                                 *)
Panic(c) ==
    /\ Goto(c, "dead")
    /\ conn' = [conn EXCEPT ![c] = "closed"]

(* main: accept, the greeting, tokio::spawn.                               *)
Accept(c) ==
    /\ conn[c] = "backlog"
    /\ At(c, "none")
    /\ conn' = [conn EXCEPT ![c] = "open"]
    /\ Goto(c, "read")
    /\ UNCHANGED <<inbox, child, mail>>

(* read_exact fails: the client has left.                                  *)
ReadEnd(c) ==
    /\ At(c, "read")
    /\ inbox[c] = <<>> /\ c \in gone
    /\ Goto(c, "dead")
    /\ conn' = [conn EXCEPT ![c] = "closed"]
    /\ UNCHANGED <<inbox, child, mail>>

(* The two read_exact return a message of this type.                       *)
Reads(c, type) ==
    /\ At(c, "read")
    /\ inbox[c] # <<>> /\ Head(inbox[c]).type = type
    /\ inbox' = [inbox EXCEPT ![c] = Tail(@)]

(* RunCommand: spawn, and the answer, which is the same if spawn fails.    *)
Spawn(c, j, next) ==
    /\ Reads(c, "run") /\ Head(inbox[c]).job = j
    /\ child' = [child EXCEPT ![j] = IF next = "exec" THEN "alive" ELSE "none"]
    /\ Notify(j, "ProcessLaunched")
    /\ task' = [task EXCEPT ![c] = [pc |-> next, job |-> j, at |-> 1]]
    /\ UNCHANGED conn

(* Seeded fault: the next message is read while the process runs.           *)
DoesNotWait == "read"

(* Where the task goes after execve: child.wait().await.                   *)
AfterExec == "wait"

(* Seeded fault: the write is expected to succeed.                          *)
ExpectsWrite(c) ==
    /\ At(c, "exec")
    /\ IF c \in gone
       THEN Panic(c) /\ UNCHANGED mail
       ELSE /\ Notify(task[c].job, "ExecveTerminated")
            /\ Goto(c, AfterExec)
            /\ UNCHANGED conn
    /\ UNCHANGED <<inbox, child>>

SendExec(c) ==
    /\ At(c, "exec")
    /\ Notify(task[c].job, "ExecveTerminated")
    /\ Goto(c, AfterExec)
    /\ UNCHANGED <<conn, inbox, child>>

(* ErrorKind::NotFound and any other error of spawn.                       *)
SendFailure(c) ==
    /\ \/ At(c, "absent") /\ Notify(task[c].job, "ExecveTerminated")
       \/ At(c, "refused") /\ Notify(task[c].job, "ChildCreationError")
    /\ Goto(c, "watch")
    /\ UNCHANGED <<conn, inbox, child>>

(* Seeded fault: try_wait, whose result is not looked at.                   *)
TriesToWait(c) ==
    /\ At(c, "wait")
    /\ child' = [child EXCEPT ![task[c].job] = IF @ = "zombie" THEN "reaped" ELSE @]
    /\ Goto(c, "watch")
    /\ UNCHANGED <<conn, inbox, mail>>

WaitReturns(c) ==
    /\ At(c, "wait")
    /\ child[task[c].job] = "zombie"
    /\ child' = [child EXCEPT ![task[c].job] = "reaped"]
    /\ Goto(c, "watch")
    /\ UNCHANGED <<conn, inbox, mail>>

Watching(c, kind) ==
    LET t == task[c]
    IN  t.at <= Len(Watches[t.job]) /\ Watches[t.job][t.at] = kind

(* handle_surveillance_event, Inotify: the notice, then the inotify        *)
(* instance and a task of its own that is awaited.                         *)
WatchFile(c) ==
    /\ At(c, "watch") /\ Watching(c, "file")
    /\ Goto(c, "armed")
    /\ UNCHANGED <<conn, inbox, child, mail>>

(* create_inotify_watch_file expects the path to be there.                 *)
WatchFilePanics(c) ==
    /\ "path" \in Env
    /\ At(c, "watch") /\ Watching(c, "file")
    /\ Panic(c)
    /\ UNCHANGED <<inbox, child, mail>>

(* The entry of to_watch is of a type that is none of the two.             *)
WatchUnknown(c) ==
    /\ "bad" \in Env
    /\ At(c, "watch") /\ task[c].at <= Len(Watches[task[c].job])
    /\ Panic(c)
    /\ UNCHANGED <<inbox, child, mail>>

(* epoll_wait without an await: the thread is kept until an event.         *)
WaitForFile(c) ==
    /\ At(c, "armed")
    /\ Goto(c, "blocked")
    /\ UNCHANGED <<conn, inbox, child, mail>>

NextWatch(c) ==
    task' = [task EXCEPT ![c] = [pc |-> "watch", job |-> @.job, at |-> @.at + 1]]

(* The first events end the watch, whether asked for or not, by a notice   *)
(* of the type ProcessTerminated with the pid of the daemon.               *)
FileEvent(c) ==
    /\ Up /\ task[c].pc = "blocked"
    /\ NextWatch(c)
    /\ UNCHANGED <<conn, gone, inbox, child, mail, daemon>>

(* The file of the event is gone: get_size_file fails and is expected not  *)
(* to.  The panic is passed on to the task that awaits this one.           *)
FileEventPanics(c) ==
    /\ "path" \in Env
    /\ Up /\ task[c].pc = "blocked"
    /\ Panic(c)
    /\ UNCHANGED <<gone, inbox, child, mail, daemon>>

(* handle_surveillance_event, TCPSocket: SocketWatched, then a look at the *)
(* sockets twice a second until there is one.                              *)
WatchPort(c) ==
    /\ At(c, "watch") /\ Watching(c, "port")
    /\ Goto(c, "polling")
    /\ UNCHANGED <<conn, inbox, child, mail>>

PortFound(c) ==
    /\ At(c, "polling")
    /\ NextWatch(c)
    /\ UNCHANGED <<conn, inbox, child, mail>>

(* Seeded fault: the end is only told after a watch.                        *)
WatchedDone(c) ==
    /\ At(c, "watch")
    /\ task[c].at = Len(Watches[task[c].job]) + 1 /\ task[c].at > 1
    /\ Goto(c, "end")
    /\ UNCHANGED <<conn, inbox, child, mail>>

WatchesDone(c) ==
    /\ At(c, "watch")
    /\ task[c].at > Len(Watches[task[c].job])
    /\ Goto(c, "end")
    /\ UNCHANGED <<conn, inbox, child, mail>>

SendEnd(c) ==
    /\ At(c, "end")
    /\ Notify(task[c].job, "ProcessTerminated")
    /\ task' = [task EXCEPT ![c] = Idle]
    /\ UNCHANGED <<conn, inbox, child>>

(* Seeded fault: only a process of this connection is killed.               *)
KillsOwnOnly(c) ==
    /\ Reads(c, "kill")
    /\ LET j == Head(inbox[c]).job
       IN  child' = IF child[j] = "alive" /\ task[c].job = j
                    THEN [child EXCEPT ![j] = "zombie"] ELSE child
    /\ UNCHANGED <<conn, task, mail>>

(* KillProcess of a pid: a process that was waited for is not there, or    *)
(* has given its pid to one this model does not know.  The answer has the  *)
(* pid of the daemon, and is about no job.                                 *)
ReadKill(c) ==
    /\ Reads(c, "kill")
    /\ LET j == Head(inbox[c]).job
       IN  child' = IF child[j] = "alive" THEN [child EXCEPT ![j] = "zombie"]
                                          ELSE child
    /\ UNCHANGED <<conn, task, mail>>

(* KillProcess 0: SIGKILL to the group, the daemon included.               *)
ReadGroup(c) ==
    /\ Up /\ Free /\ task[c].pc = "read"
    /\ inbox[c] # <<>> /\ Head(inbox[c]).type = "group"
    /\ inbox' = [inbox EXCEPT ![c] = Tail(@)]
    /\ daemon' = "killed"
    /\ child' = [j \in Job |-> IF child[j] = "alive" THEN "zombie" ELSE child[j]]
    /\ UNCHANGED <<conn, gone, task, mail>>

(* Any other type is answered by ChildCreationError(ENODATA).              *)
ReadOther(c) ==
    /\ Reads(c, "other")
    /\ UNCHANGED <<conn, task, child, mail>>

(* root_as_message is expected to succeed, and so are the look at path and *)
(* at to_watch of a request: one that lacks them is a bad message too.     *)
ReadBad(c) ==
    /\ Reads(c, "bad")
    /\ Panic(c)
    /\ UNCHANGED <<child, mail>>

-----------------------------------------------------------------------------
(* What the task of c does when it is polled, without the events it waits  *)
(* for.                                                                    *)
TaskStep(c) ==
    \/ Accept(c) \/ ReadEnd(c)
    \/ \E j \in Job : \/ Spawn(c, j, "exec")
                      \/ Spawn(c, j, "absent")
                      \/ "spawn" \in Env /\ Spawn(c, j, "refused")
    \/ SendExec(c) \/ SendFailure(c) \/ WaitReturns(c)
    \/ WatchFile(c) \/ WatchFilePanics(c) \/ WatchUnknown(c)
    \/ WaitForFile(c)
    \/ WatchPort(c) \/ WatchesDone(c) \/ SendEnd(c)
    \/ ReadKill(c) \/ ReadGroup(c) \/ ReadOther(c) \/ ReadBad(c)

EnvStep ==
    \/ \E c \in Conn :
          \/ Connect(c) \/ Leave(c)
          \/ \E j \in Job : SendRun(c, j) \/ SendKill(c, j)
          \/ \E type \in EnvMoves : SendPlain(c, type)
          \/ FileEvent(c) \/ FileEventPanics(c) \/ PortFound(c)
    \/ \E j \in Job : ChildEnds(j)

Next == EnvStep \/ \E c \in Conn : TaskStep(c)

Spec == Init /\ [][Next]_vars

(* tokio polls every task that is ready while it has a thread for it.      *)
FairSpec == Spec /\ \A c \in Conn : WF_vars(TaskStep(c))

-----------------------------------------------------------------------------
(* Properties.                                                             *)

(* The notices about a job keep to the protocol both daemons share: a      *)
(* refusal comes after an answer here, and the end of a job without a      *)
(* process is told as well.                                                *)
Over == {j \in Job : child[j] \in {"zombie", "reaped", "none"}}
J == INSTANCE Jobs WITH told <- mail, over <- Over
JobsSpec == J!Spec

(* One job at a time on a connection: from the answer to the end of a job  *)
(* one task has it, which has no other, so that a client can tell which    *)
(* job a notice without a pid is about (the loop of main.rs awaits         *)
(* handle_message).                                                        *)
Open(j) == mail[j] # <<>> /\ ~\E i \in 1 .. Len(mail[j]) : mail[j][i] = "ProcessTerminated"
OneAtATime ==
    \A j \in Job :
        Open(j) => \E c \in Conn : /\ task[c].job = j
                                   /\ \A d \in Conn \ {c} : task[d].job # j

(* A process that was not waited for has its task at child.wait or before  *)
(* it; no process is left behind by its task, which would make it a zombie *)
(* for ever.                                                               *)
NoOrphan ==
    \A j \in Job : child[j] \in {"alive", "zombie"} /\ Up =>
        \E c \in Conn : task[c].job = j /\ task[c].pc \in {"exec", "wait"}

(* A request that a free task can read is answered, whoever else waits for *)
(* processes, ports and, with a thread to spare, files.                    *)
RequestIsAnswered ==
    \A j \in Job :
        (\E c \in Conn : /\ task[c].pc = "read"
                         /\ inbox[c] = <<[type |-> "run", job |-> j]>>)
        ~> (mail[j] # <<>> \/ ~Up)

(* The end of a process of a job without watches is told, even if its      *)
(* client asks for more in the meantime or others block threads.           *)
EndIsReported ==
    \A j \in Job :
        (child[j] = "zombie" /\ Watches[j] = <<>>)
        ~> (J!Has(j, "ProcessTerminated") \/ ~Up)

(* A kill sent on another connection, where nothing is under way, ends the *)
(* process.                                                                *)
KillFromElsewhere ==
    \A j \in Job :
        (/\ child[j] = "alive"
         /\ \E c \in Conn : /\ task[c].pc = "read"
                            /\ inbox[c] = <<[type |-> "kill", job |-> j]>>)
        ~> (child[j] # "alive" \/ ~Up)

(* A kill sent for a process ends it, on whichever connection it is sent   *)
(* (test_kill_process uses the one that launched the process).             *)
KillIsServed ==
    \A c \in Conn, j \in Job :
        (child[j] = "alive" /\ inbox[c] = <<[type |-> "kill", job |-> j]>>)
        ~> (child[j] # "alive" \/ ~Up)

=============================================================================
