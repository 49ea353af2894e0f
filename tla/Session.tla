------------------------------ MODULE Session ------------------------------
(***************************************************************************)
(* One client of tests_python/test_demon.py and the C daemon, end to end:  *)
(* what the client asks goes through serialization.py, the socket and      *)
(* serialize.cpp, and what the daemon reports comes back the same way.     *)
(*                                                                         *)
(* The fixture starts a daemon for every test, so that a behaviour is one  *)
(* connection.  It does not stop the C daemon, which has left its process  *)
(* group (daemon(3)); that one ends of a null dereference when the test    *)
(* function closes the connection (module Daemon, ReadEof), and here a     *)
(* behaviour is over by then.  What the daemon keeps about its children is *)
(* module Daemon; here a job is launched or refused, tells of execve and   *)
(* ends.  The watch of a port is module SocketWatch; here it reports any   *)
(* state, and ends the daemon.                                             *)
(***************************************************************************)
EXTENDS PyCodec, FileWatch

CONSTANTS
    Tests,      \* tests: the request, the class of the notice that is
                \* waited for, and whether the process is killed
    Pids,       \* pids of children
    Errno,      \* error codes
    Codes,      \* exit statuses
    destPort,   \* the port of the daemon
    ShortReads, \* commands (None: no command) after which recv may return
                \* less than it is asked for (bound)
    Misread,    \* pids that bytes out of frame may be read as
    MaxOps      \* changes of files (bound)

SIGKILL == 9

(* The classes of notices, of the Event of serialization.py.               *)
Classes == {"PROCESS_LAUNCHED", "CHILD_CREATION_ERROR", "PROCESS_TERMINATED",
            "TCP_SOCKET_LISTENING", "INOTIFY_PATH_UPDATED",
            "INOTIFY_WATCH_LIST_UPDATED", "SOCKET_WATCHED",
            "SOCKET_WATCH_TERMINATED", "EXECVE_TERMINATED"}

ASSUME PidsAssumption == Pids \subseteq Int32 /\ \A pid \in Pids : pid > 0
ASSUME PortAssumption == destPort \in 1 .. MAX16
ASSUME CodesAssumption == Errno \cup Codes \cup {SIGKILL} \subseteq 0 .. MAX31
(* A test gives a command that the Python types allow, the notice it waits *)
(* for and whether it kills; the files it asks to watch are those modelled.*)
ASSUME TestsAssumption ==
    \A test \in Tests :
        /\ test \in [cmd : Commands, wanted : Classes, kill : BOOLEAN]
        /\ \A k \in DOMAIN test.cmd.to_watch :
              LET surv == test.cmd.to_watch[k]
              IN  surv.event = "INOTIFY" => surv.ptr_event.root_paths \in Path
ASSUME MisreadAssumption == Misread \subseteq Int32
ASSUME SessionBoundAssumption == MaxOps \in Nat

VARIABLES
    client,     \* the test function
    up, down,   \* messages on the connection, to the daemon and back
    accepted,   \* whether the daemon has accepted the connection
    served,     \* the request the daemon has read
    job,        \* its process
    pending,    \* entries of to_watch whose port is still watched
    daemon,     \* "up", "leaving" when a thread is about to call exit, or
                \* how it ended
    killed,     \* history: what kill was called with
    told,       \* history: the notices the daemon sent
    ops         \* changes of files so far

sessionVars == <<client, up, down, accepted, served, job, pending, daemon,
                 killed, told, ops>>
vars == <<fileVars, sessionVars>>

NoJob == [pid |-> 0, alive |-> FALSE, exec |-> "none", end |-> "none", code |-> 0]

(* A notice: what the daemon means by it, and its message.  A notice about *)
(* a watched path also records which path it is, the event of the kernel   *)
(* and the size.                                                           *)
Notice(class, value, buf) ==
    [class |-> class, value |-> value, buf |-> buf, about |-> None,
     what |-> None, real |-> 0]

(* send_message on the connection.                                         *)
Send(notices) ==
    /\ down' = down \o notices
    /\ told' = told \cup {notices[k] : k \in DOMAIN notices}

TypeOK ==
    /\ FileTypeOK
    /\ client.pc \in {"start", "waiting", "misframed", "done", "lost", "crashed"}
    /\ client.framed \in BOOLEAN
    /\ client.pc = "misframed" => ~client.framed
    /\ client.cut \in {"no", "text", "root", "head", "stream"}
    /\ accepted \in BOOLEAN
    /\ job.pid \in Pids \cup {0} /\ job.alive \in BOOLEAN
    /\ job.exec \in {"none", "pending", "told"}
    /\ job.end \in {"none", "pending", "told"}
    /\ job.code \in Errno \cup Codes \cup {0, SIGKILL}
    /\ daemon \in {"up", "leaving", "exited", "terminated", "segv"}
    /\ killed \subseteq Int32
    /\ \A k \in DOMAIN down : down[k] \in told
    /\ ops \in 0 .. MaxOps

Init ==
    /\ FileInit
    /\ client = [pc |-> "start", cmd |-> None, wanted |-> "", kill |-> FALSE,
                 got |-> None, meant |-> None, framed |-> TRUE, cut |-> "no"]
    /\ up = <<>> /\ down = <<>>
    /\ accepted = FALSE
    /\ served = None
    /\ job = NoJob
    /\ pending = {}
    /\ daemon = "up"
    /\ killed = {} /\ told = {}
    /\ ops = 0

Up == daemon \in {"up", "leaving"}

(* The test function is under way: its connection is open.                 *)
Running == Up /\ client.pc \in {"start", "waiting", "misframed"}

-----------------------------------------------------------------------------
(* The client.                                                             *)

(* connect, send_command_to_demon and sendall: nothing catches what the    *)
(* builder raises.                                                         *)
ClientAsks(test) ==
    /\ Running /\ client.pc = "start"
    /\ LET buf == send_command_to_demon(test.cmd)
       IN  /\ client' = [client EXCEPT !.pc = IF buf = Raised THEN "crashed"
                                                              ELSE "waiting",
                                       !.cmd = test.cmd, !.wanted = test.wanted,
                                       !.kill = test.kill]
           /\ up' = IF buf = Raised THEN up ELSE Append(up, buf)
    /\ UNCHANGED <<fileVars, down, accepted, served, job, pending, daemon,
                   killed, told, ops>>

(* connect_to_daemon asks for nothing.                                     *)
ClientConnects ==
    /\ Running /\ client.pc = "start"
    /\ client' = [client EXCEPT !.pc = "waiting",
                                !.wanted = "TCP_SOCKET_LISTENING"]
    /\ UNCHANGED <<fileVars, up, down, accepted, served, job, pending, daemon,
                   killed, told, ops>>

(* The function a test calls on the message it waited for.                 *)
Decoded(class, b) ==
    CASE class = "PROCESS_LAUNCHED" -> receive_processlaunched(b, Length(b))
      [] class = "CHILD_CREATION_ERROR" -> receive_childcreationerror(b, Length(b))
      [] class = "PROCESS_TERMINATED" -> receive_processterminated(b, Length(b))
      [] class = "TCP_SOCKET_LISTENING" -> receive_TCPSocketListening(b, Length(b))
      [] class = "INOTIFY_PATH_UPDATED" -> receive_inotifypathupdated(b, Length(b))
      [] class = "INOTIFY_WATCH_LIST_UPDATED" ->
            receive_inotifywatchlistupdated(b, Length(b))
      [] class = "SOCKET_WATCHED" -> receive_socketwatched(b, Length(b))
      [] class = "SOCKET_WATCH_TERMINATED" ->
            receive_socketwatchterminated(b, Length(b))
      [] class = "EXECVE_TERMINATED" -> receive_execveterminated(b, Length(b))

(* Classes whose value is an object: the tests use its fields at once.     *)
Objects == {"PROCESS_TERMINATED", "INOTIFY_PATH_UPDATED",
            "SOCKET_WATCH_TERMINATED", "EXECVE_TERMINATED"}

(* One turn of the loop of a test function on the message b that meant     *)
(* stands for; cut tells what recv left out of it.  If anything is left,   *)
(* it is still on the connection, and the loop goes on out of frame.       *)
ClientReads(b, meant, cut) ==
    LET goesOn == [client EXCEPT !.pc = IF cut = "no" THEN @ ELSE "misframed",
                                 !.framed = IF cut = "no" THEN @ ELSE FALSE]
        class == receive_message_from_demon(b, Length(b))
        value == Decoded(client.wanted, b)
        exec  == receive_execveterminated(b, Length(b))
        buf   == send_kill_to_demon(exec.pid)
    IN  IF class = client.wanted
        THEN /\ client' = [client EXCEPT
                    !.pc = IF class \in Objects /\ value = None
                           THEN "crashed" ELSE "done",
                    !.got = value, !.meant = meant, !.cut = cut]
             /\ up' = up
        ELSE IF client.kill /\ class = "EXECVE_TERMINATED"
        THEN \/ /\ exec = None
                /\ client' = [client EXCEPT !.pc = "crashed", !.meant = meant,
                                            !.cut = cut]
                /\ up' = up
             \/ /\ exec # None
                /\ client' = goesOn
                /\ up' = Append(up, buf)
        ELSE /\ client' = goesOn
             /\ up' = up

(* What was sent is received even if the daemon has ended since.           *)
ClientReceives ==
    /\ client.pc = "waiting" /\ down # <<>>
    /\ ClientReads(Head(down).buf, Head(down), "no")
    /\ down' = Tail(down)
    /\ UNCHANGED <<fileVars, accepted, served, job, pending, daemon, killed,
                   told, ops>>

(* The string of a message is the last thing in it, and Table.String       *)
(* returns what there is of it.                                            *)
StringOf(type) == IF type = Event.ExecveTerminated THEN "command_name" ELSE "path"
WithText(b, s) ==
    [b EXCEPT !.message.events[StringOf(EventsType(b))] = s]
HasText(b) == StringOf(EventsType(b)) \in DOMAIN Events(b)

(* recv(size) returns a part of the message.  The client does not look at  *)
(* how much it got, and takes the rest for the size of the next message:   *)
(* that rest is no message any more.                                       *)
ClientReceivesPart ==
    /\ client.cmd \in ShortReads
    /\ client.pc = "waiting" /\ down # <<>>
    /\ LET b == Head(down).buf
       IN  \/ \E part \in {"head", "root"} :
                 ClientReads(Truncated(b, part), Head(down), part)
           \/ /\ HasText(b)
              /\ \E s \in Stray :
                    ClientReads(WithText(b, s), Head(down), "text")
    /\ down' = Tail(down)
    /\ UNCHANGED <<fileVars, accepted, served, job, pending, daemon, killed,
                   told, ops>>

(* recv(4) returns a part of the size: the rest of it is taken for the     *)
(* beginning of the message.                                               *)
ClientReceivesPartOfSize ==
    /\ client.cmd \in ShortReads
    /\ client.pc = "waiting" /\ down # <<>>
    /\ client' = [client EXCEPT !.pc = "misframed", !.framed = FALSE]
    /\ UNCHANGED <<fileVars, up, down, accepted, served, job, pending, daemon,
                   killed, told, ops>>

(* One turn of the loop on bytes that are no message.  They may be read as *)
(* anything: nothing the loop looks for (receive_message_from_demon gives  *)
(* -1 for what does not unpack), the end of a message, so that the stream  *)
(* is in frame again, the notice waited for, or an execve notice of a      *)
(* wrong pid; and recv or the functions called on them may raise.  The     *)
(* client sends a kill of such a pid only when all it sent before is read  *)
(* (bound).                                                                *)
ClientMisreads ==
    /\ client.pc = "misframed"
    /\ down' = down \/ (down # <<>> /\ down' = Tail(down))
    /\ \/ /\ \E pc \in {"misframed", "waiting"} : client' = [client EXCEPT !.pc = pc]
          /\ up' = up
       \/ /\ \E pc \in {"done", "crashed"} :
                client' = [client EXCEPT !.pc = pc, !.cut = "stream"]
          /\ up' = up
       \/ /\ client.kill /\ served # None /\ up = <<>>
          /\ \E pid \in Misread : up' = Append(up, send_kill_to_demon(pid))
          /\ UNCHANGED client
    /\ UNCHANGED <<fileVars, accepted, served, job, pending, daemon, killed,
                   told, ops>>

(* recv on the connection of a daemon that has ended: a reset makes the    *)
(* test fail, and after an end of file the loop gets a message of size 0   *)
(* for ever.                                                               *)
ClientIsLeft ==
    /\ client.pc \in {"waiting", "misframed"} /\ down = <<>> /\ ~Up
    /\ client' = [client EXCEPT !.pc = "lost"]
    /\ UNCHANGED <<fileVars, up, down, accepted, served, job, pending, daemon,
                   killed, told, ops>>

-----------------------------------------------------------------------------
(* The daemon.                                                             *)

(* case SOCK_CONNEXION.                                                    *)
AcceptConnexion ==
    /\ Running /\ client.pc # "start" /\ ~accepted
    /\ accepted' = TRUE
    /\ Send(<<Notice("TCP_SOCKET_LISTENING", destPort,
                     C_send_tcpsocketlistening(destPort))>>)
    /\ UNCHANGED <<fileVars, client, up, served, job, pending, daemon, killed,
                   ops>>

(* process_surveillance_requests: the instances after the first k requests *)
(* and after all of them, and what is announced for one.                   *)
InstancesUpTo(to_watch) ==
    LET after[k \in 0 .. Len(to_watch)] ==
            IF k = 0 THEN inst
            ELSE IF to_watch[k].event = "INOTIFY"
                 THEN AddInotify(after[k - 1], to_watch[k].ptr_event)
                 ELSE after[k - 1]
    IN  after

InstancesAfter(com) == InstancesUpTo(com.to_watch)[Len(com.to_watch)]

Announced(surv) ==
    IF surv.event = "INOTIFY"
    THEN Notice("INOTIFY_WATCH_LIST_UPDATED", surv.ptr_event.root_paths,
                C_send_inotifywatchlistupdated(surv.ptr_event.root_paths))
    ELSE Notice("SOCKET_WATCHED", ToInt32(surv.ptr_event.destport),
                C_send_socketwatched(ToInt32(surv.ptr_event.destport)))

(* process_command_request: the process of the request and the answer.     *)
Launched(pid) ==
    /\ job' = [pid |-> pid, alive |-> TRUE, exec |-> "pending", end |-> "none",
               code |-> 0]
    /\ Send(<<Notice("PROCESS_LAUNCHED", pid, C_send_processlaunched(pid))>>
            \o [k \in DOMAIN served'.to_watch |-> Announced(served'.to_watch[k])])

Refused(errno) ==
    /\ UNCHANGED job
    /\ Send(<<Notice("CHILD_CREATION_ERROR", errno,
                     C_send_childcreationerror(errno))>>
            \o [k \in DOMAIN served'.to_watch |-> Announced(served'.to_watch[k])])

(* case SOCK_MESSAGE, RUN_COMMAND.                                         *)
ServeCommand ==
    /\ Running /\ accepted /\ up # <<>>
    /\ C_receive_message_from_user(Head(up), Length(Head(up))) = "RUN_COMMAND"
    /\ LET com == C_receive_command(Head(up), Length(Head(up)))
       IN  /\ served' = com
           /\ inst' = InstancesAfter(com)
           /\ queue' = [i \in DOMAIN inst' |->
                           IF i \in DOMAIN queue THEN queue[i] ELSE <<>>]
           /\ pending' = {k \in DOMAIN com.to_watch :
                             com.to_watch[k].event = "WATCH_SOCKET"}
    /\ \/ \E pid \in Pids : Launched(pid)
       \/ \E errno \in Errno : Refused(errno)
    /\ up' = Tail(up)
    /\ UNCHANGED <<files, client, accepted, daemon, killed, ops>>

(* The name of the error file is made of args[0], which is not there if    *)
(* the request has no arguments.                                           *)
NoArguments ==
    /\ Running /\ accepted /\ up # <<>>
    /\ C_receive_message_from_user(Head(up), Length(Head(up))) = "RUN_COMMAND"
    /\ C_receive_command(Head(up), Length(Head(up))).args = <<>>
    /\ daemon' = "segv"
    /\ up' = Tail(up)
    /\ UNCHANGED <<fileVars, client, down, accepted, served, job, pending,
                   killed, told, ops>>

(* case SOCK_MESSAGE, KILL_PROCESS.                                        *)
ServeKill ==
    /\ Running /\ accepted /\ up # <<>>
    /\ C_receive_message_from_user(Head(up), Length(Head(up))) = "KILL_PROCESS"
    /\ LET pid == C_receive_kill(Head(up), Length(Head(up)))
       IN  /\ killed' = IF pid >= 0 THEN killed \cup {pid} ELSE killed
           /\ daemon' = IF pid = 0 THEN "terminated" ELSE daemon
           /\ job' = IF pid > 0 /\ pid = job.pid /\ job.alive
                     THEN [job EXCEPT !.alive = FALSE, !.end = "pending",
                                      !.code = SIGKILL]
                     ELSE job
    /\ up' = Tail(up)
    /\ UNCHANGED <<fileVars, client, down, accepted, served, pending, told, ops>>

(* The process ends by itself.                                             *)
JobEnds(code) ==
    /\ Running /\ job.alive
    /\ job' = [job EXCEPT !.alive = FALSE, !.end = "pending", !.code = code]
    /\ UNCHANGED <<fileVars, client, up, down, accepted, served, pending,
                   daemon, killed, told, ops>>

(* case EXECVE.                                                            *)
HandleExecve(success) ==
    /\ Running /\ job.exec = "pending"
    /\ job' = [job EXCEPT !.exec = "told"]
    /\ LET info == [pid |-> job.pid, command_name |-> served.path,
                    success |-> success]
       IN  Send(<<Notice("EXECVE_TERMINATED", info,
                         C_send_execveterminated(info))>>)
    /\ UNCHANGED <<fileVars, client, up, accepted, served, pending, daemon,
                   killed, ops>>

(* case SIGNALFD.                                                          *)
HandleSIGCHLD ==
    /\ Running /\ job.end = "pending"
    /\ job' = [job EXCEPT !.end = "told"]
    /\ LET info == [pid |-> job.pid, error_code |-> job.code]
       IN  Send(<<Notice("PROCESS_TERMINATED", info,
                         C_send_processterminated(info.pid, info.error_code))>>)
    /\ UNCHANGED <<fileVars, client, up, accepted, served, pending, daemon,
                   killed, ops>>

(* The thread of detect_socket reports the k-th watch; exit is next.       *)
ReportPort(k, state) ==
    /\ Running /\ k \in pending
    /\ pending' = pending \ {k}
    /\ daemon' = "leaving"
    /\ LET info == [port  |-> ToInt32(served.to_watch[k].ptr_event.destport),
                    state |-> state]
       IN  Send(<<Notice("SOCKET_WATCH_TERMINATED", info,
                         C_send_socketwatchterminated(info))>>)
    /\ UNCHANGED <<fileVars, client, up, accepted, served, job, killed, ops>>

(* exit in the thread, or in main when SIGALRM interrupts epoll_wait.      *)
Exits ==
    /\ Running /\ (daemon = "leaving" \/ pending # {})
    /\ daemon' = "exited"
    /\ UNCHANGED <<fileVars, client, up, down, accepted, served, job, pending,
                   killed, told, ops>>

(* case INOTIFYFD: handle_inotify_event.                                   *)
PathNotice(info, e) ==
    [Notice("INOTIFY_PATH_UPDATED",
            [path       |-> info.path,
             event      |-> IF IsMember(CInotifyEvent, info.event)
                            THEN Member(CInotifyEvent, info.event) ELSE "garbage",
             size       |-> ToUint32(info.size),
             size_limit |-> ToUint32(info.size_limit)],
            C_send_inotifypathupdated(info))
     EXCEPT !.about = e.path, !.what = e.what, !.real = files[e.path]]

HandleInotify(i) ==
    /\ Running /\ ReadInotify(i)
    /\ LET n == ReadCount(i)
           first == SubSeq(queue[i], 1, n)
       IN  \E garbage \in Garbage, names \in [1 .. n -> Path \cup Stray] :
              /\ \A k \in 1 .. n : names[k] \in Names(first[k].path)
              /\ LET infos == PathUpdates(i, n, names, garbage)
                 IN  Send([k \in 1 .. n |-> PathNotice(infos[k], first[k])])
    /\ UNCHANGED <<client, up, accepted, served, job, pending, daemon, killed,
                   ops>>

Requests == {served.to_watch[k] : k \in DOMAIN served.to_watch}

(* What happens to the files that are to be watched, also by the hands of  *)
(* the job.  What happens to them before is in the choice of their initial *)
(* sizes, and what happens to other files cannot be seen.                  *)
FileChanges(p) ==
    /\ Running /\ served # None /\ ops < MaxOps
    /\ \E surv \in Requests :
          surv.event = "INOTIFY" /\ surv.ptr_event.root_paths = p
    /\ FileCreate(p) \/ FileModify(p) \/ FileAccess(p) \/ FileDelete(p)
    /\ ops' = ops + 1
    /\ UNCHANGED <<client, up, down, accepted, served, job, pending, daemon,
                   killed, told>>

-----------------------------------------------------------------------------
(* The client loops on recv, and the event loop goes on serving what is    *)
(* ready; nothing else has to happen.                                      *)
EventLoop ==
    \/ AcceptConnexion \/ ServeCommand \/ NoArguments \/ ServeKill
    \/ \E success \in BOOLEAN : HandleExecve(success)
    \/ HandleSIGCHLD
    \/ \E i \in DOMAIN inst : HandleInotify(i)

Next ==
    \/ \E test \in Tests : ClientAsks(test)
    \/ ClientConnects \/ ClientReceives \/ ClientReceivesPart
    \/ ClientReceivesPartOfSize \/ ClientMisreads \/ ClientIsLeft
    \/ EventLoop
    \/ \E code \in Codes : JobEnds(code)
    \/ \E k \in pending, state \in DOMAIN CSocketState : ReportPort(k, state)
    \/ Exits
    \/ \E p \in Path : FileChanges(p)

Spec == Init /\ [][Next]_vars /\ WF_vars(ClientReceives \/ EventLoop)

-----------------------------------------------------------------------------
(* Properties.                                                             *)

(* What the daemon reads is the command the client made, field by field    *)
(* and watch by watch in its order, although defaults are left out of the  *)
(* message and two libraries write and read it (send_command_to_demon,     *)
(* receive_command of serialize.cpp).  Only watches of an unknown kind are *)
(* dropped.                                                                *)
CommandAsSent ==
    served # None =>
        served = [client.cmd EXCEPT !.to_watch = Kept(@)]

(* What a test function gets out of the notice it waited for is what the   *)
(* daemon meant by it: the same numbers, and the same name of the event or *)
(* of the state although each side has an enumeration of its own.  After a *)
(* short read it gets nothing, or the right numbers with a text that may   *)
(* be cut (the loops of test_demon.py do not look at the length).  What it *)
(* gets out of bytes out of frame may be anything.                         *)
Numbers(v) == {<<f, v[f]>> : f \in DOMAIN v \ {"path", "command_name"}}
NoticeAsMeant ==
    client.pc = "done" =>
        CASE client.cut = "no" -> client.got = client.meant.value
          [] client.cut = "text" ->
                client.wanted \in Objects =>
                    Numbers(client.got) = Numbers(client.meant.value)
          [] client.cut = "stream" -> ~client.framed
          [] OTHER -> client.got \in {-1, None}

(* A test function ends with an exception only when its own request cannot *)
(* be written, after a short read, or because of what handle_inotify_event *)
(* reads without it being there: the name or the kind of an event.         *)
CrashIsExplained ==
    client.pc = "crashed" =>
        \/ client.cut # "no"
        \/ send_command_to_demon(client.cmd) = Raised
        \/ /\ client.meant.class = "INOTIFY_PATH_UPDATED"
           /\ Kind[client.meant.about] = "file"

(* The messages of the Python functions for the daemon's side are the ones *)
(* of the C functions, and both sides read a request alike, or the Python  *)
(* function gives None: the two that write about a path and a port, and    *)
(* receive_command, always do.                                             *)
PySent(n) ==
    CASE n.class = "PROCESS_LAUNCHED" -> send_processlaunched_to_user(n.value)
      [] n.class = "CHILD_CREATION_ERROR" -> send_childcreationerror_to_user(n.value)
      [] n.class = "PROCESS_TERMINATED" ->
            send_processterminated_to_user(n.value.pid, n.value.error_code)
      [] n.class = "TCP_SOCKET_LISTENING" -> send_tcpsocketlistening_to_user(n.value)
      [] n.class = "INOTIFY_WATCH_LIST_UPDATED" ->
            send_inotifywatchlistupdated_to_user(n.value)
      [] n.class = "SOCKET_WATCHED" -> send_socketwatched_to_user(n.value)
      [] n.class = "INOTIFY_PATH_UPDATED" -> send_inotifypathupdated_to_user(n.value)
      [] n.class = "SOCKET_WATCH_TERMINATED" ->
            send_socketwatchterminated_to_user(n.value)
      [] OTHER -> None
CodecsAgree ==
    /\ \A n \in told : PySent(n) \in {n.buf, None}
    /\ \A k \in DOMAIN up :
          /\ receive_message_from_user(up[k], Length(up[k])) =
                C_receive_message_from_user(up[k], Length(up[k]))
          /\ receive_kill(up[k], Length(up[k])) = C_receive_kill(up[k], Length(up[k]))
          /\ receive_command(up[k], Length(up[k])) \in
                {C_receive_command(up[k], Length(up[k])), None}

(* As long as the stream is in frame, kill is only called with the pid of  *)
(* the process that was launched for this client, and never with 0, which  *)
(* ends the daemon: the pid went from launch_process through an execve     *)
(* notice, possibly a cut one, and a kill message (kill_process of         *)
(* test_demon.py, daemon-core.c:184).  The client has to lose the frame    *)
(* first, by a short read after which its loop goes on, for another pid.   *)
KillsOwn == client.framed => killed \subseteq {job.pid} \ {0}

(* The event a notice names is one that the client asked for on that path, *)
(* unless it is about the IN_IGNORED of a watched file that was deleted,   *)
(* which leaves what the event of info held before (process_Event).        *)
BitOf == [MODIFIED |-> "MODIFY", SIZE_REACHED |-> "MODIFY", CREATED |-> "CREATE",
          DELETED |-> "DELETE", ACCESSED |-> "ACCESS"]
EventsAsAsked ==
    \A n \in told :
        n.class = "INOTIFY_PATH_UPDATED" =>
            \/ n.what = "IGNORED"
            \/ \E surv \in Requests :
                  /\ surv.event = "INOTIFY"
                  /\ surv.ptr_event.root_paths = n.about
                  /\ Has(surv.ptr_event.mask, BitOf[n.value.event])

(* SIZE_REACHED means that the file is larger than the size the client     *)
(* gave (process_Event compares what findSize returns).                    *)
ReachedIsReal ==
    \A n \in told :
        n.class = "INOTIFY_PATH_UPDATED" /\ n.value.event = "SIZE_REACHED" =>
            n.real > n.value.size_limit

(* A file of the daemon's directory that is modified and is larger than    *)
(* the size of a watch is reported with that size, unless it shrinks first *)
(* or the test ends: whatever other watches there are, and however events  *)
(* are merged and read (process_surveillance_requests, process_Event).     *)
Sized(p, size) ==
    /\ served # None
    /\ \E surv \in Requests :
          /\ surv.event = "INOTIFY"
          /\ surv.ptr_event.root_paths = p
          /\ surv.ptr_event.size = size
          /\ Has(surv.ptr_event.mask, "MODIFY")
Unread(p) == \E i \in DOMAIN queue : \E k \in DOMAIN queue[i] :
                queue[i][k] = [path |-> p, what |-> "MODIFY"]
ToldReached(p, size) ==
    \E n \in told : /\ n.class = "INOTIFY_PATH_UPDATED" /\ n.about = p
                    /\ n.value.event = "SIZE_REACHED"
                    /\ n.value.size_limit = size
SizeIsReported ==
    \A p \in {q \in Path : Kind[q] = "cwd"}, size \in 1 .. (MaxSize - 1) :
        (Sized(p, size) /\ Unread(p) /\ files[p] > size)
        ~> (ToldReached(p, size) \/ files[p] <= size \/ ~Running)

(* Whatever else is on the connection, a client that waits for a class of  *)
(* notice the daemon sends leaves its loop, with the notice or with an     *)
(* exception, even if the daemon ends right after it, unless a short read  *)
(* has put it out of frame (receive_message_from_demon recognises every    *)
(* notice).                                                                *)
WaitedFor ==
    (\E n \in told : n.class = client.wanted)
    ~> (client.pc \in {"done", "crashed"} \/ ~client.framed)

(* A process whose client wants to kill it ends, and the client is told    *)
(* so and how, even if it would never end by itself: the daemon reads the  *)
(* kill while the process runs (test_kill_process).  A short read may      *)
(* spoil it: the client is out of frame, or has left its loop for what it  *)
(* made of a part of a message.                                            *)
KillEnds ==
    (client.kill /\ job.alive)
    ~> \/ ~client.framed \/ client.cut # "no"
       \/ /\ ~job.alive
          /\ client.pc = "done" /\ client.wanted = "PROCESS_TERMINATED"
          /\ client.got = [pid |-> job.pid, error_code |-> job.code]

=============================================================================
