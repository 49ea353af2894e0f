------------------------------ MODULE PyCodec ------------------------------
(***************************************************************************)
(* tests_python/serialization.py: the messages of the Python client.       *)
(*                                                                         *)
(* An operator has the name of its function.  A buffer is a record of      *)
(* module Wire and size is the length the caller announces.  What a        *)
(* function prints is left out.                                            *)
(***************************************************************************)
EXTENDS Wire

(* The enumerations of the client.  Enum(n) is the member whose value is n *)
(* and an exception if there is none.                                      *)
(* Seeded fault: the numbers of the schema.                                 *)
NumbersOfTheSchema == [SOCKET_UNKNOWN |-> 0, SOCKET_CREATED |-> 1,
                       SOCKET_LISTENING |-> 2]
(* Seeded fault: a state is missing.                                        *)
OneStateLess == [SOCKET_UNKNOWN |-> 0, SOCKET_LISTENING |-> 1]
PySocketState == [SOCKET_UNKNOWN |-> 0, SOCKET_LISTENING |-> 1,
                  SOCKET_CREATED |-> 2]
PyInotifyEvent == [MODIFIED |-> 0, CREATED |-> 1, SIZE_REACHED |-> 2,
                   DELETED |-> 3, ACCESSED |-> 4]

IsMember(enum, n) == \E name \in DOMAIN enum : enum[name] = n
Member(enum, n) == CHOOSE name \in DOMAIN enum : enum[name] = n

(* A request as the caller gives it.                                       *)
Command(path, args, envp, flags, stack_size, to_watch) ==
    [path |-> path, args |-> args, envp |-> envp, flags |-> flags,
     stack_size |-> stack_size, to_watch |-> to_watch]

InotifyParameters(root_paths, mask, size) ==
    [event     |-> "INOTIFY",
     ptr_event |-> [root_paths |-> root_paths, mask |-> mask, size |-> size]]

WatchSocket(destport) ==
    [event |-> "WATCH_SOCKET", ptr_event |-> [destport |-> destport]]

(* What these are in Python: strings, integers, lists.                     *)
InotifyWatch ==
    [event : {"INOTIFY"}, ptr_event : [root_paths : Text, mask : Int, size : Int]]
PortWatch == [event : {"WATCH_SOCKET"}, ptr_event : [destport : Int]]
OtherWatch ==
    [event : STRING \ {"INOTIFY", "WATCH_SOCKET"}, ptr_event : {None}]

Commands ==
    [path : Text, args : Seq(Text), envp : Seq(Text), flags : Int,
     stack_size : Int, to_watch : Seq(InotifyWatch \cup PortWatch \cup OtherWatch)]

(* The objects the functions below return.                                 *)
ExecveInfo == [pid : Int32, command_name : Text, success : BOOLEAN]
ProcessTerminatedInfo == [pid : Int32, error_code : Uint32]
SocketWatchInfo == [port : Int32, state : DOMAIN PySocketState]
PathUpdatedInfo == [path : Text, event : DOMAIN PyInotifyEvent,
                    size : Uint32, size_limit : Uint32]

(* None is none of them.                                                   *)
ASSUME NoneAssumption ==
    None \notin Commands \cup ExecveInfo \cup ProcessTerminatedInfo
                \cup SocketWatchInfo \cup PathUpdatedInfo

-----------------------------------------------------------------------------
(* From the client to the daemon.                                          *)

(* One entry of to_watch; the two kinds are the ones the loop knows.       *)
WatchTable(surv) ==
    IF surv.event = "INOTIFY"
    THEN Build(SurveillanceEvent,
               [event_type |-> Surveillance.Inotify,
                event      |-> Build(Inotify, surv.ptr_event)])
    ELSE Build(SurveillanceEvent,
               [event_type |-> Surveillance.TCPSocket,
                event      |-> Build(TCPSocket, surv.ptr_event)])

WatchFits(surv) ==
    CanBuild(IF surv.event = "INOTIFY" THEN Inotify ELSE TCPSocket,
             surv.ptr_event)

Known(surv) == surv.event \in {"INOTIFY", "WATCH_SOCKET"}

(* The loop over to_watch passes over entries of another kind: what it has *)
(* kept after each of its turns, and in the end.                           *)
KeptUpTo(to_watch) ==
    LET kept[k \in 0 .. Len(to_watch)] ==
            IF k = 0 THEN <<>>
            ELSE IF Known(to_watch[k]) THEN Append(kept[k - 1], to_watch[k])
                                       ELSE kept[k - 1]
    IN  kept

Kept(to_watch) == KeptUpTo(to_watch)[Len(to_watch)]

(* The vectors are filled from the last element to the first, which keeps  *)
(* their order.  Nothing is caught here.                                   *)
send_command_to_demon(cmd) ==
    LET watches == Kept(cmd.to_watch)
        fields  == [cmd EXCEPT !.to_watch =
                        [i \in 1 .. Len(watches) |-> WatchTable(watches[i])]]
    IN  IF /\ CanBuild(RunCommand, fields)
           /\ \A i \in 1 .. Len(watches) : WatchFits(watches[i])
        THEN Finish(Event.RunCommand, Build(RunCommand, fields))
        ELSE Raised

send_kill_to_demon(pid) ==
    IF CanBuild(KillProcess, [pid |-> pid])
    THEN Finish(Event.KillProcess, Build(KillProcess, [pid |-> pid]))
    ELSE Raised

-----------------------------------------------------------------------------
(* Reading.  Every function returns failed for no buffer and for a message *)
(* of another type, and raised after an exception: when the buffer ends    *)
(* before what is read, or when the value cannot be made of it (ok).       *)
Received(b, size, type, failed, raised, ok, value) ==
    IF b.part = "none" \/ size <= 0 THEN failed
    ELSE IF b.part = "head" THEN raised
    ELSE IF EventsType(b) # type THEN failed
    ELSE IF b.part = "root" \/ ~ok THEN raised
    ELSE value

(* bytes.decode('utf-8') of a string that may be missing.                  *)
Decodes(s) == s \in Text

(* RunCommand has no ArgsAsNumpy and no EnvpAsNumpy, so that the inner try *)
(* ends in its except whatever the command is.                             *)
receive_command(b, size) ==
    Received(b, size, Event.RunCommand, None, None, FALSE, None)

receive_kill(b, size) ==
    Received(b, size, Event.KillProcess, -1, -1, TRUE,
             Get(KillProcess, Events(b), "pid"))

receive_message_from_user(b, size) ==
    IF b.part = "none" \/ size <= 0 THEN "NONE"
    ELSE IF b.part = "head" THEN "-1"
    ELSE IF EventsType(b) = Event.RunCommand THEN "RUN_COMMAND"
    ELSE IF EventsType(b) = Event.KillProcess THEN "KILL_PROCESS"
    ELSE "NONE"

-----------------------------------------------------------------------------
(* From the daemon to the client, in Python: None if the builder raises.   *)

SendOrNone(type, table, v) ==
    IF CanBuild(table, v) THEN Finish(type, Build(table, v)) ELSE None

send_processlaunched_to_user(pid) ==
    SendOrNone(Event.ProcessLaunched, ProcessLaunched, [pid |-> pid])

send_childcreationerror_to_user(error_code) ==
    SendOrNone(Event.ChildCreationError, ChildCreationError,
               [error_code |-> error_code])

(* Seeded fault: the fields are swapped.                                    *)
SwapsFields(pid, error_code) ==
    SendOrNone(Event.ProcessTerminated, ProcessTerminated,
               [pid |-> error_code, error_code |-> pid])

send_processterminated_to_user(pid, error_code) ==
    SendOrNone(Event.ProcessTerminated, ProcessTerminated,
               [pid |-> pid, error_code |-> error_code])

send_tcpsocketlistening_to_user(port) ==
    SendOrNone(Event.TCPSocketListening, TCPSocketListening, [port |-> port])

(* demon.InotifyEvent is not imported: AddTriggerEvents is never reached.  *)
send_inotifypathupdated_to_user(inotify) == None

send_inotifywatchlistupdated_to_user(path) ==
    SendOrNone(Event.InotifyWatchListUpdated, InotifyWatchListUpdated,
               [path |-> path])

send_socketwatched_to_user(port) ==
    SendOrNone(Event.SocketWatched, SocketWatched, [port |-> port])

(* demon.CreateSocketWatchTerminated does not exist.                       *)
send_socketwatchterminated_to_user(socket_info) == None

-----------------------------------------------------------------------------
(* From the daemon to the client.                                          *)

receive_execveterminated(b, size) ==
    LET tab == Events(b)
        F(f) == Get(ExecveTerminated, tab, f)
    IN  Received(b, size, Event.ExecveTerminated, None, None,
            Decodes(F("command_name")),
            [pid          |-> F("pid"),
             command_name |-> F("command_name"),
             success      |-> F("success")])

receive_processlaunched(b, size) ==
    Received(b, size, Event.ProcessLaunched, -1, -1, TRUE,
             Get(ProcessLaunched, Events(b), "pid"))

receive_childcreationerror(b, size) ==
    Received(b, size, Event.ChildCreationError, -1, -1, TRUE,
             Get(ChildCreationError, Events(b), "error_code"))

(* After an exception it returns -1, not None: neither has the fields of a *)
(* ProcessTerminatedInfo, and None stands for both.                        *)
receive_processterminated(b, size) ==
    Received(b, size, Event.ProcessTerminated, None, None, TRUE,
        [pid        |-> Get(ProcessTerminated, Events(b), "pid"),
         error_code |-> Get(ProcessTerminated, Events(b), "error_code")])

receive_TCPSocketListening(b, size) ==
    Received(b, size, Event.TCPSocketListening, -1, -1, TRUE,
             Get(TCPSocketListening, Events(b), "port"))

receive_inotifypathupdated(b, size) ==
    LET tab == Events(b)
        F(f) == Get(InotifyPathUpdated, tab, f)
    IN  Received(b, size, Event.InotifyPathUpdated, None, None,
            Decodes(F("path")) /\ IsMember(PyInotifyEvent, F("trigger_events")),
            [path       |-> F("path"),
             event      |-> Member(PyInotifyEvent, F("trigger_events")),
             size       |-> F("size"),
             size_limit |-> F("size_limit")])

receive_inotifywatchlistupdated(b, size) ==
    LET path == Get(InotifyWatchListUpdated, Events(b), "path")
    IN  Received(b, size, Event.InotifyWatchListUpdated, None, None,
                 Decodes(path), path)

receive_socketwatched(b, size) ==
    Received(b, size, Event.SocketWatched, -1, -1, TRUE,
             Get(SocketWatched, Events(b), "port"))

receive_socketwatchterminated(b, size) ==
    LET tab == Events(b)
        F(f) == Get(SocketWatchTerminated, tab, f)
    IN  Received(b, size, Event.SocketWatchTerminated, None, None,
            IsMember(PySocketState, F("state")),
            [port  |-> F("port"),
             state |-> Member(PySocketState, F("state"))])

(* Seeded fault: a type of message is missing.                              *)
MapWithoutEnd ==
    [ProcessLaunched         |-> "PROCESS_LAUNCHED",
     ChildCreationError      |-> "CHILD_CREATION_ERROR",
     TCPSocketListening      |-> "TCP_SOCKET_LISTENING",
     ExecveTerminated        |-> "EXECVE_TERMINATED"]

(* event_map: the class the client gives to each type of message.          *)
event_map ==
    [ProcessLaunched         |-> "PROCESS_LAUNCHED",
     ChildCreationError      |-> "CHILD_CREATION_ERROR",
     ProcessTerminated       |-> "PROCESS_TERMINATED",
     TCPSocketListening      |-> "TCP_SOCKET_LISTENING",
     InotifyPathUpdated      |-> "INOTIFY_PATH_UPDATED",
     InotifyWatchListUpdated |-> "INOTIFY_WATCH_LIST_UPDATED",
     SocketWatched           |-> "SOCKET_WATCHED",
     SocketWatchTerminated   |-> "SOCKET_WATCH_TERMINATED",
     ExecveTerminated        |-> "EXECVE_TERMINATED"]

receive_message_from_demon(b, size) ==
    IF b.part = "none" \/ size <= 0 THEN "NONE"
    ELSE IF b.part = "head" THEN "-1"
    ELSE LET type == Member(Event, EventsType(b))
         IN  IF type \in DOMAIN event_map THEN event_map[type] ELSE "NONE"

=============================================================================
