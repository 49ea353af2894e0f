------------------------------- MODULE CCodec -------------------------------
(***************************************************************************)
(* c/daemon-features/serialize.cpp, the side of the C daemon: how it reads *)
(* requests and writes notices.  Arguments of the send functions have the  *)
(* C types of their parameters, so that a caller's integer is converted.   *)
(***************************************************************************)
EXTENDS Wire

(* The enumerations of data_structs.h; static_cast keeps their numbers.    *)
CSocketState == [SOCKET_UNKNOWN |-> 0, SOCKET_LISTENING |-> 1,
                 SOCKET_CREATED |-> 2]
CInotifyEvent == [MODIFIED |-> 0, CREATED |-> 1, SIZE_REACHED |-> 2,
                  DELETED |-> 3, ACCESSED |-> 4]

(* flatbuffers::Verifier rejects a buffer that is not complete.            *)
Verified(b, size) == b.part = "all" /\ size > 0

C_receive_message_from_user(b, size) ==
    IF ~Verified(b, size) THEN "NONE"
    ELSE IF EventsType(b) = Event.RunCommand THEN "RUN_COMMAND"
    ELSE IF EventsType(b) = Event.KillProcess THEN "KILL_PROCESS"
    ELSE "NONE"

(* Seeded fault: the type of the other request is expected.                 *)
ExpectsACommand(b, size) ==
    IF Verified(b, size) /\ EventsType(b) = Event.RunCommand THEN 0 ELSE -1

C_receive_kill(b, size) ==
    IF Verified(b, size) /\ EventsType(b) = Event.KillProcess
    THEN Get(KillProcess, Events(b), "pid")
    ELSE -1

(* Seeded fault: every number of an Inotify table is its mask.              *)
ReadsTheMask(tab) ==
    LET params == Get(SurveillanceEvent, tab, "event")
    IN  IF Get(SurveillanceEvent, tab, "event_type") = Surveillance.Inotify
        THEN [event     |-> "INOTIFY",
              ptr_event |-> [root_paths |-> Get(Inotify, params, "root_paths"),
                             mask |-> Get(Inotify, params, "mask"),
                             size |-> Get(Inotify, params, "mask")]]
        ELSE [event     |-> "WATCH_SOCKET",
              ptr_event |-> [destport |-> Get(TCPSocket, params, "destport")]]

(* One entry of to_watch.                                                  *)
C_surveillance(tab) ==
    LET params == Get(SurveillanceEvent, tab, "event")
    IN  IF Get(SurveillanceEvent, tab, "event_type") = Surveillance.Inotify
        THEN [event     |-> "INOTIFY",
              ptr_event |-> [f \in DOMAIN Inotify |-> Get(Inotify, params, f)]]
        ELSE [event     |-> "WATCH_SOCKET",
              ptr_event |-> [f \in DOMAIN TCPSocket |->
                                 Get(TCPSocket, params, f)]]

(* Strings and vectors are read without a test for null: a command without *)
(* them would end the daemon, and the client writes all of them.           *)
C_receive_command(b, size) ==
    LET tab == Events(b)
        watches == Get(RunCommand, tab, "to_watch")
    IN  IF Verified(b, size) /\ EventsType(b) = Event.RunCommand
        THEN [f \in DOMAIN RunCommand |->
                 IF f = "to_watch"
                 THEN [i \in 1 .. Len(watches) |-> C_surveillance(watches[i])]
                 ELSE Get(RunCommand, tab, f)]
        ELSE None

-----------------------------------------------------------------------------
(* Seeded fault: the pid is not added.                                      *)
WithoutPid(info) ==
    Finish(Event.ExecveTerminated,
           Build(ExecveTerminated, [info EXCEPT !.pid = 0]))

C_send_execveterminated(info) ==
    Finish(Event.ExecveTerminated, Build(ExecveTerminated, info))

C_send_processlaunched(pid) ==
    Finish(Event.ProcessLaunched, Build(ProcessLaunched, [pid |-> pid]))

C_send_childcreationerror(error_code) ==
    Finish(Event.ChildCreationError,
           Build(ChildCreationError, [error_code |-> ToUint32(error_code)]))

C_send_processterminated(pid, error_code) ==
    Finish(Event.ProcessTerminated,
           Build(ProcessTerminated,
                 [pid |-> pid, error_code |-> ToUint32(error_code)]))

C_send_tcpsocketlistening(port) ==
    Finish(Event.TCPSocketListening,
           Build(TCPSocketListening, [port |-> port % (MAX16 + 1)]))

C_send_inotifypathupdated(info) ==
    Finish(Event.InotifyPathUpdated,
           Build(InotifyPathUpdated,
                 [path           |-> info.path,
                  trigger_events |-> info.event,
                  size           |-> ToUint32(info.size),
                  size_limit     |-> ToUint32(info.size_limit)]))

C_send_inotifywatchlistupdated(path) ==
    Finish(Event.InotifyWatchListUpdated,
           Build(InotifyWatchListUpdated, [path |-> path]))

C_send_socketwatched(port) ==
    Finish(Event.SocketWatched, Build(SocketWatched, [port |-> port]))

C_send_socketwatchterminated(info) ==
    Finish(Event.SocketWatchTerminated,
           Build(SocketWatchTerminated,
                 [port |-> info.port, state |-> CSocketState[info.state]]))

=============================================================================
