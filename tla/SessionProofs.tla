--------------------------- MODULE SessionProofs ---------------------------
(***************************************************************************)
(* Proofs about a session, for any tests, pids, codes, files and widths of *)
(* integers: what goes through both codecs and the connection arrives as   *)
(* it was meant.                                                           *)
(***************************************************************************)
EXTENDS Session, CodecProofs

USE WidthAssumption, TextAssumption, NoneAssumption, KindAssumption,
    PathAssumption, FileBoundAssumption, GarbageAssumption, PidsAssumption,
    PortAssumption, CodesAssumption, SessionBoundAssumption

-----------------------------------------------------------------------------
(* The inductive invariant.                                                *)

(* A command as a test gives it.                                           *)
FromATest(cmd) ==
    /\ cmd \in Commands
    /\ \A k \in DOMAIN cmd.to_watch :
          LET surv == cmd.to_watch[k]
          IN  surv.event = "INOTIFY" => surv.ptr_event.root_paths \in Path

CommandSent == send_command_to_demon(client.cmd)
KillSent == send_kill_to_demon(job.pid)

(* What a client sends after its command: kills, of its own process as     *)
(* long as its stream is in frame.                                         *)
KillsSent ==
    IF client.framed THEN {KillSent}
                     ELSE {send_kill_to_demon(pid) : pid \in Int32}

(* The request of a client is on its way until it is served, and nothing   *)
(* else happens before.                                                    *)
BeforeRequest ==
    /\ up # <<>> => /\ FromATest(client.cmd) /\ CommandSent # Raised
                    /\ Len(up) = 1 /\ up[1] = CommandSent
    /\ job = NoJob /\ pending = {} /\ killed = {}
    /\ inst = <<Instance(0)>> /\ queue = << <<>> >>
    /\ \A n \in told : n.class = "TCP_SOCKET_LISTENING"

(* After it there are only kills.                                          *)
AfterRequest ==
    /\ FromATest(client.cmd) /\ CommandSent # Raised
    /\ served = [client.cmd EXCEPT !.to_watch = Kept(client.cmd.to_watch)]
    /\ up \in Seq(KillsSent)
    /\ client.framed /\ up # <<>> => job.pid # 0

RequestInv ==
    /\ up \in Seq({CommandSent} \cup KillsSent)
    /\ served = None => BeforeRequest
    /\ served # None => AfterRequest

ClientFields == {"pc", "cmd", "wanted", "kill", "got", "meant", "framed", "cut"}
ClientInv ==
    /\ DOMAIN client = ClientFields
    /\ client.pc \in {"start", "waiting", "misframed", "done", "lost", "crashed"}
    /\ client.wanted \in Classes \cup {""}
    /\ client.framed \in BOOLEAN
    /\ client.pc = "misframed" => ~client.framed
    /\ client.cut \in {"no", "text", "root", "head", "stream"}
    /\ client.pc = "start" => up = <<>> /\ served = None

DaemonInv ==
    /\ accepted \in BOOLEAN
    /\ daemon \in {"up", "leaving", "exited", "terminated", "segv"}
    /\ killed \subseteq Int32
    /\ ops \in 0 .. MaxOps

JobType ==
    [pid : Pids \cup {0}, alive : BOOLEAN, exec : {"none", "pending", "told"},
     end : {"none", "pending", "told"}, code : Errno \cup Codes \cup {0, SIGKILL}]

JobInv ==
    /\ job \in JobType
    /\ job.exec # "none" \/ job.end # "none" \/ job.alive => job.pid # 0

(* A list of watches asks for event what on p, and so does the request.    *)
Asks(watches, p, what) ==
    \E k \in DOMAIN watches :
        /\ watches[k].event = "INOTIFY"
        /\ watches[k].ptr_event.root_paths = p
        /\ Has(watches[k].ptr_event.mask, what)
Asked(p, what) == Asks(served.to_watch, p, what)

(* An event the kernel holds is one that was asked for, or tells of the    *)
(* end of the watch of a file.                                             *)
KernelEvent == [path : Path, what : DOMAIN Bit \cup {"IGNORED"}]
Sensible ==
    {e \in KernelEvent : IF e.what = "IGNORED" THEN Kind[e.path] = "file"
                                               ELSE Asked(e.path, e.what)}

(* Every mask of an instance is one that was asked for.                    *)
InstanceType == [size : Int32, mask : [Path -> Int32]]
Watching(watches) ==
    {x \in InstanceType :
        \A p \in Path : \A what \in DOMAIN Bit :
            Has(x.mask[p], what) => Asks(watches, p, what)}
AskedInstance == Watching(served.to_watch)

WatchInv ==
    /\ files \in [Path -> -1 .. MaxSize]
    /\ inst \in Seq(AskedInstance) /\ inst # <<>>
    /\ queue \in [DOMAIN inst -> Seq(Sensible)]
    /\ \A k \in pending : /\ k \in DOMAIN served.to_watch
                          /\ served.to_watch[k].event = "WATCH_SOCKET"

(* What the daemon means by a notice about a path.                         *)
PathMeaning ==
    [path : Text \cup Bytes, event : DOMAIN CInotifyEvent \cup {"garbage"},
     size : Uint32, size_limit : Uint32]

(* A message about a path, in which the kind of the event is the number e. *)
PathBuffer(v, e) == C_send_inotifypathupdated([v EXCEPT !.event = e])
NameOf(e) == IF IsMember(CInotifyEvent, e) THEN Member(CInotifyEvent, e) ELSE "garbage"

PathNoticeInv(n) ==
    /\ n.about \in Path
    /\ n.value \in PathMeaning
    /\ \E e \in Int8 : n.buf = PathBuffer(n.value, e) /\ n.value.event = NameOf(e)
    /\ Kind[n.about] = "file" \/ (n.value.path \in Text /\ n.value.event # "garbage")
    /\ n.what = "IGNORED" \/ Asked(n.about, BitOf[n.value.event])

(* The message of a notice is what the C function for its class makes of   *)
(* what the daemon means, and an execve notice is about the one process.   *)
NoticeInv(n) ==
    \/ n.class = "PROCESS_LAUNCHED" /\ n.buf = C_send_processlaunched(n.value)
    \/ /\ n.class = "CHILD_CREATION_ERROR" /\ n.value \in Uint32
       /\ n.buf = C_send_childcreationerror(n.value)
    \/ /\ n.class = "PROCESS_TERMINATED" /\ n.value \in ProcessTerminatedInfo
       /\ n.buf = C_send_processterminated(n.value.pid, n.value.error_code)
    \/ /\ n.class = "TCP_SOCKET_LISTENING" /\ n.value \in Uint16
       /\ n.buf = C_send_tcpsocketlistening(n.value)
    \/ n.class = "INOTIFY_PATH_UPDATED" /\ PathNoticeInv(n)
    \/ /\ n.class = "INOTIFY_WATCH_LIST_UPDATED" /\ n.value \in Text
       /\ n.buf = C_send_inotifywatchlistupdated(n.value)
    \/ n.class = "SOCKET_WATCHED" /\ n.buf = C_send_socketwatched(n.value)
    \/ /\ n.class = "SOCKET_WATCH_TERMINATED" /\ n.value \in SocketWatchInfo
       /\ n.buf = C_send_socketwatchterminated(n.value)
    \/ /\ n.class = "EXECVE_TERMINATED" /\ n.value \in ExecveInfo
       /\ n.buf = C_send_execveterminated(n.value)
       /\ n.value.pid = job.pid /\ job.pid # 0

NoticesInv ==
    /\ down \in Seq(told)
    /\ \A n \in told : NoticeInv(n)

Inv ==
    /\ RequestInv /\ ClientInv /\ DaemonInv /\ JobInv /\ WatchInv /\ NoticesInv
    /\ NoticeAsMeant /\ CrashIsExplained /\ KillsOwn

-----------------------------------------------------------------------------
(* Reading a notice.                                                       *)

(* A notice is a message of the type that belongs to its class.            *)
LEMMA NoticeShape ==
  ASSUME NEW n, NoticeInv(n)
  PROVE  \E type \in DOMAIN event_map : \E tab :
            n.buf = Finish(Event[type], tab) /\ n.class = event_map[type]
<1>. USE DEF event_map
<1>1. CASE n.class = "PROCESS_LAUNCHED" /\ n.buf = C_send_processlaunched(n.value)
  BY <1>1 DEF C_send_processlaunched
<1>2. CASE n.class = "CHILD_CREATION_ERROR" /\ n.buf = C_send_childcreationerror(n.value)
  BY <1>2 DEF C_send_childcreationerror
<1>3. CASE /\ n.class = "PROCESS_TERMINATED"
           /\ n.buf = C_send_processterminated(n.value.pid, n.value.error_code)
  BY <1>3 DEF C_send_processterminated
<1>4. CASE n.class = "TCP_SOCKET_LISTENING" /\ n.buf = C_send_tcpsocketlistening(n.value)
  BY <1>4 DEF C_send_tcpsocketlistening
<1>5. CASE n.class = "INOTIFY_PATH_UPDATED" /\ PathNoticeInv(n)
  BY <1>5 DEF PathNoticeInv, PathBuffer, C_send_inotifypathupdated
<1>6. CASE /\ n.class = "INOTIFY_WATCH_LIST_UPDATED"
           /\ n.buf = C_send_inotifywatchlistupdated(n.value)
  BY <1>6 DEF C_send_inotifywatchlistupdated
<1>7. CASE n.class = "SOCKET_WATCHED" /\ n.buf = C_send_socketwatched(n.value)
  BY <1>7 DEF C_send_socketwatched
<1>8. CASE /\ n.class = "SOCKET_WATCH_TERMINATED"
           /\ n.buf = C_send_socketwatchterminated(n.value)
  BY <1>8 DEF C_send_socketwatchterminated
<1>9. CASE n.class = "EXECVE_TERMINATED" /\ n.buf = C_send_execveterminated(n.value)
  BY <1>9 DEF C_send_execveterminated
<1>. QED
  BY <1>1, <1>2, <1>3, <1>4, <1>5, <1>6, <1>7, <1>8, <1>9 DEF NoticeInv

(* A complete notice is read as it was meant, except for one about a file  *)
(* that is watched, which may raise.                                       *)
LEMMA FullRead ==
  ASSUME NEW n, NoticeInv(n)
  PROVE  LET b == n.buf
             v == Decoded(n.class, b)
         IN  /\ receive_message_from_demon(b, Length(b)) = n.class
             /\ \/ v = n.value /\ (n.class \in Objects => v # None)
                \/ /\ v = None /\ n.class = "INOTIFY_PATH_UPDATED"
                   /\ Kind[n.about] = "file"
             /\ n.class = "EXECVE_TERMINATED" =>
                   receive_execveterminated(b, Length(b)) = n.value
<1>0. receive_message_from_demon(n.buf, Length(n.buf)) = n.class
  BY NoticeShape, ClassRead
<1>. USE <1>0 DEF Decoded, Objects
<1>1. CASE n.class = "PROCESS_LAUNCHED" /\ n.buf = C_send_processlaunched(n.value)
  BY <1>1, LaunchedRoundTrip
<1>2. CASE /\ n.class = "CHILD_CREATION_ERROR" /\ n.value \in Uint32
           /\ n.buf = C_send_childcreationerror(n.value)
  BY <1>2, ErrorRoundTrip
<1>3. CASE /\ n.class = "PROCESS_TERMINATED" /\ n.value \in ProcessTerminatedInfo
           /\ n.buf = C_send_processterminated(n.value.pid, n.value.error_code)
  <2>1. /\ n.value = [pid |-> n.value.pid, error_code |-> n.value.error_code]
        /\ n.value.error_code \in Uint32 /\ n.value # None
    BY <1>3 DEF ProcessTerminatedInfo
  <2>. QED
    BY <1>3, <2>1, TerminatedRoundTrip
<1>4. CASE /\ n.class = "TCP_SOCKET_LISTENING" /\ n.value \in Uint16
           /\ n.buf = C_send_tcpsocketlistening(n.value)
  BY <1>4, ListeningRoundTrip
<1>5. CASE n.class = "INOTIFY_PATH_UPDATED" /\ PathNoticeInv(n)
  <2>1. PICK e \in Int8 : n.buf = PathBuffer(n.value, e) /\ n.value.event = NameOf(e)
    BY <1>5 DEF PathNoticeInv
  <2>. DEFINE info == [n.value EXCEPT !.event = e]
              w == receive_inotifypathupdated(n.buf, Length(n.buf))
  <2>2. /\ n.value = [path |-> n.value.path, event |-> n.value.event,
                      size |-> n.value.size, size_limit |-> n.value.size_limit]
        /\ n.value.size \in Uint32 /\ n.value.size_limit \in Uint32
    BY <1>5 DEF PathNoticeInv, PathMeaning
  <2>3. /\ info.path = n.value.path /\ info.event = e
        /\ info.size = n.value.size /\ info.size_limit = n.value.size_limit
    BY <1>5 DEF PathNoticeInv, PathMeaning
  <2>4. ToUint32(n.value.size) = n.value.size /\ ToUint32(n.value.size_limit) = n.value.size_limit
    BY <2>2, ConversionFacts DEF Uint32
  <2>5. n.buf = C_send_inotifypathupdated(info)
    BY <2>1 DEF PathBuffer
  <2>. HIDE DEF info
  <2>6. w = IF n.value.path \in Text /\ IsMember(CInotifyEvent, e)
            THEN [path |-> n.value.path, event |-> Member(CInotifyEvent, e),
                  size |-> n.value.size, size_limit |-> n.value.size_limit]
            ELSE None
    BY <2>3, <2>4, <2>5, PathUpdatedRoundTrip
  <2>7. CASE n.value.path \in Text /\ IsMember(CInotifyEvent, e)
    <3>1. w = n.value
      BY <2>1, <2>2, <2>6, <2>7 DEF NameOf
    <3>2. n.value \in PathUpdatedInfo
      <4>1. n.value.event \in DOMAIN PyInotifyEvent
        BY <2>1, <2>7, EnumsAgree DEF NameOf, IsMember, Member
      <4>. QED
        BY <2>2, <2>7, <4>1 DEF PathUpdatedInfo
    <3>. QED
      BY <1>5, <3>1, <3>2
  <2>8. CASE ~(n.value.path \in Text /\ IsMember(CInotifyEvent, e))
    <3>1. w = None
      BY <2>6, <2>8
    <3>2. Kind[n.about] = "file"
      BY <2>1, <2>8, <1>5 DEF PathNoticeInv, NameOf
    <3>. QED
      BY <1>5, <3>1, <3>2
  <2>. QED
    BY <2>7, <2>8
<1>6. CASE /\ n.class = "INOTIFY_WATCH_LIST_UPDATED" /\ n.value \in Text
           /\ n.buf = C_send_inotifywatchlistupdated(n.value)
  BY <1>6, WatchListRoundTrip
<1>7. CASE n.class = "SOCKET_WATCHED" /\ n.buf = C_send_socketwatched(n.value)
  BY <1>7, WatchedRoundTrip
<1>8. CASE /\ n.class = "SOCKET_WATCH_TERMINATED" /\ n.value \in SocketWatchInfo
           /\ n.buf = C_send_socketwatchterminated(n.value)
  <2>1. /\ n.value = [port |-> n.value.port, state |-> n.value.state]
        /\ n.value.state \in DOMAIN CSocketState /\ n.value # None
    BY <1>8, EnumsAgree DEF SocketWatchInfo
  <2>2. receive_socketwatchterminated(n.buf, Length(n.buf)) = n.value
    BY <1>8, <2>1, WatchTerminatedRoundTrip
  <2>. QED
    BY <1>8, <2>1, <2>2
<1>9. CASE /\ n.class = "EXECVE_TERMINATED" /\ n.value \in ExecveInfo
           /\ n.buf = C_send_execveterminated(n.value)
  <2>1. /\ n.value = [pid |-> n.value.pid, command_name |-> n.value.command_name,
                      success |-> n.value.success]
        /\ n.value.command_name \in Text /\ n.value # None
    BY <1>9 DEF ExecveInfo
  <2>2. receive_execveterminated(n.buf, Length(n.buf)) = n.value
    BY <1>9, <2>1, ExecveRoundTrip
  <2>. QED
    BY <1>9, <2>1, <2>2
<1>. QED
  BY <1>1, <1>2, <1>3, <1>4, <1>5, <1>6, <1>7, <1>8, <1>9 DEF NoticeInv

(* Of a message cut in its first bytes not even the type is read.          *)
LEMMA HeadRead ==
  ASSUME NEW type, NEW tab
  PROVE  LET b == Truncated(Finish(type, tab), "head")
         IN  receive_message_from_demon(b, Length(b)) = "-1"
<1>1. Truncated(Finish(type, tab), "head").part = "head"
  BY DEF Truncated, Finish
<1>. QED
  BY <1>1 DEF receive_message_from_demon, Length

(* Of a message cut in its event only the type is read.                    *)
LEMMA RootRead ==
  ASSUME NEW type \in DOMAIN event_map, NEW tab
  PROVE  LET b == Truncated(Finish(Event[type], tab), "root")
             class == event_map[type]
         IN  /\ receive_message_from_demon(b, Length(b)) = class
             /\ Decoded(class, b) \in {-1, None}
             /\ class \in Objects => Decoded(class, b) = None
             /\ receive_execveterminated(b, Length(b)) = None
<1>. DEFINE a == Finish(Event[type], tab)
            b == Truncated(a, "root")
<1>1. b.part = "root" /\ b.message = a.message
  BY DEF Truncated, Finish
<1>2. EventsType(b) = Event[type] /\ Length(b) = 1
  BY <1>1, FinishRead DEF EventsType, Length
<1>3. type \in DOMAIN Event
  BY <1>1 DEF event_map, Event
<1>4. receive_message_from_demon(b, Length(b)) = event_map[type]
  BY <1>1, <1>2, <1>3, EventMember DEF receive_message_from_demon
<1>. HIDE DEF b
<1>5. \A t, failed, ok, value : Received(b, Length(b), t, failed, failed, ok, value) = failed
  BY <1>1, <1>2 DEF Received
<1>. HIDE DEF a
<1>6. receive_execveterminated(b, Length(b)) = None
  BY <1>5 DEF receive_execveterminated
<1>7. /\ receive_processlaunched(b, Length(b)) = -1
      /\ receive_childcreationerror(b, Length(b)) = -1
      /\ receive_processterminated(b, Length(b)) = None
      /\ receive_TCPSocketListening(b, Length(b)) = -1
      /\ receive_inotifypathupdated(b, Length(b)) = None
      /\ receive_inotifywatchlistupdated(b, Length(b)) = None
      /\ receive_socketwatched(b, Length(b)) = -1
      /\ receive_socketwatchterminated(b, Length(b)) = None
  <2>1. receive_processlaunched(b, Length(b)) = -1
    BY <1>5 DEF receive_processlaunched
  <2>2. receive_childcreationerror(b, Length(b)) = -1
    BY <1>5 DEF receive_childcreationerror
  <2>3. receive_processterminated(b, Length(b)) = None
    BY <1>5 DEF receive_processterminated
  <2>4. receive_TCPSocketListening(b, Length(b)) = -1
    BY <1>5 DEF receive_TCPSocketListening
  <2>5. receive_inotifypathupdated(b, Length(b)) = None
    BY <1>5 DEF receive_inotifypathupdated
  <2>6. receive_inotifywatchlistupdated(b, Length(b)) = None
    BY <1>5 DEF receive_inotifywatchlistupdated
  <2>7. receive_socketwatched(b, Length(b)) = -1
    BY <1>5 DEF receive_socketwatched
  <2>8. receive_socketwatchterminated(b, Length(b)) = None
    BY <1>5 DEF receive_socketwatchterminated
  <2>. QED
    BY <2>1, <2>2, <2>3, <2>4, <2>5, <2>6, <2>7, <2>8
<1>8. event_map[type] \in Classes
  BY DEF Classes, event_map
<1>9. \A c \in Classes : /\ Decoded(c, b) \in {-1, None}
                         /\ c \in Objects => Decoded(c, b) = None
  BY <1>6, <1>7 DEF Classes, Decoded, Objects
<1>. QED
  BY <1>4, <1>6, <1>8, <1>9 DEF a, b

(* A table and the one with another string.                                *)
Cut(tab, str, s) == {tab, [tab EXCEPT ![str] = s]}

(* Of a message cut in its string the type is read, and an event that      *)
(* differs in the string at most.                                          *)
LEMMA TextCut ==
  ASSUME NEW type, NEW tab, NEW s
  PROVE  LET c == WithText(Finish(type, tab), s)
         IN  /\ c.part = "all" /\ Length(c) = 1
             /\ EventsType(c) = type
             /\ Events(c) \in Cut(tab, StringOf(type), s)
<1>. DEFINE a == Finish(type, tab)
            str == StringOf(type)
            c == WithText(a, s)
            v == [events_type |-> type, events |-> tab]
            old == Build(Message, v)
            new == [old EXCEPT !.events[str] = s]
<1>1. a.part = "all" /\ a.message = old /\ EventsType(a) = type
  BY FinishRead DEF Finish
<1>2. DOMAIN a = {"part", "message"}
  BY DEF Finish
<1>3. c = [a EXCEPT !.message.events[str] = s]
  BY <1>1 DEF WithText
<1>4. c.part = "all" /\ c.message = new
  BY <1>1, <1>2, <1>3
<1>5. /\ DOMAIN new = DOMAIN old
      /\ "events_type" \in DOMAIN old => new["events_type"] = old["events_type"]
      /\ "events" \in DOMAIN old => new["events"] = [old["events"] EXCEPT ![str] = s]
  OBVIOUS
<1>6. /\ "events_type" \in DOMAIN old => old["events_type"] = type
      /\ "events_type" \notin DOMAIN old => type = Default(Message["events_type"])
      /\ "events" \in DOMAIN old => old["events"] = tab
      /\ "events" \notin DOMAIN old => tab = Default(Message["events"])
  BY DEF Build, Message
<1>. HIDE DEF a, old, new, c
<1>7. Get(Message, new, "events_type") = type
  BY <1>5, <1>6 DEF Get
<1>8. Get(Message, new, "events") \in {tab, [tab EXCEPT ![str] = s]}
  BY <1>5, <1>6 DEF Get
<1>9. EventsType(c) = type /\ Events(c) \in {tab, [tab EXCEPT ![str] = s]} /\ Length(c) = 1
  BY <1>4, <1>7, <1>8 DEF EventsType, Events, Length
<1>. QED
  BY <1>4, <1>9 DEF a, c, Cut

(* The other fields of that event are as they were.                        *)
LEMMA OtherFields ==
  ASSUME NEW table, NEW v, NEW str, NEW s,
         NEW t \in Cut(Build(table, v), str, s)
  PROVE  \A f \in DOMAIN table \ {str} : Get(table, t, f) = v[f]
<1>. TAKE f \in DOMAIN table \ {str}
<1>1. DOMAIN t = DOMAIN Build(table, v)
      /\ (f \in DOMAIN t => t[f] = Build(table, v)[f])
  BY DEF Build, Cut
<1>2. Get(table, t, f) = Get(table, Build(table, v), f)
  BY <1>1 DEF Get
<1>. QED
  BY <1>2, GetBuild

(* An execve notice with another text still has its pid.                   *)
LEMMA ExecveText ==
  ASSUME NEW info \in ExecveInfo, NEW s
  PROVE  LET c == WithText(C_send_execveterminated(info), s)
             r == receive_execveterminated(c, Length(c))
         IN  \/ r = None
             \/ \E x : r = [pid |-> info.pid, command_name |-> x,
                            success |-> info.success]
<1>. DEFINE tab == Build(ExecveTerminated, info)
            c == WithText(C_send_execveterminated(info), s)
            t == Events(c)
<1>1. C_send_execveterminated(info) = Finish(Event.ExecveTerminated, tab)
  BY DEF C_send_execveterminated
<1>2. StringOf(Event.ExecveTerminated) = "command_name"
  BY DEF StringOf
<1>3. /\ c.part = "all" /\ Length(c) = 1
      /\ EventsType(c) = Event.ExecveTerminated
      /\ t \in Cut(tab, "command_name", s)
  BY <1>1, <1>2, TextCut
<1>. HIDE DEF c, t
<1>4. \A f \in DOMAIN ExecveTerminated \ {"command_name"} :
         Get(ExecveTerminated, t, f) = info[f]
  BY <1>3, OtherFields
<1>5. /\ Get(ExecveTerminated, t, "pid") = info.pid
      /\ Get(ExecveTerminated, t, "success") = info.success
  BY <1>4, Fields
<1>6. receive_execveterminated(c, Length(c)) =
         IF Decodes(Get(ExecveTerminated, t, "command_name"))
         THEN [pid |-> info.pid,
               command_name |-> Get(ExecveTerminated, t, "command_name"),
               success |-> info.success]
         ELSE None
  BY <1>3, <1>5 DEF receive_execveterminated, Received, t
<1>. QED
  BY <1>6 DEF c

(* A notice about a path with another name still has its numbers.          *)
LEMMA PathText ==
  ASSUME NEW v \in PathMeaning,
         NEW e, v.event = NameOf(e), NEW s
  PROVE  LET c == WithText(PathBuffer(v, e), s)
             r == receive_inotifypathupdated(c, Length(c))
         IN  \/ r = None
             \/ \E x : r = [path |-> x, event |-> v.event, size |-> v.size,
                            size_limit |-> v.size_limit]
<1>. DEFINE w == [path |-> v.path, trigger_events |-> e, size |-> v.size,
                  size_limit |-> v.size_limit]
            tab == Build(InotifyPathUpdated, w)
            c == WithText(PathBuffer(v, e), s)
            t == Events(c)
<1>1. PathBuffer(v, e) = Finish(Event.InotifyPathUpdated, tab)
  <2>1. ToUint32(v.size) = v.size /\ ToUint32(v.size_limit) = v.size_limit
    BY ConversionFacts DEF Uint32, PathMeaning
  <2>. DEFINE info == [v EXCEPT !.event = e]
  <2>2. /\ info.path = v.path /\ info.event = e
        /\ info.size = v.size /\ info.size_limit = v.size_limit
    BY DEF PathMeaning
  <2>. HIDE DEF info
  <2>. QED
    BY <2>1, <2>2 DEF PathBuffer, C_send_inotifypathupdated, info
<1>2. StringOf(Event.InotifyPathUpdated) = "path"
  BY DEF StringOf, Event
<1>3. /\ c.part = "all" /\ Length(c) = 1
      /\ EventsType(c) = Event.InotifyPathUpdated
      /\ t \in Cut(tab, "path", s)
  BY <1>1, <1>2, TextCut
<1>4. w.trigger_events = e /\ w.size = v.size /\ w.size_limit = v.size_limit
  OBVIOUS
<1>. HIDE DEF c, t, w
<1>5. \A f \in DOMAIN InotifyPathUpdated \ {"path"} :
         Get(InotifyPathUpdated, t, f) = w[f]
  BY <1>3, OtherFields
<1>6. /\ Get(InotifyPathUpdated, t, "trigger_events") = e
      /\ Get(InotifyPathUpdated, t, "size") = v.size
      /\ Get(InotifyPathUpdated, t, "size_limit") = v.size_limit
  BY <1>5, <1>4, Fields
<1>7. receive_inotifypathupdated(c, Length(c)) =
         IF Decodes(Get(InotifyPathUpdated, t, "path")) /\ IsMember(PyInotifyEvent, e)
         THEN [path |-> Get(InotifyPathUpdated, t, "path"),
               event |-> Member(PyInotifyEvent, e),
               size |-> v.size, size_limit |-> v.size_limit]
         ELSE None
  BY <1>3, <1>6 DEF receive_inotifypathupdated, Received, t
<1>8. IsMember(PyInotifyEvent, e) => Member(PyInotifyEvent, e) = v.event
  BY EnumsAgree DEF NameOf
<1>. QED
  BY <1>7, <1>8 DEF c

(* What is read of a notice with another text.                             *)
LEMMA TextRead ==
  ASSUME NEW n, NoticeInv(n), HasText(n.buf), NEW s
  PROVE  LET c == WithText(n.buf, s)
             v == Decoded(n.class, c)
             r == receive_execveterminated(c, Length(c))
         IN  /\ receive_message_from_demon(c, Length(c)) = n.class
             /\ n.class \in Objects /\ v # None => Numbers(v) = Numbers(n.value)
             /\ n.class = "EXECVE_TERMINATED" => r = None \/ r.pid = n.value.pid
<1>. DEFINE c == WithText(n.buf, s)
<1>1. PICK type, tab :
         /\ type \in DOMAIN event_map
         /\ n.buf = Finish(Event[type], tab) /\ n.class = event_map[type]
  BY NoticeShape
<1>2. /\ c.part = "all" /\ Length(c) = 1 /\ EventsType(c) = Event[type]
      /\ EventsType(n.buf) = Event[type] /\ Events(n.buf) = tab
  BY <1>1, TextCut, FinishRead
<1>3. type \in DOMAIN Event
  BY <1>1 DEF event_map, Event
<1>4. receive_message_from_demon(c, Length(c)) = n.class
  BY <1>1, <1>2, <1>3, EventMember DEF receive_message_from_demon
<1>5. ASSUME n.class \in Objects
      PROVE  n.class \in {"INOTIFY_PATH_UPDATED", "EXECVE_TERMINATED"}
  <2>1. StringOf(EventsType(n.buf)) \in DOMAIN Events(n.buf)
    BY DEF HasText
  <2>2. CASE n.class = "PROCESS_TERMINATED"
    <3>1. n.buf = C_send_processterminated(n.value.pid, n.value.error_code)
      BY <2>2 DEF NoticeInv
    <3>. DEFINE w == [pid |-> n.value.pid, error_code |-> ToUint32(n.value.error_code)]
    <3>2. Events(n.buf) = Build(ProcessTerminated, w)
      BY <3>1, FinishRead DEF C_send_processterminated
    <3>. HIDE DEF w
    <3>3. DOMAIN Events(n.buf) \subseteq {"pid", "error_code"}
      BY <3>2, Fields DEF Build
    <3>. QED
      BY <2>1, <3>3 DEF StringOf
  <2>3. CASE n.class = "SOCKET_WATCH_TERMINATED"
    <3>1. n.buf = C_send_socketwatchterminated(n.value)
      BY <2>3 DEF NoticeInv
    <3>. DEFINE w == [port |-> n.value.port, state |-> CSocketState[n.value.state]]
    <3>2. Events(n.buf) = Build(SocketWatchTerminated, w)
      BY <3>1, FinishRead DEF C_send_socketwatchterminated
    <3>. HIDE DEF w
    <3>3. DOMAIN Events(n.buf) \subseteq {"port", "state"}
      BY <3>2, Fields DEF Build
    <3>. QED
      BY <2>1, <3>3 DEF StringOf
  <2>. QED
    BY <1>5, <2>2, <2>3 DEF Objects
<1>6. CASE n.class = "EXECVE_TERMINATED"
  <2>1. n.value \in ExecveInfo /\ n.buf = C_send_execveterminated(n.value)
    BY <1>6 DEF NoticeInv
  <2>. DEFINE r == receive_execveterminated(c, Length(c))
  <2>2. CASE r = None
    BY <1>4, <1>6, <2>2 DEF Decoded
  <2>3. CASE r # None
    <3>1. PICK x : r = [pid |-> n.value.pid, command_name |-> x, success |-> n.value.success]
      BY <2>1, <2>3, ExecveText
    <3>. HIDE DEF r
    <3>2. DOMAIN r = {"pid", "command_name", "success"}
          /\ DOMAIN n.value = {"pid", "command_name", "success"}
      BY <2>1, <3>1 DEF ExecveInfo
    <3>3. r.pid = n.value.pid /\ r.success = n.value.success
      BY <3>1
    <3>4. Numbers(r) = Numbers(n.value)
      BY <3>2, <3>3 DEF Numbers
    <3>5. Decoded(n.class, c) = r
      BY <1>6 DEF Decoded, r
    <3>. QED
      BY <1>4, <1>6, <3>3, <3>4, <3>5 DEF r
  <2>. QED
    BY <2>2, <2>3
<1>7. CASE n.class = "INOTIFY_PATH_UPDATED"
  <2>1. PathNoticeInv(n)
    BY <1>7 DEF NoticeInv
  <2>2. PICK e \in Int8 : n.buf = PathBuffer(n.value, e) /\ n.value.event = NameOf(e)
    BY <2>1 DEF PathNoticeInv
  <2>3. n.value \in PathMeaning
    BY <2>1 DEF PathNoticeInv
  <2>. DEFINE r == receive_inotifypathupdated(c, Length(c))
  <2>4. Decoded(n.class, c) = r
    BY <1>7 DEF Decoded
  <2>5. r = None \/ \E x : r = [path |-> x, event |-> n.value.event, size |-> n.value.size,
                                size_limit |-> n.value.size_limit]
    <3>1. PICK v : v = n.value
      OBVIOUS
    <3>2. v \in PathMeaning /\ v.event = NameOf(e) /\ c = WithText(PathBuffer(v, e), s)
      BY <2>2, <2>3, <3>1
    <3>. HIDE DEF c
    <3>3. r = None \/ \E x : r = [path |-> x, event |-> v.event, size |-> v.size,
                                  size_limit |-> v.size_limit]
      BY <3>2, PathText
    <3>. QED
      BY <3>1, <3>3
  <2>. HIDE DEF r
  <2>6. ASSUME r # None PROVE Numbers(r) = Numbers(n.value)
    <3>1. PICK x : r = [path |-> x, event |-> n.value.event, size |-> n.value.size,
                        size_limit |-> n.value.size_limit]
      BY <2>5, <2>6
    <3>2. DOMAIN r = {"path", "event", "size", "size_limit"}
          /\ DOMAIN n.value = {"path", "event", "size", "size_limit"}
      BY <2>3, <3>1 DEF PathMeaning
    <3>3. r.event = n.value.event /\ r.size = n.value.size /\ r.size_limit = n.value.size_limit
      BY <3>1
    <3>. QED
      BY <3>2, <3>3 DEF Numbers
  <2>. QED
    BY <1>4, <1>7, <2>4, <2>6
<1>. QED
  BY <1>4, <1>5, <1>6, <1>7 DEF Objects

(* What one reading b of notice n may give, after a cut.                   *)
GoodRead(b, n, cut) ==
    LET class == receive_message_from_demon(b, Length(b))
        v == Decoded(class, b)
        exec == receive_execveterminated(b, Length(b))
    IN  /\ cut \in {"no", "text", "root", "head"}
        /\ class = n.class \/ class = "-1"
        /\ class # "-1" /\ ~(class \in Objects /\ v = None) =>
              /\ cut = "no" => v = n.value
              /\ cut = "text" => (class \in Objects => Numbers(v) = Numbers(n.value))
              /\ cut \notin {"no", "text"} => v \in {-1, None}
        /\ class \in Objects /\ v = None =>
              \/ cut # "no"
              \/ n.class = "INOTIFY_PATH_UPDATED" /\ Kind[n.about] = "file"
        /\ class = "EXECVE_TERMINATED" =>
              \/ exec = None /\ cut # "no"
              \/ exec # None /\ exec.pid = job.pid /\ job.pid # 0

(* A notice that is read in full is what the daemon meant.                 *)
LEMMA FullIsGood ==
  ASSUME NEW n, NoticeInv(n)
  PROVE  GoodRead(n.buf, n, "no")
<1>1. n.class = "EXECVE_TERMINATED" => n.value.pid = job.pid /\ job.pid # 0
  BY DEF NoticeInv
<1>. QED
  BY <1>1, FullRead DEF GoodRead, Objects

(* Of a notice cut before its fields, no value is read.                    *)
LEMMA PartIsGood ==
  ASSUME NEW n, NoticeInv(n), NEW part \in {"head", "root"}
  PROVE  GoodRead(Truncated(n.buf, part), n, part)
<1>1. PICK type, tab :
         /\ type \in DOMAIN event_map
         /\ n.buf = Finish(Event[type], tab) /\ n.class = event_map[type]
  BY NoticeShape
<1>2. CASE part = "head"
  <2>1. receive_message_from_demon(Truncated(n.buf, part), Length(Truncated(n.buf, part))) = "-1"
    BY <1>1, <1>2, HeadRead
  <2>2. "-1" \notin Objects
    BY DEF Objects
  <2>. QED
    BY <1>2, <2>1, <2>2 DEF GoodRead
<1>3. CASE part = "root"
  BY <1>1, <1>3, RootRead DEF GoodRead
<1>. QED
  BY <1>2, <1>3

(* Of a notice cut in its text, the numbers are read.                      *)
LEMMA TextIsGood ==
  ASSUME NEW n, NoticeInv(n), HasText(n.buf), NEW s
  PROVE  GoodRead(WithText(n.buf, s), n, "text")
<1>1. n.class = "EXECVE_TERMINATED" => n.value.pid = job.pid /\ job.pid # 0
  BY DEF NoticeInv
<1>. QED
  BY <1>1, TextRead DEF GoodRead

(* One turn of the loop of a test function.                                *)
LEMMA ReadStep ==
  ASSUME ClientInv, client.pc = "waiting", NEW n, NEW b, NEW cut,
         GoodRead(b, n, cut), ClientReads(b, n, cut)
  PROVE  /\ DOMAIN client' = DOMAIN client
         /\ client'.cmd = client.cmd /\ client'.wanted = client.wanted
         /\ client'.pc \in {"waiting", "misframed", "done", "crashed"}
         /\ client'.cut \in {"no", "text", "root", "head", "stream"}
         /\ client'.framed \in BOOLEAN /\ (client'.framed => client.framed)
         /\ client'.pc = "misframed" => ~client'.framed
         /\ NoticeAsMeant' /\ CrashIsExplained'
         /\ \/ up' = up
            \/ /\ up' = Append(up, KillSent) /\ job.pid # 0
               /\ n.class = "EXECVE_TERMINATED"
<1>. DEFINE class == receive_message_from_demon(b, Length(b))
            value == Decoded(class, b)
            exec == receive_execveterminated(b, Length(b))
<1>1. /\ DOMAIN client = ClientFields
      /\ client.wanted \in Classes \cup {""}
      /\ client.cut \in {"no", "text", "root", "head", "stream"}
      /\ client.framed \in BOOLEAN
  BY DEF ClientInv
<1>. USE DEF ClientFields
<1>2. "-1" \notin Classes \cup {""}
  BY DEF Classes
<1>3. /\ cut \in {"no", "text", "root", "head"}
      /\ class = n.class \/ class = "-1"
      /\ class # "-1" /\ ~(class \in Objects /\ value = None) =>
            /\ cut = "no" => value = n.value
            /\ cut = "text" => (class \in Objects => Numbers(value) = Numbers(n.value))
            /\ cut \notin {"no", "text"} => value \in {-1, None}
      /\ class \in Objects /\ value = None =>
            \/ cut # "no"
            \/ n.class = "INOTIFY_PATH_UPDATED" /\ Kind[n.about] = "file"
      /\ class = "EXECVE_TERMINATED" =>
            \/ exec = None /\ cut # "no"
            \/ exec # None /\ exec.pid = job.pid /\ job.pid # 0
  BY DEF GoodRead
<1>. HIDE DEF class, value, exec
<1>4. CASE class = client.wanted
  <2>1. /\ client' = [client EXCEPT
                         !.pc = IF class \in Objects /\ value = None
                                THEN "crashed" ELSE "done",
                         !.got = value, !.meant = n, !.cut = cut]
        /\ up' = up
    BY <1>4 DEF ClientReads, class, value
  <2>2. /\ DOMAIN client' = DOMAIN client
        /\ client'.cmd = client.cmd /\ client'.wanted = client.wanted
        /\ client'.got = value /\ client'.meant = n /\ client'.cut = cut
        /\ client'.framed = client.framed
        /\ client'.pc = IF class \in Objects /\ value = None THEN "crashed" ELSE "done"
    BY <1>1, <2>1
  <2>3. class # "-1" /\ class = n.class
    BY <1>1, <1>2, <1>3, <1>4
  <2>4. NoticeAsMeant'
    <3>. SUFFICES ASSUME client'.pc = "done"
                  PROVE  CASE client'.cut = "no" -> client'.got = client'.meant.value
                           [] client'.cut = "text" ->
                                 client'.wanted \in Objects =>
                                     Numbers(client'.got) = Numbers(client'.meant.value)
                           [] client'.cut = "stream" -> ~client'.framed
                           [] OTHER -> client'.got \in {-1, None}
      BY DEF NoticeAsMeant, Numbers
    <3>1. ~(class \in Objects /\ value = None)
      BY <2>2
    <3>2. /\ cut = "no" => value = n.value
          /\ cut = "text" => (class \in Objects => Numbers(value) = Numbers(n.value))
          /\ cut \notin {"no", "text"} => value \in {-1, None}
      BY <1>3, <2>3, <3>1
    <3>. QED
      BY <1>3, <1>4, <2>2, <3>2
  <2>5. CrashIsExplained'
    <3>. SUFFICES ASSUME client'.pc = "crashed"
                  PROVE  \/ client'.cut # "no"
                         \/ /\ client'.meant.class = "INOTIFY_PATH_UPDATED"
                            /\ Kind[client'.meant.about] = "file"
      BY DEF CrashIsExplained
    <3>. QED
      BY <1>3, <2>2
  <2>. QED
    BY <1>1, <1>3, <2>1, <2>2, <2>4, <2>5
<1>5. CASE class # client.wanted /\ client.kill /\ class = "EXECVE_TERMINATED" /\ exec = None
  <2>1. /\ client' = [client EXCEPT !.pc = "crashed", !.meant = n, !.cut = cut]
        /\ up' = up
    BY <1>5 DEF ClientReads, class, exec
  <2>2. /\ DOMAIN client' = DOMAIN client /\ up' = up
        /\ client'.cmd = client.cmd /\ client'.wanted = client.wanted
        /\ client'.cut = cut /\ client'.pc = "crashed" /\ client'.framed = client.framed
    BY <1>1, <2>1
  <2>3. cut # "no"
    BY <1>3, <1>5
  <2>. QED
    BY <1>1, <1>3, <2>2, <2>3 DEF NoticeAsMeant, CrashIsExplained
<1>6. CASE class # client.wanted /\ client.kill /\ class = "EXECVE_TERMINATED" /\ exec # None
  <2>1. /\ client' = [client EXCEPT
                         !.pc = IF cut = "no" THEN client.pc ELSE "misframed",
                         !.framed = IF cut = "no" THEN client.framed ELSE FALSE]
        /\ up' = Append(up, send_kill_to_demon(exec.pid))
    BY <1>6 DEF ClientReads, class, exec
  <2>2. /\ DOMAIN client' = DOMAIN client
        /\ client'.cmd = client.cmd /\ client'.wanted = client.wanted
        /\ client'.cut = client.cut
        /\ client'.pc = IF cut = "no" THEN "waiting" ELSE "misframed"
        /\ client'.framed = IF cut = "no" THEN client.framed ELSE FALSE
    BY <1>1, <2>1
  <2>3. exec.pid = job.pid /\ job.pid # 0 /\ n.class = "EXECVE_TERMINATED"
    BY <1>3, <1>6
  <2>4. up' = Append(up, KillSent)
    BY <2>1, <2>3 DEF KillSent
  <2>. QED
    BY <1>1, <2>2, <2>3, <2>4 DEF NoticeAsMeant, CrashIsExplained
<1>7. CASE class # client.wanted /\ ~(client.kill /\ class = "EXECVE_TERMINATED")
  <2>1. /\ client' = [client EXCEPT
                         !.pc = IF cut = "no" THEN client.pc ELSE "misframed",
                         !.framed = IF cut = "no" THEN client.framed ELSE FALSE]
        /\ up' = up
    BY <1>7 DEF ClientReads, class
  <2>2. /\ DOMAIN client' = DOMAIN client
        /\ client'.cmd = client.cmd /\ client'.wanted = client.wanted
        /\ client'.cut = client.cut
        /\ client'.pc = IF cut = "no" THEN "waiting" ELSE "misframed"
        /\ client'.framed = IF cut = "no" THEN client.framed ELSE FALSE
    BY <1>1, <2>1
  <2>. QED
    BY <1>1, <2>1, <2>2 DEF NoticeAsMeant, CrashIsExplained
<1>. QED
  BY <1>4, <1>5, <1>6, <1>7

-----------------------------------------------------------------------------
(* What a step leaves alone.                                               *)

(* Nothing but the request and the pid of its process matters to a notice. *)
LEMMA NoticeFrame ==
  ASSUME served' = served, job'.pid = job.pid
  PROVE  \A n : NoticeInv(n) => NoticeInv(n)'
  BY DEF NoticeInv, PathNoticeInv, Asked

(* Reading a notice leaves the ones that were sent alone.                  *)
LEMMA NoticesFrame ==
  ASSUME NoticesInv, served' = served, job'.pid = job.pid, told' = told,
         down' \in Seq(told)
  PROVE  NoticesInv'
  BY NoticeFrame DEF NoticesInv

(* send_message of one notice.                                             *)
LEMMA SendOne ==
  ASSUME NoticesInv, served' = served, job'.pid = job.pid,
         NEW n, NoticeInv(n)', Send(<<n>>)
  PROVE  NoticesInv' /\ told' = told \cup {n}
<1>1. told' = told \cup {n} /\ down' = down \o <<n>>
  BY DEF Send
<1>2. down \in Seq(told') /\ <<n>> \in Seq(told')
  BY <1>1, SeqMonotonic DEF NoticesInv
<1>3. down' \in Seq(told')
  BY <1>1, <1>2, ConcatProperties
<1>4. \A m \in told : NoticeInv(m)'
  BY NoticeFrame DEF NoticesInv
<1>. QED
  BY <1>1, <1>3, <1>4 DEF NoticesInv

(* What was asked for depends on the request only.                         *)
LEMMA AskedFrame ==
  ASSUME served' = served
  PROVE  Sensible' = Sensible /\ AskedInstance' = AskedInstance
  BY DEF Sensible, AskedInstance, Asked

(* A step that does not touch files keeps what is watched.                 *)
LEMMA WatchFrame ==
  ASSUME WatchInv, UNCHANGED <<fileVars, served>>, pending' \subseteq pending
  PROVE  WatchInv'
<1>1. /\ files' = files /\ inst' = inst /\ queue' = queue /\ served' = served
  BY DEF fileVars
<1>. QED
  BY <1>1, AskedFrame DEF WatchInv

(* The kill of the job is one of the kills a client may send.              *)
LEMMA KillOfJob ==
  ASSUME JobInv
  PROVE  KillSent \in KillsSent
<1>1. job.pid \in Int32
  <2>1. 0 \in Int32
    BY DEF Int32
  <2>. QED
    BY <2>1 DEF JobInv, JobType
<1>. QED
  BY <1>1 DEF KillSent, KillsSent

(* A stream that gets out of frame only adds to the kills it may carry.    *)
LEMMA KillsFrame ==
  ASSUME JobInv, job'.pid = job.pid, client'.framed => client.framed
  PROVE  KillsSent \subseteq KillsSent'
<1>1. KillSent' = KillSent
  BY DEF KillSent
<1>2. CASE client'.framed
  BY <1>1, <1>2 DEF KillsSent
<1>3. CASE ~client'.framed
  <2>1. KillsSent' = {send_kill_to_demon(pid) : pid \in Int32}
    BY <1>3 DEF KillsSent
  <2>2. CASE client.framed
    <3>1. KillsSent = {send_kill_to_demon(job.pid)}
      BY <2>2 DEF KillsSent, KillSent
    <3>2. job.pid \in Int32
      <4>1. 0 \in Int32
        BY DEF Int32
      <4>. QED
        BY <4>1 DEF JobInv, JobType
    <3>. QED
      BY <2>1, <3>1, <3>2
  <2>3. CASE ~client.framed
    BY <2>1, <2>3 DEF KillsSent
  <2>. QED
    BY <2>2, <2>3
<1>. QED
  BY <1>2, <1>3

(* Before or after the request is served.                                  *)
LEMMA RequestFrame ==
  ASSUME RequestInv, JobInv,
         UNCHANGED <<fileVars, up, served, job, pending, killed>>,
         client'.cmd = client.cmd, client'.framed => client.framed,
         served = None => \A n \in told' : n.class = "TCP_SOCKET_LISTENING"
  PROVE  RequestInv'
<1>1. /\ inst' = inst /\ queue' = queue /\ served' = served /\ up' = up
      /\ job' = job /\ pending' = pending /\ killed' = killed
  BY DEF fileVars
<1>2. CommandSent' = CommandSent /\ KillsSent \subseteq KillsSent'
  BY <1>1, KillsFrame DEF CommandSent
<1>3. up' \in Seq({CommandSent'} \cup KillsSent')
  BY <1>1, <1>2, SeqMonotonic DEF RequestInv
<1>4. served = None => BeforeRequest'
  BY <1>1, <1>2 DEF RequestInv, BeforeRequest, FromATest, Instance
<1>5. served # None => AfterRequest'
  <2>. SUFFICES ASSUME served # None PROVE AfterRequest'
    OBVIOUS
  <2>1. AfterRequest
    BY DEF RequestInv
  <2>2. up' \in Seq(KillsSent')
    BY <1>1, <1>2, <2>1, SeqMonotonic DEF AfterRequest
  <2>. QED
    BY <1>1, <1>2, <2>1, <2>2 DEF AfterRequest, FromATest
<1>. QED
  BY <1>1, <1>3, <1>4, <1>5 DEF RequestInv

(* After it.                                                               *)
LEMMA ServedFrame ==
  ASSUME RequestInv, JobInv, served # None, served' = served,
         client'.cmd = client.cmd, client'.framed => client.framed,
         job'.pid = job.pid, up' \in Seq(KillsSent),
         client.framed /\ up' # <<>> => job.pid # 0
  PROVE  RequestInv'
<1>1. CommandSent' = CommandSent /\ KillsSent \subseteq KillsSent'
  BY KillsFrame DEF CommandSent
<1>2. up' \in Seq(KillsSent') /\ up' \in Seq({CommandSent'} \cup KillsSent')
  BY <1>1, SeqMonotonic
<1>3. AfterRequest
  BY DEF RequestInv
<1>4. AfterRequest'
  BY <1>1, <1>2, <1>3 DEF AfterRequest, FromATest
<1>. QED
  BY <1>2, <1>4 DEF RequestInv

(* A step of the daemon keeps what is known of the client.                 *)
LEMMA ClientFrame ==
  ASSUME client' = client, ClientInv, NoticeAsMeant, CrashIsExplained,
         client.pc # "start" \/ UNCHANGED <<up, served>>
  PROVE  ClientInv' /\ NoticeAsMeant' /\ CrashIsExplained'
<1>1. ClientInv'
  BY DEF ClientInv
<1>2. NoticeAsMeant' /\ CrashIsExplained'
  BY DEF NoticeAsMeant, CrashIsExplained, Numbers
<1>. QED
  BY <1>1, <1>2

-----------------------------------------------------------------------------
(* The steps of the client.                                                *)

(* The daemon listens, and no client has connected yet.                    *)
LEMMA InitHolds == Init => Inv
<1>. SUFFICES ASSUME Init PROVE Inv
  OBVIOUS
<1>1. /\ files \in [Path -> {-1, MaxSize}] /\ inst = <<Instance(0)>>
      /\ queue = << <<>> >>
      /\ up = <<>> /\ down = <<>> /\ accepted = FALSE /\ served = None
      /\ job = NoJob /\ pending = {} /\ daemon = "up"
      /\ killed = {} /\ told = {} /\ ops = 0
  BY DEF Init, FileInit
<1>2. client = [pc |-> "start", cmd |-> None, wanted |-> "", kill |-> FALSE,
                got |-> None, meant |-> None, framed |-> TRUE, cut |-> "no"]
  BY DEF Init
<1>3. RequestInv
  BY <1>1 DEF RequestInv, BeforeRequest
<1>4. ClientInv /\ NoticeAsMeant /\ CrashIsExplained
  <2>1. TRUE \in BOOLEAN
    BY Zenon
  <2>. QED
    BY <1>1, <1>2, <2>1 DEF ClientInv, ClientFields, NoticeAsMeant, CrashIsExplained
<1>5. DaemonInv /\ KillsOwn
  <2>1. accepted \in BOOLEAN
    BY <1>1, Zenon
  <2>2. ops \in 0 .. MaxOps
    BY <1>1
  <2>3. killed \subseteq {job.pid} \ {0}
    BY <1>1
  <2>. QED
    BY <1>1, <2>1, <2>2, <2>3 DEF DaemonInv, KillsOwn
<1>6. JobInv
  <2>1. NoJob \in JobType
    BY DEF JobType, NoJob
  <2>2. NoJob.exec = "none" /\ NoJob.end = "none" /\ NoJob.alive = FALSE
    BY DEF NoJob
  <2>. QED
    BY <1>1, <2>1, <2>2 DEF JobInv
<1>7. WatchInv
  <2>1. files \in [Path -> -1 .. MaxSize]
    BY <1>1
  <2>2. Instance(0) \in AskedInstance
    <3>1. 0 \in Int32
      BY DEF Int32
    <3>2. Instance(0) \in InstanceType /\ \A p \in Path : Instance(0).mask[p] = 0
      BY <3>1 DEF Instance, InstanceType
    <3>3. \A what \in DOMAIN Bit : ~Has(0, what)
      BY DEF Has, Bit
    <3>. QED
      BY <3>2, <3>3 DEF AskedInstance, Watching
  <2>3. inst \in Seq(AskedInstance) /\ inst # <<>> /\ DOMAIN inst = {1}
    BY <1>1, <2>2
  <2>4. queue \in [{1} -> Seq(Sensible)]
    <3>1. queue = [i \in {1} |-> <<>>]
      BY <1>1
    <3>. QED
      BY <3>1, EmptySeq
  <2>. QED
    BY <1>1, <2>1, <2>3, <2>4 DEF WatchInv
<1>8. NoticesInv
  BY <1>1 DEF NoticesInv
<1>. QED
  BY <1>3, <1>4, <1>5, <1>6, <1>7, <1>8 DEF Inv

(* A test function connects and sends its command.                         *)
LEMMA AsksKeeps ==
  ASSUME Inv, NEW test \in Tests, ClientAsks(test)
  PROVE  Inv'
<1>. DEFINE buf == send_command_to_demon(test.cmd)
<1>1. /\ client.pc = "start"
      /\ client' = [client EXCEPT !.pc = IF buf = Raised THEN "crashed" ELSE "waiting",
                                  !.cmd = test.cmd, !.wanted = test.wanted,
                                  !.kill = test.kill]
      /\ up' = IF buf = Raised THEN up ELSE Append(up, buf)
      /\ UNCHANGED <<fileVars, down, accepted, served, job, pending, daemon,
                     killed, told, ops>>
  BY DEF ClientAsks
<1>2. /\ DOMAIN client = ClientFields
      /\ client.cut \in {"no", "text", "root", "head", "stream"}
      /\ client.framed \in BOOLEAN /\ up = <<>> /\ served = None
  BY <1>1 DEF Inv, ClientInv
<1>3. /\ test.cmd \in Commands /\ test.wanted \in Classes
      /\ FromATest(test.cmd)
  BY TestsAssumption DEF FromATest
<1>4. /\ DOMAIN client' = DOMAIN client /\ client'.cmd = test.cmd
      /\ client'.wanted = test.wanted /\ client'.cut = client.cut
      /\ client'.framed = client.framed
      /\ client'.pc = IF buf = Raised THEN "crashed" ELSE "waiting"
  BY <1>1, <1>2 DEF ClientFields
<1>5. CommandSent' = buf
  BY <1>4 DEF CommandSent
<1>. HIDE DEF buf
<1>6. RequestInv'
  <2>1. BeforeRequest
    BY <1>2 DEF Inv, RequestInv
  <2>2. /\ up' # <<>> => buf # Raised /\ Len(up') = 1 /\ up'[1] = buf
        /\ up' \in Seq({buf})
    <3>1. CASE buf = Raised
      BY <1>1, <1>2, <3>1
    <3>2. CASE buf # Raised
      <4>1. up' = Append(up, buf) /\ Len(up) = 0 /\ up \in Seq({buf})
        BY <1>1, <1>2, <3>2
      <4>. QED
        BY <3>2, <4>1, AppendProperties
    <3>. QED
      BY <3>1, <3>2
  <2>3. up' \in Seq({CommandSent'} \cup KillsSent')
    BY <1>5, <2>2, SeqMonotonic
  <2>4. FromATest(client.cmd)'
    BY <1>3, <1>4 DEF FromATest
  <2>5. BeforeRequest'
    BY <1>1, <1>5, <2>1, <2>2, <2>4 DEF BeforeRequest, fileVars, Instance
  <2>. QED
    BY <1>1, <1>2, <2>3, <2>5 DEF RequestInv
<1>7. ClientInv' /\ NoticeAsMeant' /\ CrashIsExplained'
  BY <1>2, <1>3, <1>4, <1>5 DEF ClientInv, NoticeAsMeant, CrashIsExplained, CommandSent
<1>8. WatchInv' /\ NoticesInv'
  BY <1>1, WatchFrame, NoticesFrame DEF Inv, NoticesInv
<1>9. DaemonInv' /\ JobInv' /\ KillsOwn'
  BY <1>1, <1>4 DEF Inv, DaemonInv, JobInv, KillsOwn
<1>. QED
  BY <1>6, <1>7, <1>8, <1>9 DEF Inv

(* A client that only connects.                                            *)
LEMMA ConnectsKeeps ==
  ASSUME Inv, ClientConnects
  PROVE  Inv'
<1>1. /\ client.pc = "start"
      /\ client' = [client EXCEPT !.pc = "waiting", !.wanted = "TCP_SOCKET_LISTENING"]
      /\ UNCHANGED <<fileVars, up, down, accepted, served, job, pending, daemon,
                     killed, told, ops>>
  BY DEF ClientConnects
<1>2. /\ DOMAIN client = ClientFields /\ client.framed \in BOOLEAN
      /\ client.cut \in {"no", "text", "root", "head", "stream"}
  BY DEF Inv, ClientInv
<1>3. /\ DOMAIN client' = DOMAIN client /\ client'.cmd = client.cmd
      /\ client'.wanted = "TCP_SOCKET_LISTENING" /\ client'.cut = client.cut
      /\ client'.pc = "waiting" /\ client'.framed = client.framed
  BY <1>1, <1>2 DEF ClientFields
<1>4. "TCP_SOCKET_LISTENING" \in Classes
  BY DEF Classes
<1>5. ClientInv' /\ NoticeAsMeant' /\ CrashIsExplained'
  BY <1>2, <1>3, <1>4 DEF ClientInv, NoticeAsMeant, CrashIsExplained
<1>6. RequestInv'
  <2>1. served = None => \A n \in told' : n.class = "TCP_SOCKET_LISTENING"
    BY <1>1 DEF Inv, RequestInv, BeforeRequest
  <2>. QED
    BY <1>1, <1>3, <2>1, RequestFrame DEF Inv
<1>7. WatchInv' /\ NoticesInv'
  BY <1>1, WatchFrame, NoticesFrame DEF Inv, NoticesInv
<1>8. DaemonInv' /\ JobInv' /\ KillsOwn'
  BY <1>1, <1>3 DEF Inv, DaemonInv, JobInv, KillsOwn
<1>. QED
  BY <1>5, <1>6, <1>7, <1>8 DEF Inv

(* A notice is read, in full or in part.                                   *)
LEMMA ReadKeeps ==
  ASSUME Inv, client.pc = "waiting", down # <<>>, NEW b, NEW cut,
         GoodRead(b, Head(down), cut), ClientReads(b, Head(down), cut),
         down' = Tail(down),
         UNCHANGED <<fileVars, accepted, served, job, pending, daemon, killed,
                     told, ops>>
  PROVE  Inv'
<1>1. PICK n : n = Head(down)
  OBVIOUS
<1>2. n \in told /\ down' \in Seq(told)
  BY <1>1, HeadTailProperties DEF Inv, NoticesInv
<1>3. /\ DOMAIN client' = DOMAIN client
      /\ client'.cmd = client.cmd /\ client'.wanted = client.wanted
      /\ client'.pc \in {"waiting", "misframed", "done", "crashed"}
      /\ client'.cut \in {"no", "text", "root", "head", "stream"}
      /\ client'.framed \in BOOLEAN /\ (client'.framed => client.framed)
      /\ client'.pc = "misframed" => ~client'.framed
      /\ NoticeAsMeant' /\ CrashIsExplained'
      /\ \/ up' = up
         \/ /\ up' = Append(up, KillSent) /\ job.pid # 0
            /\ n.class = "EXECVE_TERMINATED"
  BY <1>1, ReadStep DEF Inv
<1>4. ClientInv'
  BY <1>3 DEF Inv, ClientInv
<1>5. RequestInv'
  <2>1. CASE up' = up
    <3>1. served = None => \A m \in told' : m.class = "TCP_SOCKET_LISTENING"
      BY DEF Inv, RequestInv, BeforeRequest
    <3>. QED
      BY <1>3, <2>1, <3>1, RequestFrame DEF Inv
  <2>2. CASE up' # up
    <3>1. up' = Append(up, KillSent) /\ job.pid # 0 /\ n.class = "EXECVE_TERMINATED"
      BY <1>3, <2>2
    <3>2. served # None
      BY <1>2, <3>1 DEF Inv, RequestInv, BeforeRequest
    <3>3. up \in Seq(KillsSent)
      BY <3>2 DEF Inv, RequestInv, AfterRequest
    <3>4. up' \in Seq(KillsSent)
      BY <3>1, <3>3, KillOfJob, AppendProperties DEF Inv
    <3>. QED
      BY <1>3, <3>1, <3>2, <3>4, ServedFrame DEF Inv
  <2>. QED
    BY <2>1, <2>2
<1>6. WatchInv' /\ NoticesInv'
  BY <1>2, WatchFrame, NoticesFrame DEF Inv
<1>7. DaemonInv' /\ JobInv' /\ KillsOwn'
  BY <1>3 DEF Inv, DaemonInv, JobInv, KillsOwn
<1>. QED
  BY <1>3, <1>4, <1>5, <1>6, <1>7 DEF Inv

(* recv of a notice, in full or in part, and what the loop of the test     *)
(* function does with it, a kill included.                                 *)
LEMMA ReceivesKeeps ==
  ASSUME Inv, ClientReceives \/ ClientReceivesPart
  PROVE  Inv'
<1>1. /\ client.pc = "waiting" /\ down # <<>> /\ down' = Tail(down)
      /\ UNCHANGED <<fileVars, accepted, served, job, pending, daemon, killed,
                     told, ops>>
  BY DEF ClientReceives, ClientReceivesPart
<1>2. PICK n : n = Head(down)
  OBVIOUS
<1>3. NoticeInv(n)
  <2>1. n \in told
    BY <1>1, <1>2, HeadTailProperties DEF Inv, NoticesInv
  <2>. QED
    BY <2>1 DEF Inv, NoticesInv
<1>4. CASE ClientReads(n.buf, n, "no")
  BY <1>1, <1>2, <1>3, <1>4, FullIsGood, ReadKeeps
<1>5. ASSUME NEW part \in {"head", "root"}, ClientReads(Truncated(n.buf, part), n, part)
      PROVE  Inv'
  BY <1>1, <1>2, <1>3, <1>5, PartIsGood, ReadKeeps
<1>6. ASSUME HasText(n.buf), NEW s \in Stray, ClientReads(WithText(n.buf, s), n, "text")
      PROVE  Inv'
  BY <1>1, <1>2, <1>3, <1>6, TextIsGood, ReadKeeps
<1>. QED
  BY <1>2, <1>4, <1>5, <1>6 DEF ClientReceives, ClientReceivesPart

(* recv returns nothing because the daemon is gone.                        *)
LEMMA IsLeftKeeps ==
  ASSUME Inv, ClientIsLeft
  PROVE  Inv'
<1>1. /\ client' = [client EXCEPT !.pc = "lost"]
      /\ UNCHANGED <<fileVars, up, down, accepted, served, job, pending, daemon,
                     killed, told, ops>>
  BY DEF ClientIsLeft
<1>2. /\ DOMAIN client = ClientFields
      /\ client.wanted \in Classes \cup {""} /\ client.framed \in BOOLEAN
      /\ client.cut \in {"no", "text", "root", "head", "stream"}
      /\ client.pc # "start"
  BY DEF Inv, ClientInv, ClientIsLeft
<1>3. /\ DOMAIN client' = DOMAIN client /\ client'.cmd = client.cmd
      /\ client'.wanted = client.wanted /\ client'.cut = client.cut
      /\ client'.pc = "lost" /\ client'.framed = client.framed
  BY <1>1, <1>2 DEF ClientFields
<1>5. ClientInv' /\ NoticeAsMeant' /\ CrashIsExplained'
  BY <1>2, <1>3 DEF ClientInv, NoticeAsMeant, CrashIsExplained
<1>6. RequestInv'
  <2>1. served = None => \A n \in told' : n.class = "TCP_SOCKET_LISTENING"
    BY <1>1 DEF Inv, RequestInv, BeforeRequest
  <2>. QED
    BY <1>1, <1>3, <2>1, RequestFrame DEF Inv
<1>7. WatchInv' /\ NoticesInv'
  BY <1>1, WatchFrame, NoticesFrame DEF Inv, NoticesInv
<1>8. DaemonInv' /\ JobInv' /\ KillsOwn'
  BY <1>1, <1>3 DEF Inv, DaemonInv, JobInv, KillsOwn
<1>. QED
  BY <1>5, <1>6, <1>7, <1>8 DEF Inv

(* recv returns a part of the size of a message.                           *)
LEMMA PartOfSizeKeeps ==
  ASSUME Inv, ClientReceivesPartOfSize
  PROVE  Inv'
<1>1. /\ client.pc = "waiting"
      /\ client' = [client EXCEPT !.pc = "misframed", !.framed = FALSE]
      /\ UNCHANGED <<fileVars, up, down, accepted, served, job, pending, daemon,
                     killed, told, ops>>
  BY DEF ClientReceivesPartOfSize
<1>2. /\ DOMAIN client = ClientFields
      /\ client.wanted \in Classes \cup {""} /\ client.framed \in BOOLEAN
      /\ client.cut \in {"no", "text", "root", "head", "stream"}
  BY DEF Inv, ClientInv
<1>3. /\ DOMAIN client' = DOMAIN client /\ client'.cmd = client.cmd
      /\ client'.wanted = client.wanted /\ client'.cut = client.cut
      /\ client'.pc = "misframed" /\ client'.framed = FALSE
  BY <1>1, <1>2 DEF ClientFields
<1>4. FALSE \in BOOLEAN
  BY Zenon
<1>5. ClientInv' /\ NoticeAsMeant' /\ CrashIsExplained'
  BY <1>2, <1>3, <1>4 DEF ClientInv, NoticeAsMeant, CrashIsExplained
<1>6. RequestInv'
  <2>1. served = None => \A n \in told' : n.class = "TCP_SOCKET_LISTENING"
    BY <1>1 DEF Inv, RequestInv, BeforeRequest
  <2>. QED
    BY <1>1, <1>3, <2>1, RequestFrame DEF Inv
<1>7. WatchInv' /\ NoticesInv'
  BY <1>1, WatchFrame, NoticesFrame DEF Inv, NoticesInv
<1>8. DaemonInv' /\ JobInv' /\ KillsOwn'
  BY <1>1, <1>3 DEF Inv, DaemonInv, JobInv, KillsOwn
<1>. QED
  BY <1>5, <1>6, <1>7, <1>8 DEF Inv

(* The loop of a test function goes on over bytes out of frame, and may    *)
(* send the kill of any pid.                                               *)
LEMMA MisreadsKeeps ==
  ASSUME Inv, ClientMisreads
  PROVE  Inv'
<1>1. /\ client.pc = "misframed"
      /\ down' = down \/ (down # <<>> /\ down' = Tail(down))
      /\ UNCHANGED <<fileVars, accepted, served, job, pending, daemon, killed,
                     told, ops>>
  BY DEF ClientMisreads
<1>2. /\ DOMAIN client = ClientFields
      /\ client.wanted \in Classes \cup {""}
      /\ client.cut \in {"no", "text", "root", "head", "stream"}
      /\ client.framed \in BOOLEAN /\ ~client.framed
  BY <1>1 DEF Inv, ClientInv
<1>3. down' \in Seq(told)
  <2>1. down \in Seq(told)
    BY DEF Inv, NoticesInv
  <2>2. down # <<>> => Tail(down) \in Seq(told)
    BY <2>1, HeadTailProperties
  <2>. QED
    BY <1>1, <2>1, <2>2
<1>4. \/ /\ client' = client /\ served # None /\ up = <<>>
         /\ \E pid \in Misread : up' = Append(up, send_kill_to_demon(pid))
      \/ /\ \E pc \in {"misframed", "waiting"} : client' = [client EXCEPT !.pc = pc]
         /\ up' = up
      \/ /\ \E pc \in {"done", "crashed"} :
               client' = [client EXCEPT !.pc = pc, !.cut = "stream"]
         /\ up' = up
  BY DEF ClientMisreads
<1>5. /\ DOMAIN client' = DOMAIN client /\ client'.cmd = client.cmd
      /\ client'.wanted = client.wanted /\ client'.framed = client.framed
      /\ \/ client'.cut = client.cut /\ client'.pc \in {"misframed", "waiting"}
         \/ client'.cut = "stream" /\ client'.pc \in {"done", "crashed"}
  BY <1>1, <1>2, <1>4 DEF ClientFields
<1>6. ClientInv' /\ NoticeAsMeant' /\ CrashIsExplained'
  BY <1>2, <1>5 DEF ClientInv, NoticeAsMeant, CrashIsExplained
<1>7. RequestInv'
  <2>1. CASE up' = up
    <3>1. served = None => \A n \in told' : n.class = "TCP_SOCKET_LISTENING"
      BY <1>1 DEF Inv, RequestInv, BeforeRequest
    <3>. QED
      BY <1>1, <1>5, <2>1, <3>1, RequestFrame DEF Inv
  <2>2. CASE up' # up
    <3>1. PICK pid \in Misread : up' = Append(up, send_kill_to_demon(pid))
      BY <1>4, <2>2
    <3>2. served # None /\ up = <<>>
      BY <1>4, <2>2
    <3>3. send_kill_to_demon(pid) \in KillsSent
      BY <1>2, MisreadAssumption DEF KillsSent
    <3>4. up' \in Seq(KillsSent)
      BY <3>1, <3>2, <3>3
    <3>. QED
      BY <1>1, <1>2, <1>5, <3>2, <3>4, ServedFrame DEF Inv
  <2>. QED
    BY <2>1, <2>2
<1>8. WatchInv' /\ NoticesInv'
  BY <1>1, <1>3, WatchFrame, NoticesFrame DEF Inv
<1>9. DaemonInv' /\ JobInv' /\ KillsOwn'
  BY <1>1, <1>2, <1>5 DEF Inv, DaemonInv, JobInv, KillsOwn
<1>. QED
  BY <1>6, <1>7, <1>8, <1>9 DEF Inv

-----------------------------------------------------------------------------
(* The steps of the daemon, without those about files.                     *)

(* What the daemon reads: the command first, and kills afterwards, of the  *)
(* process that was launched as long as the client's stream is in frame.   *)
LEMMA WhatIsRead ==
  ASSUME Inv, up # <<>>
  PROVE  LET b == Head(up)
         IN  /\ served = None =>
                   /\ FromATest(client.cmd) /\ CommandSent # Raised
                   /\ C_receive_message_from_user(b, Length(b)) = "RUN_COMMAND"
                   /\ C_receive_command(b, Length(b)) =
                         [client.cmd EXCEPT !.to_watch = Kept(client.cmd.to_watch)]
                   /\ Tail(up) = <<>>
             /\ served # None =>
                   /\ C_receive_message_from_user(b, Length(b)) = "KILL_PROCESS"
                   /\ C_receive_kill(b, Length(b)) \in Int32
                   /\ client.framed => /\ C_receive_kill(b, Length(b)) = job.pid
                                       /\ job.pid \in Pids
                   /\ Tail(up) \in Seq(KillsSent)
<1>. DEFINE b == Head(up)
<1>1. Event.KillProcess # Event.RunCommand
  BY DEF Event
<1>2. ASSUME served = None
      PROVE  /\ FromATest(client.cmd) /\ CommandSent # Raised
             /\ C_receive_message_from_user(b, Length(b)) = "RUN_COMMAND"
             /\ C_receive_command(b, Length(b)) =
                   [client.cmd EXCEPT !.to_watch = Kept(client.cmd.to_watch)]
             /\ Tail(up) = <<>>
  <2>1. /\ FromATest(client.cmd) /\ CommandSent # Raised
        /\ Len(up) = 1 /\ up[1] = CommandSent
    BY <1>2 DEF Inv, RequestInv, BeforeRequest
  <2>2. up \in Seq({CommandSent} \cup KillsSent)
    BY DEF Inv, RequestInv
  <2>3. b = CommandSent /\ Tail(up) = <<>>
    <3>1. Len(Tail(up)) = 0 /\ b = up[1] /\ Tail(up) \in Seq({CommandSent} \cup KillsSent)
      BY <2>1, <2>2, HeadTailProperties
    <3>. QED
      BY <2>1, <3>1, EmptySeq
  <2>4. client.cmd \in Commands
    BY <2>1 DEF FromATest
  <2>. HIDE DEF b
  <2>5. /\ b.part = "all" /\ Length(b) = 1
        /\ EventsType(b) = Event.RunCommand
        /\ C_receive_command(b, Length(b)) =
              [client.cmd EXCEPT !.to_watch = Kept(client.cmd.to_watch)]
    BY <2>1, <2>3, <2>4, CommandRoundTrip DEF CommandSent
  <2>6. C_receive_message_from_user(b, Length(b)) = "RUN_COMMAND"
    BY <2>5 DEF C_receive_message_from_user, Verified
  <2>. QED
    BY <2>1, <2>3, <2>5, <2>6
<1>3. ASSUME served # None
      PROVE  /\ C_receive_message_from_user(b, Length(b)) = "KILL_PROCESS"
             /\ C_receive_kill(b, Length(b)) \in Int32
             /\ client.framed => /\ C_receive_kill(b, Length(b)) = job.pid
                                 /\ job.pid \in Pids
             /\ Tail(up) \in Seq(KillsSent)
  <2>1. up \in Seq(KillsSent) /\ (client.framed => job.pid # 0)
    BY <1>3 DEF Inv, RequestInv, AfterRequest
  <2>2. b \in KillsSent /\ Tail(up) \in Seq(KillsSent)
    BY <2>1, HeadTailProperties
  <2>3. job.pid \in Int32 /\ (client.framed => job.pid \in Pids)
    <3>1. 0 \in Int32
      BY DEF Int32
    <3>. QED
      BY <2>1, <3>1 DEF Inv, JobInv, JobType
  <2>. HIDE DEF b
  <2>4. PICK pid \in Int32 :
           b = send_kill_to_demon(pid) /\ (client.framed => pid = job.pid)
    BY <2>2, <2>3 DEF KillsSent, KillSent
  <2>5. /\ b.part = "all" /\ Length(b) = 1
        /\ EventsType(b) = Event.KillProcess
        /\ C_receive_kill(b, Length(b)) = pid
    BY <2>4, KillRoundTrip
  <2>6. C_receive_message_from_user(b, Length(b)) = "KILL_PROCESS"
    BY <1>1, <2>5 DEF C_receive_message_from_user, Verified
  <2>. QED
    BY <2>2, <2>3, <2>4, <2>5, <2>6
<1>. QED
  BY <1>2, <1>3

(* case SOCK_CONNEXION announces the port of the daemon.                   *)
LEMMA AcceptKeeps ==
  ASSUME Inv, AcceptConnexion
  PROVE  Inv'
<1>1. PICK n : n = Notice("TCP_SOCKET_LISTENING", destPort,
                          C_send_tcpsocketlistening(destPort))
  OBVIOUS
<1>2. /\ accepted' = TRUE /\ Send(<<n>>)
      /\ UNCHANGED <<fileVars, client, up, served, job, pending, daemon, killed, ops>>
  BY <1>1 DEF AcceptConnexion
<1>3. /\ n.class = "TCP_SOCKET_LISTENING" /\ n.value = destPort
      /\ n.buf = C_send_tcpsocketlistening(destPort)
  BY <1>1 DEF Notice
<1>4. destPort \in Uint16
  BY DEF Uint16
<1>5. NoticeInv(n)'
  BY <1>3, <1>4 DEF NoticeInv
<1>6. NoticesInv' /\ told' = told \cup {n}
  BY <1>2, <1>5, SendOne DEF Inv
<1>7. RequestInv'
  <2>1. served = None => \A m \in told' : m.class = "TCP_SOCKET_LISTENING"
    BY <1>3, <1>6 DEF Inv, RequestInv, BeforeRequest
  <2>. QED
    BY <1>2, <2>1, RequestFrame DEF Inv
<1>8. ClientInv' /\ NoticeAsMeant' /\ CrashIsExplained' /\ WatchInv'
  BY <1>2, ClientFrame, WatchFrame DEF Inv
<1>9. DaemonInv'
  <2>1. accepted' \in BOOLEAN
    BY <1>2, Zenon
  <2>. QED
    BY <1>2, <2>1 DEF Inv, DaemonInv
<1>10. JobInv' /\ KillsOwn'
  BY <1>2 DEF Inv, JobInv, KillsOwn
<1>. QED
  BY <1>6, <1>7, <1>8, <1>9, <1>10 DEF Inv

(* A command with an empty argument list ends the daemon.                  *)
LEMMA NoArgumentsKeeps ==
  ASSUME Inv, NoArguments
  PROVE  Inv'
<1>1. /\ client.pc # "start" /\ up # <<>>
      /\ C_receive_message_from_user(Head(up), Length(Head(up))) = "RUN_COMMAND"
      /\ daemon' = "segv" /\ up' = Tail(up)
      /\ UNCHANGED <<fileVars, client, down, accepted, served, job, pending,
                     killed, told, ops>>
  BY DEF NoArguments, Inv, ClientInv
<1>2. served = None /\ up' = <<>>
  BY <1>1, WhatIsRead
<1>3. RequestInv'
  <2>1. BeforeRequest
    BY <1>2 DEF Inv, RequestInv
  <2>2. BeforeRequest'
    BY <1>1, <1>2, <2>1 DEF BeforeRequest, fileVars, Instance
  <2>3. up' \in Seq({CommandSent'} \cup KillsSent')
    BY <1>2, EmptySeq
  <2>. QED
    BY <1>1, <1>2, <2>2, <2>3 DEF RequestInv
<1>4. ClientInv' /\ NoticeAsMeant' /\ CrashIsExplained' /\ WatchInv' /\ NoticesInv'
  BY <1>1, ClientFrame, WatchFrame, NoticesFrame DEF Inv, NoticesInv
<1>5. DaemonInv' /\ JobInv' /\ KillsOwn'
  BY <1>1 DEF Inv, DaemonInv, JobInv, KillsOwn
<1>. QED
  BY <1>3, <1>4, <1>5 DEF Inv

(* case SOCK_MESSAGE, KILL_PROCESS: kill is called with the pid in the     *)
(* message, which is that of the process if the client is in frame.        *)
LEMMA ServeKillKeeps ==
  ASSUME Inv, ServeKill
  PROVE  Inv'
<1>. DEFINE pid == C_receive_kill(Head(up), Length(Head(up)))
<1>1. /\ client.pc # "start" /\ up # <<>>
      /\ C_receive_message_from_user(Head(up), Length(Head(up))) = "KILL_PROCESS"
      /\ killed' = IF pid >= 0 THEN killed \cup {pid} ELSE killed
      /\ daemon' = IF pid = 0 THEN "terminated" ELSE daemon
      /\ job' = IF pid > 0 /\ pid = job.pid /\ job.alive
                THEN [job EXCEPT !.alive = FALSE, !.end = "pending", !.code = SIGKILL]
                ELSE job
      /\ up' = Tail(up)
      /\ UNCHANGED <<fileVars, client, down, accepted, served, pending, told, ops>>
  BY DEF ServeKill, Inv, ClientInv
<1>2. /\ served # None /\ pid \in Int32 /\ up' \in Seq(KillsSent)
      /\ client.framed => pid = job.pid /\ job.pid \in Pids
  BY <1>1, WhatIsRead
<1>. HIDE DEF pid
<1>3. client.framed => pid > 0 /\ pid # 0 /\ pid >= 0
  <2>1. \A x \in Int32 : x \in Int
    BY DEF Int32
  <2>. QED
    BY <1>2, <2>1
<1>4. /\ daemon' \in {daemon, "terminated"} /\ killed' \subseteq killed \cup {pid}
      /\ client.framed => killed' = killed \cup {job.pid}
  BY <1>1, <1>2, <1>3
<1>5. job' = job \/ (job.alive /\ job' = [job EXCEPT !.alive = FALSE, !.end = "pending",
                                                     !.code = SIGKILL])
  BY <1>1
<1>6. JobInv' /\ job'.pid = job.pid
  <2>1. CASE job' = job
    BY <2>1 DEF Inv, JobInv
  <2>2. CASE job.alive /\ job' = [job EXCEPT !.alive = FALSE, !.end = "pending",
                                            !.code = SIGKILL]
    BY <2>2 DEF Inv, JobInv, JobType
  <2>. QED
    BY <1>5, <2>1, <2>2
<1>7. RequestInv'
  <2>1. client.framed /\ up' # <<>> => job.pid # 0
    BY <1>2, <1>3
  <2>. QED
    BY <1>1, <1>2, <1>6, <2>1, ServedFrame DEF Inv
<1>8. ClientInv' /\ NoticeAsMeant' /\ CrashIsExplained' /\ WatchInv' /\ NoticesInv'
  BY <1>1, <1>6, ClientFrame, WatchFrame, NoticesFrame DEF Inv, NoticesInv
<1>9. DaemonInv' /\ KillsOwn'
  BY <1>1, <1>2, <1>3, <1>4, <1>6 DEF Inv, DaemonInv, KillsOwn
<1>. QED
  BY <1>6, <1>7, <1>8, <1>9 DEF Inv

(* A process is there only after its request.                              *)
LEMMA JobIsServed ==
  ASSUME Inv, job.exec # "none" \/ job.end # "none" \/ job.alive \/ pending # {}
  PROVE  served # None /\ client.pc # "start" /\ up \in Seq(KillsSent)
         /\ (client.framed /\ up # <<>> => job.pid # 0)
<1>1. NoJob.exec = "none" /\ NoJob.end = "none" /\ NoJob.alive = FALSE
  BY DEF NoJob
<1>2. served # None
  BY <1>1 DEF Inv, RequestInv, BeforeRequest
<1>. QED
  BY <1>2 DEF Inv, RequestInv, AfterRequest, ClientInv

(* The process ends.                                                       *)
LEMMA JobEndsKeeps ==
  ASSUME Inv, NEW code \in Codes, JobEnds(code)
  PROVE  Inv'
<1>1. /\ job.alive
      /\ job' = [job EXCEPT !.alive = FALSE, !.end = "pending", !.code = code]
      /\ UNCHANGED <<fileVars, client, up, down, accepted, served, pending,
                     daemon, killed, told, ops>>
  BY DEF JobEnds
<1>2. JobInv' /\ job'.pid = job.pid
  BY <1>1 DEF Inv, JobInv, JobType
<1>3. RequestInv'
  BY <1>1, <1>2, JobIsServed, ServedFrame DEF Inv
<1>4. ClientInv' /\ NoticeAsMeant' /\ CrashIsExplained' /\ WatchInv' /\ NoticesInv'
  BY <1>1, <1>2, ClientFrame, WatchFrame, NoticesFrame DEF Inv, NoticesInv
<1>5. DaemonInv' /\ KillsOwn'
  BY <1>1, <1>2 DEF Inv, DaemonInv, KillsOwn
<1>. QED
  BY <1>2, <1>3, <1>4, <1>5 DEF Inv

(* What was served is a command.                                           *)
LEMMA ServedType ==
  ASSUME Inv, served # None
  PROVE  served.path \in Text /\ served.to_watch \in Seq(InotifyWatch \cup PortWatch)
<1>1. /\ client.cmd \in Commands
      /\ served = [client.cmd EXCEPT !.to_watch = Kept(client.cmd.to_watch)]
  BY DEF Inv, RequestInv, AfterRequest, FromATest
<1>2. Kept(client.cmd.to_watch) \in Seq(InotifyWatch \cup PortWatch)
  BY <1>1, KeptOfCommand
<1>3. served.path = client.cmd.path /\ served.to_watch = Kept(client.cmd.to_watch)
  BY <1>1 DEF Commands
<1>. QED
  BY <1>1, <1>2, <1>3 DEF Commands

(* case EXECVE: an execve notice with the pid of the launched process.     *)
LEMMA ExecveKeeps ==
  ASSUME Inv, NEW success \in BOOLEAN, HandleExecve(success)
  PROVE  Inv'
<1>1. PICK info : info = [pid |-> job.pid, command_name |-> served.path,
                          success |-> success]
  OBVIOUS
<1>2. PICK n : n = Notice("EXECVE_TERMINATED", info, C_send_execveterminated(info))
  OBVIOUS
<1>3. /\ job.exec = "pending" /\ job' = [job EXCEPT !.exec = "told"]
      /\ Send(<<n>>)
      /\ UNCHANGED <<fileVars, client, up, accepted, served, pending, daemon,
                     killed, ops>>
  BY <1>1, <1>2 DEF HandleExecve
<1>4. JobInv' /\ job'.pid = job.pid /\ job.pid # 0 /\ job.pid \in Int32
  BY <1>3 DEF Inv, JobInv, JobType
<1>5. served # None
  BY <1>3, JobIsServed
<1>6. info \in ExecveInfo /\ info.pid = job.pid
  BY <1>1, <1>4, <1>5, ServedType DEF ExecveInfo
<1>7. /\ n.class = "EXECVE_TERMINATED" /\ n.value = info
      /\ n.buf = C_send_execveterminated(info)
  BY <1>2 DEF Notice
<1>8. NoticeInv(n)'
  BY <1>4, <1>6, <1>7 DEF NoticeInv
<1>9. NoticesInv'
  BY <1>3, <1>4, <1>8, SendOne DEF Inv
<1>10. RequestInv'
  BY <1>3, <1>4, JobIsServed, ServedFrame DEF Inv
<1>11. ClientInv' /\ NoticeAsMeant' /\ CrashIsExplained' /\ WatchInv'
  BY <1>3, ClientFrame, WatchFrame DEF Inv
<1>12. DaemonInv' /\ KillsOwn'
  BY <1>3, <1>4 DEF Inv, DaemonInv, KillsOwn
<1>. QED
  BY <1>4, <1>9, <1>10, <1>11, <1>12 DEF Inv

(* case SIGNALFD: the notice of the end of the process.                    *)
LEMMA SIGCHLDKeeps ==
  ASSUME Inv, HandleSIGCHLD
  PROVE  Inv'
<1>1. PICK info : info = [pid |-> job.pid, error_code |-> job.code]
  OBVIOUS
<1>2. PICK n : n = Notice("PROCESS_TERMINATED", info,
                          C_send_processterminated(info.pid, info.error_code))
  OBVIOUS
<1>3. /\ job.end = "pending" /\ job' = [job EXCEPT !.end = "told"]
      /\ Send(<<n>>)
      /\ UNCHANGED <<fileVars, client, up, accepted, served, pending, daemon,
                     killed, ops>>
  BY <1>1, <1>2 DEF HandleSIGCHLD
<1>4. JobInv' /\ job'.pid = job.pid /\ job.pid # 0 /\ job.pid \in Int32
  BY <1>3 DEF Inv, JobInv, JobType
<1>5. job.code \in Uint32
  <2>1. job.code \in Errno \cup Codes \cup {0, SIGKILL}
    BY DEF Inv, JobInv, JobType
  <2>2. job.code \in 0 .. MAX31
    BY <2>1
  <2>. QED
    BY <2>2 DEF Uint32
<1>6. info \in ProcessTerminatedInfo
  BY <1>1, <1>4, <1>5 DEF ProcessTerminatedInfo
<1>7. /\ n.class = "PROCESS_TERMINATED" /\ n.value = info
      /\ n.buf = C_send_processterminated(info.pid, info.error_code)
  BY <1>2 DEF Notice
<1>8. NoticeInv(n)'
  BY <1>6, <1>7 DEF NoticeInv
<1>9. NoticesInv'
  BY <1>3, <1>4, <1>8, SendOne DEF Inv
<1>10. RequestInv'
  BY <1>3, <1>4, JobIsServed, ServedFrame DEF Inv
<1>11. ClientInv' /\ NoticeAsMeant' /\ CrashIsExplained' /\ WatchInv'
  BY <1>3, ClientFrame, WatchFrame DEF Inv
<1>12. DaemonInv' /\ KillsOwn'
  BY <1>3, <1>4 DEF Inv, DaemonInv, KillsOwn
<1>. QED
  BY <1>4, <1>9, <1>10, <1>11, <1>12 DEF Inv

(* The thread of detect_socket reports the end of a watch.                 *)
LEMMA ReportPortKeeps ==
  ASSUME Inv, NEW k \in pending, NEW state \in DOMAIN CSocketState,
         ReportPort(k, state)
  PROVE  Inv'
<1>1. PICK info : info = [port  |-> ToInt32(served.to_watch[k].ptr_event.destport),
                          state |-> state]
  OBVIOUS
<1>2. PICK n : n = Notice("SOCKET_WATCH_TERMINATED", info,
                          C_send_socketwatchterminated(info))
  OBVIOUS
<1>3. /\ pending' = pending \ {k} /\ daemon' = "leaving" /\ Send(<<n>>)
      /\ UNCHANGED <<fileVars, client, up, accepted, served, job, killed, ops>>
  BY <1>1, <1>2 DEF ReportPort
<1>4. served # None /\ up \in Seq(KillsSent) /\ (client.framed /\ up # <<>> => job.pid # 0)
  BY JobIsServed
<1>5. info \in SocketWatchInfo
  <2>1. k \in DOMAIN served.to_watch /\ served.to_watch[k].event = "WATCH_SOCKET"
    BY DEF Inv, WatchInv
  <2>2. served.to_watch[k] \in InotifyWatch \cup PortWatch
    BY <1>4, <2>1, ServedType
  <2>3. served.to_watch[k].ptr_event.destport \in Int
    BY <2>1, <2>2 DEF InotifyWatch, PortWatch
  <2>. QED
    BY <1>1, <2>3, ConversionFacts, EnumsAgree DEF SocketWatchInfo
<1>6. /\ n.class = "SOCKET_WATCH_TERMINATED" /\ n.value = info
      /\ n.buf = C_send_socketwatchterminated(info)
  BY <1>2 DEF Notice
<1>7. NoticeInv(n)'
  BY <1>5, <1>6 DEF NoticeInv
<1>8. NoticesInv'
  BY <1>3, <1>7, SendOne DEF Inv
<1>9. RequestInv'
  BY <1>3, <1>4, ServedFrame DEF Inv
<1>10. ClientInv' /\ NoticeAsMeant' /\ CrashIsExplained' /\ WatchInv'
  BY <1>3, ClientFrame, WatchFrame DEF Inv
<1>11. DaemonInv' /\ JobInv' /\ KillsOwn'
  BY <1>3 DEF Inv, DaemonInv, JobInv, KillsOwn
<1>. QED
  BY <1>8, <1>9, <1>10, <1>11 DEF Inv

(* The daemon leaves its loop.                                             *)
LEMMA ExitsKeeps ==
  ASSUME Inv, Exits
  PROVE  Inv'
<1>1. /\ daemon' = "exited"
      /\ UNCHANGED <<fileVars, client, up, down, accepted, served, job, pending,
                     killed, told, ops>>
  BY DEF Exits
<1>2. RequestInv'
  <2>1. served = None => \A m \in told' : m.class = "TCP_SOCKET_LISTENING"
    BY <1>1 DEF Inv, RequestInv, BeforeRequest
  <2>. QED
    BY <1>1, <2>1, RequestFrame DEF Inv
<1>3. ClientInv' /\ NoticeAsMeant' /\ CrashIsExplained' /\ WatchInv' /\ NoticesInv'
  BY <1>1, ClientFrame, WatchFrame, NoticesFrame DEF Inv, NoticesInv
<1>4. DaemonInv' /\ JobInv' /\ KillsOwn'
  BY <1>1 DEF Inv, DaemonInv, JobInv, KillsOwn
<1>. QED
  BY <1>2, <1>3, <1>4 DEF Inv

-----------------------------------------------------------------------------
(* The request.                                                            *)

(* send_message of several notices.                                        *)
LEMMA SendMany ==
  ASSUME down \in Seq(told), NEW N, NEW s \in Seq(N), Send(s)
  PROVE  down' \in Seq(told') /\ told' \subseteq told \cup N
<1>1. told' = told \cup {s[k] : k \in DOMAIN s} /\ down' = down \o s
  BY DEF Send
<1>2. s \in Seq({s[k] : k \in DOMAIN s}) /\ \A k \in DOMAIN s : s[k] \in N
  <2>1. Len(s) \in Nat /\ DOMAIN s = 1 .. Len(s)
    BY LenProperties
  <2>. QED
    BY <2>1, LenProperties, ElementOfSeq, IsASeq
<1>3. down \in Seq(told') /\ s \in Seq(told')
  BY <1>1, <1>2, SeqMonotonic
<1>4. down' \in Seq(told')
  BY <1>1, <1>3, ConcatProperties
<1>. QED
  BY <1>1, <1>2, <1>4

(* The watches of a command that was written: paths are known ones, and    *)
(* masks fit.                                                              *)
GoodWatches ==
    {x \in InotifyWatch \cup PortWatch :
        x.event = "INOTIFY" => /\ x.ptr_event.root_paths \in Path
                               /\ x.ptr_event.mask \in Int32}

(* The watches a command of a test keeps have paths of files and masks     *)
(* that fit.                                                               *)
LEMMA CommandWatches ==
  ASSUME NEW cmd, FromATest(cmd), send_command_to_demon(cmd) # Raised
  PROVE  Kept(cmd.to_watch) \in Seq(GoodWatches)
<1>. DEFINE w == Kept(cmd.to_watch)
            W == {x \in InotifyWatch \cup PortWatch \cup OtherWatch :
                    x.event = "INOTIFY" => x.ptr_event.root_paths \in Path}
<1>1. cmd \in Commands
  BY DEF FromATest
<1>2. cmd.to_watch \in Seq(W)
  <2>1. cmd.to_watch \in Seq(InotifyWatch \cup PortWatch \cup OtherWatch)
    BY <1>1 DEF Commands
  <2>2. Len(cmd.to_watch) \in Nat /\ DOMAIN cmd.to_watch = 1 .. Len(cmd.to_watch)
    BY <2>1, LenProperties
  <2>3. \A k \in 1 .. Len(cmd.to_watch) : cmd.to_watch[k] \in W
    BY <2>1, <2>2, ElementOfSeq DEF FromATest
  <2>4. cmd.to_watch = [k \in 1 .. Len(cmd.to_watch) |-> cmd.to_watch[k]]
    BY <2>1, LenProperties
  <2>. HIDE DEF W
  <2>. QED
    BY <2>2, <2>3, <2>4, IsASeq
<1>3. w \in Seq({x \in W : Known(x)})
  BY <1>2, KeptType
<1>4. w \in Seq(InotifyWatch \cup PortWatch)
  BY <1>1, KeptOfCommand
<1>5. Len(w) \in Nat /\ DOMAIN w = 1 .. Len(w) /\ w = [k \in 1 .. Len(w) |-> w[k]]
  BY <1>4, LenProperties
<1>6. \A k \in 1 .. Len(w) : w[k] \in W /\ w[k] \in InotifyWatch \cup PortWatch /\ WatchFits(w[k])
  BY <1>1, <1>3, <1>4, <1>5, CommandFits, ElementOfSeq
<1>. HIDE DEF w
<1>7. ASSUME NEW k \in 1 .. Len(w) PROVE w[k] \in GoodWatches
  <2>1. w[k] \in W /\ w[k] \in InotifyWatch \cup PortWatch /\ WatchFits(w[k])
    BY <1>6
  <2>2. ASSUME w[k].event = "INOTIFY" PROVE w[k].ptr_event.mask \in Int32
    BY <2>1, <2>2, Fields DEF WatchFits, CanBuild, Fits, Inotify
  <2>. QED
    BY <2>1, <2>2 DEF GoodWatches
<1>8. w \in Seq(GoodWatches)
  BY <1>5, <1>7, IsASeq
<1>. QED
  BY <1>8 DEF w

(* inotify_add_watch, for a watch of the list.                             *)
LEMMA AddWatch ==
  ASSUME NEW w, NEW x \in Watching(w), NEW p \in Path, NEW mask \in Int32,
         \A what \in DOMAIN Bit : Has(mask, what) => Asks(w, p, what)
  PROVE  inotify_add_watch(x, p, mask) \in Watching(w)
<1>1. CASE ~Exists(p)
  BY <1>1 DEF inotify_add_watch
<1>2. CASE Exists(p)
  <2>1. x.size \in Int32 /\ x.mask \in [Path -> Int32] /\ DOMAIN x = {"size", "mask"}
    BY DEF Watching, InstanceType
  <2>. DEFINE m == [x.mask EXCEPT ![p] = mask]
              y == [x EXCEPT !.mask = m]
  <2>2. m \in [Path -> Int32] /\ m[p] = mask
        /\ \A q \in Path : q # p => m[q] = x.mask[q]
    BY <2>1
  <2>3. inotify_add_watch(x, p, mask) = y
    BY <1>2 DEF inotify_add_watch
  <2>. HIDE DEF m
  <2>4. y \in InstanceType /\ y.mask = m
    BY <2>1, <2>2 DEF InstanceType, Watching
  <2>. HIDE DEF y
  <2>5. ASSUME NEW q \in Path, NEW what \in DOMAIN Bit, Has(y.mask[q], what)
        PROVE  Asks(w, q, what)
    BY <2>2, <2>4, <2>5 DEF Watching
  <2>. QED
    BY <2>3, <2>4, <2>5 DEF Watching
<1>. QED
  BY <1>1, <1>2

(* An instance without a watch.                                            *)
LEMMA NoWatch ==
  ASSUME NEW w, NEW size \in Int32
  PROVE  Instance(size) \in Watching(w)
<1>1. 0 \in Int32
  BY DEF Int32
<1>2. Instance(size) \in InstanceType /\ \A p \in Path : Instance(size).mask[p] = 0
  BY <1>1 DEF Instance, InstanceType
<1>3. \A what \in DOMAIN Bit : ~Has(0, what)
  BY DEF Has, Bit
<1>. QED
  BY <1>2, <1>3 DEF Watching

(* The instances after the requests of a command: their masks are masks of *)
(* the command, whatever was replaced.                                     *)
LEMMA InstancesType ==
  ASSUME NEW w \in Seq(GoodWatches), inst \in Seq(Watching(w)), Len(inst) > 0
  PROVE  /\ InstancesUpTo(w)[Len(w)] \in Seq(Watching(w))
         /\ InstancesUpTo(w)[Len(w)] # <<>>
<1>. DEFINE n == Len(w)
            S == {q \in Seq(Watching(w)) : Len(q) > 0}
            Turn(k, q) == IF w[k].event = "INOTIFY" THEN AddInotify(q, w[k].ptr_event) ELSE q
            step == [k \in 1 .. n |-> [q \in S |-> Turn(k, q)]]
            Loop(f) == f = [k \in 0 .. n |-> IF k = 0 THEN inst ELSE Turn(k, f[k - 1])]
<1>1. n \in Nat /\ n \in 0 .. n /\ DOMAIN w = 1 .. n
  BY LenProperties
<1>2. inst \in S
  OBVIOUS
<1>3. ASSUME NEW k \in 1 .. n, NEW q \in S PROVE Turn(k, q) \in S
  <2>1. CASE w[k].event # "INOTIFY"
    BY <2>1
  <2>2. CASE w[k].event = "INOTIFY"
    <3>. DEFINE ip == w[k].ptr_event
                p == ip.root_paths
    <3>1. w[k] \in GoodWatches
      BY ElementOfSeq
    <3>2. p \in Path /\ ip.mask \in Int32 /\ ip.size \in Int
      BY <2>2, <3>1 DEF GoodWatches, InotifyWatch, PortWatch
    <3>3. \A what \in DOMAIN Bit : Has(ip.mask, what) => Asks(w, p, what)
      BY <1>1, <2>2 DEF Asks
    <3>4. ToInt32(ip.size) \in Int32
      BY <3>2, ConversionFacts
    <3>. HIDE DEF ip, p
    <3>5. q \in Seq(Watching(w)) /\ Len(q) > 0 /\ 1 \in 1 .. Len(q)
      OBVIOUS
    <3>6. q[1] \in Watching(w)
      BY <3>5, ElementOfSeq
    <3>7. CASE Shared(ip)
      <4>. DEFINE y == inotify_add_watch(q[1], p, ip.mask)
      <4>1. y \in Watching(w)
        BY <3>2, <3>3, <3>6, AddWatch
      <4>2. AddInotify(q, ip) = [q EXCEPT ![1] = y]
        BY <3>7 DEF AddInotify, p
      <4>. HIDE DEF y
      <4>3. [q EXCEPT ![1] = y] \in Seq(Watching(w)) /\ Len([q EXCEPT ![1] = y]) = Len(q)
        BY <3>5, <4>1, ExceptSeq
      <4>. QED
        BY <2>2, <3>5, <4>2, <4>3 DEF ip
    <3>8. CASE ~Shared(ip)
      <4>. DEFINE y == inotify_add_watch(Instance(ToInt32(ip.size)), p, ip.mask)
      <4>1. y \in Watching(w)
        BY <3>2, <3>3, <3>4, AddWatch, NoWatch
      <4>2. AddInotify(q, ip) = Append(q, y)
        BY <3>8 DEF AddInotify, p
      <4>. HIDE DEF y
      <4>3. Append(q, y) \in Seq(Watching(w)) /\ Len(Append(q, y)) = Len(q) + 1
        BY <3>5, <4>1, AppendProperties
      <4>. QED
        BY <2>2, <3>5, <4>2, <4>3 DEF ip
    <3>. QED
      BY <3>7, <3>8
  <2>. QED
    BY <2>1, <2>2
<1>. HIDE DEF S, Turn
<1>4. step \in [1 .. n -> [S -> S]]
  BY <1>3
<1>. HIDE DEF step
<1>5. PICK F : F \in LoopRuns(n, S, inst, step)
  <2>1. LoopRuns(n, S, inst, step) # {}
    BY <1>1, <1>2, <1>4, LoopExists, Zenon
  <2>. QED
    BY <2>1
<1>6. /\ F \in [0 .. n -> S] /\ F[0] = inst
      /\ \A k \in 1 .. n : F[k] = step[k][F[k - 1]]
  BY <1>5 DEF LoopRuns
<1>7. ASSUME NEW k \in 1 .. n PROVE F[k] = Turn(k, F[k - 1])
  <2>1. k - 1 \in 0 .. n
    BY <1>1
  <2>2. F[k - 1] \in S
    BY <2>1, <1>6
  <2>3. step[k][F[k - 1]] = Turn(k, F[k - 1])
    BY <2>2 DEF step
  <2>. QED
    BY <1>6, <2>3
<1>8. Loop(F)
  <2>1. ASSUME NEW k \in 0 .. n
        PROVE  F[k] = IF k = 0 THEN inst ELSE Turn(k, F[k - 1])
    BY <1>1, <1>6, <1>7
  <2>. QED
    BY <2>1, <1>6
<1>9. InstancesUpTo(w) = CHOOSE f : Loop(f)
  BY DEF InstancesUpTo, Turn
<1>10. Loop(InstancesUpTo(w))
  BY <1>8, <1>9, Zenon
<1>. DEFINE G == InstancesUpTo(w)
<1>11. G[0] = inst /\ \A k \in 1 .. n : G[k] = Turn(k, G[k - 1])
  BY <1>1, <1>10
<1>. HIDE DEF G
<1>12. \A k \in 0 .. n : G[k] \in S
  <2>1. G[0] \in S /\ \A k \in 1 .. n : G[k - 1] \in S => G[k] \in S
    BY <1>2, <1>3, <1>11
  <2>. HIDE DEF n
  <2>. QED
    BY <2>1, <1>1, LoopKeeps
<1>. QED
  BY <1>1, <1>12 DEF G, S

(* What is announced for a watch of the list is a good notice.             *)
LEMMA AnnouncedGood ==
  ASSUME NEW surv \in GoodWatches, NEW n, n = Announced(surv)
  PROVE  NoticeInv(n)'
<1>1. CASE surv.event = "INOTIFY"
  <2>1. surv.ptr_event.root_paths \in Text
    BY <1>1 DEF GoodWatches
  <2>2. /\ n.class = "INOTIFY_WATCH_LIST_UPDATED" /\ n.value = surv.ptr_event.root_paths
        /\ n.buf = C_send_inotifywatchlistupdated(surv.ptr_event.root_paths)
    BY <1>1 DEF Announced, Notice
  <2>. QED
    BY <2>1, <2>2 DEF NoticeInv
<1>2. CASE surv.event # "INOTIFY"
  <2>1. /\ n.class = "SOCKET_WATCHED" /\ n.value = ToInt32(surv.ptr_event.destport)
        /\ n.buf = C_send_socketwatched(ToInt32(surv.ptr_event.destport))
    BY <1>2 DEF Announced, Notice
  <2>. QED
    BY <2>1 DEF NoticeInv
<1>. QED
  BY <1>1, <1>2

(* The answer to a request and what is announced with it.                  *)
LEMMA AnswerSent ==
  ASSUME NoticesInv, \A n \in told : n.class = "TCP_SOCKET_LISTENING",
         NEW w \in Seq(GoodWatches), NEW answer, NoticeInv(answer)',
         Send(<<answer>> \o [k \in DOMAIN w |-> Announced(w[k])])
  PROVE  NoticesInv'
<1>. DEFINE more == [k \in DOMAIN w |-> Announced(w[k])]
            N == {answer} \cup {Announced(w[k]) : k \in DOMAIN w}
<1>1. Len(w) \in Nat /\ DOMAIN w = 1 .. Len(w)
  BY LenProperties
<1>2. more \in Seq(N)
  <2>1. more = [k \in 1 .. Len(w) |-> Announced(w[k])]
    BY <1>1
  <2>2. \A k \in 1 .. Len(w) : Announced(w[k]) \in N
    BY <1>1
  <2>. HIDE DEF N, more
  <2>. QED
    BY <1>1, <2>1, <2>2, IsASeq
<1>3. <<answer>> \in Seq(N)
  OBVIOUS
<1>4. \A n \in N : NoticeInv(n)'
  <2>. SUFFICES ASSUME NEW k \in DOMAIN w, NEW n, n = Announced(w[k]) PROVE NoticeInv(n)'
    OBVIOUS
  <2>1. w[k] \in GoodWatches
    BY <1>1, ElementOfSeq
  <2>. QED
    BY <2>1, AnnouncedGood
<1>. HIDE DEF N, more
<1>5. <<answer>> \o more \in Seq(N)
  BY <1>2, <1>3, ConcatProperties
<1>6. down' \in Seq(told') /\ told' \subseteq told \cup N
  <2>1. PICK s : s = <<answer>> \o more
    OBVIOUS
  <2>2. s \in Seq(N) /\ Send(s)
    BY <1>5, <2>1 DEF more
  <2>. QED
    BY <2>2, SendMany DEF NoticesInv
<1>7. ASSUME NEW n \in told PROVE NoticeInv(n)'
  <2>1. n.value \in Uint16 /\ n.buf = C_send_tcpsocketlistening(n.value)
        /\ n.class = "TCP_SOCKET_LISTENING"
    BY DEF NoticesInv, NoticeInv
  <2>. QED
    BY <2>1 DEF NoticeInv
<1>. QED
  BY <1>4, <1>6, <1>7 DEF NoticesInv

(* case SOCK_MESSAGE, RUN_COMMAND: the process is launched, the watches    *)
(* are set up and announced.                                               *)
LEMMA ServeCommandKeeps ==
  ASSUME Inv, ServeCommand
  PROVE  Inv'
<1>. DEFINE com == C_receive_command(Head(up), Length(Head(up)))
<1>1. /\ client.pc # "start" /\ up # <<>>
      /\ C_receive_message_from_user(Head(up), Length(Head(up))) = "RUN_COMMAND"
      /\ served' = com /\ inst' = InstancesAfter(com)
      /\ queue' = [i \in DOMAIN inst' |->
                      IF i \in DOMAIN queue THEN queue[i] ELSE <<>>]
      /\ pending' = {k \in DOMAIN com.to_watch :
                        com.to_watch[k].event = "WATCH_SOCKET"}
      /\ (\E pid \in Pids : Launched(pid)) \/ (\E errno \in Errno : Refused(errno))
      /\ up' = Tail(up)
      /\ UNCHANGED <<files, client, accepted, daemon, killed, ops>>
  BY DEF ServeCommand, Inv, ClientInv
<1>2. /\ served = None /\ FromATest(client.cmd) /\ CommandSent # Raised
      /\ com = [client.cmd EXCEPT !.to_watch = Kept(client.cmd.to_watch)]
      /\ up' = <<>>
  BY <1>1, WhatIsRead
<1>. HIDE DEF com
<1>3. BeforeRequest
  BY <1>2 DEF Inv, RequestInv
<1>. DEFINE w == Kept(client.cmd.to_watch)
<1>4. client.cmd \in Commands /\ w \in Seq(GoodWatches)
  BY <1>2, CommandWatches DEF FromATest, CommandSent
<1>5. w \in Seq(InotifyWatch \cup PortWatch)
  BY <1>4, KeptOfCommand
<1>. HIDE DEF w
<1>6. com \in Commands /\ com.to_watch = w
  <2>1. w \in Seq(InotifyWatch \cup PortWatch \cup OtherWatch)
    BY <1>5, SeqMonotonic
  <2>. QED
    BY <1>2, <1>4, <2>1 DEF Commands, w
<1>7. served' # None /\ served'.to_watch = w
  BY <1>1, <1>6
<1>8. WatchInv'
  <2>1. inst \in Seq(Watching(w)) /\ Len(inst) > 0
    <3>1. Instance(0) \in Watching(w)
      BY NoWatch DEF Int32
    <3>. QED
      BY <1>3, <3>1 DEF BeforeRequest
  <2>2. inst' \in Seq(Watching(w)) /\ inst' # <<>>
    BY <1>1, <1>4, <1>6, <2>1, InstancesType DEF InstancesAfter
  <2>3. AskedInstance' = Watching(w)
    BY <1>7 DEF AskedInstance, Watching
  <2>4. queue' = [i \in DOMAIN inst' |-> <<>>]
    <3>1. \A i \in DOMAIN queue : queue[i] = <<>>
      BY <1>3 DEF BeforeRequest
    <3>. QED
      BY <1>1, <3>1
  <2>5. queue' \in [DOMAIN inst' -> Seq(Sensible')]
    BY <2>4, EmptySeq
  <2>6. files' \in [Path -> -1 .. MaxSize]
    BY <1>1 DEF Inv, WatchInv
  <2>7. \A k \in pending' : /\ k \in DOMAIN served'.to_watch
                            /\ served'.to_watch[k].event = "WATCH_SOCKET"
    BY <1>1
  <2>. QED
    BY <2>2, <2>3, <2>5, <2>6, <2>7 DEF WatchInv
<1>9. NoticesInv' /\ JobInv'
  <2>1. \A n \in told : n.class = "TCP_SOCKET_LISTENING"
    BY <1>3 DEF BeforeRequest
  <2>2. ASSUME NEW pid \in Pids, Launched(pid) PROVE NoticesInv' /\ JobInv'
    <3>1. PICK answer : answer = Notice("PROCESS_LAUNCHED", pid, C_send_processlaunched(pid))
      OBVIOUS
    <3>2. NoticeInv(answer)'
      BY <3>1 DEF Notice, NoticeInv
    <3>3. Send(<<answer>> \o [k \in DOMAIN w |-> Announced(w[k])])
      BY <1>7, <2>2, <3>1 DEF Launched
    <3>4. job' = [pid |-> pid, alive |-> TRUE, exec |-> "pending", end |-> "none",
                  code |-> 0]
      BY <2>2 DEF Launched
    <3>5. pid # 0
      BY DEF Int32
    <3>6. job' \in JobType /\ job'.pid = pid
      BY <3>4 DEF JobType
    <3>7. JobInv'
      BY <3>5, <3>6 DEF JobInv, JobType
    <3>. QED
      BY <1>4, <2>1, <3>2, <3>3, <3>7, AnswerSent DEF Inv
  <2>3. ASSUME NEW errno \in Errno, Refused(errno) PROVE NoticesInv' /\ JobInv'
    <3>1. PICK answer : answer = Notice("CHILD_CREATION_ERROR", errno,
                                        C_send_childcreationerror(errno))
      OBVIOUS
    <3>2. errno \in Uint32
      BY DEF Uint32
    <3>3. NoticeInv(answer)'
      BY <3>1, <3>2 DEF Notice, NoticeInv
    <3>4. Send(<<answer>> \o [k \in DOMAIN w |-> Announced(w[k])])
      BY <1>7, <2>3, <3>1 DEF Refused
    <3>5. JobInv'
      BY <2>3 DEF Refused, Inv, JobInv
    <3>. QED
      BY <1>4, <2>1, <3>3, <3>4, <3>5, AnswerSent DEF Inv
  <2>. QED
    BY <1>1, <2>2, <2>3
<1>10. RequestInv'
  <2>1. CommandSent' = CommandSent /\ FromATest(client.cmd)'
    BY <1>1, <1>2 DEF CommandSent, FromATest
  <2>2. up' \in Seq({CommandSent'} \cup KillsSent') /\ up' \in Seq(KillsSent')
    BY <1>2, EmptySeq
  <2>3. AfterRequest'
    BY <1>1, <1>2, <2>1, <2>2 DEF AfterRequest
  <2>. QED
    BY <1>7, <2>2, <2>3 DEF RequestInv
<1>11. ClientInv' /\ NoticeAsMeant' /\ CrashIsExplained'
  BY <1>1, ClientFrame DEF Inv
<1>12. DaemonInv' /\ KillsOwn'
  BY <1>1, <1>3 DEF Inv, DaemonInv, KillsOwn, BeforeRequest
<1>. QED
  BY <1>8, <1>9, <1>10, <1>11, <1>12 DEF Inv

-----------------------------------------------------------------------------
(* Files.                                                                  *)

(* The number of an event, and its name.                                   *)
LEMMA EventNumber ==
  ASSUME NEW e \in KernelEvent, NEW size, NEW before \in Int8
  PROVE  LET x == EventAfter(e, size, before)
         IN  /\ x \in Int8
             /\ e.what # "IGNORED" =>
                   /\ NameOf(x) \in DOMAIN CInotifyEvent
                   /\ BitOf[NameOf(x)] = e.what
<1>1. e.what \in {"ACCESS", "MODIFY", "CREATE", "DELETE", "IGNORED"}
  BY DEF KernelEvent, Bit
<1>2. \A name \in DOMAIN CInotifyEvent : NameOf(CInotifyEvent[name]) = name
  <2>1. \A x, y \in DOMAIN CInotifyEvent : CInotifyEvent[x] = CInotifyEvent[y] => x = y
    BY DEF CInotifyEvent
  <2>. QED
    BY <2>1 DEF NameOf, IsMember, Member
<1>3. /\ DOMAIN CInotifyEvent = {"MODIFIED", "CREATED", "SIZE_REACHED", "DELETED", "ACCESSED"}
      /\ \A name \in DOMAIN CInotifyEvent : CInotifyEvent[name] \in Int8
  BY DEF CInotifyEvent, Int8
<1>4. CASE e.what = "IGNORED"
  BY <1>4 DEF EventAfter
<1>5. ASSUME NEW name \in DOMAIN CInotifyEvent,
             EventAfter(e, size, before) = CInotifyEvent[name], BitOf[name] = e.what
      PROVE  LET x == EventAfter(e, size, before)
             IN  /\ x \in Int8
                 /\ NameOf(x) \in DOMAIN CInotifyEvent
                 /\ BitOf[NameOf(x)] = e.what
  BY <1>2, <1>3, <1>5
<1>6. CASE e.what = "ACCESS"
  BY <1>3, <1>5, <1>6 DEF EventAfter, BitOf
<1>7. CASE e.what = "CREATE"
  BY <1>3, <1>5, <1>7 DEF EventAfter, BitOf
<1>8. CASE e.what = "DELETE"
  BY <1>3, <1>5, <1>8 DEF EventAfter, BitOf
<1>9. CASE e.what = "MODIFY" /\ SizeReached(e.path, size)
  BY <1>3, <1>5, <1>9 DEF EventAfter, BitOf
<1>10. CASE e.what = "MODIFY" /\ ~SizeReached(e.path, size)
  BY <1>3, <1>5, <1>10 DEF EventAfter, BitOf
<1>. QED
  BY <1>1, <1>4, <1>6, <1>7, <1>8, <1>9, <1>10

(* The first n events of an instance, and what event[k] is for each.       *)
KernelEvents(i, n) == \A k \in 1 .. n : queue[i][k] \in KernelEvent
EventSteps(i, n, event) ==
    \A k \in 1 .. n :
        /\ event[k - 1] \in Int8
        /\ event[k] = EventAfter(queue[i][k], inst[i].size, event[k - 1])

(* The numbers handle_inotify_event computes, one event after the other.   *)
LEMMA EventsReadType ==
  ASSUME NEW i, NEW n \in Nat, NEW garbage \in Int8, KernelEvents(i, n)
  PROVE  EventSteps(i, n, EventsRead(i, n, garbage))
<1>. DEFINE S == Int8
            Turn(k, x) == EventAfter(queue[i][k], inst[i].size, x)
            step == [k \in 1 .. n |-> [x \in S |-> Turn(k, x)]]
            Loop(f) == f = [k \in 0 .. n |-> IF k = 0 THEN garbage ELSE Turn(k, f[k - 1])]
<1>1. \A k \in 1 .. n : \A x \in S : Turn(k, x) \in S
  BY EventNumber DEF KernelEvents
<1>2. garbage \in S
  OBVIOUS
<1>. HIDE DEF S, Turn
<1>3. step \in [1 .. n -> [S -> S]]
  BY <1>1
<1>. HIDE DEF step
<1>4. LoopRuns(n, S, garbage, step) # {}
  BY <1>2, <1>3, LoopExists, Zenon
<1>5. PICK F : F \in LoopRuns(n, S, garbage, step)
  BY <1>4
<1>6. /\ F \in [0 .. n -> S] /\ F[0] = garbage
      /\ \A k \in 1 .. n : F[k] = step[k][F[k - 1]]
  BY <1>5 DEF LoopRuns
<1>7. ASSUME NEW k \in 1 .. n PROVE F[k] = Turn(k, F[k - 1])
  <2>1. k - 1 \in 0 .. n
    OBVIOUS
  <2>2. F[k - 1] \in S
    BY <2>1, <1>6
  <2>3. step[k][F[k - 1]] = Turn(k, F[k - 1])
    BY <2>2 DEF step
  <2>. QED
    BY <1>6, <2>3
<1>8. Loop(F)
  <2>1. ASSUME NEW k \in 0 .. n
        PROVE  F[k] = IF k = 0 THEN garbage ELSE Turn(k, F[k - 1])
    BY <1>6, <1>7
  <2>. QED
    BY <2>1, <1>6
<1>. DEFINE G == EventsRead(i, n, garbage)
<1>9. G = CHOOSE f : Loop(f)
  BY DEF EventsRead, Turn
<1>10. Loop(G)
  BY <1>8, <1>9, Zenon
<1>11. G[0] = garbage /\ \A k \in 1 .. n : G[k] = Turn(k, G[k - 1])
  BY <1>10
<1>. HIDE DEF G
<1>12. \A k \in 0 .. n : G[k] \in S
  <2>1. G[0] \in S /\ \A k \in 1 .. n : G[k - 1] \in S => G[k] \in S
    BY <1>1, <1>2, <1>11
  <2>. QED
    BY <2>1, LoopKeeps
<1>13. \A k \in 1 .. n : k - 1 \in 0 .. n
  OBVIOUS
<1>. QED
  BY <1>11, <1>12, <1>13 DEF G, S, Turn, EventSteps

(* One notice of handle_inotify_event.                                     *)
LEMMA PathNoticeGood ==
  ASSUME NEW e \in Sensible, NEW x \in Int8,
         NEW name \in Names(e.path), NEW size \in Int, NEW limit \in Int,
         e.what # "IGNORED" =>
            NameOf(x) \in DOMAIN CInotifyEvent /\ BitOf[NameOf(x)] = e.what,
         NEW info, info = [path |-> name, event |-> x, size |-> size, size_limit |-> limit],
         NEW n, n = PathNotice(info, e)
  PROVE  NoticeInv(n)
<1>. DEFINE v == [path |-> name, event |-> NameOf(x), size |-> ToUint32(size),
                  size_limit |-> ToUint32(limit)]
<1>1. e.path \in Path /\ (Kind[e.path] # "file" => e.what # "IGNORED")
      /\ (e.what # "IGNORED" => Asked(e.path, e.what))
  BY DEF Sensible, KernelEvent
<1>2. name \in Text \cup Bytes /\ (Kind[e.path] # "file" => name \in Text)
  BY <1>1 DEF Names
<1>3. NameOf(x) \in DOMAIN CInotifyEvent \cup {"garbage"} /\ "garbage" \notin DOMAIN CInotifyEvent
  BY DEF NameOf, IsMember, Member, CInotifyEvent
<1>4. ToUint32(size) \in Uint32 /\ ToUint32(limit) \in Uint32
  BY ConversionFacts
<1>5. ToUint32(ToUint32(size)) = ToUint32(size) /\ ToUint32(ToUint32(limit)) = ToUint32(limit)
  <2>1. \A y \in Uint32 : ToUint32(y) = y
    BY ConversionFacts DEF Uint32
  <2>. QED
    BY <1>4, <2>1
<1>6. v \in PathMeaning
  BY <1>2, <1>3, <1>4 DEF PathMeaning
<1>7. /\ info.path = name /\ info.event = x /\ info.size = size /\ info.size_limit = limit
  OBVIOUS
<1>8. /\ n.class = "INOTIFY_PATH_UPDATED" /\ n.value = v
      /\ n.buf = C_send_inotifypathupdated(info) /\ n.about = e.path /\ n.what = e.what
  BY <1>7 DEF PathNotice, Notice, NameOf
<1>9. n.buf = PathBuffer(v, x)
  <2>. DEFINE u == [v EXCEPT !.event = x]
  <2>1. /\ u.path = name /\ u.event = x /\ u.size = ToUint32(size)
        /\ u.size_limit = ToUint32(limit)
    OBVIOUS
  <2>. HIDE DEF u
  <2>2. C_send_inotifypathupdated(u) = C_send_inotifypathupdated(info)
    BY <1>5, <1>7, <2>1 DEF C_send_inotifypathupdated
  <2>. QED
    BY <1>8, <2>2 DEF PathBuffer, u
<1>10. v.path = name /\ v.event = NameOf(x)
  OBVIOUS
<1>. HIDE DEF v
<1>11. /\ Kind[e.path] # "file" => v.path \in Text /\ v.event # "garbage"
       /\ e.what # "IGNORED" => Asked(e.path, BitOf[v.event])
  BY <1>1, <1>2, <1>3, <1>10
<1>. QED
  BY <1>1, <1>6, <1>8, <1>9, <1>10, <1>11 DEF NoticeInv, PathNoticeInv

(* handle_inotify_event: one notice for each event read, about what was    *)
(* asked for.                                                              *)
LEMMA InotifyKeeps ==
  ASSUME Inv, NEW i \in DOMAIN inst, HandleInotify(i)
  PROVE  Inv'
<1>. DEFINE n == ReadCount(i)
            first == SubSeq(queue[i], 1, n)
<1>1. /\ queue[i] # <<>>
      /\ queue' = [queue EXCEPT ![i] = SubSeq(queue[i], n + 1, Len(queue[i]))]
      /\ UNCHANGED <<files, inst>>
      /\ UNCHANGED <<client, up, accepted, served, job, pending, daemon, killed, ops>>
  BY DEF HandleInotify, ReadInotify
<1>2. PICK garbage \in Garbage, names \in [1 .. n -> Path \cup Stray] :
         /\ \A k \in 1 .. n : names[k] \in Names(first[k].path)
         /\ Send([k \in 1 .. n |->
                    PathNotice(PathUpdates(i, n, names, garbage)[k], first[k])])
  BY DEF HandleInotify
<1>3. /\ queue[i] \in Seq(Sensible) /\ queue \in [DOMAIN inst -> Seq(Sensible)]
      /\ files \in [Path -> -1 .. MaxSize]
      /\ inst \in Seq(AskedInstance)
  BY DEF Inv, WatchInv
<1>4. /\ n \in Nat /\ n <= Len(queue[i]) /\ Len(queue[i]) \in Nat
      /\ \A k \in 1 .. n : first[k] = queue[i][k] /\ queue[i][k] \in Sensible
  <2>1. Len(queue[i]) \in Nat
    BY <1>3, LenProperties
  <2>2. n \in Nat /\ n <= Len(queue[i])
    BY <2>1 DEF ReadCount
  <2>. HIDE DEF n
  <2>3. \A k \in 1 .. n : k \in 1 .. Len(queue[i])
    BY <2>1, <2>2
  <2>4. \A k \in 1 .. n : queue[i][k] \in Sensible
    BY <1>3, <2>3, ElementOfSeq
  <2>5. \A k \in 1 .. n : first[k] = queue[i][k]
    BY <1>3, <2>1, <2>2, <2>3, SubSeqProperties
  <2>. QED
    BY <2>1, <2>2, <2>4, <2>5
<1>. HIDE DEF n, first
<1>5. served # None
  <2>1. DOMAIN queue = DOMAIN inst
    BY <1>3
  <2>2. queue = << <<>> >> => \A j \in DOMAIN queue : queue[j] = <<>>
    OBVIOUS
  <2>. QED
    BY <1>1, <2>1, <2>2 DEF Inv, RequestInv, BeforeRequest
<1>6. WatchInv'
  <2>1. SubSeq(queue[i], n + 1, Len(queue[i])) \in Seq(Sensible)
    <3>1. n + 1 \in 1 .. (Len(queue[i]) + 1) /\ Len(queue[i]) \in n .. Len(queue[i])
      BY <1>4
    <3>2. \A m \in 1 .. Len(queue[i]) : queue[i][m] \in Sensible
      BY <1>3, ElementOfSeq
    <3>. QED
      BY <1>3, <1>4, <3>1, <3>2, SubSeqProperties
  <2>2. queue' \in [DOMAIN inst -> Seq(Sensible)]
    BY <1>1, <1>3, <2>1
  <2>3. Sensible' = Sensible /\ AskedInstance' = AskedInstance
    BY <1>1, AskedFrame
  <2>. QED
    BY <1>1, <2>2, <2>3 DEF Inv, WatchInv
<1>7. NoticesInv'
  <2>. DEFINE event == EventsRead(i, n, garbage)
  <2>1. garbage \in Int8
    OBVIOUS
  <2>2. \A k \in 1 .. n : queue[i][k] \in KernelEvent
    BY <1>4 DEF Sensible
  <2>3. \A k \in 1 .. n :
           /\ event[k - 1] \in Int8
           /\ event[k] = EventAfter(queue[i][k], inst[i].size, event[k - 1])
    <3>1. n \in Nat /\ KernelEvents(i, n)
      BY <1>4, <2>2 DEF KernelEvents
    <3>2. EventSteps(i, n, event)
      BY <2>1, <3>1, EventsReadType
    <3>. QED
      BY <3>2 DEF EventSteps
  <2>. DEFINE infos == PathUpdates(i, n, names, garbage)
              sent == [k \in 1 .. n |-> PathNotice(infos[k], first[k])]
              N == {PathNotice(infos[k], first[k]) : k \in 1 .. n}
  <2>. HIDE DEF event
  <2>4. inst[i].size \in Int
    <3>1. inst[i] \in AskedInstance
      BY <1>3, ElementOfSeq, LenProperties
    <3>. QED
      BY <3>1 DEF AskedInstance, Watching, InstanceType, Int32
  <2>5. ASSUME NEW k \in 1 .. n, NEW m, m = PathNotice(infos[k], first[k])
        PROVE  NoticeInv(m)
    <3>1. PICK e : e = queue[i][k]
      OBVIOUS
    <3>2. e \in Sensible /\ e \in KernelEvent /\ first[k] = e
      BY <1>4, <2>2, <3>1
    <3>. DEFINE size == IF e.what = "MODIFY" THEN findSize(e.path) ELSE inst[i].size
    <3>3. findSize(e.path) \in Int
      <4>1. e.path \in Path
        BY <3>2 DEF KernelEvent
      <4>2. files[e.path] \in Int
        BY <1>3, <4>1
      <4>. QED
        BY <4>2 DEF findSize
    <3>4. size \in Int
      BY <2>4, <3>3
    <3>5. infos[k] = [path |-> names[k], event |-> event[k], size |-> size,
                      size_limit |-> inst[i].size]
      BY <3>1 DEF PathUpdates, event
    <3>6. /\ event[k] \in Int8
          /\ e.what # "IGNORED" => /\ NameOf(event[k]) \in DOMAIN CInotifyEvent
                                   /\ BitOf[NameOf(event[k])] = e.what
      BY <2>3, <3>1, <3>2, EventNumber
    <3>7. names[k] \in Names(e.path)
      BY <1>2, <3>2
    <3>8. m = PathNotice(infos[k], e)
      BY <2>5, <3>2
    <3>. HIDE DEF size, infos
    <3>. QED
      BY <2>4, <3>2, <3>4, <3>5, <3>6, <3>7, <3>8, PathNoticeGood
  <2>6. \A m \in N : NoticeInv(m)
    BY <2>5
  <2>7. sent \in Seq(N)
    <3>1. \A k \in 1 .. n : PathNotice(infos[k], first[k]) \in N
      OBVIOUS
    <3>. HIDE DEF N, infos
    <3>. QED
      BY <1>4, <3>1, IsASeq
  <2>. HIDE DEF N
  <2>8. down' \in Seq(told') /\ told' \subseteq told \cup N
    <3>1. PICK s : s = sent
      OBVIOUS
    <3>2. s \in Seq(N) /\ Send(s)
      BY <1>2, <2>7, <3>1
    <3>. QED
      BY <3>2, SendMany DEF Inv, NoticesInv
  <2>9. \A m \in told \cup N : NoticeInv(m)'
    BY <1>1, <2>6, NoticeFrame DEF Inv, NoticesInv
  <2>. QED
    BY <2>8, <2>9 DEF NoticesInv
<1>8. RequestInv'
  <2>1. up \in Seq(KillsSent) /\ (client.framed /\ up # <<>> => job.pid # 0)
    BY <1>5 DEF Inv, RequestInv, AfterRequest
  <2>. QED
    BY <1>1, <1>5, <2>1, ServedFrame DEF Inv
<1>9. ClientInv' /\ NoticeAsMeant' /\ CrashIsExplained'
  BY <1>1, ClientFrame DEF Inv
<1>10. DaemonInv' /\ JobInv' /\ KillsOwn'
  BY <1>1 DEF Inv, DaemonInv, JobInv, KillsOwn
<1>. QED
  BY <1>6, <1>7, <1>8, <1>9, <1>10 DEF Inv

(* An event is queued once more, or is the last one already.               *)
LEMMA EnqueueType ==
  ASSUME NEW E, NEW q \in Seq(E), NEW e \in E
  PROVE  Enqueue(q, e) \in Seq(E)
  BY AppendProperties DEF Enqueue

(* The kernel queues an event only where the mask of a watch asks for it.  *)
LEMMA ChangeKeeps ==
  ASSUME Inv, NEW p \in Path, NEW what \in DOMAIN Bit, NEW size \in -1 .. MaxSize,
         Change(p, what, size), served' = served, pending' = pending
  PROVE  WatchInv'
<1>1. /\ files' = [files EXCEPT ![p] = size]
      /\ queue' = [i \in DOMAIN queue |-> Queued(i, p, what)]
      /\ inst' = IF Kind[p] = "file" /\ what = "DELETE"
                 THEN [i \in DOMAIN inst |-> [inst[i] EXCEPT !.mask[p] = 0]]
                 ELSE inst
  BY DEF Change
<1>2. /\ queue \in [DOMAIN inst -> Seq(Sensible)]
      /\ files \in [Path -> -1 .. MaxSize]
      /\ inst \in Seq(AskedInstance) /\ inst # <<>>
  BY DEF Inv, WatchInv
<1>3. Len(inst) \in Nat /\ DOMAIN inst = 1 .. Len(inst) /\ Len(inst) > 0
      /\ \A i \in DOMAIN inst : inst[i] \in AskedInstance
  BY <1>2, LenProperties, ElementOfSeq, EmptySeq
<1>4. files' \in [Path -> -1 .. MaxSize]
  BY <1>1, <1>2
<1>5. ASSUME NEW i \in DOMAIN inst PROVE Queued(i, p, what) \in Seq(Sensible)
  <2>1. queue[i] \in Seq(Sensible)
    BY <1>2
  <2>2. CASE Kind[p] = "file" /\ what = "DELETE"
    <3>1. [path |-> p, what |-> "IGNORED"] \in Sensible
      BY <2>2 DEF Sensible, KernelEvent
    <3>. QED
      BY <2>1, <2>2, <3>1, EnqueueType DEF Queued
  <2>3. CASE ~(Kind[p] = "file" /\ what = "DELETE") /\ Has(inst[i].mask[p], what)
    <3>1. Asked(p, what)
      BY <1>3, <2>3 DEF AskedInstance, Watching, Asked
    <3>2. [path |-> p, what |-> what] \in Sensible
      BY <3>1 DEF Sensible, KernelEvent, Bit
    <3>. QED
      BY <2>1, <2>3, <3>2, EnqueueType DEF Queued
  <2>4. CASE ~(Kind[p] = "file" /\ what = "DELETE") /\ ~Has(inst[i].mask[p], what)
    BY <2>1, <2>4 DEF Queued
  <2>. QED
    BY <2>2, <2>3, <2>4
<1>6. ASSUME NEW i \in DOMAIN inst PROVE [inst[i] EXCEPT !.mask[p] = 0] \in AskedInstance
  <2>1. PICK x : x = inst[i]
    OBVIOUS
  <2>2. x \in AskedInstance
    BY <1>3, <2>1
  <2>3. x.size \in Int32 /\ x.mask \in [Path -> Int32] /\ DOMAIN x = {"size", "mask"}
    BY <2>2 DEF AskedInstance, Watching, InstanceType
  <2>. DEFINE m == [x.mask EXCEPT ![p] = 0]
              y == [x EXCEPT !.mask = m]
  <2>4. m \in [Path -> Int32] /\ m[p] = 0 /\ \A q \in Path : q # p => m[q] = x.mask[q]
    BY <2>3 DEF Int32
  <2>5. [inst[i] EXCEPT !.mask[p] = 0] = y
    BY <2>1
  <2>. HIDE DEF m
  <2>6. y \in InstanceType /\ y.mask = m
    BY <2>2, <2>3, <2>4 DEF InstanceType, AskedInstance, Watching
  <2>7. \A w \in DOMAIN Bit : ~Has(0, w)
    BY DEF Has, Bit
  <2>. HIDE DEF y
  <2>8. ASSUME NEW q \in Path, NEW w \in DOMAIN Bit, Has(y.mask[q], w)
        PROVE  Asks(served.to_watch, q, w)
    BY <2>2, <2>4, <2>6, <2>7, <2>8 DEF AskedInstance, Watching
  <2>. QED
    BY <2>5, <2>6, <2>8 DEF AskedInstance, Watching
<1>7. inst' \in Seq(AskedInstance) /\ inst' # <<>> /\ DOMAIN inst' = DOMAIN inst
  <2>1. CASE Kind[p] = "file" /\ what = "DELETE"
    <3>. DEFINE F(i) == [inst[i] EXCEPT !.mask[p] = 0]
    <3>1. inst' = [i \in 1 .. Len(inst) |-> F(i)]
      BY <1>1, <1>3, <2>1
    <3>2. \A i \in 1 .. Len(inst) : F(i) \in AskedInstance
      BY <1>3, <1>6
    <3>. HIDE DEF F
    <3>3. inst' \in Seq(AskedInstance)
      BY <1>3, <3>1, <3>2, IsASeq
    <3>4. DOMAIN inst' = 1 .. Len(inst)
      BY <3>1
    <3>5. inst' # <<>>
      BY <1>3, <3>4
    <3>. QED
      BY <1>3, <3>3, <3>4, <3>5
  <2>2. CASE ~(Kind[p] = "file" /\ what = "DELETE")
    BY <1>1, <1>2, <2>2
  <2>. QED
    BY <2>1, <2>2
<1>8. queue' \in [DOMAIN inst' -> Seq(Sensible)]
  BY <1>1, <1>2, <1>5, <1>7
<1>9. Sensible' = Sensible /\ AskedInstance' = AskedInstance
  BY AskedFrame
<1>. QED
  BY <1>4, <1>7, <1>8, <1>9 DEF Inv, WatchInv

(* Something happens to a file or in a directory.                          *)
LEMMA FileChangesKeeps ==
  ASSUME Inv, NEW p \in Path, FileChanges(p)
  PROVE  Inv'
<1>1. /\ served # None /\ ops < MaxOps
      /\ FileCreate(p) \/ FileModify(p) \/ FileAccess(p) \/ FileDelete(p)
      /\ ops' = ops + 1
      /\ UNCHANGED <<client, up, down, accepted, served, job, pending, daemon,
                     killed, told>>
  BY DEF FileChanges
<1>2. files[p] \in -1 .. MaxSize
  BY DEF Inv, WatchInv
<1>3. /\ {"CREATE", "MODIFY", "ACCESS", "DELETE"} \subseteq DOMAIN Bit
      /\ 0 \in -1 .. MaxSize /\ -1 \in -1 .. MaxSize
      /\ \A size \in 0 .. MaxSize : size \in -1 .. MaxSize
  BY DEF Bit
<1>4. WatchInv'
  BY <1>1, <1>2, <1>3, ChangeKeeps DEF FileCreate, FileModify, FileAccess, FileDelete
<1>5. RequestInv'
  <2>1. up \in Seq(KillsSent) /\ (client.framed /\ up # <<>> => job.pid # 0)
    BY <1>1 DEF Inv, RequestInv, AfterRequest
  <2>. QED
    BY <1>1, <2>1, ServedFrame DEF Inv
<1>6. ClientInv' /\ NoticeAsMeant' /\ CrashIsExplained' /\ NoticesInv'
  BY <1>1, ClientFrame, NoticesFrame DEF Inv, NoticesInv
<1>7. DaemonInv' /\ JobInv' /\ KillsOwn'
  BY <1>1 DEF Inv, DaemonInv, JobInv, KillsOwn
<1>. QED
  BY <1>4, <1>5, <1>6, <1>7 DEF Inv

-----------------------------------------------------------------------------
(* The theorems.                                                           *)

(* Nothing happens.                                                        *)
LEMMA StutterKeeps ==
  ASSUME Inv, UNCHANGED vars
  PROVE  Inv'
<1>1. /\ UNCHANGED <<fileVars, up, served, job, pending, killed>>
      /\ client' = client /\ told' = told /\ down' = down
      /\ accepted' = accepted /\ daemon' = daemon /\ ops' = ops
  BY DEF vars, sessionVars
<1>2. RequestInv'
  <2>1. served = None => \A m \in told' : m.class = "TCP_SOCKET_LISTENING"
    BY <1>1 DEF Inv, RequestInv, BeforeRequest
  <2>. QED
    BY <1>1, <2>1, RequestFrame DEF Inv
<1>3. ClientInv' /\ NoticeAsMeant' /\ CrashIsExplained' /\ WatchInv' /\ NoticesInv'
  BY <1>1, ClientFrame, WatchFrame, NoticesFrame DEF Inv, NoticesInv
<1>4. DaemonInv' /\ JobInv' /\ KillsOwn'
  BY <1>1 DEF Inv, DaemonInv, JobInv, KillsOwn
<1>. QED
  BY <1>2, <1>3, <1>4 DEF Inv

(* The invariant holds in every state of a session, for any tests, files   *)
(* and short reads.                                                        *)
THEOREM Invariance == Spec => []Inv
<1>1. Inv /\ [Next]_vars => Inv'
  <2>. SUFFICES ASSUME Inv, [Next]_vars PROVE Inv'
    OBVIOUS
  <2>1. ASSUME NEW test \in Tests, ClientAsks(test) PROVE Inv'
    BY <2>1, AsksKeeps
  <2>2. CASE \/ ClientConnects \/ ClientReceives \/ ClientReceivesPart
             \/ ClientReceivesPartOfSize \/ ClientMisreads \/ ClientIsLeft
    BY <2>2, ConnectsKeeps, ReceivesKeeps, PartOfSizeKeeps, MisreadsKeeps, IsLeftKeeps
  <2>3. CASE AcceptConnexion \/ ServeCommand \/ NoArguments \/ ServeKill
    BY <2>3, AcceptKeeps, ServeCommandKeeps, NoArgumentsKeeps, ServeKillKeeps
  <2>4. ASSUME NEW success \in BOOLEAN, HandleExecve(success) PROVE Inv'
    BY <2>4, ExecveKeeps
  <2>5. CASE HandleSIGCHLD \/ Exits \/ UNCHANGED vars
    BY <2>5, SIGCHLDKeeps, ExitsKeeps, StutterKeeps
  <2>6. ASSUME NEW i \in DOMAIN inst, HandleInotify(i) PROVE Inv'
    BY <2>6, InotifyKeeps
  <2>7. ASSUME NEW code \in Codes, JobEnds(code) PROVE Inv'
    BY <2>7, JobEndsKeeps
  <2>8. ASSUME NEW k \in pending, NEW state \in DOMAIN CSocketState, ReportPort(k, state)
        PROVE  Inv'
    BY <2>8, ReportPortKeeps
  <2>9. ASSUME NEW p \in Path, FileChanges(p) PROVE Inv'
    BY <2>9, FileChangesKeeps
  <2>. QED
    BY <2>1, <2>2, <2>3, <2>4, <2>5, <2>6, <2>7, <2>8, <2>9 DEF Next, EventLoop
<1>. QED
  BY <1>1, InitHolds, PTL DEF Spec

(* Every state of a session is well typed: the pid of a job is one that    *)
(* launch_process can return, a mask and a size fit into the C ints that   *)
(* the daemon keeps, and every queued event has a kind the kernel has.     *)
THEOREM TypeCorrect == Spec => []TypeOK
<1>1. Inv => TypeOK
  <2>. SUFFICES ASSUME Inv PROVE TypeOK
    OBVIOUS
  <2>1. FileTypeOK
    <3>1. /\ queue \in [DOMAIN inst -> Seq(Sensible)]
          /\ files \in [Path -> -1 .. MaxSize]
          /\ inst \in Seq(AskedInstance)
      BY DEF Inv, WatchInv
    <3>2. \A i \in DOMAIN inst : inst[i] \in AskedInstance
      BY <3>1, LenProperties, ElementOfSeq
    <3>3. \A i \in DOMAIN inst : inst[i].size \in Int32 /\ inst[i].mask \in [Path -> Int32]
      BY <3>2 DEF AskedInstance, Watching, InstanceType
    <3>4. Sensible \subseteq KernelEvent
      BY DEF Sensible
    <3>5. \A i \in DOMAIN queue : queue[i] \in Seq(KernelEvent)
      BY <3>1, <3>4, SeqMonotonic
    <3>. QED
      BY <3>1, <3>3, <3>5 DEF FileTypeOK, KernelEvent
  <2>2. job \in JobType /\ job.pid \in Int32
    <3>1. 0 \in Int32
      BY DEF Int32
    <3>. QED
      BY <3>1 DEF Inv, JobInv, JobType
  <2>3. killed \subseteq Int32
    BY DEF Inv, DaemonInv
  <2>4. \A k \in DOMAIN down : down[k] \in told
    BY LenProperties, ElementOfSeq DEF Inv, NoticesInv
  <2>5. /\ client.pc \in {"start", "waiting", "misframed", "done", "lost", "crashed"}
        /\ client.framed \in BOOLEAN
        /\ client.pc = "misframed" => ~client.framed
        /\ client.cut \in {"no", "text", "root", "head", "stream"}
    BY DEF Inv, ClientInv
  <2>6. /\ accepted \in BOOLEAN /\ ops \in 0 .. MaxOps
        /\ daemon \in {"up", "leaving", "exited", "terminated", "segv"}
    BY DEF Inv, DaemonInv
  <2>7. /\ job.pid \in Pids \cup {0} /\ job.alive \in BOOLEAN
        /\ job.exec \in {"none", "pending", "told"}
        /\ job.end \in {"none", "pending", "told"}
        /\ job.code \in Errno \cup Codes \cup {0, SIGKILL}
    BY <2>2 DEF JobType
  <2>. QED
    BY <2>1, <2>3, <2>4, <2>5, <2>6, <2>7 DEF TypeOK
<1>. QED
  BY <1>1, Invariance, PTL

(* What the daemon reads is the command the client made, for every command *)
(* of every test (send_command_to_demon, receive_command of                *)
(* serialize.cpp).                                                         *)
THEOREM CommandIsAsSent == Spec => []CommandAsSent
<1>1. Inv => CommandAsSent
  BY DEF Inv, RequestInv, AfterRequest, CommandAsSent
<1>. QED
  BY <1>1, Invariance, PTL

(* What a test function gets out of the notice it waited for is what the   *)
(* daemon meant by it, and after a short read nothing or the same numbers, *)
(* unless it reads on out of frame.                                        *)
THEOREM NoticeIsAsMeant == Spec => []NoticeAsMeant
<1>1. Inv => NoticeAsMeant
  BY DEF Inv
<1>. QED
  BY <1>1, Invariance, PTL

(* A test function of test_demon.py ends with an exception only if the     *)
(* builder refused its command, after a short read, or for a notice about  *)
(* a file that is watched by its own name.                                 *)
THEOREM CrashesAreExplained == Spec => []CrashIsExplained
<1>1. Inv => CrashIsExplained
  BY DEF Inv
<1>. QED
  BY <1>1, Invariance, PTL

(* kill (daemon-core.c) is only called with the pid of the process that    *)
(* was launched for this client, and never with 0, unless the client has   *)
(* read on after a short read: a cut execve notice alone gives no other    *)
(* pid.                                                                    *)
THEOREM KillsOnlyOwn == Spec => []KillsOwn
<1>1. Inv => KillsOwn
  BY DEF Inv
<1>. QED
  BY <1>1, Invariance, PTL

(* An event that handle_inotify_event names is one that the client asked   *)
(* for on that path, unless it is about the IN_IGNORED of a file that was  *)
(* deleted: then the event is left from before.                            *)
THEOREM EventsAreAsAsked == Spec => []EventsAsAsked
<1>1. Inv => EventsAsAsked
  <2>. SUFFICES ASSUME Inv, NEW n \in told, n.class = "INOTIFY_PATH_UPDATED",
                       n.what # "IGNORED"
                PROVE  \E surv \in Requests :
                          /\ surv.event = "INOTIFY"
                          /\ surv.ptr_event.root_paths = n.about
                          /\ Has(surv.ptr_event.mask, BitOf[n.value.event])
    BY DEF EventsAsAsked
  <2>1. Asked(n.about, BitOf[n.value.event])
    BY DEF Inv, NoticesInv, NoticeInv, PathNoticeInv
  <2>. QED
    BY <2>1 DEF Asked, Asks, Requests
<1>. QED
  BY <1>1, Invariance, PTL

(* A notice written by the function of serialization.py for its class is   *)
(* the message of the daemon, or is not written at all.                    *)
LEMMA NoticeSentAlike ==
  ASSUME NEW n, NoticeInv(n)
  PROVE  PySent(n) \in {n.buf, None}
<1>1. CASE n.class = "PROCESS_LAUNCHED" /\ n.buf = C_send_processlaunched(n.value)
  BY <1>1 DEF PySent, send_processlaunched_to_user, SendOrNone, C_send_processlaunched
<1>2. CASE /\ n.class = "CHILD_CREATION_ERROR" /\ n.value \in Uint32
           /\ n.buf = C_send_childcreationerror(n.value)
  <2>1. ToUint32(n.value) = n.value
    BY <1>2, ConversionFacts DEF Uint32
  <2>. QED
    BY <1>2, <2>1 DEF PySent, send_childcreationerror_to_user, SendOrNone,
                      C_send_childcreationerror
<1>3. CASE /\ n.class = "PROCESS_TERMINATED" /\ n.value \in ProcessTerminatedInfo
           /\ n.buf = C_send_processterminated(n.value.pid, n.value.error_code)
  <2>1. ToUint32(n.value.error_code) = n.value.error_code
    BY <1>3, ConversionFacts DEF Uint32, ProcessTerminatedInfo
  <2>. QED
    BY <1>3, <2>1 DEF PySent, send_processterminated_to_user, SendOrNone,
                      C_send_processterminated
<1>4. CASE /\ n.class = "TCP_SOCKET_LISTENING" /\ n.value \in Uint16
           /\ n.buf = C_send_tcpsocketlistening(n.value)
  <2>1. n.value % (MAX16 + 1) = n.value
    <3>1. MAX16 + 1 \in Nat /\ MAX16 + 1 > 0 /\ (MAX16 + 1) - 1 = MAX16
      OBVIOUS
    <3>2. n.value \in Int /\ n.value \in 0 .. ((MAX16 + 1) - 1)
      BY <1>4, <3>1 DEF Uint16
    <3>. QED
      BY <3>1, <3>2, ModFacts
  <2>. QED
    BY <1>4, <2>1 DEF PySent, send_tcpsocketlistening_to_user, SendOrNone,
                      C_send_tcpsocketlistening
<1>5. CASE n.class = "INOTIFY_PATH_UPDATED"
  BY <1>5 DEF PySent, send_inotifypathupdated_to_user
<1>6. CASE /\ n.class = "INOTIFY_WATCH_LIST_UPDATED"
           /\ n.buf = C_send_inotifywatchlistupdated(n.value)
  BY <1>6 DEF PySent, send_inotifywatchlistupdated_to_user, SendOrNone,
              C_send_inotifywatchlistupdated
<1>7. CASE n.class = "SOCKET_WATCHED" /\ n.buf = C_send_socketwatched(n.value)
  BY <1>7 DEF PySent, send_socketwatched_to_user, SendOrNone, C_send_socketwatched
<1>8. CASE n.class = "SOCKET_WATCH_TERMINATED"
  BY <1>8 DEF PySent, send_socketwatchterminated_to_user
<1>9. CASE n.class = "EXECVE_TERMINATED"
  BY <1>9 DEF PySent
<1>. QED
  BY <1>1, <1>2, <1>3, <1>4, <1>5, <1>6, <1>7, <1>8, <1>9 DEF NoticeInv

(* A complete request is read alike on both sides, except that a command   *)
(* is never read by the client's side.                                     *)
LEMMA RequestReadAlike ==
  ASSUME NEW b, b.part = "all", Length(b) = 1
  PROVE  /\ receive_message_from_user(b, 1) = C_receive_message_from_user(b, 1)
         /\ receive_kill(b, 1) = C_receive_kill(b, 1)
         /\ receive_command(b, 1) = None
  BY DEF receive_message_from_user, C_receive_message_from_user, receive_kill,
         C_receive_kill, receive_command, Received, Verified

(* The two implementations of the format agree: what serialization.py      *)
(* would write for a notice is what serialize.cpp wrote, and both read the *)
(* requests that are on their way alike.  Where they differ the Python     *)
(* function does nothing: it returns None.                                 *)
THEOREM TheCodecsAgree == Spec => []CodecsAgree
<1>1. Inv => CodecsAgree
  <2>. SUFFICES ASSUME Inv PROVE CodecsAgree
    OBVIOUS
  <2>1. \A n \in told : PySent(n) \in {n.buf, None}
    BY NoticeSentAlike DEF Inv, NoticesInv
  <2>2. ASSUME NEW k \in DOMAIN up
        PROVE  up[k].part = "all" /\ Length(up[k]) = 1
    <3>1. CASE served = None
      <4>1. up \in Seq({CommandSent} \cup KillsSent) /\ up # <<>>
        BY <2>2, EmptySeq DEF Inv, RequestInv
      <4>2. /\ client.cmd \in Commands /\ CommandSent # Raised
            /\ Len(up) = 1 /\ up[1] = CommandSent
        BY <3>1, <4>1 DEF Inv, RequestInv, BeforeRequest, FromATest
      <4>3. k = 1
        BY <4>1, <4>2, LenProperties
      <4>. QED
        BY <4>2, <4>3, CommandRoundTrip DEF CommandSent
    <3>2. CASE served # None
      <4>1. up \in Seq(KillsSent)
        BY <3>2 DEF Inv, RequestInv, AfterRequest
      <4>2. up[k] \in KillsSent
        BY <4>1, LenProperties, ElementOfSeq
      <4>3. job.pid \in Int32
        <5>1. 0 \in Int32
          BY DEF Int32
        <5>. QED
          BY <5>1 DEF Inv, JobInv, JobType
      <4>4. PICK pid \in Int32 : up[k] = send_kill_to_demon(pid)
        BY <4>2, <4>3 DEF KillsSent, KillSent
      <4>. QED
        BY <4>4, KillRoundTrip
    <3>. QED
      BY <3>1, <3>2
  <2>3. ASSUME NEW k \in DOMAIN up
        PROVE  /\ receive_message_from_user(up[k], Length(up[k])) =
                     C_receive_message_from_user(up[k], Length(up[k]))
               /\ receive_kill(up[k], Length(up[k])) = C_receive_kill(up[k], Length(up[k]))
               /\ receive_command(up[k], Length(up[k])) = None
    BY <2>2, RequestReadAlike
  <2>. QED
    BY <2>1, <2>3 DEF CodecsAgree
<1>. QED
  BY <1>1, Invariance, PTL
=============================================================================
