----------------------------- MODULE SocketWatch -----------------------------
(***************************************************************************)
(* Port surveillance of the C daemon: the WATCH_SOCKET requests of         *)
(* process_surveillance_requests (c/daemon-features/events.c) and the      *)
(* detector threads of c/daemon-features/Detect_socket.c.                  *)
(*                                                                         *)
(* Each watch has a detached thread that asks the kernel once per second   *)
(* which TCP sockets use its port.  All threads share the flags found and  *)
(* timeout and the one alarm of the process, and the thread that is        *)
(* through first ends the process.  The main thread matters here only for  *)
(* being in epoll_wait or not when SIGALRM comes.                          *)
(***************************************************************************)
EXTENDS Integers, Sequences

CONSTANTS
    Watch,          \* surveillances of ports the clients ask for
    Port,
    port,           \* the port of each watch
    Listing,        \* what the kernel may have to show of each port
    MaxTurns,       \* turns of the loop of one thread (bound)
    Trouble         \* what can go wrong, a subset of Troubles

Troubles ==
    {"thread",      \* pthread_create fails
     "memory",      \* malloc of its argument fails
     "netlink",     \* the netlink socket cannot be created
     "busy"}        \* a dump is refused while another one is under way

Family == {"AF_INET", "AF_INET6"}
TcpState == {"TCP_ESTABLISHED", "TCP_LISTEN"}

ASSUME PortAssumption == port \in [Watch -> Port]
ASSUME ListingAssumption ==
    Listing \in [Port -> SUBSET SUBSET (Family \X TcpState)]
ASSUME TurnsAssumption == MaxTurns \in Nat
ASSUME TroubleAssumption == Trouble \subseteq Troubles

SocketState == {"SOCKET_UNKNOWN", "SOCKET_LISTENING", "SOCKET_CREATED"}

VARIABLES
    sockets,        \* what the kernel has to show of each port
    main,           \* the main thread: "epoll_wait" or "handling"
    to_watch,       \* surveillances of the request it handles, still to do
    at,             \* how far it is with the first of them
    pc,             \* where the thread of each watch is
    turn,           \* turns its loop has taken
    replies,        \* dumps the kernel has sent to it, unread
    state,          \* sock_info.state, undefined until it is written
    found, timeout, \* the flags all threads share
    alarm,          \* whether the alarm of the process is set
    daemon,         \* "up", or how the process ended
    sent,           \* notices sent about each watch
    shown           \* what was to be seen of its port since the watch began

mainVars == <<main, to_watch, at>>
threadVars == <<pc, turn, replies, state>>
flagVars == <<found, timeout, alarm>>
vars == <<sockets, mainVars, threadVars, flagVars, daemon, sent, shown>>

Pc == {"none", "requested", "failed", "start", "test", "recv", "report", "exit"}

Dump == SUBSET (TcpState \cup {"NLMSG_ERROR"})

Notice == [type : {"SocketWatched", "SocketWatchTerminated"},
           state : SocketState]

TypeOK ==
    /\ sockets \in [Port -> SUBSET (Family \X TcpState)]
    /\ main \in {"epoll_wait", "handling"}
    /\ to_watch \in Seq(Watch)
    /\ at \in {1, 2}
    /\ pc \in [Watch -> Pc]
    /\ turn \in [Watch -> 0 .. MaxTurns]
    /\ replies \in [Watch -> Seq(Dump)]
    /\ state \in [Watch -> SocketState \cup {"undefined"}]
    /\ found \in BOOLEAN /\ timeout \in BOOLEAN /\ alarm \in BOOLEAN
    /\ daemon \in {"up", "exit(0)", "exit(1)"}
    /\ sent \in [Watch -> Seq(Notice)]
    /\ shown \in [Watch -> SUBSET TcpState]

Init ==
    /\ sockets \in {f \in [Port -> UNION {Listing[p] : p \in Port}] :
                      \A p \in Port : f[p] \in Listing[p]}
    /\ main = "epoll_wait"
    /\ to_watch = <<>>
    /\ at = 1
    /\ pc = [w \in Watch |-> "none"]
    /\ turn = [w \in Watch |-> 0]
    /\ replies = [w \in Watch |-> <<>>]
    /\ state = [w \in Watch |-> "undefined"]
    /\ found = FALSE /\ timeout = FALSE /\ alarm = FALSE
    /\ daemon = "up"
    /\ sent = [w \in Watch |-> <<>>]
    /\ shown = [w \in Watch |-> {}]

Up == daemon = "up"

States(listing) == {e[2] : e \in listing}

Dumped(w, family) == {e[2] : e \in {x \in sockets[port[w]] : x[1] = family}}

Reports(w, type) == {i \in 1 .. Len(sent[w]) : sent[w][i].type = type}

-----------------------------------------------------------------------------
(* Programs open, close and connect sockets.                               *)
PortChanges(p, listing) ==
    /\ Up
    /\ sockets' = [sockets EXCEPT ![p] = listing]
    /\ shown' = [w \in Watch |->
                   IF port[w] = p /\ pc[w] \notin {"none", "requested"}
                   THEN shown[w] \cup States(listing) ELSE shown[w]]
    /\ UNCHANGED <<mainVars, threadVars, flagVars, daemon, sent>>

-----------------------------------------------------------------------------
(* The main thread.                                                        *)

(* A request with one or more surveillances is read.                       *)
ReadRequest(items) ==
    /\ Up
    /\ main = "epoll_wait"
    /\ \A i \in DOMAIN items : pc[items[i]] = "none"
    /\ main' = "handling"
    /\ to_watch' = items
    /\ pc' = [w \in Watch |-> IF \E i \in DOMAIN items : items[i] = w
                              THEN "requested" ELSE pc[w]]
    /\ UNCHANGED <<sockets, at, turn, replies, state, flagVars, daemon,
                   sent, shown>>

(* Any other event is handled.                                             *)
Wakes ==
    /\ Up
    /\ main = "epoll_wait"
    /\ main' = "handling"
    /\ UNCHANGED <<sockets, to_watch, at, threadVars, flagVars, daemon, sent, shown>>

Waits ==
    /\ Up
    /\ main = "handling"
    /\ to_watch = <<>>
    /\ main' = "epoll_wait"
    /\ UNCHANGED <<sockets, to_watch, at, threadVars, flagVars, daemon, sent, shown>>

(* Seeded fault: the thread is started first.                              *)
DetectFirst == <<"detect", "announce">>

(* What is done for one surveillance, in this order.                       *)
Order == <<"announce", "detect">>

Handles(w, step) ==
    /\ Up
    /\ to_watch # <<>> /\ Head(to_watch) = w
    /\ Order[at] = step
    /\ at' = IF at = 1 THEN 2 ELSE 1
    /\ to_watch' = IF at = 1 THEN to_watch ELSE Tail(to_watch)
    /\ UNCHANGED main

Announce(w) ==
    /\ Handles(w, "announce")
    /\ sent' = [sent EXCEPT ![w] =
                  Append(@, [type |-> "SocketWatched", state |-> "SOCKET_UNKNOWN"])]
    /\ UNCHANGED <<sockets, threadVars, flagVars, daemon, shown>>

(* detect_socket: the thread is created, or is not, which only stderr      *)
(* tells.                                                                  *)
DetectSocket(w, outcome) ==
    /\ Handles(w, "detect")
    /\ outcome \in {"start"} \cup {"failed" : m \in Trouble \cap {"thread"}}
    /\ pc' = [pc EXCEPT ![w] = outcome]
    /\ shown' = [shown EXCEPT ![w] = States(sockets[port[w]])]
    /\ UNCHANGED <<sockets, turn, replies, state, flagVars, daemon, sent>>

DetectSocketFails(w) ==
    /\ "memory" \in Trouble
    /\ Handles(w, "detect")
    /\ daemon' = "exit(1)"
    /\ UNCHANGED <<sockets, threadVars, flagVars, sent, shown>>

-----------------------------------------------------------------------------
(* The thread of watch w: search_TCP_connection.                           *)

Thread(w, from, to) ==
    /\ Up
    /\ pc[w] = from
    /\ pc' = [pc EXCEPT ![w] = to]
    /\ UNCHANGED <<sockets, mainVars, shown>>

(* Seeded fault: no alarm is set.                                          *)
AlarmUnset == alarm

(* alarm(10) sets the alarm of the process anew.                           *)
AlarmAfterStart == TRUE

Start(w) ==
    /\ Thread(w, "start", "test")
    /\ alarm' = AlarmAfterStart
    /\ UNCHANGED <<turn, replies, state, found, timeout, daemon, sent>>

StartFails(w) ==
    /\ "netlink" \in Trouble
    /\ Thread(w, "start", "start")
    /\ daemon' = "exit(1)"
    /\ UNCHANGED <<turn, replies, state, flagVars, sent>>

(* Seeded fault: the loop ends after a turn in any case.                   *)
EndsAfterATurn(w) == found \/ timeout \/ turn[w] > 0

LoopEnds(w) == found \/ timeout

(* Two dumps are asked for.  The kernel may refuse the second with an      *)
(* error while the first is not read to its end.                           *)
Ask(w) ==
    /\ ~LoopEnds(w)
    /\ turn[w] < MaxTurns
    /\ Thread(w, "test", "recv")
    /\ turn' = [turn EXCEPT ![w] = @ + 1]
    /\ LET inet  == Dumped(w, "AF_INET")
           inet6 == Dumped(w, "AF_INET6")
       IN  \/ replies' = [replies EXCEPT ![w] = @ \o <<inet, inet6>>]
           \/ /\ "busy" \in Trouble /\ inet # {}
              /\ replies' = [replies EXCEPT ![w] =
                               Append(@, inet \cup {"NLMSG_ERROR"})]
    /\ UNCHANGED <<state, flagVars, daemon, sent>>

(* Seeded fault: the kernel's value is kept.                               *)
KernelState(entry) == entry

(* process_inet_diag; an error message is taken for a socket of a state    *)
(* that is not known, on a port that is not asked for.                     *)
StateOf(entry) ==
    CASE entry = "TCP_ESTABLISHED" -> "SOCKET_CREATED"
      [] entry = "TCP_LISTEN"      -> "SOCKET_LISTENING"
      [] OTHER                     -> "SOCKET_UNKNOWN"

(* recv_tcp_diag reads one dump, up to NLMSG_DONE; sleep(1) follows.  The  *)
(* last entry of the dump decides, and the order is the kernel's.          *)
Recv(w) ==
    /\ Thread(w, "recv", "test")
    /\ LET dump == Head(replies[w])
       IN  /\ IF dump = {} THEN UNCHANGED state
              ELSE \E last \in dump : state' = [state EXCEPT ![w] = StateOf(last)]
           /\ found' = (found \/ dump \cap TcpState # {})
    /\ replies' = [replies EXCEPT ![w] = Tail(@)]
    /\ UNCHANGED <<turn, timeout, alarm, daemon, sent>>

LeaveLoop(w) ==
    /\ LoopEnds(w)
    /\ Thread(w, "test", "report")
    /\ UNCHANGED <<turn, replies, state, flagVars, daemon, sent>>

(* What sock_info.state can be read as.                                    *)
Read(w) == IF state[w] = "undefined" THEN SocketState ELSE {state[w]}

(* Seeded fault: the state is sent as it is.                               *)
StateAsItIs(w) == Read(w)

ReportedState(w) == IF found THEN Read(w) ELSE {"SOCKET_UNKNOWN"}

Report(w) ==
    /\ Thread(w, "report", "exit")
    /\ \E s \in ReportedState(w) :
          sent' = [sent EXCEPT ![w] =
                     Append(@, [type |-> "SocketWatchTerminated", state |-> s])]
    /\ UNCHANGED <<turn, replies, state, flagVars, daemon>>

(* detector_thread calls exit(0).                                          *)
Exit(w) ==
    /\ Thread(w, "exit", "exit")
    /\ daemon' = "exit(0)"
    /\ UNCHANGED <<turn, replies, state, flagVars, sent>>

-----------------------------------------------------------------------------
(* SIGALRM is taken by the main thread or by a detector.  epoll_wait is    *)
(* not restarted after a handler has run, and main exits when it fails.    *)
AlarmFires ==
    /\ Up
    /\ alarm
    /\ alarm' = FALSE
    /\ timeout' = TRUE
    /\ \/ daemon' = IF main = "epoll_wait" THEN "exit(1)" ELSE daemon
       \/ UNCHANGED daemon
    /\ UNCHANGED <<sockets, mainVars, threadVars, found, sent, shown>>

-----------------------------------------------------------------------------
MainStep(w) ==
    \/ Announce(w)
    \/ \E outcome \in Pc : DetectSocket(w, outcome)
    \/ DetectSocketFails(w)

Detector(w) ==
    \/ Start(w) \/ StartFails(w) \/ Ask(w) \/ Recv(w)
    \/ LeaveLoop(w) \/ Report(w) \/ Exit(w)

Requests ==
    {<<w>> : w \in Watch} \cup {s \in Watch \X Watch : s[1] # s[2]}

Next ==
    \/ \E p \in Port : \E listing \in Listing[p] : PortChanges(p, listing)
    \/ \E items \in Requests : ReadRequest(items)
    \/ Wakes \/ Waits
    \/ \E w \in Watch : MainStep(w) \/ Detector(w)
    \/ AlarmFires

Spec == Init /\ [][Next]_vars

(* Detector threads are scheduled, and ten seconds pass.                   *)
Fairness == WF_vars(AlarmFires) /\ \A w \in Watch : WF_vars(Detector(w))

FairSpec == Spec /\ Fairness

-----------------------------------------------------------------------------
Terminated(w) == Reports(w, "SocketWatchTerminated")

(* Another watch has a port with something to be seen on it, so that its   *)
(* thread can set found for all of them.                                   *)
AnotherMayFind(w) == \E v \in Watch \ {w} : shown[v] # {}

(* The notice that a port is watched (events.c) is sent before the one     *)
(* that it no longer is (Detect_socket.c), and each is sent once.          *)
AnnouncedFirst ==
    \A w \in Watch :
       /\ Len(sent[w]) <= 2
       /\ \A i \in Terminated(w) : i = 2

(* A socket that search_TCP_connection reports was there at some time      *)
(* since the watch began, unless another watch has set found for it.       *)
ReportSound ==
    \A w \in Watch : \A i \in Terminated(w) :
       \/ sent[w][i].state \in {"SOCKET_UNKNOWN"} \cup {StateOf(s) : s \in shown[w]}
       \/ AnotherMayFind(w)

(* A watch gives up only after the timeout, unless another watch has set   *)
(* found, or an error was taken for the last socket of its own dump.       *)
GivesUpLate ==
    \A w \in Watch : \A i \in Terminated(w) :
       sent[w][i].state = "SOCKET_UNKNOWN" =>
          \/ timeout
          \/ AnotherMayFind(w)
          \/ "busy" \in Trouble /\ shown[w] # {}

(* Every thread that was created gets to its report, or the process ends.  *)
WatchEnds ==
    \A w \in Watch : (pc[w] = "start") ~> (Terminated(w) # {} \/ ~Up)

(* A client is told when its port is no longer watched, whether it was     *)
(* found or the time is over.                                              *)
WatchIsReported ==
    \A w \in Watch : (pc[w] = "start") ~> (Terminated(w) # {})
=============================================================================
