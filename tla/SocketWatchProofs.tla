------------------------- MODULE SocketWatchProofs -------------------------
(***************************************************************************)
(* Proofs about the socket detector, for any number of watches, ports,     *)
(* listings and turns, and whatever goes wrong: the type invariant,        *)
(* AnnouncedFirst, ReportSound and GivesUpLate.                            *)
(*                                                                         *)
(* SentInv says what was sent of a watch by the place where its thread     *)
(* is, and MainInv that the main thread starts each thread once.  SeenInv  *)
(* follows what the kernel has shown through the dumps into the state, and *)
(* FoundInv traces the flag found, which all threads share, back to the    *)
(* one that has set it.                                                    *)
(***************************************************************************)
EXTENDS SocketWatch, TLAPS, SequenceTheorems

Announced(w) == Len(sent[w]) = 1 /\ sent[w][1].type = "SocketWatched"

Begun(w) == pc[w] \notin {"none", "requested"}

(* The main thread waits when nothing is left to do.  What is left has no  *)
(* thread yet, and no watch is left twice.                                 *)
MainInv ==
    /\ main = "epoll_wait" => to_watch = <<>>
    /\ at = 2 => to_watch # <<>>
    /\ \A i \in 1 .. Len(to_watch) : pc[to_watch[i]] = "requested"
    /\ \A i, k \in 1 .. Len(to_watch) : to_watch[i] = to_watch[k] => i = k

(* Where the thread of a watch is, and what was sent of it.                *)
SentInv(w) ==
    /\ pc[w] = "none" => sent[w] = <<>>
    /\ pc[w] = "requested" =>
          IF at = 2 /\ to_watch[1] = w THEN Announced(w) ELSE sent[w] = <<>>
    /\ pc[w] \in {"failed", "start", "test", "recv", "report"} => Announced(w)

(* What a thread has read, and has still to read, was to be seen, or is    *)
(* the error of a dump that was refused while another showed a socket.     *)
SeenInv(w) ==
    /\ ~Begun(w) => shown[w] = {}
    /\ Begun(w) => States(sockets[port[w]]) \subseteq shown[w]
    /\ pc[w] = "recv" => replies[w] # <<>>
    /\ \A i \in 1 .. Len(replies[w]) :
          /\ replies[w][i] \subseteq shown[w] \cup {"NLMSG_ERROR"}
          /\ "NLMSG_ERROR" \in replies[w][i] => "busy" \in Trouble /\ shown[w] # {}
    /\ state[w] \in {"undefined", "SOCKET_UNKNOWN"} \cup {StateOf(s) : s \in shown[w]}
    /\ state[w] = "SOCKET_UNKNOWN" => "busy" \in Trouble /\ shown[w] # {}
    /\ pc[w] = "report" => found \/ timeout

(* found was set by a thread that has read the state of a socket.          *)
FoundInv == found => \E v \in Watch : shown[v] # {} /\ state[v] # "undefined"

(* What holds while the process runs.                                      *)
Running ==
    /\ MainInv
    /\ FoundInv
    /\ \A w \in Watch : SentInv(w)
    /\ \A w \in Watch : SeenInv(w)

(* What the clients were told stays right when the process has ended.      *)
Told == AnnouncedFirst /\ ReportSound /\ GivesUpLate

Inv == TypeOK /\ Told /\ (Up => Running)

-----------------------------------------------------------------------------
USE PortAssumption, ListingAssumption, TurnsAssumption, TroubleAssumption

(* No watch is asked for and nothing was sent.                             *)
LEMMA InitInv == Init => Inv
<1> SUFFICES ASSUME Init PROVE Inv
  OBVIOUS
<1>1. TypeOK
  <2>1. \A p \in Port : sockets[p] \in SUBSET (Family \X TcpState)
    BY DEF Init
  <2>2. sockets \in [Port -> SUBSET (Family \X TcpState)]
    BY <2>1 DEF Init
  <2>3. /\ to_watch \in Seq(Watch)
        /\ replies \in [Watch -> Seq(Dump)]
        /\ sent \in [Watch -> Seq(Notice)]
    BY EmptySeq DEF Init
  <2>4. /\ pc \in [Watch -> Pc]
        /\ state \in [Watch -> SocketState \cup {"undefined"}]
        /\ shown \in [Watch -> SUBSET TcpState]
    BY DEF Init, Pc
  <2>5. turn \in [Watch -> 0 .. MaxTurns]
    BY DEF Init
  <2>6. /\ main \in {"epoll_wait", "handling"} /\ at \in {1, 2}
        /\ found \in BOOLEAN /\ timeout \in BOOLEAN /\ alarm \in BOOLEAN
        /\ daemon \in {"up", "exit(0)", "exit(1)"}
    BY DEF Init
  <2>. QED
    BY <2>2, <2>3, <2>4, <2>5, <2>6 DEF TypeOK
<1>2. Told
  BY DEF Init, Told, AnnouncedFirst, ReportSound, GivesUpLate, Terminated, Reports
<1>3. Running
  BY DEF Init, Running, MainInv, FoundInv, SentInv, SeenInv, Begun
<1>. QED
  BY <1>1, <1>2, <1>3 DEF Inv

(* An entry of a dump that is not the error is a state of TCP, and what    *)
(* the daemon makes of it is known.                                        *)
LEMMA StateOfType ==
  ASSUME NEW e \in TcpState \cup {"NLMSG_ERROR"}
  PROVE  /\ StateOf(e) \in SocketState
         /\ StateOf(e) = "SOCKET_UNKNOWN" => e = "NLMSG_ERROR"
  BY DEF StateOf, SocketState, TcpState

(* The parts of a listing are states of TCP.                               *)
LEMMA ListingType ==
  ASSUME NEW l, l \subseteq Family \X TcpState
  PROVE  States(l) \subseteq TcpState
  BY DEF States

(* A request names watches, none of them twice.                            *)
LEMMA RequestFacts ==
  ASSUME NEW items \in Requests
  PROVE  /\ items \in Seq(Watch)
         /\ items # <<>>
         /\ \A i, k \in 1 .. Len(items) : items[i] = items[k] => i = k
         /\ DOMAIN items = 1 .. Len(items)
<1>1. CASE \E w \in Watch : items = <<w>>
  BY <1>1
<1>2. CASE \E v, w \in Watch : v # w /\ items = <<v, w>>
  BY <1>2
<1>. QED
  BY <1>1, <1>2 DEF Requests

(* A step that sends nothing, after which no less was shown and the        *)
(* timeout is not taken back, keeps what was told right.                   *)
LEMMA ToldStays ==
  ASSUME Told, sent' = sent, timeout => timeout',
         \A w \in Watch : shown[w] \subseteq shown'[w]
  PROVE  Told'
<1>1. \A w \in Watch : Terminated(w)' = Terminated(w)
  BY DEF Terminated, Reports
<1>2. \A w \in Watch : AnotherMayFind(w) => AnotherMayFind(w)'
  BY DEF AnotherMayFind
<1>3. AnnouncedFirst'
  BY <1>1 DEF Told, AnnouncedFirst
<1>4. ReportSound'
  <2> SUFFICES ASSUME NEW w \in Watch, NEW i \in Terminated(w),
                      ~AnotherMayFind(w)'
               PROVE  sent[w][i].state \in
                        {"SOCKET_UNKNOWN"} \cup {StateOf(s) : s \in shown'[w]}
    BY <1>1 DEF ReportSound
  <2>1. sent[w][i].state \in {"SOCKET_UNKNOWN"} \cup {StateOf(s) : s \in shown[w]}
    BY <1>2 DEF Told, ReportSound
  <2>. QED
    BY <2>1
<1>5. GivesUpLate'
  BY <1>1, <1>2 DEF Told, GivesUpLate
<1>. QED
  BY <1>3, <1>4, <1>5 DEF Told

(* The end of the process takes nothing back.                              *)
LEMMA EndKeeps ==
  ASSUME Inv, TypeOK', ~Up', UNCHANGED <<sent, shown>>, timeout => timeout'
  PROVE  Inv'
  BY ToldStays DEF Inv

(* A watch whose thread takes no step has seen what it had.                *)
LEMMA SeenStays ==
  ASSUME NEW v \in Watch, SeenInv(v),
         pc'[v] = pc[v], replies'[v] = replies[v], state'[v] = state[v],
         shown'[v] = shown[v], sockets' = sockets,
         found => found', timeout => timeout'
  PROVE  SeenInv(v)'
  BY DEF SeenInv, Begun

(* A watch of which nothing is sent and whose thread takes no step.        *)
LEMMA SentStays ==
  ASSUME NEW v \in Watch, SentInv(v),
         pc'[v] = pc[v], sent'[v] = sent[v], UNCHANGED <<at, to_watch>>
  PROVE  SentInv(v)'
  BY DEF SentInv, Announced

-----------------------------------------------------------------------------
(* The sockets of a port change: all that is new is shown.                 *)
LEMMA PortChangesKeeps ==
  ASSUME Inv, NEW p \in Port, NEW listing \in Listing[p], PortChanges(p, listing)
  PROVE  Inv'
<1>. TypeOK /\ Running /\ Told
  BY DEF Inv, PortChanges
<1>0. listing \subseteq Family \X TcpState
  OBVIOUS
<1>a. States(listing) \subseteq TcpState
  BY <1>0, ListingType
<1>1. TypeOK'
  <2>1. sockets' \in [Port -> SUBSET (Family \X TcpState)]
    BY <1>0 DEF TypeOK, PortChanges
  <2>2. shown' \in [Watch -> SUBSET TcpState]
    BY <1>a DEF TypeOK, PortChanges
  <2>. QED
    BY <2>1, <2>2 DEF TypeOK, PortChanges, mainVars, threadVars, flagVars
<1>2. \A w \in Watch : shown[w] \subseteq shown'[w]
  BY DEF PortChanges
<1>3. Told'
  BY <1>2, ToldStays DEF PortChanges, flagVars
<1>4. \A w \in Watch : SeenInv(w)'
  <2> SUFFICES ASSUME NEW w \in Watch PROVE SeenInv(w)'
    OBVIOUS
  <2>1. SeenInv(w)
    BY DEF Running
  <2>2. UNCHANGED <<pc, replies, state, found, timeout>>
    BY DEF PortChanges, threadVars, flagVars
  <2>3. shown[w] \subseteq shown'[w] /\ (~Begun(w) => shown'[w] = shown[w])
    BY DEF PortChanges, Begun
  <2>4. Begun(w) => States(sockets'[port[w]]) \subseteq shown'[w]
    <3>1. CASE port[w] = p
      BY <3>1 DEF PortChanges, Begun, TypeOK
    <3>2. CASE port[w] # p
      BY <3>2, <2>1 DEF PortChanges, SeenInv, TypeOK
    <3>. QED
      BY <3>1, <3>2
  <2>5. state[w] \in {"undefined", "SOCKET_UNKNOWN"} \cup {StateOf(s) : s \in shown'[w]}
    BY <2>1, <2>3 DEF SeenInv
  <2>6. \A i \in 1 .. Len(replies[w]) :
          /\ replies[w][i] \subseteq shown'[w] \cup {"NLMSG_ERROR"}
          /\ "NLMSG_ERROR" \in replies[w][i] => "busy" \in Trouble /\ shown'[w] # {}
    BY <2>1, <2>3 DEF SeenInv
  <2>. QED
    BY <2>1, <2>2, <2>3, <2>4, <2>5, <2>6 DEF SeenInv, Begun
<1>5. MainInv' /\ FoundInv' /\ \A w \in Watch : SentInv(w)'
  <2>1. UNCHANGED <<main, to_watch, at, pc, state, found, sent>>
    BY DEF PortChanges, mainVars, threadVars, flagVars
  <2>2. FoundInv'
    BY <2>1, <1>2 DEF FoundInv, Running
  <2>3. MainInv'
    BY <2>1 DEF MainInv, Running
  <2>. QED
    BY <2>1, <2>2, <2>3, SentStays DEF Running
<1>. QED
  BY <1>1, <1>3, <1>4, <1>5 DEF Inv, Running

(* A request is read.  Nothing was sent or seen of its watches.            *)
LEMMA ReadRequestKeeps ==
  ASSUME Inv, NEW items \in Requests, ReadRequest(items)
  PROVE  Inv'
<1>. TypeOK /\ Running /\ Told
  BY DEF Inv, ReadRequest
<1>0. UNCHANGED <<sockets, at, turn, replies, state, found, timeout, alarm, daemon,
                  sent, shown>>
  BY DEF ReadRequest, flagVars
<1>1. TypeOK'
  BY <1>0, RequestFacts DEF ReadRequest, TypeOK, Pc
<1>2. Told'
  BY <1>0, ToldStays
<1>3. to_watch = <<>> /\ at = 1
  BY DEF ReadRequest, Running, MainInv, TypeOK
<1>4. MainInv'
  BY <1>0, <1>3, RequestFacts DEF ReadRequest, MainInv, TypeOK
<1>5. FoundInv'
  BY <1>0 DEF Running, FoundInv
<1>6. ASSUME NEW w \in Watch PROVE SentInv(w)' /\ SeenInv(w)'
  <2>0. SentInv(w) /\ SeenInv(w)
    BY DEF Running
  <2>1. CASE \E i \in DOMAIN items : items[i] = w
    <3>1. pc[w] = "none" /\ pc'[w] = "requested"
      BY <2>1 DEF ReadRequest
    <3>. QED
      BY <1>0, <1>3, <2>0, <3>1 DEF SentInv, SeenInv, Begun
  <2>2. CASE ~\E i \in DOMAIN items : items[i] = w
    <3>1. pc'[w] = pc[w]
      BY <2>2 DEF ReadRequest
    <3>2. SeenInv(w)'
      BY <1>0, <2>0, <3>1, SeenStays
    <3>. QED
      BY <1>0, <1>3, <2>0, <3>1, <3>2 DEF SentInv, Announced
  <2>. QED
    BY <2>1, <2>2
<1>. QED
  BY <1>1, <1>2, <1>4, <1>5, <1>6 DEF Inv, Running

(* The main thread goes on or waits.                                       *)
LEMMA WakesKeeps ==
  ASSUME Inv, Wakes \/ Waits
  PROVE  Inv'
<1>. TypeOK /\ Running /\ Told
  BY DEF Inv, Wakes, Waits
<1>0. UNCHANGED <<sockets, to_watch, at, pc, turn, replies, state, found, timeout,
                  alarm, daemon, sent, shown>>
  BY DEF Wakes, Waits, threadVars, flagVars
<1>1. TypeOK'
  BY <1>0 DEF Wakes, Waits, TypeOK
<1>2. Told'
  BY <1>0, ToldStays
<1>3. MainInv'
  BY <1>0 DEF Wakes, Waits, MainInv, Running
<1>4. FoundInv'
  BY <1>0 DEF Running, FoundInv
<1>5. \A w \in Watch : SentInv(w)' /\ SeenInv(w)'
  BY <1>0, SentStays, SeenStays DEF Running
<1>. QED
  BY <1>1, <1>2, <1>3, <1>4, <1>5 DEF Inv, Running

-----------------------------------------------------------------------------
(* A watch is announced: it is the first of those left to do, and nothing  *)
(* was sent of it.                                                         *)
LEMMA AnnounceKeeps ==
  ASSUME Inv, NEW w \in Watch, Announce(w)
  PROVE  Inv'
<1>. DEFINE n == [type |-> "SocketWatched", state |-> "SOCKET_UNKNOWN"]
<1>. TypeOK /\ Running /\ Told
  BY DEF Inv, Announce, Handles
<1>0. UNCHANGED <<sockets, main, pc, turn, replies, state, found, timeout,
                  alarm, daemon, shown>>
  BY DEF Announce, Handles, threadVars, flagVars
<1>1. /\ to_watch # <<>> /\ to_watch[1] = w
      /\ at = 1 /\ at' = 2 /\ to_watch' = to_watch
  BY DEF Announce, Handles, Order, TypeOK
<1>2. pc[w] = "requested" /\ sent[w] = <<>>
  BY <1>1 DEF Running, MainInv, SentInv, TypeOK
<1>3. n \in Notice /\ n.type = "SocketWatched"
  BY DEF Notice, SocketState
<1>4. /\ sent' \in [Watch -> Seq(Notice)]
      /\ \A v \in Watch : v # w => sent'[v] = sent[v]
      /\ Len(sent'[w]) = 1 /\ sent'[w][1] = n
  <2>1. sent' = [sent EXCEPT ![w] = Append(sent[w], n)]
    BY DEF Announce
  <2>. HIDE DEF n
  <2>. QED
    BY <2>1, <1>2, <1>3 DEF TypeOK
<1>. HIDE DEF n
<1>5. TypeOK'
  BY <1>0, <1>1, <1>4 DEF TypeOK
<1>6. \A v \in Watch : v # w => Terminated(v)' = Terminated(v)
  BY <1>4 DEF Terminated, Reports
<1>7. Terminated(w)' = {}
  BY <1>3, <1>4 DEF Terminated, Reports
<1>8. Told'
  <2>1. AnnouncedFirst'
    <3> SUFFICES ASSUME NEW v \in Watch
                 PROVE  Len(sent'[v]) <= 2 /\ \A i \in Terminated(v)' : i = 2
      BY DEF AnnouncedFirst
    <3>1. CASE v = w
      BY <3>1, <1>4, <1>7
    <3>2. CASE v # w
      BY <3>2, <1>4, <1>6 DEF Told, AnnouncedFirst
    <3>. QED
      BY <3>1, <3>2
  <2>2. ReportSound'
    BY <1>0, <1>4, <1>6, <1>7 DEF Told, ReportSound, AnotherMayFind
  <2>3. GivesUpLate'
    BY <1>0, <1>4, <1>6, <1>7 DEF Told, GivesUpLate, AnotherMayFind
  <2>. QED
    BY <2>1, <2>2, <2>3 DEF Told
<1>9. MainInv' /\ FoundInv'
  BY <1>0, <1>1 DEF Running, MainInv, FoundInv
<1>10. ASSUME NEW v \in Watch PROVE SeenInv(v)' /\ SentInv(v)'
  <2>1. SeenInv(v) /\ SentInv(v)
    BY DEF Running
  <2>2. SeenInv(v)'
    BY <1>0, <2>1, SeenStays
  <2>3. CASE v = w
    BY <1>0, <1>1, <1>2, <1>3, <1>4, <2>2, <2>3 DEF SentInv, Announced
  <2>4. CASE v # w
    BY <1>0, <1>1, <1>4, <2>1, <2>2, <2>4 DEF SentInv, Announced
  <2>. QED
    BY <2>3, <2>4
<1>. QED
  BY <1>5, <1>8, <1>9, <1>10 DEF Inv, Running

(* The first of the watches is taken off those that are left.              *)
LEMMA TailFacts ==
  ASSUME NEW s \in Seq(Watch), s # <<>>,
         \A i, k \in 1 .. Len(s) : s[i] = s[k] => i = k
  PROVE  /\ Tail(s) \in Seq(Watch)
         /\ \A i \in 1 .. Len(Tail(s)) :
               /\ \E k \in 1 .. Len(s) : Tail(s)[i] = s[k]
               /\ Tail(s)[i] # s[1]
         /\ \A i, k \in 1 .. Len(Tail(s)) : Tail(s)[i] = Tail(s)[k] => i = k
<1>1. /\ Len(s) \in Nat /\ Len(s) # 0
      /\ Tail(s) \in Seq(Watch) /\ Len(Tail(s)) = Len(s) - 1
      /\ \A i \in 1 .. Len(Tail(s)) : Tail(s)[i] = s[i + 1]
  BY HeadTailProperties, LenProperties, EmptySeq
<1>. DEFINE t == Tail(s)
<1>. HIDE DEF t
<1>2. ASSUME NEW i \in 1 .. Len(t)
      PROVE  i + 1 \in 1 .. Len(s) /\ t[i] = s[i + 1] /\ 1 \in 1 .. Len(s) /\ i + 1 # 1
  BY <1>1, <1>2 DEF t
<1>3. \A i \in 1 .. Len(t) : (\E k \in 1 .. Len(s) : t[i] = s[k]) /\ t[i] # s[1]
  BY <1>2
<1>4. \A i, k \in 1 .. Len(t) : t[i] = t[k] => i = k
  BY <1>2
<1>. QED
  BY <1>1, <1>3, <1>4 DEF t

(* The thread of the watch is created or not.  What its port shows now is  *)
(* the first that counts as shown.                                         *)
LEMMA DetectSocketKeeps ==
  ASSUME Inv, NEW w \in Watch, NEW outcome \in Pc, DetectSocket(w, outcome)
  PROVE  Inv'
<1>. TypeOK /\ Running /\ Told
  BY DEF Inv, DetectSocket, Handles
<1>0. UNCHANGED <<sockets, main, turn, replies, state, found, timeout,
                  alarm, daemon, sent>>
  BY DEF DetectSocket, Handles, flagVars
<1>1. /\ to_watch # <<>> /\ to_watch[1] = w
      /\ at = 2 /\ at' = 1 /\ to_watch' = Tail(to_watch)
  BY DEF DetectSocket, Handles, Order, TypeOK
<1>2. pc[w] = "requested" /\ Announced(w) /\ shown[w] = {}
  BY <1>1 DEF Running, MainInv, SentInv, SeenInv, Begun, TypeOK
<1>3. outcome \in {"start", "failed"}
  BY DEF DetectSocket
<1>4. /\ pc'[w] = outcome
      /\ \A v \in Watch : v # w => pc'[v] = pc[v] /\ shown'[v] = shown[v]
      /\ shown'[w] = States(sockets[port[w]])
  BY DEF DetectSocket, TypeOK
<1>5. /\ to_watch' \in Seq(Watch)
      /\ \A i \in 1 .. Len(to_watch') :
            /\ \E k \in 1 .. Len(to_watch) : to_watch'[i] = to_watch[k]
            /\ to_watch'[i] # w
      /\ \A i, k \in 1 .. Len(to_watch') : to_watch'[i] = to_watch'[k] => i = k
  <2>1. to_watch \in Seq(Watch)
    BY DEF TypeOK
  <2>2. \A i, k \in 1 .. Len(to_watch) : to_watch[i] = to_watch[k] => i = k
    BY DEF Running, MainInv
  <2>3. /\ Tail(to_watch) \in Seq(Watch)
        /\ \A i \in 1 .. Len(Tail(to_watch)) :
              /\ \E k \in 1 .. Len(to_watch) : Tail(to_watch)[i] = to_watch[k]
              /\ Tail(to_watch)[i] # to_watch[1]
        /\ \A i, k \in 1 .. Len(Tail(to_watch)) :
              Tail(to_watch)[i] = Tail(to_watch)[k] => i = k
    BY <1>1, <2>1, <2>2, TailFacts, Zenon
  <2>. QED
    BY <1>1, <2>3, Zenon
<1>6. TypeOK'
  <2>1. States(sockets[port[w]]) \subseteq TcpState
    BY ListingType DEF TypeOK
  <2>2. shown' \in [Watch -> SUBSET TcpState]
    BY <2>1 DEF TypeOK, DetectSocket
  <2>3. pc' \in [Watch -> Pc]
    BY DEF TypeOK, DetectSocket
  <2>. QED
    BY <1>0, <1>1, <1>5, <2>2, <2>3 DEF TypeOK
<1>7. Told'
  BY <1>0, <1>2, <1>4, ToldStays
<1>8. MainInv'
  <2>1. to_watch \in Seq(Watch) /\ to_watch' \in Seq(Watch)
    BY <1>5 DEF TypeOK
  <2>2. \A i \in 1 .. Len(to_watch') : pc'[to_watch'[i]] = "requested"
    <3> SUFFICES ASSUME NEW i \in 1 .. Len(to_watch')
                 PROVE  pc'[to_watch'[i]] = "requested"
      OBVIOUS
    <3>1. PICK k \in 1 .. Len(to_watch) : to_watch'[i] = to_watch[k]
      BY <1>5
    <3>2. to_watch[k] \in Watch /\ to_watch[k] # w /\ pc[to_watch[k]] = "requested"
      BY <2>1, <3>1, <1>5, ElementOfSeq DEF Running, MainInv
    <3>. QED
      BY <3>1, <3>2, <1>4
  <2>3. main # "epoll_wait"
    BY <1>1 DEF Running, MainInv
  <2>. QED
    BY <1>0, <1>1, <1>5, <2>2, <2>3 DEF MainInv
<1>9. FoundInv'
  <2> SUFFICES ASSUME found PROVE FoundInv'
    BY <1>0 DEF FoundInv
  <2>1. PICK v \in Watch : shown[v] # {} /\ state[v] # "undefined"
    BY DEF Running, FoundInv
  <2>. QED
    BY <2>1, <1>0, <1>2, <1>4 DEF FoundInv
<1>10. ASSUME NEW v \in Watch PROVE SeenInv(v)' /\ SentInv(v)'
  <2>1. SeenInv(v) /\ SentInv(v)
    BY DEF Running
  <2>2. CASE v = w
    <3>1. SentInv(w)'
      BY <1>0, <1>2, <1>3, <1>4 DEF SentInv, Announced
    <3>2. SeenInv(w)'
      <4>1. Begun(w)' /\ ~Begun(w) /\ pc'[w] \notin {"recv", "report"}
        BY <1>2, <1>3, <1>4 DEF Begun
      <4>2. \A i \in 1 .. Len(replies[w]) : replies[w][i] = {} 
        BY <2>1, <2>2, <1>2 DEF SeenInv
      <4>3. state[w] = "undefined"
        BY <2>1, <2>2, <1>2 DEF SeenInv
      <4>. QED
        BY <1>0, <1>4, <4>1, <4>2, <4>3 DEF SeenInv
    <3>. QED
      BY <2>2, <3>1, <3>2
  <2>3. CASE v # w
    <3>1. SeenInv(v)'
      BY <1>0, <1>4, <2>1, <2>3, SeenStays
    <3>2. SentInv(v)'
      BY <1>0, <1>1, <1>4, <2>1, <2>3 DEF SentInv, Announced
    <3>. QED
      BY <3>1, <3>2
  <2>. QED
    BY <2>2, <2>3
<1>. QED
  BY <1>6, <1>7, <1>8, <1>9, <1>10 DEF Inv, Running

-----------------------------------------------------------------------------
(* A step of one thread leaves the main thread and the others where they   *)
(* are.                                                                    *)
LEMMA ThreadFacts ==
  ASSUME TypeOK, Running, NEW w \in Watch, NEW from \in Pc, NEW to \in Pc,
         from \notin {"none", "requested"}, Thread(w, from, to)
  PROVE  /\ UNCHANGED <<sockets, main, to_watch, at, shown>>
         /\ pc' \in [Watch -> Pc] /\ pc[w] = from /\ pc'[w] = to
         /\ \A v \in Watch : v # w => pc'[v] = pc[v]
         /\ MainInv'
<1>1. /\ UNCHANGED <<sockets, main, to_watch, at, shown>>
      /\ pc' \in [Watch -> Pc] /\ pc[w] = from /\ pc'[w] = to
      /\ \A v \in Watch : v # w => pc'[v] = pc[v]
  BY DEF Thread, TypeOK, mainVars
<1>2. \A i \in 1 .. Len(to_watch) :
         /\ to_watch[i] \in Watch /\ to_watch[i] # w
         /\ pc'[to_watch[i]] = "requested"
  BY <1>1, ElementOfSeq DEF TypeOK, Running, MainInv
<1>. QED
  BY <1>1, <1>2 DEF Running, MainInv

(* A thread that neither reads nor sends: Start and LeaveLoop.             *)
LEMMA MoveKeeps ==
  ASSUME Inv, NEW w \in Watch, Start(w) \/ LeaveLoop(w)
  PROVE  Inv'
<1>. TypeOK /\ Running /\ Told
  BY DEF Inv, Start, LeaveLoop, Thread
<1>0. UNCHANGED <<turn, replies, state, found, timeout, daemon, sent>>
  BY DEF Start, LeaveLoop, flagVars
<1>1. /\ UNCHANGED <<sockets, main, to_watch, at, shown>>
      /\ pc' \in [Watch -> Pc]
      /\ pc[w] \in {"start", "test"} /\ pc'[w] \in {"test", "report"}
      /\ pc'[w] = "report" => found \/ timeout
      /\ \A v \in Watch : v # w => pc'[v] = pc[v]
      /\ MainInv'
  <2>1. CASE Start(w)
    BY <2>1, ThreadFacts DEF Start, Pc
  <2>2. CASE LeaveLoop(w)
    BY <2>2, ThreadFacts DEF LeaveLoop, LoopEnds, Pc
  <2>. QED
    BY <2>1, <2>2
<1>2. alarm' \in BOOLEAN
  BY DEF Start, LeaveLoop, AlarmAfterStart, flagVars, TypeOK
<1>3. TypeOK'
  BY <1>0, <1>1, <1>2 DEF TypeOK
<1>4. Told'
  BY <1>0, <1>1, ToldStays
<1>5. FoundInv'
  BY <1>0, <1>1 DEF Running, FoundInv
<1>6. ASSUME NEW v \in Watch PROVE SeenInv(v)' /\ SentInv(v)'
  <2>1. SeenInv(v) /\ SentInv(v)
    BY DEF Running
  <2>2. CASE v = w
    BY <1>0, <1>1, <2>1, <2>2 DEF SentInv, Announced, SeenInv, Begun
  <2>3. CASE v # w
    BY <1>0, <1>1, <2>1, <2>3, SeenStays, SentStays
  <2>. QED
    BY <2>2, <2>3
<1>. QED
  BY <1>1, <1>3, <1>4, <1>5, <1>6 DEF Inv, Running

(* The dumps of a port hold what it shows.                                 *)
LEMMA DumpedShown ==
  ASSUME TypeOK, NEW w \in Watch, SeenInv(w), Begun(w), NEW family
  PROVE  Dumped(w, family) \subseteq shown[w] /\ Dumped(w, family) \in Dump
<1>1. Dumped(w, family) \subseteq States(sockets[port[w]])
  BY DEF Dumped, States
<1>2. shown[w] \subseteq TcpState
  BY DEF TypeOK
<1>. QED
  BY <1>1, <1>2 DEF SeenInv, Dump

(* A reply that may be kept for a watch.                                   *)
Fair(w, d) ==
    /\ d \subseteq shown[w] \cup {"NLMSG_ERROR"}
    /\ "NLMSG_ERROR" \in d => "busy" \in Trouble /\ shown[w] # {}

(* The kernel answers with what the port shows now.                        *)
LEMMA AskKeeps ==
  ASSUME Inv, NEW w \in Watch, Ask(w)
  PROVE  Inv'
<1>. DEFINE inet  == Dumped(w, "AF_INET")
            inet6 == Dumped(w, "AF_INET6")
            r == replies[w]
            error == inet \cup {"NLMSG_ERROR"}
<1>. TypeOK /\ Running /\ Told
  BY DEF Inv, Ask, Thread
<1>0. UNCHANGED <<state, found, timeout, alarm, daemon, sent>>
  BY DEF Ask, flagVars
<1>1. /\ UNCHANGED <<sockets, main, to_watch, at, shown>>
      /\ pc' \in [Watch -> Pc] /\ pc[w] = "test" /\ pc'[w] = "recv"
      /\ \A v \in Watch : v # w => pc'[v] = pc[v]
      /\ MainInv'
  BY ThreadFacts DEF Ask, Pc
<1>2. SeenInv(w) /\ SentInv(w) /\ Begun(w)
  BY <1>1 DEF Running, Begun
<1>3. inet \subseteq shown[w] /\ inet6 \subseteq shown[w] /\ inet \in Dump /\ inet6 \in Dump
  BY <1>2, DumpedShown
<1>4. error \in Dump /\ r \in Seq(Dump)
  BY <1>3 DEF Dump, TypeOK
<1>5. "NLMSG_ERROR" \notin shown[w]
  BY DEF TypeOK, TcpState
<1>6. \A i \in 1 .. Len(r) : Fair(w, r[i])
  BY <1>2 DEF SeenInv, Fair
<1>7. Fair(w, inet) /\ Fair(w, inet6)
  BY <1>3, <1>5 DEF Fair
<1>8. \/ replies' = [replies EXCEPT ![w] = r \o <<inet, inet6>>]
      \/ Fair(w, error) /\ replies' = [replies EXCEPT ![w] = Append(r, error)]
  BY <1>3 DEF Ask, Fair
<1>9. turn' \in [Watch -> 0 .. MaxTurns]
  <2>1. turn[w] \in 0 .. MaxTurns /\ turn[w] < MaxTurns
    BY DEF Ask, TypeOK
  <2>2. turn[w] + 1 \in 0 .. MaxTurns
    BY <2>1
  <2>. QED
    BY <2>2 DEF Ask, TypeOK
<1>. HIDE DEF inet, inet6, error
<1>10. /\ replies' \in [Watch -> Seq(Dump)]
       /\ \A v \in Watch : v # w => replies'[v] = replies[v]
       /\ replies'[w] # <<>>
       /\ \A i \in 1 .. Len(replies'[w]) : Fair(w, replies'[w][i])
  <2>1. CASE replies' = [replies EXCEPT ![w] = r \o <<inet, inet6>>]
    <3>. DEFINE two == <<inet, inet6>>
                q == r \o two
    <3>1. two \in Seq(Dump) /\ Len(two) = 2 /\ two[1] = inet /\ two[2] = inet6
      BY <1>3
    <3>. HIDE DEF two
    <3>2. /\ q \in Seq(Dump) /\ Len(q) = Len(r) + 2
          /\ \A i \in 1 .. Len(q) : q[i] = IF i <= Len(r) THEN r[i] ELSE two[i - Len(r)]
      <4>1. /\ q \in Seq(Dump) /\ Len(q) = Len(r) + Len(two)
            /\ \A i \in 1 .. Len(r) + Len(two) :
                  q[i] = IF i <= Len(r) THEN r[i] ELSE two[i - Len(r)]
        BY <3>1, <1>4, ConcatProperties
      <4>. QED
        BY <4>1, <3>1, Zenon
    <3>. HIDE DEF q
    <3>3. Len(r) \in Nat
      BY <1>4, LenProperties
    <3>4. q # <<>> /\ \A i \in 1 .. Len(q) : Fair(w, q[i])
      <4>1. q # <<>>
        BY <3>2, <3>3, EmptySeq
      <4>2. ASSUME NEW i \in 1 .. Len(q) PROVE Fair(w, q[i])
        <5>1. CASE i <= Len(r)
          BY <5>1, <3>2, <3>3, <1>6
        <5>2. CASE i > Len(r)
          <6>1. i - Len(r) \in {1, 2} /\ ~(i <= Len(r))
            BY <5>2, <3>2, <3>3
          <6>2. q[i] = two[i - Len(r)]
            BY <6>1, <3>2
          <6>. QED
            BY <6>1, <6>2, <3>1, <1>7
        <5>. QED
          BY <5>1, <5>2, <3>2, <3>3
      <4>. QED
        BY <4>1, <4>2
    <3>5. replies' = [replies EXCEPT ![w] = q]
      BY <2>1 DEF q, two
    <3>. QED
      BY <3>2, <3>4, <3>5 DEF TypeOK
  <2>2. CASE Fair(w, error) /\ replies' = [replies EXCEPT ![w] = Append(r, error)]
    <3>. DEFINE q == Append(r, error)
    <3>1. /\ q \in Seq(Dump) /\ Len(q) = Len(r) + 1
          /\ \A i \in 1 .. Len(r) : q[i] = r[i]
          /\ q[Len(r) + 1] = error
      BY <1>4, AppendProperties
    <3>2. Len(r) \in Nat
      BY <1>4, LenProperties
    <3>3. replies' = [replies EXCEPT ![w] = q]
      BY <2>2
    <3>. HIDE DEF q
    <3>4. q # <<>>
      BY <3>1, <3>2, EmptySeq
    <3>5. \A i \in 1 .. Len(q) : i \in 1 .. Len(r) \/ i = Len(r) + 1
      BY <3>1, <3>2
    <3>6. \A i \in 1 .. Len(q) : Fair(w, q[i])
      BY <3>1, <3>5, <1>6, <2>2
    <3>. QED
      BY <3>1, <3>3, <3>4, <3>6 DEF TypeOK
  <2>. QED
    BY <2>1, <2>2, <1>8
<1>11. TypeOK'
  BY <1>0, <1>1, <1>9, <1>10 DEF TypeOK
<1>12. Told'
  BY <1>0, <1>1, ToldStays
<1>13. FoundInv'
  BY <1>0, <1>1 DEF Running, FoundInv
<1>14. ASSUME NEW v \in Watch PROVE SeenInv(v)' /\ SentInv(v)'
  <2>1. SeenInv(v) /\ SentInv(v)
    BY DEF Running
  <2>2. CASE v = w
    <3>1. SentInv(w)'
      BY <1>0, <1>1, <1>2 DEF SentInv, Announced
    <3>2. SeenInv(w)'
      BY <1>0, <1>1, <1>2, <1>10 DEF SeenInv, Begun, Fair
    <3>. QED
      BY <2>2, <3>1, <3>2
  <2>3. CASE v # w
    BY <1>0, <1>1, <1>10, <2>1, <2>3, SeenStays, SentStays
  <2>. QED
    BY <2>2, <2>3
<1>. QED
  BY <1>1, <1>11, <1>12, <1>13, <1>14 DEF Inv, Running

(* A dump is read.  If there is a socket in it, that was shown; the last   *)
(* entry, which becomes the state, can be the error all the same.          *)
LEMMA RecvKeeps ==
  ASSUME Inv, NEW w \in Watch, Recv(w)
  PROVE  Inv'
<1>. DEFINE r == replies[w]
            dump == Head(r)
<1>. TypeOK /\ Running /\ Told
  BY DEF Inv, Recv, Thread
<1>0. UNCHANGED <<turn, timeout, alarm, daemon, sent>>
  BY DEF Recv
<1>1. /\ UNCHANGED <<sockets, main, to_watch, at, shown>>
      /\ pc' \in [Watch -> Pc] /\ pc[w] = "recv" /\ pc'[w] = "test"
      /\ \A v \in Watch : v # w => pc'[v] = pc[v]
      /\ MainInv'
  BY ThreadFacts DEF Recv, Pc
<1>2. SeenInv(w) /\ SentInv(w)
  BY DEF Running
<1>3. r \in Seq(Dump) /\ r # <<>>
  BY <1>1, <1>2 DEF SeenInv, TypeOK
<1>4. /\ Len(r) \in Nat /\ Len(r) # 0
      /\ dump = r[1] /\ dump \in Dump
      /\ Tail(r) \in Seq(Dump) /\ Len(Tail(r)) = Len(r) - 1
      /\ \A i \in 1 .. Len(Tail(r)) : Tail(r)[i] = r[i + 1]
  BY <1>3, HeadTailProperties, LenProperties, EmptySeq
<1>5. \A i \in 1 .. Len(r) : Fair(w, r[i])
  BY <1>2 DEF SeenInv, Fair
<1>6. Fair(w, dump) /\ \A i \in 1 .. Len(Tail(r)) : Fair(w, Tail(r)[i])
  <2>1. 1 \in 1 .. Len(r) /\ \A i \in 1 .. Len(Tail(r)) : i + 1 \in 1 .. Len(r)
    BY <1>4
  <2>. QED
    BY <2>1, <1>4, <1>5
<1>7. /\ replies' = [replies EXCEPT ![w] = Tail(r)]
      /\ found' = (found \/ dump \cap TcpState # {})
      /\ dump = {} => state' = state
      /\ dump # {} => \E last \in dump : state' = [state EXCEPT ![w] = StateOf(last)]
  BY DEF Recv
<1>. HIDE DEF dump, r
<1>8. /\ replies' \in [Watch -> Seq(Dump)]
      /\ \A v \in Watch : v # w => replies'[v] = replies[v]
      /\ \A i \in 1 .. Len(replies'[w]) : Fair(w, replies'[w][i])
  BY <1>4, <1>6, <1>7 DEF TypeOK
<1>9. found' \in BOOLEAN /\ (found => found')
  BY <1>7 DEF TypeOK
<1>10. /\ state' \in [Watch -> SocketState \cup {"undefined"}]
       /\ \A v \in Watch : v # w => state'[v] = state[v]
       /\ state'[w] \in {"undefined", "SOCKET_UNKNOWN"} \cup {StateOf(s) : s \in shown[w]}
       /\ state'[w] = "SOCKET_UNKNOWN" => "busy" \in Trouble /\ shown[w] # {}
       /\ state[w] # "undefined" \/ dump # {} => state'[w] # "undefined"
  <2>1. CASE dump = {}
    BY <1>2, <1>7, <2>1 DEF TypeOK, SeenInv
  <2>2. CASE dump # {}
    <3>1. PICK last \in dump : state' = [state EXCEPT ![w] = StateOf(last)]
      BY <1>7, <2>2
    <3>2. /\ last \in TcpState \cup {"NLMSG_ERROR"}
          /\ last \in shown[w] \/ last = "NLMSG_ERROR"
          /\ last = "NLMSG_ERROR" => "busy" \in Trouble /\ shown[w] # {}
      BY <1>4, <1>6 DEF Dump, Fair
    <3>3. /\ StateOf(last) \in SocketState
          /\ StateOf(last) = "SOCKET_UNKNOWN" => last = "NLMSG_ERROR"
          /\ last = "NLMSG_ERROR" => StateOf(last) = "SOCKET_UNKNOWN"
      BY <3>2, StateOfType DEF StateOf
    <3>4. StateOf(last) \in {"SOCKET_UNKNOWN"} \cup {StateOf(s) : s \in shown[w]}
      BY <3>2, <3>3
    <3>5. state'[w] = StateOf(last) /\ \A v \in Watch : v # w => state'[v] = state[v]
      BY <3>1 DEF TypeOK
    <3>6. state' \in [Watch -> SocketState \cup {"undefined"}]
      BY <3>1, <3>3 DEF TypeOK
    <3>7. state'[w] # "undefined"
      BY <3>3, <3>5 DEF SocketState
    <3>. QED
      BY <3>2, <3>3, <3>4, <3>5, <3>6, <3>7
  <2>. QED
    BY <2>1, <2>2
<1>11. FoundInv'
  <2>1. CASE found
    <3>1. PICK v \in Watch : shown[v] # {} /\ state[v] # "undefined"
      BY <2>1 DEF Running, FoundInv
    <3>2. state'[v] # "undefined"
      BY <3>1, <1>10
    <3>. QED
      BY <3>1, <3>2, <1>1 DEF FoundInv
  <2>2. CASE dump \cap TcpState # {}
    <3>1. shown[w] # {} /\ dump # {}
      BY <2>2, <1>6 DEF Fair, TcpState
    <3>. QED
      BY <3>1, <1>1, <1>10 DEF FoundInv
  <2>3. CASE ~found /\ dump \cap TcpState = {}
    BY <2>3, <1>7 DEF FoundInv
  <2>. QED
    BY <2>1, <2>2, <2>3
<1>12. TypeOK'
  BY <1>0, <1>1, <1>8, <1>9, <1>10 DEF TypeOK
<1>13. Told'
  BY <1>0, <1>1, ToldStays
<1>14. ASSUME NEW v \in Watch PROVE SeenInv(v)' /\ SentInv(v)'
  <2>1. SeenInv(v) /\ SentInv(v)
    BY DEF Running
  <2>2. CASE v = w
    <3>1. SentInv(w)'
      BY <1>0, <1>1, <1>2 DEF SentInv, Announced
    <3>2. SeenInv(w)'
      BY <1>0, <1>1, <1>2, <1>8, <1>10 DEF SeenInv, Begun, Fair
    <3>. QED
      BY <2>2, <3>1, <3>2
  <2>3. CASE v # w
    BY <1>0, <1>1, <1>8, <1>9, <1>10, <2>1, <2>3, SeenStays, SentStays
  <2>. QED
    BY <2>2, <2>3
<1>. QED
  BY <1>1, <1>11, <1>12, <1>13, <1>14 DEF Inv, Running

(* The report.  A thread that has read nothing itself was let out of its   *)
(* loop by the alarm or by the thread of another watch.                    *)
LEMMA ReportKeeps ==
  ASSUME Inv, NEW w \in Watch, Report(w)
  PROVE  Inv'
<1>. TypeOK /\ Running /\ Told
  BY DEF Inv, Report, Thread
<1>0. UNCHANGED <<turn, replies, state, found, timeout, alarm, daemon>>
  BY DEF Report, flagVars
<1>1. /\ UNCHANGED <<sockets, main, to_watch, at, shown>>
      /\ pc' \in [Watch -> Pc] /\ pc[w] = "report" /\ pc'[w] = "exit"
      /\ \A v \in Watch : v # w => pc'[v] = pc[v]
      /\ MainInv'
  BY ThreadFacts DEF Report, Pc
<1>2. SeenInv(w) /\ Announced(w)
  BY <1>1 DEF Running, SentInv
<1>3. PICK s \in ReportedState(w) :
         sent' = [sent EXCEPT ![w] =
                    Append(sent[w], [type |-> "SocketWatchTerminated", state |-> s])]
  BY DEF Report
<1>4. /\ s \in SocketState
      /\ s \in {"SOCKET_UNKNOWN"} \cup {StateOf(x) : x \in shown[w]} \/ AnotherMayFind(w)
      /\ s = "SOCKET_UNKNOWN" =>
            timeout \/ AnotherMayFind(w) \/ ("busy" \in Trouble /\ shown[w] # {})
  <2>1. CASE ~found
    BY <1>1, <1>2, <1>3, <2>1 DEF ReportedState, SeenInv, SocketState
  <2>2. CASE found /\ state[w] # "undefined"
    <3>1. s = state[w]
      BY <2>2, <1>3 DEF ReportedState, Read
    <3>. QED
      BY <3>1, <2>2, <1>2 DEF SeenInv, TypeOK
  <2>3. CASE found /\ state[w] = "undefined"
    <3>1. s \in SocketState
      BY <2>3, <1>3 DEF ReportedState, Read
    <3>2. PICK v \in Watch : shown[v] # {} /\ state[v] # "undefined"
      BY <2>3 DEF Running, FoundInv
    <3>3. AnotherMayFind(w)
      BY <2>3, <3>2 DEF AnotherMayFind
    <3>. QED
      BY <3>1, <3>3
  <2>. QED
    BY <2>1, <2>2, <2>3
<1>. DEFINE n == [type |-> "SocketWatchTerminated", state |-> s]
<1>5. n \in Notice /\ n.state = s /\ n.type = "SocketWatchTerminated"
  BY <1>4 DEF Notice
<1>6. sent' = [sent EXCEPT ![w] = Append(sent[w], n)]
  BY <1>3
<1>. HIDE DEF n
<1>7. /\ sent' \in [Watch -> Seq(Notice)]
      /\ \A v \in Watch : v # w => sent'[v] = sent[v]
      /\ Len(sent'[w]) = 2
      /\ sent'[w][1].type = "SocketWatched" /\ sent'[w][2] = n
  <2>1. sent[w] \in Seq(Notice) /\ Len(sent[w]) = 1
    BY <1>2 DEF TypeOK, Announced
  <2>2. /\ Append(sent[w], n) \in Seq(Notice) /\ Len(Append(sent[w], n)) = 2
        /\ Append(sent[w], n)[1] = sent[w][1] /\ Append(sent[w], n)[2] = n
    BY <2>1, <1>5, AppendProperties
  <2>. QED
    BY <2>2, <1>2, <1>6 DEF TypeOK, Announced
<1>8. \A v \in Watch : v # w => Terminated(v)' = Terminated(v)
  BY <1>7 DEF Terminated, Reports
<1>9. Terminated(w)' = {2}
  <2>1. Terminated(w)' = {i \in 1 .. 2 : sent'[w][i].type = "SocketWatchTerminated"}
    BY <1>7 DEF Terminated, Reports
  <2>2. 1 .. 2 = {1, 2}
    OBVIOUS
  <2>. QED
    BY <2>1, <2>2, <1>5, <1>7
<1>10. \A v \in Watch : AnotherMayFind(v)' = AnotherMayFind(v)
  BY <1>1 DEF AnotherMayFind
<1>11. AnnouncedFirst'
  <2> SUFFICES ASSUME NEW v \in Watch
               PROVE  Len(sent'[v]) <= 2 /\ \A i \in Terminated(v)' : i = 2
    BY DEF AnnouncedFirst
  <2>1. CASE v = w
    BY <2>1, <1>7, <1>9
  <2>2. CASE v # w
    BY <2>2, <1>7, <1>8 DEF Told, AnnouncedFirst
  <2>. QED
    BY <2>1, <2>2
<1>12. ReportSound'
  <2> SUFFICES ASSUME NEW v \in Watch, NEW i \in Terminated(v)'
               PROVE  \/ sent'[v][i].state \in
                           {"SOCKET_UNKNOWN"} \cup {StateOf(x) : x \in shown'[v]}
                      \/ AnotherMayFind(v)'
    BY DEF ReportSound
  <2>1. CASE v = w
    BY <2>1, <1>1, <1>4, <1>5, <1>7, <1>9, <1>10
  <2>2. CASE v # w
    BY <2>2, <1>1, <1>7, <1>8, <1>10 DEF Told, ReportSound
  <2>. QED
    BY <2>1, <2>2
<1>13. GivesUpLate'
  <2> SUFFICES ASSUME NEW v \in Watch, NEW i \in Terminated(v)',
                      sent'[v][i].state = "SOCKET_UNKNOWN"
               PROVE  \/ timeout'
                      \/ AnotherMayFind(v)'
                      \/ "busy" \in Trouble /\ shown'[v] # {}
    BY DEF GivesUpLate
  <2>1. CASE v = w
    BY <2>1, <1>0, <1>1, <1>4, <1>5, <1>7, <1>9, <1>10
  <2>2. CASE v # w
    BY <2>2, <1>0, <1>1, <1>7, <1>8, <1>10 DEF Told, GivesUpLate
  <2>. QED
    BY <2>1, <2>2
<1>14. TypeOK'
  BY <1>0, <1>1, <1>7 DEF TypeOK
<1>15. FoundInv'
  BY <1>0, <1>1 DEF Running, FoundInv
<1>16. ASSUME NEW v \in Watch PROVE SeenInv(v)' /\ SentInv(v)'
  <2>1. SeenInv(v) /\ SentInv(v)
    BY DEF Running
  <2>2. CASE v = w
    <3>1. SentInv(w)'
      BY <1>1 DEF SentInv
    <3>2. SeenInv(w)'
      BY <1>0, <1>1, <1>2 DEF SeenInv, Begun
    <3>. QED
      BY <2>2, <3>1, <3>2
  <2>3. CASE v # w
    BY <1>0, <1>1, <1>7, <2>1, <2>3, SeenStays, SentStays
  <2>. QED
    BY <2>2, <2>3
<1>. QED
  BY <1>1, <1>11, <1>12, <1>13, <1>14, <1>15, <1>16 DEF Inv, Running, Told

-----------------------------------------------------------------------------
(* The four ways in which the process ends.                                *)
LEMMA EndsKeep ==
  ASSUME Inv, NEW w \in Watch,
         DetectSocketFails(w) \/ StartFails(w) \/ Exit(w)
  PROVE  Inv'
<1>. TypeOK /\ Running
  BY DEF Inv, DetectSocketFails, Handles, StartFails, Exit, Thread
<1>1. ~Up' /\ UNCHANGED <<sent, shown, timeout>>
  BY DEF DetectSocketFails, StartFails, Exit, Thread, Up, flagVars
<1>2. CASE DetectSocketFails(w)
  <2>1. to_watch # <<>>
    BY <1>2 DEF DetectSocketFails, Handles
  <2>2. Tail(to_watch) \in Seq(Watch)
    BY <2>1, HeadTailProperties DEF TypeOK
  <2>3. to_watch' \in Seq(Watch) /\ at' \in {1, 2}
    BY <1>2, <2>2 DEF DetectSocketFails, Handles, TypeOK
  <2>4. TypeOK'
    BY <1>2, <2>3 DEF DetectSocketFails, Handles, TypeOK, threadVars, flagVars
  <2>. QED
    BY <1>1, <2>4, EndKeeps
<1>3. CASE StartFails(w) \/ Exit(w)
  <2>1. UNCHANGED <<turn, replies, state, found, timeout, alarm, sent>>
    BY <1>3 DEF StartFails, Exit, flagVars
  <2>2. /\ UNCHANGED <<sockets, main, to_watch, at, shown>>
        /\ pc' \in [Watch -> Pc]
    BY <1>3, ThreadFacts DEF StartFails, Exit, Pc
  <2>3. TypeOK'
    BY <1>3, <2>1, <2>2 DEF StartFails, Exit, TypeOK
  <2>. QED
    BY <1>1, <2>3, EndKeeps
<1>. QED
  BY <1>2, <1>3

(* The alarm sets timeout and may end the process.                         *)
LEMMA AlarmKeeps ==
  ASSUME Inv, AlarmFires
  PROVE  Inv'
<1>. TypeOK /\ Running /\ Told
  BY DEF Inv, AlarmFires
<1>0. /\ UNCHANGED <<sockets, main, to_watch, at, pc, turn, replies, state, found,
                     sent, shown>>
      /\ timeout' = TRUE /\ alarm' = FALSE
      /\ daemon' \in {"up", "exit(1)"}
  BY DEF AlarmFires, mainVars, threadVars, Up
<1>1. TypeOK'
  BY <1>0 DEF TypeOK
<1>2. Told'
  BY <1>0, ToldStays
<1>3. MainInv' /\ FoundInv'
  BY <1>0 DEF Running, MainInv, FoundInv
<1>4. \A v \in Watch : SeenInv(v)' /\ SentInv(v)'
  BY <1>0, SeenStays, SentStays DEF Running
<1>. QED
  BY <1>1, <1>2, <1>3, <1>4 DEF Inv, Running

(* Inv is inductive.                                                       *)
LEMMA StepInv == Inv /\ [Next]_vars => Inv'
<1> SUFFICES ASSUME Inv, [Next]_vars PROVE Inv'
  OBVIOUS
<1>1. ASSUME NEW p \in Port, NEW listing \in Listing[p], PortChanges(p, listing)
      PROVE  Inv'
  BY <1>1, PortChangesKeeps
<1>2. ASSUME NEW items \in Requests, ReadRequest(items) PROVE Inv'
  BY <1>2, ReadRequestKeeps
<1>3. CASE Wakes \/ Waits
  BY <1>3, WakesKeeps
<1>4. ASSUME NEW w \in Watch, MainStep(w) PROVE Inv'
  BY <1>4, AnnounceKeeps, DetectSocketKeeps, EndsKeep DEF MainStep
<1>5. ASSUME NEW w \in Watch, Detector(w) PROVE Inv'
  BY <1>5, MoveKeeps, AskKeeps, RecvKeeps, ReportKeeps, EndsKeep DEF Detector
<1>6. CASE AlarmFires
  BY <1>6, AlarmKeeps
<1>7. CASE UNCHANGED vars
  <2>1. UNCHANGED <<sockets, main, to_watch, at, pc, turn, replies, state, found,
                    timeout, alarm, daemon, sent, shown>>
    BY <1>7 DEF vars, mainVars, threadVars, flagVars
  <2>2. TypeOK' /\ Up' = Up
    BY <2>1 DEF Inv, TypeOK, Up
  <2>3. Told'
    BY <2>1, ToldStays DEF Inv
  <2>4. Running => Running'
    <3>1. MainInv /\ FoundInv => MainInv' /\ FoundInv'
      BY <2>1 DEF MainInv, FoundInv
    <3>. QED
      BY <2>1, <3>1, SeenStays, SentStays DEF Running
  <2>. QED
    BY <2>2, <2>3, <2>4 DEF Inv
<1>. QED
  BY <1>1, <1>2, <1>3, <1>4, <1>5, <1>6, <1>7 DEF Next

(* Inv holds in every state of the detector.                               *)
THEOREM Invariance == Spec => []Inv
<1>1. Init => Inv
  BY InitInv
<1>2. Inv /\ [Next]_vars => Inv'
  BY StepInv
<1>. QED
  BY <1>1, <1>2, PTL DEF Spec

(* The state of the detector has its type: a thread never reads a dump it  *)
(* was not sent (recv_tcp_diag).                                           *)
THEOREM TypeCorrect == Spec => []TypeOK
<1>1. Inv => TypeOK
  BY DEF Inv
<1>. QED
  BY <1>1, Invariance, PTL

(* detect_socket creates the thread after the notice that the port is      *)
(* watched was sent, and the thread sends one notice that it no longer is. *)
THEOREM AnnouncedOnceFirst == Spec => []AnnouncedFirst
<1>1. Inv => AnnouncedFirst
  BY DEF Inv, Told
<1>. QED
  BY <1>1, Invariance, PTL

(* What search_TCP_connection reports of a port was to be seen on it while *)
(* it was watched, if no other thread can have set found for it.           *)
THEOREM ReportsAreSound == Spec => []ReportSound
<1>1. Inv => ReportSound
  BY DEF Inv, Told
<1>. QED
  BY <1>1, Invariance, PTL

(* search_TCP_connection reports SOCKET_UNKNOWN after the alarm, when      *)
(* another thread has set found, or when it took an error for a socket.    *)
THEOREM GivesUpWithCause == Spec => []GivesUpLate
<1>1. Inv => GivesUpLate
  BY DEF Inv, Told
<1>. QED
  BY <1>1, Invariance, PTL
=============================================================================
