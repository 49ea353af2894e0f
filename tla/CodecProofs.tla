---------------------------- MODULE CodecProofs ----------------------------
(***************************************************************************)
(* Proofs about the two codecs, for every width of the integers, every     *)
(* text and every command: what one side writes, the other one reads.      *)
(*                                                                         *)
(* Everything rests on GetBuild: a getter returns what the builder was     *)
(* given, whether the field was left out as a default or not.              *)
(***************************************************************************)
EXTENDS PyCodec, CCodec, TLAPS, SequenceTheorems, WellFoundedInduction

USE WidthAssumption, TextAssumption

-----------------------------------------------------------------------------
(* Integers.                                                               *)

(* What C's conversions do to a number that fits, and to one that does     *)
(* not.                                                                    *)
LEMMA ModFacts ==
  ASSUME NEW n \in Nat, n > 0, NEW x \in Int
  PROVE  x % n \in 0 .. (n - 1) /\ (x \in 0 .. (n - 1) => x % n = x)
  OBVIOUS

(* Conversions stay in range and leave alone what fits (uint32_t and       *)
(* int32_t parameters of serialize.cpp).                                   *)
LEMMA ConversionFacts ==
  ASSUME NEW x \in Int
  PROVE  /\ ToUint32(x) \in Uint32 /\ ToInt32(x) \in Int32
         /\ x \in Uint32 => ToUint32(x) = x
  BY ModFacts DEF ToUint32, ToInt32, Uint32, Int32

(* Every non-empty set of natural numbers has a least element: induction,  *)
(* for what is defined by recursion.                                       *)
LEMMA LeastNat ==
  ASSUME NEW T, T \subseteq Nat, T # {}
  PROVE  \E x \in T : \A y \in T : x <= y
<1>. DEFINE R == OpToRel(<, Nat)
<1>1. PICK x \in T : \A y \in T : ~(<<y, x>> \in R)
  BY NatLessThanWellFounded, WFMin, Zenon
<1>2. \A y \in T : x <= y
  <2> TAKE y \in T
  <2>1. x \in Nat /\ y \in Nat
    OBVIOUS
  <2>2. ~(y < x)
    BY <1>1, <2>1 DEF OpToRel
  <2>. QED
    BY <2>1, <2>2
<1>. QED
  BY <1>2

(* A loop of n turns over S, from s0: what it has computed after each turn *)
(* is defined, by induction on the turns.                                  *)
LoopRuns(n, S, s0, step) ==
    {F \in [0 .. n -> S] :
        F[0] = s0 /\ \A k \in 1 .. n : F[k] = step[k][F[k - 1]]}

(* Such a loop has a run, whatever its turns do.                           *)
LEMMA LoopExists ==
  ASSUME NEW n \in Nat, NEW S, NEW s0 \in S, NEW step \in [1 .. n -> [S -> S]]
  PROVE  LoopRuns(n, S, s0, step) # {}
<1>. DEFINE Runs(m) == LoopRuns(m, S, s0, step)
            T == {m \in 0 .. n : Runs(m) = {}}
<1>. SUFFICES ASSUME T # {} PROVE FALSE
  OBVIOUS
<1>1. T \subseteq Nat
  OBVIOUS
<1>. HIDE DEF T
<1>2. PICK m \in T : \A y \in T : m <= y
  BY <1>1, LeastNat
<1>3. m \in 0 .. n /\ m \in Nat /\ Runs(m) = {}
  BY <1>1 DEF T
<1>4. CASE m = 0
  <2>1. [k \in 0 .. 0 |-> s0] \in Runs(0)
    BY DEF LoopRuns
  <2>. QED
    BY <2>1, <1>3, <1>4
<1>5. CASE m # 0
  <2>1. m - 1 \in 0 .. n /\ m - 1 \notin T /\ m \in 1 .. n
    BY <1>2, <1>3, <1>5
  <2>0. PICK F : F \in Runs(m - 1)
    BY <2>1 DEF T
  <2>2. /\ F \in [0 .. (m - 1) -> S] /\ F[0] = s0
        /\ \A k \in 1 .. (m - 1) : F[k] = step[k][F[k - 1]]
    BY <2>0 DEF LoopRuns
  <2>3. F[m - 1] \in S
    BY <2>1, <2>2, <1>3, <1>5
  <2>4. step[m][F[m - 1]] \in S
    BY <2>1, <2>3
  <2>. DEFINE G == [k \in 0 .. m |-> IF k = m THEN step[m][F[m - 1]] ELSE F[k]]
  <2>5. \A k \in 0 .. m : k # m => k \in 0 .. (m - 1)
    BY <1>3
  <2>6. G \in [0 .. m -> S]
    BY <2>2, <2>4, <2>5
  <2>7. G[0] = s0
    BY <2>2, <1>3, <1>5
  <2>8. ASSUME NEW k \in 1 .. m PROVE G[k] = step[k][G[k - 1]]
    <3>1. k - 1 \in 0 .. m /\ k - 1 # m /\ k \in 0 .. m
      BY <1>3
    <3>2. G[k - 1] = F[k - 1]
      BY <3>1
    <3>3. k # m => k \in 1 .. (m - 1)
      BY <1>3
    <3>4. k # m => F[k] = step[k][F[k - 1]]
      BY <2>2, <3>3
    <3>. QED
      BY <3>1, <3>2, <3>4
  <2>. QED
    BY <2>6, <2>7, <2>8, <1>3 DEF LoopRuns
<1>. QED
  BY <1>4, <1>5

(* What holds before a loop and is kept by every turn holds after each.    *)
LEMMA LoopKeeps ==
  ASSUME NEW n \in Nat, NEW S, NEW F, F[0] \in S,
         \A k \in 1 .. n : F[k - 1] \in S => F[k] \in S
  PROVE  \A k \in 0 .. n : F[k] \in S
<1>. DEFINE T == {m \in 0 .. n : F[m] \notin S}
<1>. SUFFICES ASSUME T # {} PROVE FALSE
  OBVIOUS
<1>1. T \subseteq Nat
  OBVIOUS
<1>. HIDE DEF T
<1>2. PICK m \in T : \A y \in T : m <= y
  BY <1>1, LeastNat
<1>3. m \in 0 .. n /\ m \in Nat /\ F[m] \notin S
  BY <1>1 DEF T
<1>4. m # 0
  BY <1>3
<1>5. m - 1 \in 0 .. n /\ m - 1 \notin T /\ m \in 1 .. n
  BY <1>2, <1>3, <1>4
<1>. QED
  BY <1>3, <1>5 DEF T

-----------------------------------------------------------------------------
(* Tables and messages.                                                    *)

(* A getter of a table gives the value the builder was given, also when    *)
(* that value is the default and was left out.                             *)
LEMMA GetBuild ==
  ASSUME NEW table, NEW v, NEW f \in DOMAIN table
  PROVE  Get(table, Build(table, v), f) = v[f]
  BY DEF Get, Build

(* A message that was finished holds its event.                            *)
LEMMA FinishRead ==
  ASSUME NEW type, NEW tab
  PROVE  /\ Finish(type, tab).part = "all"
         /\ EventsType(Finish(type, tab)) = type
         /\ Events(Finish(type, tab)) = tab
         /\ Length(Finish(type, tab)) = 1
<1>. DEFINE v == [events_type |-> type, events |-> tab]
<1>1. DOMAIN Message = {"events_type", "events"}
  BY DEF Message
<1>2. v.events_type = type /\ v.events = tab
  OBVIOUS
<1>. HIDE DEF v
<1>3. /\ Get(Message, Build(Message, v), "events_type") = type
      /\ Get(Message, Build(Message, v), "events") = tab
  BY <1>1, <1>2, GetBuild
<1>4. /\ Finish(type, tab).part = "all"
      /\ Finish(type, tab).message = Build(Message, v)
  BY DEF Finish, v
<1>. QED
  BY <1>3, <1>4 DEF EventsType, Events, Length

(* The fields of the tables.                                               *)
LEMMA Fields ==
  /\ DOMAIN SurveillanceEvent = {"event_type", "event"}
  /\ DOMAIN Inotify = {"root_paths", "mask", "size"}
  /\ DOMAIN TCPSocket = {"destport"}
  /\ DOMAIN RunCommand = {"path", "args", "envp", "flags", "stack_size", "to_watch"}
  /\ DOMAIN KillProcess = {"pid"}
  /\ DOMAIN ExecveTerminated = {"pid", "command_name", "success"}
  /\ DOMAIN ProcessLaunched = {"pid"}
  /\ DOMAIN ChildCreationError = {"error_code"}
  /\ DOMAIN ProcessTerminated = {"pid", "error_code"}
  /\ DOMAIN TCPSocketListening = {"port"}
  /\ DOMAIN InotifyPathUpdated = {"path", "trigger_events", "size", "size_limit"}
  /\ DOMAIN InotifyWatchListUpdated = {"path"}
  /\ DOMAIN SocketWatched = {"port"}
  /\ DOMAIN SocketWatchTerminated = {"port", "state"}
  BY DEF SurveillanceEvent, Inotify, TCPSocket, RunCommand, KillProcess,
         ExecveTerminated, ProcessLaunched, ChildCreationError, ProcessTerminated,
         TCPSocketListening, InotifyPathUpdated, InotifyWatchListUpdated,
         SocketWatched, SocketWatchTerminated

-----------------------------------------------------------------------------
(* The request to kill.                                                    *)

(* Of a pid that fits, the daemon reads the number the client wrote, and   *)
(* so does the function of the client (send_kill_to_demon, receive_kill).  *)
THEOREM KillRoundTrip ==
  ASSUME NEW pid \in Int32
  PROVE  LET b == send_kill_to_demon(pid)
         IN  /\ b.part = "all" /\ Length(b) = 1
             /\ EventsType(b) = Event.KillProcess
             /\ C_receive_kill(b, Length(b)) = pid
             /\ receive_kill(b, Length(b)) = pid
<1>. DEFINE v == [pid |-> pid]
            tab == Build(KillProcess, v)
<1>1. CanBuild(KillProcess, v)
  BY DEF CanBuild, KillProcess, Fits
<1>2. send_kill_to_demon(pid) = Finish(Event.KillProcess, tab)
  BY <1>1 DEF send_kill_to_demon
<1>3. Get(KillProcess, tab, "pid") = pid
  BY GetBuild, Fields
<1>. HIDE DEF tab
<1>. QED
  BY <1>2, <1>3, FinishRead DEF C_receive_kill, receive_kill, Received, Verified

-----------------------------------------------------------------------------
(* The request to run a command.                                           *)

(* A watch of a path or of a port.                                         *)
LEMMA WatchRoundTrip ==
  ASSUME NEW surv \in InotifyWatch \cup PortWatch
  PROVE  C_surveillance(WatchTable(surv)) = surv
<1>1. CASE surv \in InotifyWatch
  <2>. DEFINE p == surv.ptr_event
              inner == Build(Inotify, p)
              v == [event_type |-> Surveillance.Inotify, event |-> inner]
              outer == Build(SurveillanceEvent, v)
  <2>1. WatchTable(surv) = outer
    BY <1>1 DEF WatchTable, InotifyWatch
  <2>2. /\ Get(SurveillanceEvent, outer, "event_type") = Surveillance.Inotify
        /\ Get(SurveillanceEvent, outer, "event") = inner
    BY GetBuild, Fields
  <2>3. \A f \in DOMAIN Inotify : Get(Inotify, inner, f) = p[f]
    BY GetBuild
  <2>4. p = [f \in DOMAIN Inotify |-> p[f]]
    BY <1>1, Fields DEF InotifyWatch
  <2>. HIDE DEF outer, inner
  <2>5. [f \in DOMAIN Inotify |-> Get(Inotify, inner, f)] = p
    BY <2>3, <2>4
  <2>6. surv = [event |-> "INOTIFY", ptr_event |-> p]
    BY <1>1 DEF InotifyWatch
  <2>. QED
    BY <2>1, <2>2, <2>5, <2>6 DEF C_surveillance
<1>2. CASE surv \in PortWatch
  <2>. DEFINE p == surv.ptr_event
              inner == Build(TCPSocket, p)
              v == [event_type |-> Surveillance.TCPSocket, event |-> inner]
              outer == Build(SurveillanceEvent, v)
  <2>1. WatchTable(surv) = outer
    BY <1>2 DEF WatchTable, PortWatch
  <2>2. /\ Get(SurveillanceEvent, outer, "event_type") = Surveillance.TCPSocket
        /\ Get(SurveillanceEvent, outer, "event") = inner
    BY GetBuild, Fields
  <2>3. \A f \in DOMAIN TCPSocket : Get(TCPSocket, inner, f) = p[f]
    BY GetBuild
  <2>4. p = [f \in DOMAIN TCPSocket |-> p[f]]
    BY <1>2, Fields DEF PortWatch
  <2>. HIDE DEF outer, inner
  <2>5. [f \in DOMAIN TCPSocket |-> Get(TCPSocket, inner, f)] = p
    BY <2>3, <2>4
  <2>6. surv = [event |-> "WATCH_SOCKET", ptr_event |-> p]
    BY <1>2 DEF PortWatch
  <2>7. Surveillance.TCPSocket # Surveillance.Inotify
    BY DEF Surveillance
  <2>. QED
    BY <2>1, <2>2, <2>5, <2>6, <2>7 DEF C_surveillance
<1>. QED
  BY <1>1, <1>2

(* The loop over to_watch keeps watches of the two kinds it knows.         *)
LEMMA KeptType ==
  ASSUME NEW W, NEW s \in Seq(W)
  PROVE  Kept(s) \in Seq({x \in W : Known(x)})
<1>1. Len(s) \in Nat /\ Len(s) \in 0 .. Len(s)
  OBVIOUS
<1>. DEFINE n == Len(s)
            R == {x \in W : Known(x)}
            S == Seq(R)
            Turn(k, q) == IF Known(s[k]) THEN Append(q, s[k]) ELSE q
            step == [k \in 1 .. n |-> [q \in S |-> Turn(k, q)]]
            Loop(f) == f = [k \in 0 .. n |-> IF k = 0 THEN <<>> ELSE Turn(k, f[k - 1])]
<1>2. \A k \in 1 .. n : \A q \in S : Turn(k, q) \in S
  <2>. SUFFICES ASSUME NEW k \in 1 .. n, NEW q \in S, Known(s[k])
                PROVE  Append(q, s[k]) \in S
    OBVIOUS
  <2>1. s[k] \in R
    BY ElementOfSeq
  <2>. HIDE DEF R
  <2>. QED
    BY <2>1, AppendProperties
<1>3. <<>> \in S
  BY EmptySeq
<1>. HIDE DEF S, Turn
<1>4. step \in [1 .. n -> [S -> S]]
  BY <1>2
<1>. HIDE DEF step
<1>5. PICK F : F \in LoopRuns(n, S, <<>>, step)
  BY <1>1, <1>3, <1>4, LoopExists
<1>6. /\ F \in [0 .. n -> S] /\ F[0] = <<>>
      /\ \A k \in 1 .. n : F[k] = step[k][F[k - 1]]
  BY <1>5 DEF LoopRuns
<1>7. ASSUME NEW k \in 1 .. n PROVE F[k] = Turn(k, F[k - 1])
  <2>1. k - 1 \in 0 .. n
    BY <1>1
  <2>2. F[k - 1] \in S
    BY <2>1, <1>6
  <2>3. step[k][F[k - 1]] = Turn(k, F[k - 1])
    BY <2>2 DEF step
  <2>. QED
    BY <1>6, <2>3
<1>8. Loop(F)
  <2>1. ASSUME NEW k \in 0 .. n
        PROVE  F[k] = IF k = 0 THEN <<>> ELSE Turn(k, F[k - 1])
    BY <1>1, <1>6, <1>7
  <2>. QED
    BY <2>1, <1>6
<1>9. KeptUpTo(s) = CHOOSE f : Loop(f)
  BY DEF KeptUpTo, Turn
<1>10. Loop(KeptUpTo(s))
  BY <1>8, <1>9, Zenon
<1>. DEFINE G == KeptUpTo(s)
<1>11. G[0] = <<>> /\ \A k \in 1 .. n : G[k] = Turn(k, G[k - 1])
  BY <1>1, <1>10
<1>. HIDE DEF G
<1>12. \A k \in 0 .. n : G[k] \in S
  <2>1. G[0] \in S /\ \A k \in 1 .. n : G[k - 1] \in S => G[k] \in S
    BY <1>2, <1>3, <1>11
  <2>. HIDE DEF n
  <2>2. n \in Nat
    BY <1>1 DEF n
  <2>. QED
    BY <2>1, <2>2, LoopKeeps
<1>. QED
  BY <1>1, <1>12 DEF Kept, G, S

(* What becomes of a list of watches of which each kind is known.          *)
LEMMA WatchesRoundTrip ==
  ASSUME NEW w \in Seq(InotifyWatch \cup PortWatch)
  PROVE  LET t == [i \in 1 .. Len(w) |-> WatchTable(w[i])]
         IN  [i \in 1 .. Len(t) |-> C_surveillance(t[i])] = w
<1>. DEFINE t == [i \in 1 .. Len(w) |-> WatchTable(w[i])]
<1>1. Len(w) \in Nat /\ DOMAIN w = 1 .. Len(w)
  BY LenProperties
<1>2. Len(t) = Len(w)
  BY <1>1
<1>3. \A i \in 1 .. Len(w) : C_surveillance(t[i]) = w[i]
  BY WatchRoundTrip, ElementOfSeq
<1>. HIDE DEF t
<1>4. [i \in 1 .. Len(w) |-> C_surveillance(t[i])] = [i \in 1 .. Len(w) |-> w[i]]
  BY <1>3
<1>5. w = [i \in 1 .. Len(w) |-> w[i]]
  BY <1>1
<1>. QED
  BY <1>2, <1>4, <1>5 DEF t

(* The watches the loop keeps of a command.                                *)
LEMMA KeptOfCommand ==
  ASSUME NEW cmd \in Commands
  PROVE  Kept(cmd.to_watch) \in Seq(InotifyWatch \cup PortWatch)
<1>. DEFINE W == InotifyWatch \cup PortWatch \cup OtherWatch
<1>1. cmd.to_watch \in Seq(W)
  BY DEF Commands
<1>2. \A x \in W : Known(x) => x \in InotifyWatch \cup PortWatch
  BY DEF Known, InotifyWatch, PortWatch, OtherWatch
<1>. HIDE DEF W
<1>3. Kept(cmd.to_watch) \in Seq({x \in W : Known(x)})
  BY <1>1, KeptType
<1>4. {x \in W : Known(x)} \subseteq InotifyWatch \cup PortWatch
  BY <1>2
<1>. QED
  BY <1>3, <1>4, SeqMonotonic

(* The daemon reads the command that the client was given, field by field, *)
(* with the watches of known kinds in their order, unless the builder has  *)
(* refused it (send_command_to_demon, receive_command of serialize.cpp).   *)
THEOREM CommandRoundTrip ==
  ASSUME NEW cmd \in Commands, send_command_to_demon(cmd) # Raised
  PROVE  LET b == send_command_to_demon(cmd)
         IN  /\ b.part = "all" /\ Length(b) = 1
             /\ EventsType(b) = Event.RunCommand
             /\ C_receive_command(b, Length(b)) =
                   [cmd EXCEPT !.to_watch = Kept(cmd.to_watch)]
<1>. DEFINE w == Kept(cmd.to_watch)
            t == [i \in 1 .. Len(w) |-> WatchTable(w[i])]
            fields == [cmd EXCEPT !.to_watch = t]
            tab == Build(RunCommand, fields)
            b == Finish(Event.RunCommand, tab)
<1>1. send_command_to_demon(cmd) = b
  BY DEF send_command_to_demon
<1>2. w \in Seq(InotifyWatch \cup PortWatch)
  BY KeptOfCommand
<1>3. [i \in 1 .. Len(t) |-> C_surveillance(t[i])] = w
  BY <1>2, WatchesRoundTrip
<1>. HIDE DEF w, t
<1>4. \A f \in DOMAIN RunCommand : Get(RunCommand, tab, f) = fields[f]
  BY GetBuild
<1>5. fields.to_watch = t /\ \A f \in DOMAIN RunCommand : f # "to_watch" => fields[f] = cmd[f]
  BY Fields DEF Commands
<1>6. /\ b.part = "all" /\ Length(b) = 1
      /\ EventsType(b) = Event.RunCommand /\ Events(b) = tab
  BY FinishRead
<1>. HIDE DEF tab, fields, b
<1>7. /\ Get(RunCommand, tab, "to_watch") = t
      /\ \A f \in DOMAIN RunCommand : f # "to_watch" => Get(RunCommand, tab, f) = cmd[f]
  BY <1>4, <1>5, Fields
<1>8. C_receive_command(b, Length(b)) =
         [f \in DOMAIN RunCommand |-> IF f = "to_watch" THEN w ELSE cmd[f]]
  BY <1>3, <1>6, <1>7 DEF C_receive_command, Verified
<1>9. [cmd EXCEPT !.to_watch = w] =
         [f \in DOMAIN RunCommand |-> IF f = "to_watch" THEN w ELSE cmd[f]]
  BY Fields DEF Commands
<1>. QED
  BY <1>1, <1>6, <1>8, <1>9 DEF w

(* The numbers of a command that was written fit into their fields.        *)
LEMMA CommandFits ==
  ASSUME NEW cmd \in Commands, send_command_to_demon(cmd) # Raised,
         NEW i \in 1 .. Len(Kept(cmd.to_watch))
  PROVE  WatchFits(Kept(cmd.to_watch)[i])
  BY DEF send_command_to_demon

-----------------------------------------------------------------------------
(* Notices.                                                                *)

(* The types of messages have different numbers.                           *)
LEMMA EventMember ==
  ASSUME NEW type \in DOMAIN Event
  PROVE  Member(Event, Event[type]) = type
<1>1. \A x, y \in DOMAIN Event : Event[x] = Event[y] => x = y
  BY DEF Event
<1>. QED
  BY <1>1 DEF Member

(* The class the client gives to a message of the daemon.                  *)
LEMMA ClassRead ==
  ASSUME NEW type \in DOMAIN event_map, NEW tab
  PROVE  LET b == Finish(Event[type], tab)
         IN  receive_message_from_demon(b, Length(b)) = event_map[type]
<1>1. type \in DOMAIN Event
  BY DEF event_map, Event
<1>2. Member(Event, Event[type]) = type
  BY <1>1, EventMember
<1>. QED
  BY <1>2, FinishRead DEF receive_message_from_demon

(* The enumerations of the client are those of the daemon.                 *)
LEMMA EnumsAgree ==
  /\ PySocketState = CSocketState
  /\ PyInotifyEvent = CInotifyEvent
  BY DEF PySocketState, CSocketState, PyInotifyEvent, CInotifyEvent

(* static_cast and the Python enumeration are inverse to each other on the *)
(* states of a socket.                                                     *)
LEMMA SocketStateMember ==
  ASSUME NEW state \in DOMAIN CSocketState
  PROVE  /\ IsMember(PySocketState, CSocketState[state])
         /\ Member(PySocketState, CSocketState[state]) = state
<1>1. \A x, y \in DOMAIN CSocketState : CSocketState[x] = CSocketState[y] => x = y
  BY DEF CSocketState
<1>. QED
  BY <1>1, EnumsAgree DEF IsMember, Member

(* PROCESS_LAUNCHED.                                                       *)
LEMMA LaunchedRoundTrip ==
  ASSUME NEW pid
  PROVE  LET b == C_send_processlaunched(pid)
         IN  receive_processlaunched(b, Length(b)) = pid
<1>. DEFINE tab == Build(ProcessLaunched, [pid |-> pid])
<1>1. Get(ProcessLaunched, tab, "pid") = pid
  BY GetBuild, Fields
<1>. HIDE DEF tab
<1>. QED
  BY <1>1, FinishRead
     DEF Received, C_send_processlaunched, receive_processlaunched, tab

(* CHILD_CREATION_ERROR.                                                   *)
LEMMA ErrorRoundTrip ==
  ASSUME NEW code \in Uint32
  PROVE  LET b == C_send_childcreationerror(code)
         IN  receive_childcreationerror(b, Length(b)) = code
<1>. DEFINE tab == Build(ChildCreationError, [error_code |-> ToUint32(code)])
<1>1. Get(ChildCreationError, tab, "error_code") = ToUint32(code)
  BY GetBuild, Fields
<1>2. ToUint32(code) = code
  BY ConversionFacts DEF Uint32
<1>. HIDE DEF tab
<1>. QED
  BY <1>1, <1>2, FinishRead
     DEF Received, C_send_childcreationerror, receive_childcreationerror, tab

(* PROCESS_TERMINATED.                                                     *)
LEMMA TerminatedRoundTrip ==
  ASSUME NEW pid, NEW code \in Uint32
  PROVE  LET b == C_send_processterminated(pid, code)
         IN  receive_processterminated(b, Length(b)) = [pid |-> pid, error_code |-> code]
<1>. DEFINE v == [pid |-> pid, error_code |-> ToUint32(code)]
            tab == Build(ProcessTerminated, v)
<1>1. /\ Get(ProcessTerminated, tab, "pid") = pid
      /\ Get(ProcessTerminated, tab, "error_code") = ToUint32(code)
  BY GetBuild, Fields
<1>2. ToUint32(code) = code
  BY ConversionFacts DEF Uint32
<1>. HIDE DEF tab
<1>. QED
  BY <1>1, <1>2, FinishRead
     DEF Received, C_send_processterminated, receive_processterminated, tab

(* TCP_SOCKET_LISTENING.                                                   *)
LEMMA ListeningRoundTrip ==
  ASSUME NEW port \in Uint16
  PROVE  LET b == C_send_tcpsocketlistening(port)
         IN  receive_TCPSocketListening(b, Length(b)) = port
<1>. DEFINE tab == Build(TCPSocketListening, [port |-> port % (MAX16 + 1)])
<1>1. Get(TCPSocketListening, tab, "port") = port % (MAX16 + 1)
  BY GetBuild, Fields
<1>2. port % (MAX16 + 1) = port
  BY ModFacts DEF Uint16
<1>. HIDE DEF tab
<1>. QED
  BY <1>1, <1>2, FinishRead
     DEF Received, C_send_tcpsocketlistening, receive_TCPSocketListening, tab

(* INOTIFY_WATCH_LIST_UPDATED.                                             *)
LEMMA WatchListRoundTrip ==
  ASSUME NEW path \in Text
  PROVE  LET b == C_send_inotifywatchlistupdated(path)
         IN  receive_inotifywatchlistupdated(b, Length(b)) = path
<1>. DEFINE tab == Build(InotifyWatchListUpdated, [path |-> path])
<1>1. Get(InotifyWatchListUpdated, tab, "path") = path
  BY GetBuild, Fields
<1>. HIDE DEF tab
<1>. QED
  BY <1>1, FinishRead
     DEF Received, C_send_inotifywatchlistupdated, receive_inotifywatchlistupdated, Decodes, tab

(* SOCKET_WATCHED.                                                         *)
LEMMA WatchedRoundTrip ==
  ASSUME NEW port
  PROVE  LET b == C_send_socketwatched(port)
         IN  receive_socketwatched(b, Length(b)) = port
<1>. DEFINE tab == Build(SocketWatched, [port |-> port])
<1>1. Get(SocketWatched, tab, "port") = port
  BY GetBuild, Fields
<1>. HIDE DEF tab
<1>. QED
  BY <1>1, FinishRead
     DEF Received, C_send_socketwatched, receive_socketwatched, tab

(* SOCKET_WATCH_TERMINATED.                                                *)
LEMMA WatchTerminatedRoundTrip ==
  ASSUME NEW port, NEW state \in DOMAIN CSocketState
  PROVE  LET info == [port |-> port, state |-> state]
             b == C_send_socketwatchterminated(info)
         IN  receive_socketwatchterminated(b, Length(b)) = info
<1>. DEFINE info == [port |-> port, state |-> state]
            v == [port |-> port, state |-> CSocketState[state]]
            tab == Build(SocketWatchTerminated, v)
<1>1. /\ Get(SocketWatchTerminated, tab, "port") = port
      /\ Get(SocketWatchTerminated, tab, "state") = CSocketState[state]
  BY GetBuild, Fields
<1>2. C_send_socketwatchterminated(info) = Finish(Event.SocketWatchTerminated, tab)
  BY DEF C_send_socketwatchterminated
<1>. HIDE DEF tab
<1>. QED
  BY <1>1, <1>2, FinishRead, SocketStateMember
     DEF Received, receive_socketwatchterminated

(* EXECVE_TERMINATED.                                                      *)
LEMMA ExecveRoundTrip ==
  ASSUME NEW pid, NEW name \in Text, NEW success
  PROVE  LET info == [pid |-> pid, command_name |-> name, success |-> success]
             b == C_send_execveterminated(info)
         IN  receive_execveterminated(b, Length(b)) = info
<1>. DEFINE info == [pid |-> pid, command_name |-> name, success |-> success]
            tab == Build(ExecveTerminated, info)
<1>1. /\ Get(ExecveTerminated, tab, "pid") = pid
      /\ Get(ExecveTerminated, tab, "command_name") = name
      /\ Get(ExecveTerminated, tab, "success") = success
  BY GetBuild, Fields
<1>2. C_send_execveterminated(info) = Finish(Event.ExecveTerminated, tab)
  BY DEF C_send_execveterminated
<1>. HIDE DEF tab
<1>. QED
  BY <1>1, <1>2, FinishRead DEF Received, receive_execveterminated, Decodes

(* INOTIFY_PATH_UPDATED: the client raises if the name is no text or the   *)
(* kind of the event has no name.                                          *)
LEMMA PathUpdatedRoundTrip ==
  ASSUME NEW info
  PROVE  LET b == C_send_inotifypathupdated(info)
         IN  receive_inotifypathupdated(b, Length(b)) =
                IF info.path \in Text /\ IsMember(CInotifyEvent, info.event)
                THEN [path       |-> info.path,
                      event      |-> Member(CInotifyEvent, info.event),
                      size       |-> ToUint32(info.size),
                      size_limit |-> ToUint32(info.size_limit)]
                ELSE None
<1>. DEFINE v == [path           |-> info.path,
                  trigger_events |-> info.event,
                  size           |-> ToUint32(info.size),
                  size_limit     |-> ToUint32(info.size_limit)]
            tab == Build(InotifyPathUpdated, v)
<1>1. /\ Get(InotifyPathUpdated, tab, "path") = info.path
      /\ Get(InotifyPathUpdated, tab, "trigger_events") = info.event
      /\ Get(InotifyPathUpdated, tab, "size") = ToUint32(info.size)
      /\ Get(InotifyPathUpdated, tab, "size_limit") = ToUint32(info.size_limit)
  BY GetBuild, Fields
<1>2. C_send_inotifypathupdated(info) = Finish(Event.InotifyPathUpdated, tab)
  BY DEF C_send_inotifypathupdated
<1>. HIDE DEF tab
<1>3. IsMember(CInotifyEvent, info.event) \in BOOLEAN
  BY DEF IsMember
<1>. QED
  BY <1>1, <1>2, <1>3, FinishRead, EnumsAgree
     DEF Received, receive_inotifypathupdated, Decodes
=============================================================================
