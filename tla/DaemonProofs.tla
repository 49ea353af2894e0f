---------------------------- MODULE DaemonProofs ----------------------------
(***************************************************************************)
(* Theorems about Daemon, for any jobs, pids, connections and bounds.      *)
(***************************************************************************)
EXTENDS Daemon, TLAPS, WellFoundedInduction

USE MaxProcessAssumption, NullAssumption, StdoutAssumption, ConnAssumption,
    CodeAssumption

-----------------------------------------------------------------------------
(* The table.                                                              *)

(* The loops of process_manager.c stop at the first record they look for,  *)
(* if there is one.                                                        *)
LEMMA LowestIsIn ==
    ASSUME NEW S, S \subseteq Nat, S # {}
    PROVE  Lowest(S) \in S /\ \A k \in S : Lowest(S) <= k
<1> DEFINE R == OpToRel(<, Nat)
<1>1. PICK x \in S : \A y \in S : ~(<<y, x>> \in R)
  BY NatLessThanWellFounded, WFMin, Zenon
<1>2. \A y \in S : x <= y
  <2> TAKE y \in S
  <2>1. x \in Nat /\ y \in Nat
    OBVIOUS
  <2>2. ~(y < x)
    BY <1>1, <2>1 DEF OpToRel
  <2> QED BY <2>1, <2>2
<1> QED BY <1>2 DEF Lowest

(* manager_add_process keeps the table a table.                            *)
LEMMA AddType ==
    ASSUME NEW t \in Table, NEW p \in Pid, NEW f \in Job \cup {STDOUT},
           NEW j \in Job, NEW n \in Int
    PROVE  manager_add_process(p, t, f, j, n) \in Table
<1> DEFINE r == [stack_p |-> j, child_id |-> p, err_file |-> f]
<1>1. r \in process_info
  BY DEF process_info
<1>2. [t EXCEPT ![SlotToFill(t, n)] = r] \in Table
  BY <1>1 DEF Table
<1> QED BY <1>2 DEF manager_add_process

(* manager_remove_process keeps the table a table.                         *)
LEMMA RemoveType ==
    ASSUME NEW t \in Table, NEW p, NEW n \in Int
    PROVE  manager_remove_process(p, t, n) \in Table
<1> DEFINE l == Lowest(Matches(p, t, n))
<1>1. [t EXCEPT ![l].stack_p = NULL] \in Table
  BY DEF Table, process_info
<1> QED BY <1>1 DEF manager_remove_process

-----------------------------------------------------------------------------
(* Types.  exit_status reads the status of an ended process, so TypeOK is  *)
(* inductive only together with StatusInv.                                 *)

TypeInv == TypeOK /\ StatusInv

(* send_message appends a notice or ends the daemon.                       *)
LEMMA NotifyType ==
    ASSUME TypeOK, NEW c \in Conn \cup {NULL}, NEW js,
           NEW type \in {"ProcessLaunched", "ChildCreationError",
                         "ExecveTerminated", "ProcessTerminated"},
           NEW val \in Nat,
           Notify(c, js, type, val)
    PROVE  /\ mail' \in [Job -> Seq(Notice)]
           /\ daemon' \in {"up", "segv", "sigpipe", "exited", "terminated"}
<1> DEFINE n == [type |-> type, val |-> val,
                 to |-> IF conn[c] = "open" /\ c \notin gone THEN c ELSE NULL]
<1>1. n \in Notice
  BY DEF Notice
<1>2. \A j \in Job : Append(mail[j], n) \in Seq(Notice)
  BY <1>1 DEF TypeOK
<1>3. CASE mail' = [j \in Job |-> IF j \notin js THEN mail[j]
                                   ELSE Append(mail[j], n)] /\ UNCHANGED daemon
  <2>1. \A j \in Job : mail[j] \in Seq(Notice)
    BY DEF TypeOK
  <2>2. \A j \in Job : (IF j \notin js THEN mail[j] ELSE Append(mail[j], n)) \in Seq(Notice)
    BY <1>2, <2>1
  <2> QED BY <1>3, <2>2 DEF TypeOK
<1>4. CASE daemon' = "sigpipe" /\ UNCHANGED mail
  BY <1>4 DEF TypeOK
<1> QED BY <1>3, <1>4 DEF Notify

(* A client adds a message to what its connection holds.                   *)
LEMMA PutType ==
    ASSUME TypeOK, NEW c \in Conn, NEW m \in Message, Put(c, m)
    PROVE  inbox' \in [Conn -> Seq(Message)]
<1>1. Append(inbox[c], m) \in Seq(Message)
  BY DEF TypeOK
<1> QED BY <1>1 DEF Put, TypeOK

(* The steps of clients keep the types.                                    *)
LEMMA ClientTypes == TypeInv /\ ClientStep => TypeInv'
<1> SUFFICES ASSUME TypeInv, NEW c \in Conn,
                    \/ Connect(c)
                    \/ \E j \in Job : SendRun(c, j) \/ SendKill(c, j)
                    \/ \E type \in EnvMoves : SendPlain(c, type)
                    \/ Disconnect(c)
             PROVE  TypeInv'
  BY DEF ClientStep
<1>1. CASE Connect(c)
  BY <1>1 DEF Connect, TypeInv, TypeOK, StatusInv, jobVars, tabVars, loopVars
<1>2. ASSUME NEW m \in Message, Put(c, m), state' \in [Job -> JobState],
             \A j \in Job : state'[j] \in {"zombie", "reaped"} => state'[j] = state[j]
      PROVE  TypeInv'
  <2>1. inbox' \in [Conn -> Seq(Message)]
    BY <1>2, PutType DEF TypeInv
  <2> QED BY <1>2, <2>1 DEF Put, TypeInv, TypeOK, StatusInv, tabVars, loopVars
<1>3. ASSUME NEW j \in Job, SendRun(c, j) PROVE TypeInv'
  <2>1. [type |-> "run", job |-> j, pid |-> NULL] \in Message
    BY DEF Message
  <2> QED BY <1>2, <1>3, <2>1 DEF SendRun, TypeInv, TypeOK, JobState
<1>4. ASSUME NEW j \in Job, SendKill(c, j) PROVE TypeInv'
  <2>1. [type |-> "kill", job |-> NULL, pid |-> pidOf[j]] \in Message
    BY DEF Message, TypeInv, TypeOK
  <2> QED BY <1>2, <1>4, <2>1 DEF SendKill, TypeInv, TypeOK
<1>5. ASSUME NEW type, SendPlain(c, type) PROVE TypeInv'
  <2>1. [type |-> type, job |-> NULL, pid |-> NULL] \in Message
    BY <1>5 DEF Message, SendPlain
  <2> QED BY <1>2, <1>5, <2>1 DEF SendPlain, TypeInv, TypeOK
<1>6. CASE Disconnect(c)
  <2>1. <<>> \in Seq(Message)
    OBVIOUS
  <2>2. [inbox EXCEPT ![c] = <<>>] \in [Conn -> Seq(Message)]
    BY <2>1 DEF TypeInv, TypeOK
  <2>3. inbox' \in [Conn -> Seq(Message)]
    BY <1>6, <2>2 DEF Disconnect, TypeInv, TypeOK
  <2> QED BY <1>6, <2>3 DEF Disconnect, TypeInv, TypeOK, StatusInv, jobVars,
                            tabVars, loopVars
<1> QED BY <1>1, <1>3, <1>4, <1>5, <1>6

(* The end of a process keeps the types of what it changes.                *)
LEMMA DiesType ==
    ASSUME TypeInv, NEW j \in Job, NEW ws \in WaitStatus, Dies(j, ws)
    PROVE  /\ state' \in [Job -> JobState]
           /\ status' \in [Job -> WaitStatus \cup {NULL}]
           /\ pipe' \in [Job -> {"none", "quiet", "errno", "cloexec", "hangup", "closed"}]
           /\ pending' \in Pid \cup {NULL}
           /\ StatusInv'
BY DEF Dies, Raise, TypeInv, TypeOK, StatusInv, JobState, Unreaped

(* The steps of children keep the types.                                   *)
LEMMA ChildTypes == TypeInv /\ ChildStep => TypeInv'
<1> SUFFICES ASSUME TypeInv, NEW j \in Job,
                    \/ ChildExec(j) \/ ChildExecFail(j) \/ ChildSigpipe(j)
                    \/ ChildFailExit(j)
                    \/ \E code \in ExitCode : ChildExit(j, code)
                    \/ ChildCrash(j) \/ ChildStop(j) \/ ChildContinue(j)
             PROVE  TypeInv'
  BY DEF ChildStep
<1>1. ASSUME NEW ws \in WaitStatus, Dies(j, ws), ChildVarsOnly,
             UNCHANGED exec \/ exec' = [exec EXCEPT ![j] = "failed"]
      PROVE  TypeInv'
  <2>1. exec' \in [Job -> {"none", "ok", "failed"}]
    BY <1>1 DEF TypeInv, TypeOK
  <2>. QED
    BY <1>1, <2>1, DiesType DEF ChildVarsOnly, TypeInv, TypeOK, tabVars, connVars, loopVars
<1>2. CASE ChildExec(j) \/ ChildExecFail(j)
  <2>1. exec' \in [Job -> {"none", "ok", "failed"}] /\ state' \in [Job -> JobState]
    BY <1>2 DEF ChildExec, ChildExecFail, TypeInv, TypeOK, JobState, Unreaped, Alive
  <2>2. pipe' \in [Job -> {"none", "quiet", "errno", "cloexec", "hangup", "closed"}]
    BY <1>2 DEF ChildExec, PipeAfterExec, ChildExecFail, TypeInv, TypeOK
  <2>3. StatusInv'
    BY <1>2 DEF ChildExec, ChildExecFail, TypeInv, TypeOK, StatusInv
  <2>. QED
    BY <1>2, <2>1, <2>2, <2>3 DEF ChildExec, ChildExecFail, ChildVarsOnly, TypeInv,
       TypeOK, tabVars, connVars, loopVars
<1>3. CASE ChildStop(j) \/ ChildContinue(j)
  <2>1. pending' \in Pid \cup {NULL}
    BY <1>3 DEF ChildStop, ChildContinue, Raise, TypeInv, TypeOK
  <2>2. state' \in [Job -> JobState]
    <3>1. {"running", "stopped"} \subseteq JobState /\ state \in [Job -> JobState]
      BY DEF TypeInv, TypeOK, JobState, Unreaped, Alive
    <3>2. \/ state' = [state EXCEPT ![j] = "running"]
          \/ state' = [state EXCEPT ![j] = "stopped"]
      BY <1>3 DEF ChildStop, ChildContinue
    <3>. QED
      BY <3>1, <3>2
  <2>3. StatusInv'
    BY <1>3 DEF ChildStop, ChildContinue, TypeInv, TypeOK, StatusInv
  <2> QED BY <1>3, <2>1, <2>2, <2>3 DEF ChildStop, ChildContinue, ChildVarsOnly,
                            TypeInv, TypeOK, tabVars, connVars, loopVars
<1>4. CASE ChildSigpipe(j)
  BY <1>1, <1>4 DEF ChildSigpipe, WaitStatus, SIGPIPE
<1>5. CASE ChildFailExit(j)
  BY <1>1, <1>5 DEF ChildFailExit, WaitStatus
<1>6. ASSUME NEW code \in ExitCode, ChildExit(j, code) PROVE TypeInv'
  BY <1>1, <1>6 DEF ChildExit, WaitStatus
<1>7. CASE ChildCrash(j)
  BY <1>1, <1>7 DEF ChildCrash, WaitStatus, SIGKILL
<1> QED BY <1>2, <1>3, <1>4, <1>5, <1>6, <1>7

(* Reading a message takes it off the connection.                          *)
LEMMA ReadsType ==
    ASSUME TypeOK, NEW c \in Conn, NEW type, Reads(c, type)
    PROVE  /\ inbox' \in [Conn -> Seq(Message)]
           /\ batch' \in SUBSET Event
           /\ UNCHANGED <<gone, waiting>>
<1>1. inbox[c] \in Seq(Message) /\ inbox[c] # <<>>
  BY DEF TypeOK, Reads
<1>2. Tail(inbox[c]) \in Seq(Message)
  BY <1>1
<1> QED BY <1>2 DEF TypeOK, Reads, RestOf, Handles

(* handle_SIGCHLD after waitpid keeps the types of what it changes.        *)
LEMMA AfterWaitType ==
    ASSUME TypeOK, NEW p, NEW js, NEW code \in Nat, AfterWait(p, js, code)
    PROVE  /\ manager' \in Table
           /\ nb_process' \in Int
           /\ errf' \in [Job -> {"none", "open", "stdout", "closed", "reclosed"}]
           /\ mail' \in [Job -> Seq(Notice)]
           /\ daemon' \in {"up", "segv", "sigpipe", "exited", "terminated"}
<1>1. CASE daemon' = "segv" /\ UNCHANGED <<manager, nb_process, errf, mail>>
  BY <1>1 DEF TypeOK
<1>2. CASE /\ manager' = manager_remove_process(p, manager, ScanSize)
           /\ errf' = Closed({removed_err_file(p, manager, ScanSize)})
           /\ nb_process' = CountAfter(p)
           /\ Notify(communication_socket, js, "ProcessTerminated", code)
  <2>1. manager' \in Table
    BY <1>2, RemoveType DEF TypeOK, ScanSize
  <2>2. errf' \in [Job -> {"none", "open", "stdout", "closed", "reclosed"}]
    BY <1>2 DEF TypeOK, Closed
  <2>3. communication_socket \in Conn \cup {NULL}
    BY DEF TypeOK
  <2>4. /\ mail' \in [Job -> Seq(Notice)]
        /\ daemon' \in {"up", "segv", "sigpipe", "exited", "terminated"}
    BY <1>2, <2>3, NotifyType
  <2>5. nb_process' \in Int
    BY <1>2 DEF TypeOK, CountAfter
  <2> QED BY <2>1, <2>2, <2>4, <2>5
<1> QED BY <1>1, <1>2 DEF AfterWait

(* Handlers of messages keep the types.                                    *)
LEMMA MessageTypes ==
    ASSUME TypeInv, NEW c \in Conn, HandleMessage(c)
    PROVE  TypeInv'
<1> USE DEF TypeInv
<1>1. CASE ReadsNull(c)
  BY <1>1 DEF ReadsNull, Handles, TypeOK, StatusInv, jobVars, tabVars, connVars
<1>2. CASE ReadsEmpty(c)
  BY <1>2, ReadsType DEF ReadsEmpty, TypeOK, StatusInv, jobVars, tabVars
<1>3. CASE ReadsOther(c)
  BY <1>3, ReadsType DEF ReadsOther, TypeOK, StatusInv, jobVars, tabVars
<1>4. ASSUME NEW j \in Job, NEW fd \in Job \cup {STDOUT}, NEW p \in Pid,
             NEW watched \in BOOLEAN, LaunchProcess(c, j, p, fd, watched)
      PROVE  TypeInv'
  <2>1. Reads(c, "run") /\ Notify(c, {j}, "ProcessLaunched", 0)
    BY <1>4 DEF LaunchProcess
  <2>2. manager' \in Table
    BY <1>4, AddType DEF LaunchProcess, TypeOK
  <2>3. nb_process' \in Int
    BY <1>4 DEF LaunchProcess, TypeOK
  <2>4. state' \in [Job -> JobState] /\ pidOf' \in [Job -> Pid \cup {NULL}]
    BY <1>4 DEF LaunchProcess, TypeOK, JobState, Unreaped, Alive
  <2>5. /\ pipe' \in [Job -> {"none", "quiet", "errno", "cloexec", "hangup", "closed"}]
        /\ errf' \in [Job -> {"none", "open", "stdout", "closed", "reclosed"}]
    BY <1>4 DEF LaunchProcess, TypeOK, ErrFileState
  <2>6. StatusInv'
    BY <1>4 DEF LaunchProcess, TypeOK, StatusInv
  <2>7. /\ mail' \in [Job -> Seq(Notice)]
        /\ daemon' \in {"up", "segv", "sigpipe", "exited", "terminated"}
    BY <2>1, NotifyType
  <2>8. UNCHANGED <<status, pending, exec, conn, communication_socket>>
    BY <1>4 DEF LaunchProcess
  <2> QED BY <2>1, <2>2, <2>3, <2>4, <2>5, <2>6, <2>7, <2>8, ReadsType DEF TypeOK
<1>5. ASSUME NEW j \in Job, NEW fd \in Job \cup {NULL, STDOUT},
             LaunchRefused(c, j, fd)
      PROVE  TypeInv'
  <2>1. Reads(c, "run") /\ Notify(c, {j}, "ChildCreationError", 0)
    BY <1>5 DEF LaunchRefused
  <2>2. state' \in [Job -> JobState]
    BY <1>5 DEF LaunchRefused, TypeOK, JobState
  <2>3. errf' \in [Job -> {"none", "open", "stdout", "closed", "reclosed"}]
    BY <1>5 DEF LaunchRefused, TypeOK, ErrFileState
  <2>4. StatusInv'
    BY <1>5 DEF LaunchRefused, TypeOK, StatusInv
  <2>5. /\ mail' \in [Job -> Seq(Notice)]
        /\ daemon' \in {"up", "segv", "sigpipe", "exited", "terminated"}
    BY <2>1, NotifyType
  <2>6. UNCHANGED <<status, pidOf, pipe, pending, exec, manager, nb_process,
                    conn, communication_socket>>
    BY <1>5 DEF LaunchRefused
  <2> QED BY <2>1, <2>2, <2>3, <2>4, <2>5, <2>6, ReadsType DEF TypeOK
<1>6. CASE PipeFails(c)
  BY <1>6, ReadsType DEF PipeFails, TypeOK, StatusInv, jobVars, tabVars
<1>7. CASE KillProcess(c)
  <2>1. Reads(c, "kill")
    BY <1>7 DEF KillProcess
  <2>2. CASE UNCHANGED <<state, status, pipe, pending>>
    BY <1>7, <2>1, <2>2, ReadsType DEF KillProcess, TypeOK, StatusInv, tabVars
  <2>3. CASE \E j \in Job : Dies(j, [how |-> "signaled", code |-> SIGKILL])
    <3>1. [how |-> "signaled", code |-> SIGKILL] \in WaitStatus
      BY DEF WaitStatus, SIGKILL
    <3>2. /\ state' \in [Job -> JobState]
          /\ status' \in [Job -> WaitStatus \cup {NULL}]
          /\ pipe' \in [Job -> {"none", "quiet", "errno", "cloexec", "hangup", "closed"}]
          /\ pending' \in Pid \cup {NULL}
          /\ StatusInv'
      BY <2>3, <3>1, DiesType
    <3> QED BY <1>7, <2>1, <3>2, ReadsType DEF KillProcess, TypeOK, tabVars
  <2> QED BY <1>7, <2>2, <2>3 DEF KillProcess, Victims, Holders
<1>8. CASE KillDaemon(c)
  <2>1. Reads(c, "shutdown") /\ daemon' \in {"segv", "terminated"}
    BY <1>8 DEF KillDaemon
  <2>2. manager' \in Table
    <3>1. \A r \in process_info : [r EXCEPT !.stack_p = NULL] \in process_info
      BY DEF process_info
    <3>2. \A i \in Slot : manager[i] \in process_info
      BY DEF TypeOK, Table
    <3>3. CASE UNCHANGED manager
      BY <3>3 DEF TypeOK
    <3>4. CASE manager' = [i \in Slot |->
                             IF i \in Scanned(nb_process)
                             THEN [manager[i] EXCEPT !.stack_p = NULL]
                             ELSE manager[i]]
      BY <3>1, <3>2, <3>4 DEF Table
    <3> QED BY <1>8, <3>3, <3>4 DEF KillDaemon
  <2>3. errf' \in [Job -> {"none", "open", "stdout", "closed", "reclosed"}]
    BY <1>8 DEF KillDaemon, TypeOK, Closed
  <2>4. [how |-> "signaled", code |-> SIGTERM] \in WaitStatus
    BY DEF WaitStatus, SIGTERM
  <2>5. /\ state' \in [Job -> JobState]
        /\ status' \in [Job -> WaitStatus \cup {NULL}]
        /\ StatusInv'
    <3>1. CASE UNCHANGED <<state, status>>
      BY <3>1 DEF TypeOK, StatusInv
    <3>2. CASE \E hit \in SUBSET Job :
                  /\ state' = [j \in Job |-> IF j \in hit THEN "zombie" ELSE state[j]]
                  /\ status' = [j \in Job |->
                                  IF j \in hit
                                  THEN [how |-> "signaled", code |-> SIGTERM]
                                  ELSE status[j]]
      <4> PICK hit \in SUBSET Job :
                  /\ state' = [j \in Job |-> IF j \in hit THEN "zombie" ELSE state[j]]
                  /\ status' = [j \in Job |->
                                  IF j \in hit
                                  THEN [how |-> "signaled", code |-> SIGTERM]
                                  ELSE status[j]]
        BY <3>2
      <4>1. state' \in [Job -> JobState]
        BY DEF TypeOK, JobState, Unreaped
      <4>2. status' \in [Job -> WaitStatus \cup {NULL}]
        BY <2>4 DEF TypeOK
      <4>3. StatusInv'
        BY <2>4 DEF TypeOK, StatusInv
      <4> QED BY <4>1, <4>2, <4>3
    <3> QED BY <1>8, <3>1, <3>2 DEF KillDaemon
  <2>6. UNCHANGED <<pidOf, pipe, pending, exec, nb_process, conn,
                    communication_socket, mail>>
    BY <1>8 DEF KillDaemon
  <2> QED BY <2>1, <2>2, <2>3, <2>5, <2>6, ReadsType DEF TypeOK
<1> QED BY <1>1, <1>2, <1>3, <1>4, <1>5, <1>6, <1>7, <1>8 DEF HandleMessage

(* The steps of the daemon keep the types.                                 *)
LEMMA DaemonTypes == TypeInv /\ DaemonStep => TypeInv'
<1> SUFFICES ASSUME TypeInv, DaemonStep PROVE TypeInv'
  OBVIOUS
<1>1. CASE EpollWait
  <2>1. Ready \subseteq Event
    BY DEF Ready, Ev, Event
  <2> QED BY <1>1, <2>1 DEF EpollWait, TypeInv, TypeOK, StatusInv, jobVars,
                            tabVars, connVars
<1>2. CASE AcceptFails
  BY <1>2 DEF AcceptFails, Handles, TypeInv, TypeOK, StatusInv, jobVars,
              tabVars, connVars
<1>3. ASSUME NEW c \in Conn, Accept(c) PROVE TypeInv'
  <2>1. daemon' \in {"up", "sigpipe"}
    BY <1>3 DEF Accept
  <2> QED BY <1>3, <2>1 DEF Accept, Handles, TypeInv, TypeOK, StatusInv, jobVars,
                            tabVars
<1>4. ASSUME NEW c \in Conn, HandleMessage(c) PROVE TypeInv'
  BY <1>4, MessageTypes
<1>5. ASSUME NEW j \in Job, HandleExecve(j) PROVE TypeInv'
  <2>1. success(pipe[j]) \in Nat /\ communication_socket \in Conn \cup {NULL}
    BY DEF success, TypeInv, TypeOK
  <2>2. /\ mail' \in [Job -> Seq(Notice)]
        /\ daemon' \in {"up", "segv", "sigpipe", "exited", "terminated"}
    BY <1>5, <2>1, NotifyType DEF HandleExecve, TypeInv
  <2> QED BY <1>5, <2>2 DEF HandleExecve, PipeAfterNotice, Handles, TypeInv, TypeOK, StatusInv,
                            tabVars, connVars
<1>6. ASSUME NEW j \in Job, Reap(j) 
      PROVE  /\ manager' \in Table
             /\ nb_process' \in Int
             /\ errf' \in [Job -> {"none", "open", "stdout", "closed", "reclosed"}]
             /\ mail' \in [Job -> Seq(Notice)]
             /\ daemon' \in {"up", "segv", "sigpipe", "exited", "terminated"}
             /\ state' \in [Job -> JobState]
             /\ status' = status => StatusInv'
  <2>1. exit_status(status[j]) \in Nat
    BY <1>6 DEF Reap, exit_status, TypeInv, StatusInv, WaitStatus
  <2>2. state' \in [Job -> JobState]
    BY <1>6 DEF Reap, TypeInv, TypeOK, JobState
  <2>3. status' = status => StatusInv'
    BY <1>6 DEF Reap, TypeInv, TypeOK, StatusInv
  <2> QED BY <1>6, <2>1, <2>2, <2>3, AfterWaitType DEF Reap, TypeInv
<1>7. CASE HandleSignal
  <2>1. PICK j \in Job : Reap(j)
    BY <1>7 DEF HandleSignal, Holders
  <2> QED BY <1>6, <1>7, <2>1 DEF HandleSignal, SignalAfterRead, Handles, TypeInv, TypeOK, connVars
<1>8. CASE WaitReturns
  <2>1. PICK j \in Job : Reap(j)
    BY <1>8 DEF WaitReturns, Holders
  <2> QED BY <1>6, <1>8, <2>1 DEF WaitReturns, TypeInv, TypeOK, connVars
<1>9. CASE HandleSignalBlocks
  BY <1>9 DEF HandleSignalBlocks, SignalAfterRead, Handles, TypeInv, TypeOK, StatusInv, tabVars,
              connVars
<1>10. CASE HandleSignalStale
  <2>1. PICK garbage \in ExitCode :
           AfterWait(pending, {j \in Job : pidOf[j] = pending}, garbage)
    BY <1>10 DEF HandleSignalStale
  <2>2. garbage \in Nat
    OBVIOUS
  <2> QED BY <1>10, <2>1, <2>2, AfterWaitType
          DEF HandleSignalStale, SignalAfterRead, Handles, TypeInv, TypeOK, StatusInv, connVars
<1> QED BY <1>1, <1>2, <1>3, <1>4, <1>5, <1>7, <1>8, <1>9, <1>10 DEF DaemonStep

(* Every step keeps the types.                                             *)
LEMMA NextTypes == TypeInv /\ [Next]_vars => TypeInv'
<1>1. TypeInv /\ UNCHANGED vars => TypeInv'
  BY DEF TypeInv, TypeOK, StatusInv, vars, jobVars, tabVars, connVars, loopVars
<1> QED BY <1>1, ClientTypes, ChildTypes, DaemonTypes DEF Next

(* The initial state has the types.                                        *)
LEMMA InitTypes == Init => TypeInv
<1> SUFFICES ASSUME Init PROVE TypeInv
  OBVIOUS
<1>1. manager \in Table
  BY DEF Init, create_process_manager, Table, process_info
<1>2. \A S : <<>> \in Seq(S)
  OBVIOUS
<1>3. inbox \in [Conn -> Seq(Message)] /\ mail \in [Job -> Seq(Notice)]
  BY <1>2 DEF Init
<1> QED BY <1>1, <1>3 DEF Init, TypeInv, TypeOK, StatusInv, JobState

(* The loop, its children and its clients keep every variable in its type, *)
(* and an ended process has its wait status.                               *)
THEOREM TypeCorrect == Spec => []TypeOK
<1>1. TypeInv => TypeOK
  BY DEF TypeInv
<1> QED BY InitTypes, NextTypes, <1>1, PTL DEF Spec

-----------------------------------------------------------------------------
(* Pids, records and requests.  Only SendRun, LaunchProcess and            *)
(* LaunchRefused move a job to or from the state of a request; every other *)
(* step is quiet.                                                          *)

Launched == Unreaped \cup {"reaped"}

Quiet ==
    /\ pidOf' = pidOf
    /\ \A j \in Job :
          /\ state[j] \in Launched <=> state'[j] \in Launched
          /\ state'[j] \in Unreaped => state[j] \in Unreaped
          /\ state[j] = "requested" => state'[j] = "requested"

(* Records are freed, never filled.                                        *)
RecordsFreed ==
    \A i \in Slot : manager'[i].stack_p # NULL => manager'[i] = manager[i]

(* Requests are taken off the front of a connection, never added.          *)
RunsTaken ==
    \A c \in Conn : \E s \in {0, 1} :
       \A i \in 1 .. Len(inbox'[c]) :
          inbox'[c][i].type = "run" =>
             /\ i + s \in 1 .. Len(inbox[c])
             /\ inbox'[c][i] = inbox[c][i + s]

(* A quiet step keeps pids, records and requests in agreement.             *)
LEMMA QuietStep ==
    ASSUME TypeOK, TypeOK', Consistent, Quiet, RecordsFreed, RunsTaken
    PROVE  Consistent'
<1>1. PidInv'
  BY DEF Quiet, Consistent, PidInv, Launched
<1>2. RecordInv'
  <2> SUFFICES ASSUME NEW i \in Slot, manager'[i].stack_p # NULL
               PROVE  /\ state'[manager'[i].stack_p] \in Launched
                      /\ manager'[i].child_id = pidOf'[manager'[i].stack_p]
    BY DEF RecordInv, Occupied, Launched
  <2>1. manager'[i] = manager[i]
    BY DEF RecordsFreed
  <2>2. manager[i].stack_p \in Job
    BY <2>1 DEF TypeOK, Table, process_info
  <2>3. /\ state[manager[i].stack_p] \in Launched
        /\ manager[i].child_id = pidOf[manager[i].stack_p]
    BY <2>1 DEF Consistent, RecordInv, Occupied, Launched
  <2> QED BY <2>1, <2>2, <2>3 DEF Quiet
<1>3. RequestInv'
  <2>1. ASSUME NEW c \in Conn, NEW i \in 1 .. Len(inbox'[c]), inbox'[c][i].type = "run"
        PROVE  inbox'[c][i].job \in Job /\ state'[inbox'[c][i].job] = "requested"
    <3>1. PICK s \in {0, 1} : \A k \in 1 .. Len(inbox'[c]) :
                                inbox'[c][k].type = "run" =>
                                   /\ k + s \in 1 .. Len(inbox[c])
                                   /\ inbox'[c][k] = inbox[c][k + s]
      BY DEF RunsTaken
    <3>2. i + s \in 1 .. Len(inbox[c]) /\ inbox'[c][i] = inbox[c][i + s]
      BY <2>1, <3>1
    <3>3. /\ inbox[c][i + s].job \in Job
          /\ state[inbox[c][i + s].job] = "requested"
      BY <2>1, <3>2 DEF Consistent, RequestInv, IsRun
    <3> QED BY <3>2, <3>3 DEF Quiet
  <2>2. ASSUME NEW c \in Conn, NEW d \in Conn,
               NEW i \in 1 .. Len(inbox'[c]), NEW k \in 1 .. Len(inbox'[d]),
               inbox'[c][i].type = "run", inbox'[d][k].type = "run",
               inbox'[c][i].job = inbox'[d][k].job
        PROVE  c = d /\ i = k
    <3>1. PICK s \in {0, 1} : \A l \in 1 .. Len(inbox'[c]) :
                                inbox'[c][l].type = "run" =>
                                   /\ l + s \in 1 .. Len(inbox[c])
                                   /\ inbox'[c][l] = inbox[c][l + s]
      BY DEF RunsTaken
    <3>2. PICK t \in {0, 1} : \A l \in 1 .. Len(inbox'[d]) :
                                inbox'[d][l].type = "run" =>
                                   /\ l + t \in 1 .. Len(inbox[d])
                                   /\ inbox'[d][l] = inbox[d][l + t]
      BY DEF RunsTaken
    <3> DEFINE Only(e, f, x, y) ==
                  (/\ inbox[e][x].type = "run" /\ inbox[f][y].type = "run"
                   /\ inbox[e][x].job = inbox[f][y].job) => e = f /\ x = y
    <3>u. \A e, f \in Conn : \A x \in 1 .. Len(inbox[e]), y \in 1 .. Len(inbox[f]) :
             Only(e, f, x, y)
      BY DEF Consistent, RequestInv, IsRun
    <3>c. i + s \in 1 .. Len(inbox[c]) /\ inbox'[c][i] = inbox[c][i + s]
      BY <2>2, <3>1
    <3>d. k + t \in 1 .. Len(inbox[d]) /\ inbox'[d][k] = inbox[d][k + t]
      BY <2>2, <3>2
    <3>3. c = d /\ i + s = k + t
      <4>1. Only(c, d, i + s, k + t)
        BY <3>u, <3>c, <3>d
      <4> QED BY <2>2, <3>c, <3>d, <4>1
    <3>4. i + t \in 1 .. Len(inbox[c]) /\ inbox'[c][i] = inbox[c][i + t]
      BY <2>2, <3>2, <3>3
    <3>5. i + s = i + t
      <4>1. Only(c, c, i + s, i + t)
        BY <3>u, <3>c, <3>4
      <4> QED BY <2>2, <3>c, <3>4, <4>1
    <3> QED BY <3>3, <3>5
  <2> QED BY <2>1, <2>2 DEF RequestInv, IsRun
<1> QED BY <1>1, <1>2, <1>3 DEF Consistent

(* Leaving the connections alone takes no request off them.                *)
LEMMA SameInbox ==
    ASSUME TypeOK, UNCHANGED inbox
    PROVE  RunsTaken
<1> SUFFICES ASSUME NEW c \in Conn
             PROVE  \A i \in 1 .. Len(inbox'[c]) :
                       inbox'[c][i].type = "run" =>
                          /\ i + 0 \in 1 .. Len(inbox[c])
                          /\ inbox'[c][i] = inbox[c][i + 0]
  BY DEF RunsTaken
<1>1. \A i \in 1 .. Len(inbox[c]) : i + 0 = i
  BY DEF TypeOK
<1> QED BY <1>1

(* Nor does a message that is no request.                                  *)
LEMMA PutNoRun ==
    ASSUME TypeOK, NEW c \in Conn, NEW m \in Message, m.type # "run", Put(c, m)
    PROVE  RunsTaken
<1> SUFFICES ASSUME NEW d \in Conn
             PROVE  \A i \in 1 .. Len(inbox'[d]) :
                       inbox'[d][i].type = "run" =>
                          /\ i + 0 \in 1 .. Len(inbox[d])
                          /\ inbox'[d][i] = inbox[d][i + 0]
  BY DEF RunsTaken
<1>1. inbox[d] \in Seq(Message) /\ inbox[c] \in Seq(Message)
  BY DEF TypeOK
<1>2. CASE d # c
  BY <1>1, <1>2 DEF Put, TypeOK
<1>3. CASE d = c
  <2>1. inbox'[c] = Append(inbox[c], m)
    BY DEF Put, TypeOK
  <2> QED BY <1>1, <1>3, <2>1
<1> QED BY <1>2, <1>3

(* Reading takes the first message of one connection.                      *)
LEMMA ReadsTakes ==
    ASSUME TypeOK, NEW c \in Conn, NEW type, Reads(c, type)
    PROVE  /\ RunsTaken
           /\ \A i \in 1 .. Len(inbox'[c]) :
                 /\ i + 1 \in 1 .. Len(inbox[c])
                 /\ inbox'[c][i] = inbox[c][i + 1]
           /\ Len(inbox[c]) \in Nat \ {0}
           /\ Head(inbox[c]) = inbox[c][1]
           /\ \A d \in Conn \ {c} : inbox'[d] = inbox[d]
<1>1. inbox[c] \in Seq(Message) /\ inbox[c] # <<>>
  BY DEF TypeOK, Reads
<1>2. Len(inbox[c]) \in Nat \ {0} /\ Head(inbox[c]) = inbox[c][1]
  BY <1>1
<1>3. inbox'[c] = Tail(inbox[c]) /\ \A d \in Conn \ {c} : inbox'[d] = inbox[d]
  BY DEF TypeOK, Reads, RestOf
<1>4. \A i \in 1 .. Len(inbox'[c]) :
          /\ i + 1 \in 1 .. Len(inbox[c])
          /\ inbox'[c][i] = inbox[c][i + 1]
  BY <1>1, <1>2, <1>3
<1>5. RunsTaken
  <2> SUFFICES ASSUME NEW d \in Conn
               PROVE  \E s \in {0, 1} : \A i \in 1 .. Len(inbox'[d]) :
                         inbox'[d][i].type = "run" =>
                            /\ i + s \in 1 .. Len(inbox[d])
                            /\ inbox'[d][i] = inbox[d][i + s]
    BY DEF RunsTaken
  <2>1. CASE d = c
    BY <1>4, <2>1
  <2>2. CASE d # c
    <3>1. \A i \in 1 .. Len(inbox[d]) : i + 0 = i
      BY DEF TypeOK
    <3> QED BY <1>3, <2>2, <3>1
  <2> QED BY <2>1, <2>2
<1> QED BY <1>2, <1>3, <1>4, <1>5

(* manager_remove_process frees one record, which shows the pid, or none.  *)
LEMMA RemoveFrees ==
    ASSUME NEW t \in Table, NEW p, NEW n \in Int
    PROVE  \A i \in Slot :
              LET u == manager_remove_process(p, t, n)
              IN  u[i] = t[i] \/ (u[i].stack_p = NULL /\ t[i].child_id = p)
<1> SUFFICES ASSUME NEW i \in Slot
             PROVE  \/ manager_remove_process(p, t, n)[i] = t[i]
                    \/ /\ manager_remove_process(p, t, n)[i].stack_p = NULL
                       /\ t[i].child_id = p
  OBVIOUS
<1> DEFINE hits == Matches(p, t, n)
           l == Lowest(hits)
<1>1. CASE hits = {}
  BY <1>1 DEF manager_remove_process
<1>2. CASE hits # {}
  <2>1. hits \subseteq Nat
    BY DEF Matches, Scanned, Slot
  <2> HIDE DEF hits
  <2>2. l \in hits
    BY <1>2, <2>1, LowestIsIn
  <2> USE DEF hits
  <2>3. l \in Slot /\ t[l].child_id = p
    BY <2>2 DEF Matches, Scanned
  <2> HIDE DEF l
  <2>4. manager_remove_process(p, t, n) = [t EXCEPT ![l].stack_p = NULL]
    BY <1>2 DEF manager_remove_process, l
  <2>5. t[l] \in process_info
    BY <2>3 DEF Table
  <2>6. [t[l] EXCEPT !.stack_p = NULL].stack_p = NULL
    BY <2>5 DEF process_info
  <2>7. /\ i = l => [t EXCEPT ![l].stack_p = NULL][i].stack_p = NULL
        /\ i # l => [t EXCEPT ![l].stack_p = NULL][i] = t[i]
    BY <2>3, <2>6 DEF Table
  <2> QED BY <2>3, <2>4, <2>7
<1> QED BY <1>1, <1>2

(* manager_add_process fills a free record, or none.                       *)
LEMMA AddFills ==
    ASSUME NEW t \in Table, NEW p \in Pid, NEW f \in Job \cup {STDOUT},
           NEW j \in Job, NEW n \in Int, NEW i \in Slot
    PROVE  LET u == manager_add_process(p, t, f, j, n)
           IN  \/ u[i] = t[i]
               \/ t[i].stack_p = NULL /\ u[i].stack_p = j /\ u[i].child_id = p
<1> DEFINE r == [stack_p |-> j, child_id |-> p, err_file |-> f]
           free == FreeSlots(t)
           l == Lowest(free)
<1>1. CASE add_result(t, n) # 1
  BY <1>1 DEF manager_add_process
<1>2. CASE add_result(t, n) = 1
  <2>1. free \subseteq Nat /\ free # {}
    BY <1>2 DEF FreeSlots, Slot, add_result
  <2> HIDE DEF free
  <2>2. l \in free
    BY <2>1, LowestIsIn
  <2> USE DEF free
  <2>3. l \in Slot /\ t[l].stack_p = NULL
    BY <2>2 DEF FreeSlots, Occupied
  <2> HIDE DEF l
  <2>4. manager_add_process(p, t, f, j, n) = [t EXCEPT ![l] = r]
    BY <1>2 DEF manager_add_process, SlotToFill, l
  <2> QED BY <2>3, <2>4 DEF Table
<1> QED BY <1>1, <1>2

(* handle_SIGCHLD frees records of processes with the pid of the siginfo.  *)
LEMMA AfterWaitFrees ==
    ASSUME TypeOK, NEW p, NEW js, NEW code, AfterWait(p, js, code)
    PROVE  /\ RecordsFreed
           /\ \A i \in Slot : manager'[i] = manager[i] \/ manager[i].child_id = p
<1>1. CASE UNCHANGED manager
  BY <1>1 DEF RecordsFreed
<1>2. CASE manager' = manager_remove_process(p, manager, ScanSize)
  <2>1. \A i \in Slot : \/ manager'[i] = manager[i]
                        \/ manager'[i].stack_p = NULL /\ manager[i].child_id = p
    BY <1>2, RemoveFrees DEF TypeOK, ScanSize
  <2> QED BY <2>1 DEF RecordsFreed
<1> QED BY <1>1, <1>2 DEF AfterWait

(* A process moves along: quiet, as far as its job goes.                   *)
LEMMA MoveIsQuiet ==
    ASSUME TypeOK, NEW j \in Job, NEW s,
           state' = [state EXCEPT ![j] = s], pidOf' = pidOf,
           state[j] \in Unreaped, s \in Launched
    PROVE  Quiet
BY DEF Quiet, TypeOK, Launched, Unreaped, Alive

(* Steps of clients keep the agreement.                                    *)
LEMMA ClientConsistent ==
    ASSUME TypeOK, TypeOK', Consistent, ClientStep
    PROVE  Consistent'
<1>1. PICK c \in Conn : \/ Connect(c)
                        \/ \E j \in Job : SendRun(c, j) \/ SendKill(c, j)
                        \/ \E type \in EnvMoves : SendPlain(c, type)
                        \/ Disconnect(c)
  BY DEF ClientStep
<1>2. UNCHANGED <<state, pidOf, manager>> => Quiet /\ RecordsFreed
  BY DEF Quiet, RecordsFreed
<1>3. CASE Connect(c)
  <2>1. UNCHANGED <<state, pidOf, manager, inbox>>
    BY <1>3 DEF Connect, jobVars, tabVars
  <2> QED BY <1>2, <2>1, SameInbox, QuietStep
<1>4. ASSUME NEW j \in Job, SendKill(c, j) PROVE Consistent'
  <2>1. [type |-> "kill", job |-> NULL, pid |-> pidOf[j]] \in Message
    BY DEF Message, TypeOK
  <2>2. RunsTaken
    BY <1>4, <2>1, PutNoRun DEF SendKill
  <2>3. UNCHANGED <<state, pidOf, manager>>
    BY <1>4 DEF SendKill, Put, tabVars
  <2> QED BY <1>2, <2>2, <2>3, QuietStep
<1>5. ASSUME NEW type \in EnvMoves, SendPlain(c, type) PROVE Consistent'
  <2>1. [type |-> type, job |-> NULL, pid |-> NULL] \in Message /\ type # "run"
    BY <1>5 DEF Message, SendPlain
  <2>2. RunsTaken
    BY <1>5, <2>1, PutNoRun DEF SendPlain
  <2>3. UNCHANGED <<state, pidOf, manager>>
    BY <1>5 DEF SendPlain, Put, tabVars
  <2> QED BY <1>2, <2>2, <2>3, QuietStep
<1>6. CASE Disconnect(c)
  <2>1. UNCHANGED <<state, pidOf, manager>>
    BY <1>6 DEF Disconnect, jobVars, tabVars
  <2>2. CASE UNCHANGED inbox
    BY <1>2, <2>1, <2>2, SameInbox, QuietStep
  <2>3. CASE inbox' = [inbox EXCEPT ![c] = <<>>]
    <3> SUFFICES ASSUME NEW d \in Conn, NEW i \in 1 .. Len(inbox'[d])
                 PROVE  /\ i + 0 \in 1 .. Len(inbox[d])
                        /\ inbox'[d][i] = inbox[d][i + 0]
      BY <1>2, <2>1, QuietStep DEF RunsTaken
    <3>1. inbox[d] \in Seq(Message)
      BY DEF TypeOK
    <3>2. d # c /\ inbox'[d] = inbox[d]
      BY <2>3 DEF TypeOK
    <3> QED BY <3>1, <3>2
  <2> QED BY <1>6, <2>2, <2>3 DEF Disconnect
<1>7. ASSUME NEW j \in Job, SendRun(c, j) PROVE Consistent'
  <2> DEFINE m == [type |-> "run", job |-> j, pid |-> NULL]
  <2>1. /\ state[j] = "unborn"
        /\ state' = [state EXCEPT ![j] = "requested"]
        /\ inbox' = [inbox EXCEPT ![c] = Append(@, m)]
        /\ UNCHANGED <<pidOf, manager>>
    BY <1>7 DEF SendRun, Put, tabVars
  <2>2. \A k \in Job : /\ state'[k] \in Launched <=> state[k] \in Launched
                       /\ state'[k] \in Unreaped <=> state[k] \in Unreaped
    BY <2>1 DEF TypeOK, Launched, Unreaped, Alive
  <2>3. PidInv'
    BY <2>1, <2>2 DEF Consistent, PidInv, Launched
  <2>4. RecordInv'
    <3> SUFFICES ASSUME NEW i \in Slot, manager[i].stack_p # NULL
                 PROVE  /\ state'[manager[i].stack_p] \in Launched
                        /\ manager[i].child_id = pidOf[manager[i].stack_p]
      BY <2>1 DEF RecordInv, Occupied, Launched
    <3>1. manager[i].stack_p \in Job
      BY DEF TypeOK, Table, process_info
    <3> QED BY <2>2, <3>1 DEF Consistent, RecordInv, Occupied, Launched
  <2>5. ASSUME NEW d \in Conn, NEW i \in 1 .. Len(inbox'[d]), inbox'[d][i].type = "run"
        PROVE  \/ /\ d = c /\ i = Len(inbox[c]) + 1
                  /\ inbox'[d][i].job = j
               \/ /\ i \in 1 .. Len(inbox[d]) /\ inbox'[d][i] = inbox[d][i]
                  /\ inbox[d][i].job \in Job \ {j}
                  /\ state[inbox[d][i].job] = "requested"
    <3>1. inbox[d] \in Seq(Message) /\ inbox[c] \in Seq(Message)
      BY DEF TypeOK
    <3>2. m.type = "run" /\ m.job = j
      OBVIOUS
    <3> HIDE DEF m
    <3>3. d = c => inbox'[d] = Append(inbox[c], m)
      BY <2>1 DEF TypeOK
    <3>4. d # c => inbox'[d] = inbox[d]
      BY <2>1 DEF TypeOK
    <3>5. CASE d = c /\ i = Len(inbox[c]) + 1
      BY <3>1, <3>2, <3>3, <3>5
    <3>6. CASE ~(d = c /\ i = Len(inbox[c]) + 1)
      <4>1. i \in 1 .. Len(inbox[d]) /\ inbox'[d][i] = inbox[d][i]
        <5>1. CASE d # c
          BY <3>4, <5>1
        <5>2. CASE d = c
          BY <3>1, <3>3, <3>6, <5>2
        <5> QED BY <5>1, <5>2
      <4>2. inbox[d][i].job \in Job /\ state[inbox[d][i].job] = "requested"
        BY <2>5, <4>1 DEF Consistent, RequestInv, IsRun
      <4> QED BY <2>1, <4>1, <4>2
    <3> QED BY <3>5, <3>6
  <2>6. ASSUME NEW d \in Conn, NEW i \in 1 .. Len(inbox'[d]), inbox'[d][i].type = "run"
        PROVE  inbox'[d][i].job \in Job /\ state'[inbox'[d][i].job] = "requested"
    BY <2>1, <2>5, <2>6 DEF TypeOK
  <2>7. ASSUME NEW d \in Conn, NEW e \in Conn,
               NEW i \in 1 .. Len(inbox'[d]), NEW k \in 1 .. Len(inbox'[e]),
               inbox'[d][i].type = "run", inbox'[e][k].type = "run",
               inbox'[d][i].job = inbox'[e][k].job
        PROVE  d = e /\ i = k
    <3>1. CASE inbox'[d][i].job = j
      <4>1. d = c /\ i = Len(inbox[c]) + 1
        BY <2>5, <2>7, <3>1
      <4>2. inbox'[e][k].job = j /\ inbox'[e][k].type = "run"
        BY <2>7, <3>1
      <4>3. e = c /\ k = Len(inbox[c]) + 1
        BY <2>5, <4>2
      <4> QED BY <4>1, <4>3
    <3>2. CASE inbox'[d][i].job # j
      <4>1. /\ i \in 1 .. Len(inbox[d]) /\ inbox'[d][i] = inbox[d][i]
            /\ k \in 1 .. Len(inbox[e]) /\ inbox'[e][k] = inbox[e][k]
        BY <2>5, <2>7, <3>2
      <4>2. /\ inbox[d][i].type = "run" /\ inbox[e][k].type = "run"
            /\ inbox[d][i].job = inbox[e][k].job
        BY <2>7, <4>1
      <4> QED BY <4>1, <4>2 DEF Consistent, RequestInv, IsRun
    <3> QED BY <3>1, <3>2
  <2>8. RequestInv'
    BY <2>6, <2>7 DEF RequestInv, IsRun
  <2> QED BY <2>3, <2>4, <2>8 DEF Consistent
<1> QED BY <1>1, <1>3, <1>4, <1>5, <1>6, <1>7

(* Steps of children keep the agreement.                                   *)
LEMMA ChildConsistent ==
    ASSUME TypeOK, TypeOK', Consistent, ChildStep
    PROVE  Consistent'
<1>1. PICK j \in Job : \/ ChildExec(j) \/ ChildExecFail(j) \/ ChildSigpipe(j)
                       \/ ChildFailExit(j)
                       \/ \E code \in ExitCode : ChildExit(j, code)
                       \/ ChildCrash(j) \/ ChildStop(j) \/ ChildContinue(j)
  BY DEF ChildStep
<1>2. UNCHANGED <<pidOf, manager, inbox>>
  BY <1>1 DEF ChildExec, ChildExecFail, ChildSigpipe, ChildFailExit, ChildExit,
              ChildCrash, ChildStop, ChildContinue, ChildVarsOnly, tabVars, connVars
<1>3. /\ state[j] \in Unreaped
      /\ \E s \in Launched : state' = [state EXCEPT ![j] = s]
  BY <1>1 DEF ChildExec, ChildExecFail, ChildSigpipe, ChildFailExit, ChildExit,
              ChildCrash, ChildStop, ChildContinue, Dies, Launched, Unreaped, Alive
<1>4. RecordsFreed
  BY <1>2 DEF RecordsFreed
<1> QED BY <1>2, <1>3, <1>4, MoveIsQuiet, SameInbox, QuietStep

(* The three ways in which the request that was read changes its job.      *)
LEMMA LaunchConsistent ==
    ASSUME TypeOK, TypeOK', Consistent, NEW c \in Conn, NEW j \in Job,
           Reads(c, "run"), Head(inbox[c]).job = j, NEW s \in Launched \cup {"refused"},
           state' = [state EXCEPT ![j] = s]
    PROVE  RequestInv' /\ state[j] = "requested"
<1>1. /\ RunsTaken
      /\ \A i \in 1 .. Len(inbox'[c]) : /\ i + 1 \in 1 .. Len(inbox[c])
                                        /\ inbox'[c][i] = inbox[c][i + 1]
      /\ Len(inbox[c]) \in Nat \ {0}
      /\ Head(inbox[c]) = inbox[c][1]
      /\ \A d \in Conn \ {c} : inbox'[d] = inbox[d]
  BY ReadsTakes
<1>2. 1 \in 1 .. Len(inbox[c]) /\ inbox[c][1].type = "run" /\ inbox[c][1].job = j
  BY <1>1 DEF Reads
<1>3. state[j] = "requested"
  BY <1>2 DEF Consistent, RequestInv, IsRun
<1> DEFINE At(d, i) == IF d = c THEN i + 1 ELSE i
<1>4. ASSUME NEW d \in Conn, NEW i \in 1 .. Len(inbox'[d]), inbox'[d][i].type = "run"
      PROVE  /\ At(d, i) \in 1 .. Len(inbox[d])
             /\ inbox'[d][i] = inbox[d][At(d, i)]
             /\ inbox'[d][i].job \in Job \ {j}
             /\ state[inbox'[d][i].job] = "requested"
  <2>1. At(d, i) \in 1 .. Len(inbox[d]) /\ inbox'[d][i] = inbox[d][At(d, i)]
    BY <1>1
  <2>2. inbox[d][At(d, i)].type = "run"
    BY <1>4, <2>1
  <2>3. d = c => At(d, i) # 1
    <3>1. Len(inbox'[d]) \in Nat
      BY DEF TypeOK
    <3> QED BY <3>1
  <2> HIDE DEF At
  <2>4. inbox[d][At(d, i)].job # j
    BY <1>2, <2>1, <2>2, <2>3 DEF Consistent, RequestInv, IsRun
  <2>5. /\ inbox[d][At(d, i)].job \in Job
        /\ state[inbox[d][At(d, i)].job] = "requested"
    BY <2>1, <2>2 DEF Consistent, RequestInv, IsRun
  <2> QED BY <2>1, <2>4, <2>5
<1>5. ASSUME NEW d \in Conn, NEW i \in 1 .. Len(inbox'[d]), inbox'[d][i].type = "run"
      PROVE  inbox'[d][i].job \in Job /\ state'[inbox'[d][i].job] = "requested"
  BY <1>4, <1>5 DEF TypeOK
<1>6. ASSUME NEW d \in Conn, NEW e \in Conn,
             NEW i \in 1 .. Len(inbox'[d]), NEW k \in 1 .. Len(inbox'[e]),
             inbox'[d][i].type = "run", inbox'[e][k].type = "run",
             inbox'[d][i].job = inbox'[e][k].job
      PROVE  d = e /\ i = k
  <2>1. At(d, i) \in 1 .. Len(inbox[d]) /\ inbox'[d][i] = inbox[d][At(d, i)]
    BY <1>4, <1>6
  <2>2. At(e, k) \in 1 .. Len(inbox[e]) /\ inbox'[e][k] = inbox[e][At(e, k)]
    BY <1>4, <1>6
  <2>3. d = e /\ At(d, i) = At(e, k)
    <3> HIDE DEF At
    <3> QED BY <1>6, <2>1, <2>2 DEF Consistent, RequestInv, IsRun
  <2> QED BY <2>3
<1>7. RequestInv'
  BY <1>5, <1>6 DEF RequestInv, IsRun
<1> QED BY <1>3, <1>7

(* Handlers of messages keep the agreement.                                *)
LEMMA MessageConsistent ==
    ASSUME TypeOK, TypeOK', Consistent, NEW c \in Conn, HandleMessage(c)
    PROVE  Consistent'
<1>1. UNCHANGED <<state, pidOf>> => Quiet
  BY DEF Quiet
<1>2. UNCHANGED manager => RecordsFreed
  BY DEF RecordsFreed
<1>3. CASE ReadsNull(c)
  <2>1. UNCHANGED <<state, pidOf, manager, inbox>>
    BY <1>3 DEF ReadsNull, jobVars, tabVars, connVars
  <2> QED BY <1>1, <1>2, <2>1, SameInbox, QuietStep
<1>4. CASE ReadsEmpty(c) \/ ReadsOther(c) \/ PipeFails(c)
  <2>1. UNCHANGED <<state, pidOf, manager>>
    BY <1>4 DEF ReadsEmpty, ReadsOther, PipeFails, jobVars, tabVars
  <2>2. RunsTaken
    BY <1>4, ReadsTakes DEF ReadsEmpty, ReadsOther, PipeFails
  <2> QED BY <1>1, <1>2, <2>1, <2>2, QuietStep
<1>5. CASE KillProcess(c)
  <2>1. RunsTaken /\ RecordsFreed /\ UNCHANGED pidOf
    BY <1>2, <1>5, ReadsTakes DEF KillProcess, tabVars
  <2>2. CASE UNCHANGED state
    BY <1>1, <2>1, <2>2, QuietStep
  <2>3. CASE \E j \in Job : /\ state[j] \in Unreaped
                            /\ state' = [state EXCEPT ![j] = "zombie"]
    <3>1. Quiet
      BY <2>1, <2>3, MoveIsQuiet DEF Launched, Unreaped
    <3> QED BY <2>1, <3>1, QuietStep
  <2> QED BY <1>5, <2>2, <2>3 DEF KillProcess, Victims, Holders, Unreaped, Dies
<1>6. CASE KillDaemon(c)
  <2>1. RunsTaken /\ UNCHANGED pidOf
    BY <1>6, ReadsTakes DEF KillDaemon
  <2>2. Quiet
    <3>1. CASE UNCHANGED state
      BY <1>1, <2>1, <3>1
    <3>2. CASE \E hit \in SUBSET {j \in Job : state[j] \in Alive} :
                  state' = [j \in Job |-> IF j \in hit THEN "zombie" ELSE state[j]]
      BY <2>1, <3>2 DEF Quiet, TypeOK, Launched, Unreaped, Alive
    <3> QED BY <1>6, <3>1, <3>2 DEF KillDaemon
  <2>3. RecordsFreed
    <3>1. CASE UNCHANGED manager
      BY <1>2, <3>1
    <3>2. CASE manager' = [i \in Slot |->
                             IF i \in Scanned(nb_process)
                             THEN [manager[i] EXCEPT !.stack_p = NULL]
                             ELSE manager[i]]
      <4>1. \A r \in process_info : [r EXCEPT !.stack_p = NULL].stack_p = NULL
        BY DEF process_info
      <4>2. \A i \in Slot : manager[i] \in process_info
        BY DEF TypeOK, Table
      <4> QED BY <3>2, <4>1, <4>2 DEF RecordsFreed
    <3> QED BY <1>6, <3>1, <3>2 DEF KillDaemon
  <2> QED BY <2>1, <2>2, <2>3, QuietStep
<1>7. ASSUME NEW j \in Job, NEW fd \in Job \cup {NULL, STDOUT},
             LaunchRefused(c, j, fd)
      PROVE  Consistent'
  <2>1. /\ state' = [state EXCEPT ![j] = "refused"]
        /\ UNCHANGED <<pidOf, manager>>
    BY <1>7 DEF LaunchRefused
  <2>2. RequestInv' /\ state[j] = "requested"
    BY <1>7, <2>1, LaunchConsistent DEF LaunchRefused
  <2>3. \A k \in Job : /\ state'[k] \in Launched <=> state[k] \in Launched
                       /\ state'[k] \in Unreaped <=> state[k] \in Unreaped
    BY <2>1, <2>2 DEF TypeOK, Launched, Unreaped, Alive
  <2>4. PidInv'
    BY <2>1, <2>3 DEF Consistent, PidInv, Launched
  <2>5. RecordInv'
    <3> SUFFICES ASSUME NEW i \in Slot, manager[i].stack_p # NULL
                 PROVE  /\ state'[manager[i].stack_p] \in Launched
                        /\ manager[i].child_id = pidOf[manager[i].stack_p]
      BY <2>1 DEF RecordInv, Occupied, Launched
    <3>1. manager[i].stack_p \in Job
      BY DEF TypeOK, Table, process_info
    <3> QED BY <2>3, <3>1 DEF Consistent, RecordInv, Occupied, Launched
  <2> QED BY <2>2, <2>4, <2>5 DEF Consistent
<1>8. ASSUME NEW j \in Job, NEW fd \in Job \cup {STDOUT}, NEW p \in Pid,
             NEW watched \in BOOLEAN, LaunchProcess(c, j, p, fd, watched)
      PROVE  Consistent'
  <2>1. /\ state' = [state EXCEPT ![j] = "cloned"]
        /\ pidOf' = [pidOf EXCEPT ![j] = p]
        /\ manager' = manager_add_process(p, manager, fd, j, nb_process)
        /\ \A k \in Job : pidOf[k] = p => state[k] = "reaped"
    BY <1>8 DEF LaunchProcess, FreshPids
  <2>2. RequestInv' /\ state[j] = "requested"
    BY <1>8, <2>1, LaunchConsistent DEF LaunchProcess, Launched, Unreaped, Alive
  <2>3. state'[j] = "cloned" /\ pidOf'[j] = p
    BY <2>1 DEF TypeOK
  <2>4. \A k \in Job \ {j} : state'[k] = state[k] /\ pidOf'[k] = pidOf[k]
    BY <2>1 DEF TypeOK
  <2>5. PidInv'
    BY <2>1, <2>3, <2>4 DEF Consistent, PidInv, Unreaped, Alive
  <2>6. RecordInv'
    <3> SUFFICES ASSUME NEW i \in Slot, manager'[i].stack_p # NULL
                 PROVE  /\ state'[manager'[i].stack_p] \in Launched
                        /\ manager'[i].child_id = pidOf'[manager'[i].stack_p]
      BY DEF RecordInv, Occupied, Launched
    <3>1. \/ manager'[i] = manager[i]
          \/ manager'[i].stack_p = j /\ manager'[i].child_id = p
      BY <2>1, AddFills DEF TypeOK
    <3>2. CASE manager'[i].stack_p = j /\ manager'[i].child_id = p
      BY <2>3, <3>2 DEF Launched, Unreaped, Alive
    <3>3. CASE manager'[i] = manager[i]
      <4>1. /\ state[manager[i].stack_p] \in Launched
            /\ manager[i].child_id = pidOf[manager[i].stack_p]
        BY <3>3 DEF Consistent, RecordInv, Occupied, Launched
      <4>2. manager[i].stack_p \in Job
        BY <3>3 DEF TypeOK, Table, process_info
      <4>3. manager[i].stack_p # j
        BY <2>2, <4>1 DEF Launched, Unreaped, Alive
      <4> QED BY <2>4, <3>3, <4>1, <4>2, <4>3
    <3> QED BY <3>1, <3>2, <3>3
  <2> QED BY <2>2, <2>5, <2>6 DEF Consistent
<1> QED BY <1>3, <1>4, <1>5, <1>6, <1>7, <1>8 DEF HandleMessage

(* Steps of the daemon keep the agreement.                                 *)
LEMMA DaemonConsistent ==
    ASSUME TypeOK, TypeOK', Consistent, DaemonStep
    PROVE  Consistent'
<1>1. UNCHANGED <<state, pidOf>> => Quiet
  BY DEF Quiet
<1>2. UNCHANGED manager => RecordsFreed
  BY DEF RecordsFreed
<1>3. CASE \/ EpollWait \/ AcceptFails \/ HandleSignalBlocks
           \/ \E c \in Conn : Accept(c)
           \/ \E j \in Job : HandleExecve(j)
  <2>1. UNCHANGED <<state, pidOf, manager, inbox>>
    BY <1>3 DEF EpollWait, AcceptFails, HandleSignalBlocks, Accept, HandleExecve,
                jobVars, tabVars, connVars
  <2> QED BY <1>1, <1>2, <2>1, SameInbox, QuietStep
<1>4. CASE \E c \in Conn : HandleMessage(c)
  BY <1>4, MessageConsistent
<1>5. CASE HandleSignal \/ WaitReturns
  <2>1. PICK j \in Job : Reap(j)
    BY <1>5 DEF HandleSignal, WaitReturns, Holders
  <2>2. UNCHANGED <<pidOf, inbox>>
    BY <1>5 DEF HandleSignal, WaitReturns, connVars
  <2>3. RecordsFreed
    BY <2>1, AfterWaitFrees DEF Reap
  <2>4. Quiet
    BY <2>1, <2>2, MoveIsQuiet DEF Reap, Launched, Unreaped
  <2> QED BY <2>2, <2>3, <2>4, SameInbox, QuietStep
<1>6. CASE HandleSignalStale
  <2>1. RecordsFreed
    BY <1>6, AfterWaitFrees DEF HandleSignalStale
  <2>2. UNCHANGED <<state, pidOf, inbox>>
    BY <1>6 DEF HandleSignalStale, connVars
  <2> QED BY <1>1, <2>1, <2>2, SameInbox, QuietStep
<1> QED BY <1>3, <1>4, <1>5, <1>6 DEF DaemonStep

SafeInv == TypeInv /\ Consistent

(* The agreement of kernel, table and requests, with the types, is         *)
(* inductive.                                                              *)
LEMMA SafeInductive == SafeInv /\ [Next]_vars => SafeInv'
<1> SUFFICES ASSUME SafeInv, [Next]_vars PROVE SafeInv'
  OBVIOUS
<1>1. TypeInv'
  BY NextTypes DEF SafeInv
<1>2. TypeOK /\ TypeOK' /\ Consistent
  BY <1>1 DEF SafeInv, TypeInv
<1>3. CASE UNCHANGED vars
  <2>1. UNCHANGED <<state, pidOf, manager, inbox>>
    BY <1>3 DEF vars, jobVars, tabVars, connVars
  <2>2. Quiet /\ RecordsFreed
    BY <2>1 DEF Quiet, RecordsFreed
  <2> QED BY <1>1, <1>2, <2>1, <2>2, SameInbox, QuietStep DEF SafeInv
<1>4. CASE Next
  BY <1>1, <1>2, <1>4, ClientConsistent, ChildConsistent, DaemonConsistent
     DEF Next, SafeInv
<1> QED BY <1>3, <1>4

(* Nothing is launched, recorded or requested at first.                    *)
LEMMA SafeInit == Init => SafeInv
<1> SUFFICES ASSUME Init PROVE SafeInv
  OBVIOUS
<1>1. PidInv
  BY DEF Init, PidInv, Unreaped, Alive
<1>2. RecordInv
  BY DEF Init, RecordInv, Occupied, create_process_manager
<1>3. RequestInv
  BY DEF Init, RequestInv
<1> QED BY <1>1, <1>2, <1>3, InitTypes DEF SafeInv, Consistent

(* The kernel's processes, the daemon's table and the requests it has yet  *)
(* to read agree in every state: a pid has one unreaped process, a record  *)
(* shows the pid of the process whose stack it holds, a job is requested   *)
(* once.                                                                   *)
THEOREM Agreement == Spec => []Consistent
<1>1. SafeInv => Consistent
  BY DEF SafeInv
<1> QED BY SafeInit, SafeInductive, <1>1, PTL DEF Spec

(* What NeverFreesLive says of one step.                                   *)
KeepsLive ==
    Up' => \A i \in Occupied(manager) :
              manager'[i].stack_p # manager[i].stack_p
                 => state'[manager[i].stack_p] = "reaped"

(* A record is given up for its pid, and then its process was waited for.  *)
LEMMA StepKeepsLive == SafeInv /\ [Next]_vars => KeepsLive
<1> SUFFICES ASSUME SafeInv, [Next]_vars, Up',
                    NEW i \in Slot, manager[i].stack_p # NULL,
                    manager'[i].stack_p # manager[i].stack_p
             PROVE  state'[manager[i].stack_p] = "reaped"
  BY DEF KeepsLive, Occupied
<1> DEFINE k == manager[i].stack_p
<1>1. TypeOK /\ Consistent /\ k \in Job
  BY DEF SafeInv, TypeInv, TypeOK, Table, process_info
<1>2. state[k] \in Unreaped \cup {"reaped"} /\ manager[i].child_id = pidOf[k]
  BY <1>1 DEF Consistent, RecordInv, Occupied
<1>3. manager' # manager
  OBVIOUS
<1>4. ASSUME NEW j \in Job, Reap(j) PROVE state'[k] = "reaped"
  <2>1. manager[i].child_id = pidOf[j]
    BY <1>1, <1>4, AfterWaitFrees DEF Reap
  <2>2. state[k] \in Unreaped => k = j
    BY <1>1, <1>2, <1>4, <2>1 DEF Consistent, PidInv, Reap, Unreaped
  <2> QED BY <1>1, <1>2, <1>4, <2>2 DEF Reap, TypeOK
<1>5. CASE HandleSignal \/ WaitReturns
  BY <1>4, <1>5 DEF HandleSignal, WaitReturns, Holders
<1>6. CASE HandleSignalStale
  <2>1. manager[i].child_id = pending /\ UNCHANGED state
    BY <1>1, <1>6, AfterWaitFrees DEF HandleSignalStale
  <2>2. k \notin Holders(pending)
    BY <1>6 DEF HandleSignalStale
  <2> QED BY <1>1, <1>2, <2>1, <2>2 DEF Holders
<1>7. ASSUME NEW c \in Conn, HandleMessage(c) PROVE FALSE
  <2>1. ASSUME NEW j \in Job, NEW fd \in Job \cup {STDOUT}, NEW p \in Pid,
               NEW watched \in BOOLEAN, LaunchProcess(c, j, p, fd, watched)
        PROVE  FALSE
    <3>1. manager' = manager_add_process(p, manager, fd, j, nb_process)
      BY <2>1 DEF LaunchProcess
    <3>2. manager \in Table /\ nb_process \in Int
      BY <1>1 DEF TypeOK
    <3>3. \/ manager_add_process(p, manager, fd, j, nb_process)[i] = manager[i]
          \/ manager[i].stack_p = NULL
      BY <3>2, AddFills
    <3> QED BY <3>1, <3>3
  <2>2. ~KillDaemon(c)
    BY <1>3 DEF KillDaemon, Up
  <2> QED BY <1>3, <1>7, <2>1, <2>2 DEF HandleMessage, ReadsNull, ReadsEmpty,
             ReadsOther, LaunchRefused, PipeFails, KillProcess, tabVars
<1>8. ~ClientStep
  BY <1>3 DEF ClientStep, Connect, SendRun, SendKill, SendPlain, Put, Disconnect, tabVars
<1>9. ~ChildStep
  BY <1>3 DEF ChildStep, ChildExec, ChildExecFail, ChildSigpipe, ChildFailExit,
              ChildExit, ChildCrash, ChildStop, ChildContinue, ChildVarsOnly, tabVars
<1>10. ~UNCHANGED vars
  BY <1>3 DEF vars, tabVars
<1>11. ~(\/ EpollWait \/ AcceptFails \/ HandleSignalBlocks
         \/ \E c \in Conn : Accept(c)
         \/ \E j \in Job : HandleExecve(j))
  BY <1>3 DEF EpollWait, AcceptFails, HandleSignalBlocks, Accept, HandleExecve, tabVars
<1> QED BY <1>5, <1>6, <1>7, <1>8, <1>9, <1>10, <1>11 DEF Next, DaemonStep

(* The daemon keeps the record of a child, and the stack it may run on,    *)
(* until waitpid has returned for it: whatever is stopped, killed, refused *)
(* or lost, however pids are reused and however full the table is.         *)
THEOREM LiveRecordsKept == Spec => NeverFreesLive
<1>1. SafeInv /\ [Next]_vars =>
        [Up' => \A i \in Occupied(manager) :
                   manager'[i].stack_p # manager[i].stack_p
                      => state'[manager[i].stack_p] = "reaped"]_vars
  BY StepKeepsLive DEF KeepsLive
<1> QED BY SafeInit, SafeInductive, <1>1, PTL DEF Spec, NeverFreesLive
=============================================================================
