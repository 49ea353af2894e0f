----------------------------- MODULE TableProofs -----------------------------
(***************************************************************************)
(* Theorems about the process table of the C daemon, its count and the     *)
(* error files: ScanReadsWritten whatever the environment does, and        *)
(* CountIsExact and ErrFileClosedOnce as long as children only end and are *)
(* not stopped, so that every SIGCHLD is about a process that has ended.   *)
(* From the count: EndsForAReason, while it does not pass the table, and   *)
(* IdleIsClean for a client with one job at a time.                        *)
(***************************************************************************)
EXTENDS NoticeProofs

USE MaxProcessAssumption, NullAssumption, StdoutAssumption, ConnAssumption,
    CodeAssumption

-----------------------------------------------------------------------------
(* What the two functions of process_manager.c do to the table.            *)

(* manager_add_process fills the first free record, if it adds at all.     *)
LEMMA AddEffect ==
    ASSUME NEW t \in Table, NEW p \in Pid, NEW f \in Job \cup {STDOUT},
           NEW j \in Job, NEW n \in Int, NEW u, u = manager_add_process(p, t, f, j, n)
    PROVE  \/ add_result(t, n) # 1 /\ u = t
           \/ /\ add_result(t, n) = 1
              /\ \E l \in Slot :
                    /\ t[l].stack_p = NULL
                    /\ \A k \in Slot : k < l => t[k].stack_p # NULL
                    /\ u[l].stack_p = j /\ u[l].child_id = p /\ u[l].err_file = f
                    /\ \A i \in Slot : i # l => u[i] = t[i]
<1>. DEFINE r == [stack_p |-> j, child_id |-> p, err_file |-> f]
            free == FreeSlots(t)
            l == Lowest(free)
<1>1. CASE add_result(t, n) # 1
  BY <1>1 DEF manager_add_process
<1>2. CASE add_result(t, n) = 1
  <2>1. free \subseteq Nat /\ free # {}
    BY <1>2 DEF FreeSlots, Slot, add_result
  <2>. HIDE DEF free
  <2>2. l \in free /\ \A k \in free : l <= k
    BY <2>1, LowestIsIn
  <2>. USE DEF free
  <2>. HIDE DEF l
  <2>3. l \in Slot /\ t[l].stack_p = NULL
    BY <2>2 DEF FreeSlots, Occupied
  <2>4. \A k \in Slot : k < l => t[k].stack_p # NULL
    BY <2>2, <2>3 DEF FreeSlots, Occupied, Slot
  <2>5. u = [t EXCEPT ![l] = r]
    BY <1>2 DEF manager_add_process, SlotToFill, l
  <2>6. u[l] = r /\ \A i \in Slot : i # l => u[i] = t[i]
    BY <2>3, <2>5 DEF Table
  <2>. QED
    BY <1>2, <2>3, <2>4, <2>6
<1>. QED
  BY <1>1, <1>2

(* manager_remove_process frees a record that shows the pid and closes its *)
(* error file, or it finds none and does nothing.                          *)
LEMMA RemoveEffect ==
    ASSUME NEW t \in Table, NEW p, NEW n \in Int, NEW u, u = manager_remove_process(p, t, n)
    PROVE  \/ u = t /\ removed_err_file(p, t, n) = NULL
           \/ \E l \in Slot :
                 /\ t[l].child_id = p
                 /\ u[l].stack_p = NULL /\ u[l].child_id = t[l].child_id
                 /\ u[l].err_file = t[l].err_file
                 /\ \A i \in Slot : i # l => u[i] = t[i]
                 /\ removed_err_file(p, t, n) =
                       IF t[l].err_file = STDOUT THEN NULL ELSE t[l].err_file
<1>. DEFINE hits == Matches(p, t, n)
            l == Lowest(hits)
<1>1. CASE hits = {}
  BY <1>1 DEF manager_remove_process, removed_err_file
<1>2. CASE hits # {}
  <2>1. hits \subseteq Nat
    BY DEF Matches, Scanned, Slot
  <2>. HIDE DEF hits
  <2>2. l \in hits
    BY <1>2, <2>1, LowestIsIn
  <2>. USE DEF hits
  <2>3. l \in Slot /\ t[l].child_id = p
    BY <2>2 DEF Matches, Scanned
  <2>. HIDE DEF l
  <2>4. u = [t EXCEPT ![l].stack_p = NULL]
    BY <1>2 DEF manager_remove_process, l
  <2>5. t[l] \in process_info
    BY <2>3 DEF Table
  <2>. DEFINE r == [t[l] EXCEPT !.stack_p = NULL]
  <2>6. r.stack_p = NULL /\ r.child_id = t[l].child_id /\ r.err_file = t[l].err_file
    BY <2>5 DEF process_info
  <2>7. u = [t EXCEPT ![l] = r]
    BY <2>4
  <2>. HIDE DEF r
  <2>8. u[l] = r /\ \A i \in Slot : i # l => u[i] = t[i]
    BY <2>3, <2>7 DEF Table
  <2>9. removed_err_file(p, t, n) = IF t[l].err_file = STDOUT THEN NULL ELSE t[l].err_file
    BY <1>2 DEF removed_err_file, l
  <2>. QED
    BY <2>3, <2>6, <2>8, <2>9
<1>. QED
  BY <1>1, <1>2

(* The occupied records are finitely many.                                 *)
LEMMA OccupiedIsFinite ==
    ASSUME NEW t
    PROVE  /\ IsFiniteSet(Occupied(t)) /\ Cardinality(Occupied(t)) \in Nat
           /\ Cardinality(Occupied(t)) <= MAX_PROCESS
<1>1. IsFiniteSet(Slot) /\ Cardinality(Slot) = MAX_PROCESS
  BY FS_Interval DEF Slot
<1>2. Occupied(t) \in SUBSET Slot
  BY DEF Occupied
<1>. QED
  BY <1>1, <1>2, FS_Subset, FS_CardinalityType
-----------------------------------------------------------------------------
(* Records that were never written.                                        *)

Unwritten == {i \in Slot : manager[i].child_id = NULL}

(* Records are written from the first one on; as long as one is unwritten, *)
(* the count does not exceed the number of occupied ones, which are        *)
(* written: the count cannot pass the written part of the table.           *)
WrittenInv ==
    Up => /\ \A i, k \in Slot : i <= k /\ i \in Unwritten => k \in Unwritten
          /\ Unwritten # {} => nb_process <= Cardinality(Occupied(manager))

ScanInv == SafeInv /\ WrittenInv /\ ScanReadsWritten

(* What a step can do to the table and the count.                          *)
Adds(j, p, fd) ==
    /\ manager' = manager_add_process(p, manager, fd, j, nb_process)
    /\ nb_process' = nb_process + 1

Removes(p) ==
    /\ manager' = manager_remove_process(p, manager, nb_process)
    /\ nb_process' = nb_process - 1

(* Only a launch and the end of a child touch the table.                   *)
LEMMA TableStep ==
    ASSUME TypeOK, [Next]_vars, Up'
    PROVE  \/ UNCHANGED <<manager, nb_process>>
           \/ \E j \in Job, p \in Pid, fd \in Job \cup {STDOUT} : Adds(j, p, fd)
           \/ \E p : Removes(p)
<1>1. ASSUME NEW p, NEW js, NEW code, AfterWait(p, js, code) PROVE Removes(p)
  BY <1>1 DEF AfterWait, Up, ScanSize, CountAfter, Removes
<1>2. CASE HandleSignal \/ WaitReturns \/ HandleSignalStale
  BY <1>1, <1>2 DEF HandleSignal, WaitReturns, HandleSignalStale, Reap
<1>3. ASSUME NEW c \in Conn, HandleMessage(c)
      PROVE  \/ UNCHANGED <<manager, nb_process>>
             \/ \E j \in Job, p \in Pid, fd \in Job \cup {STDOUT} : Adds(j, p, fd)
  <2>1. ASSUME NEW j \in Job, NEW fd \in Job \cup {STDOUT}, NEW p \in Pid,
               NEW watched \in BOOLEAN, LaunchProcess(c, j, p, fd, watched)
        PROVE  Adds(j, p, fd)
    <3>1. add_result(manager, nb_process) # 0
      BY DEF add_result
    <3>2. nb_process' = nb_process + (IF add_result(manager, nb_process) # 0 THEN 1 ELSE 0)
      BY <2>1 DEF LaunchProcess
    <3>. QED
      BY <2>1, <3>1, <3>2 DEF LaunchProcess, Adds
  <2>2. ~KillDaemon(c)
    BY DEF KillDaemon, Up
  <2>3. ASSUME \/ ReadsNull(c) \/ ReadsEmpty(c) \/ ReadsOther(c) \/ PipeFails(c)
               \/ KillProcess(c)
               \/ \E j \in Job, fd \in Job \cup {NULL, STDOUT} : LaunchRefused(c, j, fd)
        PROVE  UNCHANGED <<manager, nb_process>>
    BY <2>3 DEF ReadsNull, ReadsEmpty, ReadsOther, LaunchRefused, PipeFails, KillProcess,
                tabVars
  <2>. QED
    BY <1>3, <2>1, <2>2, <2>3 DEF HandleMessage
<1>4. CASE ClientStep
  BY <1>4 DEF ClientStep, Connect, SendRun, SendKill, SendPlain, Put, Disconnect, tabVars
<1>5. CASE ChildStep
  BY <1>5 DEF ChildStep, ChildExec, ChildExecFail, ChildSigpipe, ChildFailExit,
              ChildExit, ChildCrash, ChildStop, ChildContinue, ChildVarsOnly, tabVars
<1>6. CASE UNCHANGED vars
  BY <1>6 DEF vars, tabVars
<1>7. CASE \/ EpollWait \/ AcceptFails \/ HandleSignalBlocks
           \/ \E c \in Conn : Accept(c)
           \/ \E j \in Job : HandleExecve(j)
  BY <1>7 DEF EpollWait, AcceptFails, HandleSignalBlocks, Accept, HandleExecve, tabVars
<1>. QED
  BY <1>2, <1>3, <1>4, <1>5, <1>6, <1>7 DEF Next, DaemonStep

(* The table, its written part and its count after a launch.               *)
LEMMA AddKeepsScan ==
    ASSUME ScanInv, Up, NEW j \in Job, NEW p \in Pid, NEW fd \in Job \cup {STDOUT},
           Adds(j, p, fd)
    PROVE  WrittenInv' /\ ScanReadsWritten'
<1>. DEFINE n == nb_process
            occ == Occupied(manager)
<1>1. manager \in Table /\ n \in Int /\ RecordInv /\ PidInv
  BY DEF ScanInv, SafeInv, TypeInv, TypeOK, Consistent
<1>2. \A i \in Slot : manager[i].stack_p # NULL => manager[i].child_id # NULL
  <2>. SUFFICES ASSUME NEW i \in Slot, manager[i].stack_p # NULL
                PROVE  manager[i].child_id # NULL
    OBVIOUS
  <2>1. manager[i].stack_p \in Job
    BY <1>1 DEF Table, process_info
  <2>. QED
    BY <1>1, <2>1 DEF RecordInv, PidInv, Occupied
<1>3. /\ IsFiniteSet(occ) /\ Cardinality(occ) \in Nat
      /\ Cardinality(occ) <= MAX_PROCESS
  BY OccupiedIsFinite
<1>4. /\ \A i, k \in Slot : i <= k /\ manager[i].child_id = NULL => manager[k].child_id = NULL
      /\ \A i \in Slot : manager[i].child_id = NULL => n <= Cardinality(occ)
      /\ \A i \in Slot : i < n => manager[i].child_id # NULL
  BY DEF ScanInv, WrittenInv, Unwritten, ScanReadsWritten, Scanned
<1>5. CASE \A i \in Slot : manager[i].child_id # NULL
  <2>1. \A i \in Slot : manager'[i].child_id # NULL
    BY <1>1, <1>5, AddEffect DEF Adds
  <2>. QED
    BY <2>1 DEF WrittenInv, Unwritten, ScanReadsWritten, Scanned
<1>6. ASSUME NEW w \in Slot, manager[w].child_id = NULL
      PROVE  WrittenInv' /\ ScanReadsWritten'
  <2>1. w \notin occ /\ n <= Cardinality(occ)
    BY <1>2, <1>4, <1>6 DEF Occupied
  <2>2. Cardinality(occ) < MAX_PROCESS
    <3>1. IsFiniteSet(Slot) /\ Cardinality(Slot) = MAX_PROCESS
      BY FS_Interval DEF Slot
    <3>2. occ \in SUBSET Slot /\ occ # Slot
      BY <1>6, <2>1 DEF Occupied
    <3>. HIDE DEF occ
    <3>3. Cardinality(occ) # MAX_PROCESS
      BY <3>1, <3>2, FS_Subset
    <3>. QED
      BY <1>3, <3>3
  <2>3. add_result(manager, n) = 1
    BY <1>1, <1>3, <1>6, <2>1, <2>2 DEF add_result, FreeSlots
  <2>4. PICK l \in Slot :
           /\ manager[l].stack_p = NULL
           /\ \A k \in Slot : k < l => manager[k].stack_p # NULL
           /\ manager'[l].stack_p = j /\ manager'[l].child_id = p
           /\ \A i \in Slot : i # l => manager'[i] = manager[i]
    BY <1>1, <2>3, AddEffect DEF Adds
  <2>5. Cardinality(Occupied(manager)') = Cardinality(occ) + 1
    <3>1. Occupied(manager)' = occ \cup {l} /\ l \notin occ
      BY <2>4 DEF Occupied
    <3>. HIDE DEF occ
    <3>. QED
      BY <1>3, <3>1, FS_AddElement
  <2>6. p # NULL
    OBVIOUS
  <2>7. \A i, k \in Slot : i <= k /\ manager'[i].child_id = NULL => manager'[k].child_id = NULL
    <3>. SUFFICES ASSUME NEW i \in Slot, NEW k \in Slot, i <= k,
                         manager'[i].child_id = NULL
                  PROVE  manager'[k].child_id = NULL
      OBVIOUS
    <3>1. i # l /\ manager[i].child_id = NULL
      BY <2>4, <2>6
    <3>2. ~(i < l)
      BY <1>2, <2>4, <3>1
    <3>3. k # l
      BY <3>1, <3>2 DEF Slot
    <3>. QED
      BY <1>4, <2>4, <3>1, <3>3
  <2>8. nb_process' <= Cardinality(Occupied(manager)')
    BY <1>1, <1>3, <2>1, <2>5 DEF Adds
  <2>9. ASSUME NEW i \in Slot, i < n + 1 PROVE manager'[i].child_id # NULL
    <3>1. CASE i < n
      BY <1>4, <2>4, <2>6, <3>1
    <3>2. CASE i = n /\ manager[i].child_id # NULL
      BY <2>4, <2>6, <3>2
    <3>3. CASE i = n /\ manager[i].child_id = NULL
      <4>1. \A k \in Slot : k >= n => k \notin occ
        BY <1>2, <1>4, <3>3 DEF Occupied
      <4>2. n \in Nat /\ occ \in SUBSET (0 .. (n - 1))
        BY <3>3, <4>1 DEF Slot, Occupied
      <4>3. IsFiniteSet(0 .. (n - 1)) /\ Cardinality(0 .. (n - 1)) = n
        BY <4>2, FS_Interval
      <4>4. occ = 0 .. (n - 1)
        <5>. HIDE DEF occ, n
        <5>1. Cardinality(occ) <= n
          BY <4>2, <4>3, FS_Subset
        <5>2. Cardinality(occ) = n
          BY <1>3, <2>1, <4>2, <5>1
        <5>. QED
          BY <4>2, <4>3, <5>2, FS_Subset
      <4>5. l = i
        <5>1. i \notin occ
          BY <3>3, <4>1, <4>2
        <5>2. l \notin occ
          BY <2>4 DEF Occupied
        <5>3. ~(l < n)
          BY <4>2, <4>4, <5>2 DEF Slot
        <5>4. ~(n < l)
          BY <2>4, <3>3, <5>1 DEF Occupied
        <5>. QED
          BY <3>3, <4>2, <5>3, <5>4 DEF Slot
      <4>. QED
        BY <2>4, <2>6, <4>5
    <3>. QED
      BY <1>1, <2>9, <3>1, <3>2, <3>3 DEF Slot
  <2>. QED
    BY <2>7, <2>8, <2>9 DEF WrittenInv, Unwritten, ScanReadsWritten, Scanned, Adds
<1>. QED
  BY <1>5, <1>6

(* The table, its written part and its count after the end of a child.     *)
LEMMA RemoveKeepsScan ==
    ASSUME ScanInv, Up, NEW p, Removes(p)
    PROVE  WrittenInv' /\ ScanReadsWritten'
<1>. DEFINE n == nb_process
            occ == Occupied(manager)
<1>1. manager \in Table /\ n \in Int
  BY DEF ScanInv, SafeInv, TypeInv, TypeOK
<1>2. IsFiniteSet(occ) /\ Cardinality(occ) \in Nat
  BY OccupiedIsFinite
<1>3. \A i \in Slot : manager'[i].child_id = manager[i].child_id
  BY <1>1, RemoveEffect DEF Removes
<1>4. Cardinality(occ) - 1 <= Cardinality(Occupied(manager)')
  <2>1. CASE manager' = manager
    BY <1>2, <2>1 DEF Occupied
  <2>2. ASSUME NEW l \in Slot, manager'[l].stack_p = NULL,
               \A i \in Slot : i # l => manager'[i] = manager[i]
        PROVE  Cardinality(occ) - 1 <= Cardinality(Occupied(manager)')
    <3>1. Occupied(manager)' = occ \ {l}
      BY <2>2 DEF Occupied
    <3>. HIDE DEF occ
    <3>2. \/ Cardinality(occ \ {l}) = Cardinality(occ)
          \/ Cardinality(occ \ {l}) = Cardinality(occ) - 1
      BY <1>2, FS_RemoveElement
    <3>. QED
      BY <1>2, <3>1, <3>2
  <2>. QED
    BY <1>1, <2>1, <2>2, RemoveEffect DEF Removes
<1>5. Cardinality(Occupied(manager)') \in Nat
  BY OccupiedIsFinite
<1>6. Unwritten' = Unwritten
  BY <1>3 DEF Unwritten
<1>7. Unwritten # {} => nb_process' <= Cardinality(Occupied(manager)')
  <2>1. ASSUME Unwritten # {} PROVE n <= Cardinality(occ)
    BY <2>1 DEF ScanInv, WrittenInv
  <2>. QED
    BY <1>1, <1>2, <1>4, <1>5, <2>1 DEF Removes
<1>8. \A i \in Slot : i < nb_process' => manager'[i].child_id # NULL
  BY <1>1, <1>3 DEF ScanInv, ScanReadsWritten, Scanned, Removes, Slot
<1>9. \A i, k \in Slot : i <= k /\ i \in Unwritten' => k \in Unwritten'
  BY <1>6 DEF ScanInv, WrittenInv
<1>. QED
  BY <1>6, <1>7, <1>8, <1>9 DEF WrittenInv, ScanReadsWritten, Scanned

(* No step lets the scan reach an unwritten record.                        *)
LEMMA ScanInductive == ScanInv /\ [Next]_vars => ScanInv'
<1>. SUFFICES ASSUME ScanInv, [Next]_vars PROVE ScanInv'
  OBVIOUS
<1>1. SafeInv' /\ TypeOK
  BY SafeInductive DEF ScanInv, SafeInv, TypeInv
<1>2. CASE ~Up'
  BY <1>1, <1>2 DEF ScanInv, WrittenInv, ScanReadsWritten
<1>3. CASE Up'
  <2>1. Up
    BY <1>3, NextIsUp DEF vars, Up
  <2>2. CASE UNCHANGED <<manager, nb_process>>
    <3>1. WrittenInv'
      BY <2>1, <2>2 DEF ScanInv, WrittenInv, Unwritten, Occupied
    <3>2. ScanReadsWritten'
      BY <2>1, <2>2 DEF ScanInv, ScanReadsWritten, Scanned
    <3>. QED
      BY <1>1, <3>1, <3>2 DEF ScanInv
  <2>. QED
    BY <1>1, <1>3, <2>1, <2>2, TableStep, AddKeepsScan, RemoveKeepsScan DEF ScanInv
<1>. QED
  BY <1>2, <1>3

(* The loop of manager_remove_process compares no child_id that was never  *)
(* written, although it is bounded by a count of children and records are  *)
(* freed in any order, and whatever stops, is stale or is lost.            *)
THEOREM ScanIsDefined == Spec => []ScanReadsWritten
<1>1. Init => ScanInv
  <2>. SUFFICES ASSUME Init PROVE ScanInv
    OBVIOUS
  <2>1. \A i \in Slot : manager[i].child_id = NULL
    BY DEF Init, create_process_manager
  <2>2. nb_process = 0 /\ Cardinality(Occupied(manager)) \in Nat
    BY OccupiedIsFinite DEF Init
  <2>3. WrittenInv
    BY <2>1, <2>2 DEF WrittenInv, Unwritten
  <2>4. ScanReadsWritten
    BY <2>2 DEF ScanReadsWritten, Scanned, Slot
  <2>. QED
    BY <2>3, <2>4, SafeInit DEF ScanInv
<1>2. ScanInv => ScanReadsWritten
  BY DEF ScanInv
<1>. QED
  BY <1>1, <1>2, ScanInductive, PTL DEF Spec
-----------------------------------------------------------------------------
(* Without stops, a siginfo is about a process that has ended and was not  *)
(* waited for: waitpid neither blocks nor fails.                           *)

SignalsInv ==
    /\ waiting = NULL
    /\ \A j \in Job : state[j] # "stopped"
    /\ pending # NULL => \E j \in Job : state[j] = "zombie" /\ pidOf[j] = pending

EndedInv == NoticeInv /\ SignalsInv

(* What a step can do to the children, the table and the error files.      *)

(* Jobs are asked for, move and end.                                       *)
Moves ==
    \A k \in Job : \/ state'[k] = state[k]
                   \/ state[k] = "unborn" /\ state'[k] = "requested"
                   \/ /\ state[k] \in {"cloned", "running", "failed"}
                      /\ state'[k] \in {"running", "failed", "zombie"}

Steady ==
    /\ UNCHANGED <<tabVars, pidOf, waiting>>
    /\ Moves
    /\ \/ pending' = pending
       \/ \E k \in Job : state'[k] = "zombie" /\ pending' = pidOf[k]

Starts(j, p, fd) ==
    /\ state[j] = "requested" /\ pidOf[j] = NULL
    /\ state' = [state EXCEPT ![j] = "cloned"]
    /\ pidOf' = [pidOf EXCEPT ![j] = p]
    /\ fd \in {j, STDOUT} /\ errf' = [errf EXCEPT ![j] = ErrFileState(fd)]
    /\ Adds(j, p, fd)
    /\ UNCHANGED <<pending, waiting>>

Turned(j, fd) ==
    /\ state[j] = "requested"
    /\ state' = [state EXCEPT ![j] = "refused"]
    /\ errf' = [errf EXCEPT ![j] = ErrFileState(fd)]
    /\ UNCHANGED <<pidOf, manager, nb_process, pending, waiting>>

Reaped(j) ==
    /\ state[j] = "zombie"
    /\ state' = [state EXCEPT ![j] = "reaped"]
    /\ pending' = NULL
    /\ UNCHANGED <<pidOf, waiting>>
    /\ \/ ~Up' /\ UNCHANGED <<manager, nb_process, errf>>
       \/ /\ Removes(pidOf[j])
          /\ errf' = Closed({removed_err_file(pidOf[j], manager, nb_process)})

Terminates ==
    /\ ~Up'
    /\ Moves
    /\ UNCHANGED <<pidOf, pending, waiting>>
    /\ errf' = errf \/ errf' = Closed(free_manager(manager, nb_process))

(* A process that is ended ends, and its pid may become pending.           *)
LEMMA DiesMoves ==
    ASSUME TypeOK, SignalsInv, NEW j \in Job, NEW ws, Dies(j, ws), state[j] \in Alive
    PROVE  /\ Moves
           /\ \/ pending' = pending
              \/ \E k \in Job : state'[k] = "zombie" /\ pending' = pidOf[k]
<1>1. state'[j] = "zombie" /\ \A k \in Job : k # j => state'[k] = state[k]
  BY DEF Dies, TypeOK
<1>2. state[j] \in {"cloned", "running", "failed"}
  BY DEF SignalsInv, Alive
<1>3. pending' = pending \/ pending' = pidOf[j]
  BY DEF Dies, Raise
<1>. QED
  BY <1>1, <1>2, <1>3 DEF Moves

(* Steps of clients and children.                                          *)
LEMMA OthersSteady ==
    ASSUME TypeOK, SignalsInv, "stop" \notin Env, ClientStep \/ ChildStep
    PROVE  Steady
<1>1. CASE ClientStep
  <2>1. UNCHANGED <<tabVars, pidOf, waiting, pending>>
    BY <1>1 DEF ClientStep, Connect, SendRun, SendKill, SendPlain, Put, Disconnect,
                jobVars, loopVars
  <2>2. CASE UNCHANGED state
    BY <2>1, <2>2 DEF Steady, Moves
  <2>3. ASSUME NEW c \in Conn, NEW j \in Job, SendRun(c, j) PROVE Steady
    BY <2>1, <2>3 DEF SendRun, TypeOK, Steady, Moves
  <2>. QED
    BY <1>1, <2>2, <2>3 DEF ClientStep, Connect, SendKill, SendPlain, Disconnect, jobVars
<1>2. CASE ChildStep
  <2>1. PICK j \in Job :
           \/ ChildExec(j) \/ ChildExecFail(j) \/ ChildSigpipe(j)
           \/ ChildFailExit(j)
           \/ \E code \in ExitCode : ChildExit(j, code)
           \/ ChildCrash(j) \/ ChildStop(j) \/ ChildContinue(j)
    BY <1>2 DEF ChildStep
  <2>2. UNCHANGED <<tabVars, pidOf, waiting>>
    BY <2>1 DEF ChildExec, ChildExecFail, ChildSigpipe, ChildFailExit, ChildExit,
                ChildCrash, ChildStop, ChildContinue, ChildVarsOnly, loopVars
  <2>3. ASSUME NEW ws, Dies(j, ws), state[j] \in Alive PROVE Steady
    BY <2>2, <2>3, DiesMoves DEF Steady
  <2>4. CASE ChildSigpipe(j) \/ ChildFailExit(j) \/ ChildCrash(j)
    BY <2>3, <2>4 DEF ChildSigpipe, ChildFailExit, ChildCrash, Alive
  <2>5. ASSUME NEW code \in ExitCode, ChildExit(j, code) PROVE Steady
    BY <2>3, <2>5 DEF ChildExit, Alive
  <2>6. CASE ChildExec(j) \/ ChildExecFail(j)
    BY <2>2, <2>6 DEF ChildExec, ChildExecFail, TypeOK, Steady, Moves
  <2>7. ~ChildStop(j) /\ ~ChildContinue(j)
    BY DEF ChildStop, ChildContinue, SignalsInv
  <2>. QED
    BY <2>1, <2>4, <2>5, <2>6, <2>7
<1>. QED
  BY <1>1, <1>2

(* The handler of a message.                                               *)
LEMMA MessageKinds ==
    ASSUME EndedInv, NEW c \in Conn, HandleMessage(c)
    PROVE  \/ Steady \/ Terminates
           \/ \E j \in Job, p \in Pid, fd \in Job \cup {STDOUT} : Starts(j, p, fd)
           \/ \E j \in Job, fd \in Job \cup {NULL, STDOUT} : Turned(j, fd)
<1>. TypeOK /\ Consistent /\ SignalsInv /\ \A k \in Job : JobInv(k)
  BY DEF EndedInv, NoticeInv, SafeInv, TypeInv
<1>1. CASE ReadsNull(c) \/ ReadsEmpty(c) \/ ReadsOther(c) \/ PipeFails(c)
  BY <1>1 DEF ReadsNull, ReadsEmpty, ReadsOther, PipeFails, Reads, jobVars, Steady, Moves
<1>2. ASSUME NEW j \in Job, NEW fd \in Job \cup {STDOUT}, NEW p \in Pid,
             NEW watched \in BOOLEAN, LaunchProcess(c, j, p, fd, watched)
      PROVE  Starts(j, p, fd)
  <2>1. state[j] = "requested"
    BY <1>2, LaunchRequested DEF LaunchProcess
  <2>2. pidOf[j] = NULL
    BY <2>1 DEF JobInv, NotLaunched
  <2>3. Adds(j, p, fd)
    <3>1. add_result(manager, nb_process) # 0
      BY DEF add_result
    <3>2. nb_process' = nb_process + (IF add_result(manager, nb_process) # 0 THEN 1 ELSE 0)
      BY <1>2 DEF LaunchProcess
    <3>. QED
      BY <1>2, <3>1, <3>2 DEF LaunchProcess, Adds
  <2>4. fd \in {j, STDOUT}
    BY <1>2 DEF LaunchProcess, ErrFiles
  <2>. QED
    BY <1>2, <2>1, <2>2, <2>3, <2>4 DEF LaunchProcess, Reads, Starts
<1>3. ASSUME NEW j \in Job, NEW fd \in Job \cup {NULL, STDOUT}, LaunchRefused(c, j, fd)
      PROVE  Turned(j, fd)
  <2>1. state[j] = "requested"
    BY <1>3, LaunchRequested DEF LaunchRefused
  <2>. QED
    BY <1>3, <2>1 DEF LaunchRefused, Reads, Turned
<1>4. CASE KillProcess(c)
  <2>1. UNCHANGED <<pidOf, tabVars, waiting>>
    BY <1>4 DEF KillProcess, Reads
  <2>2. CASE UNCHANGED <<state, pending>>
    BY <2>1, <2>2 DEF Steady, Moves
  <2>3. ASSUME NEW j \in Job, NEW ws, Dies(j, ws), state[j] \in Alive PROVE Steady
    BY <2>1, <2>3, DiesMoves DEF Steady
  <2>. QED
    BY <1>4, <2>2, <2>3 DEF KillProcess, Victims, Holders
<1>5. CASE KillDaemon(c)
  <2>1. UNCHANGED <<pidOf, pending, waiting>> /\ ~Up'
    BY <1>5 DEF KillDaemon, Reads, Up
  <2>2. errf' = errf \/ errf' = Closed(free_manager(manager, nb_process))
    BY <1>5 DEF KillDaemon
  <2>3. \A k \in Job : state'[k] = state[k] \/ (state[k] \in Alive /\ state'[k] = "zombie")
    BY <1>5 DEF KillDaemon
  <2>4. Moves
    BY <2>3 DEF Moves, SignalsInv, Alive
  <2>. QED
    BY <2>1, <2>2, <2>4 DEF Terminates
<1>. QED
  BY <1>1, <1>2, <1>3, <1>4, <1>5 DEF HandleMessage

(* A siginfo that is handled names a process that has ended, so that the   *)
(* other ways waitpid can go are never taken.                              *)
LEMMA WaitAtOnce ==
    ASSUME EndedInv
    PROVE  ~HandleSignalBlocks /\ ~HandleSignalStale /\ ~WaitReturns
<1>. TypeOK /\ Consistent /\ SignalsInv /\ BatchStaysReady
  BY DEF EndedInv, NoticeInv, SafeInv, TypeInv
<1>1. ASSUME Handles(Ev("SIGNALFD", NULL))
      PROVE  \E j \in Holders(pending) : state[j] = "zombie"
  <2>1. Ev("SIGNALFD", NULL) \in Ready
    BY <1>1 DEF Handles, BatchStaysReady
  <2>2. pending # NULL
    BY <2>1, ReadyCases DEF Ev
  <2>. QED
    BY <2>2 DEF SignalsInv, Holders, Unreaped
<1>2. ~HandleSignalBlocks
  <2>. SUFFICES ASSUME HandleSignalBlocks PROVE FALSE
    OBVIOUS
  <2>1. PICK j \in Holders(pending) : state[j] = "zombie"
    BY <1>1 DEF HandleSignalBlocks
  <2>2. PICK k \in Holders(pending) : state[k] \in Alive
    BY DEF HandleSignalBlocks
  <2>3. j = k
    BY DEF Consistent, PidInv, Holders
  <2>. QED
    BY <2>1, <2>2, <2>3 DEF Alive
<1>3. ~HandleSignalStale
  BY <1>1 DEF HandleSignalStale
<1>4. ~WaitReturns
  BY DEF WaitReturns, SignalsInv
<1>. QED
  BY <1>2, <1>3, <1>4

(* Every step is of one of these kinds.                                    *)
LEMMA StepKinds ==
    ASSUME EndedInv, "stop" \notin Env, [Next]_vars
    PROVE  \/ Steady \/ Terminates
           \/ \E j \in Job, p \in Pid, fd \in Job \cup {STDOUT} : Starts(j, p, fd)
           \/ \E j \in Job, fd \in Job \cup {NULL, STDOUT} : Turned(j, fd)
           \/ \E j \in Job : Reaped(j)
<1>. TypeOK /\ SignalsInv
  BY DEF EndedInv, NoticeInv, SafeInv, TypeInv
<1>1. CASE UNCHANGED vars
  BY <1>1 DEF vars, jobVars, loopVars, Steady, Moves
<1>2. CASE ClientStep \/ ChildStep
  BY <1>2, OthersSteady
<1>3. CASE \/ EpollWait \/ AcceptFails
           \/ \E c \in Conn : Accept(c)
           \/ \E j \in Job : HandleExecve(j)
  BY <1>3 DEF EpollWait, AcceptFails, Accept, HandleExecve, jobVars, Steady, Moves
<1>4. CASE HandleSignal
  <2>1. PICK j \in Job : Reap(j)
    BY <1>4 DEF HandleSignal, Holders
  <2>2. AfterWait(pidOf[j], Reported(j), exit_status(status[j]))
    BY <2>1 DEF Reap
  <2>3. \/ ~Up' /\ UNCHANGED <<manager, nb_process, errf>>
        \/ /\ Removes(pidOf[j])
           /\ errf' = Closed({removed_err_file(pidOf[j], manager, nb_process)})
    BY <2>2 DEF AfterWait, Up, ScanSize, CountAfter, Removes
  <2>. QED
    BY <1>4, <2>1, <2>3 DEF HandleSignal, SignalAfterRead, Reap, Reaped
<1>. QED
  BY <1>1, <1>2, <1>3, <1>4, MessageKinds, WaitAtOnce DEF Next, DaemonStep

(* That every siginfo is about an ended process is inductive.              *)
LEMMA EndedInductive ==
    ASSUME "stop" \notin Env PROVE EndedInv /\ [Next]_vars => EndedInv'
<1>. SUFFICES ASSUME EndedInv, [Next]_vars PROVE EndedInv'
  OBVIOUS
<1>1. NoticeInv'
  BY NoticeInductive DEF EndedInv
<1>. TypeOK /\ SignalsInv
  BY DEF EndedInv, NoticeInv, SafeInv, TypeInv
<1>2. ASSUME Moves, UNCHANGED <<pidOf, waiting>>,
             \/ pending' = pending
             \/ \E k \in Job : state'[k] = "zombie" /\ pending' = pidOf[k]
      PROVE  SignalsInv'
  BY <1>2 DEF SignalsInv, Moves
<1>3. ASSUME NEW j \in Job, NEW p \in Pid, NEW fd \in Job \cup {STDOUT}, Starts(j, p, fd)
      PROVE  SignalsInv'
  BY <1>3 DEF SignalsInv, Starts, TypeOK
<1>4. ASSUME NEW j \in Job, NEW fd, Turned(j, fd) PROVE SignalsInv'
  BY <1>4 DEF SignalsInv, Turned, TypeOK
<1>5. ASSUME NEW j \in Job, Reaped(j) PROVE SignalsInv'
  BY <1>5 DEF SignalsInv, Reaped, TypeOK
<1>6. SignalsInv'
  BY <1>2, <1>3, <1>4, <1>5, StepKinds DEF Steady, Terminates
<1>. QED
  BY <1>1, <1>6 DEF EndedInv

(* No siginfo is there at first.                                           *)
LEMMA EndedInit == Init => EndedInv
  BY NoticeInit DEF Init, EndedInv, SignalsInv
-----------------------------------------------------------------------------
(* The count.                                                              *)

Children == {j \in Job : state[j] \in Unreaped}

CountInv == EndedInv /\ (Up => IsFiniteSet(Children) /\ nb_process = Cardinality(Children))

(* The count follows the children.                                         *)
LEMMA CountInductive ==
    ASSUME "stop" \notin Env PROVE CountInv /\ [Next]_vars => CountInv'
<1>. SUFFICES ASSUME CountInv, [Next]_vars PROVE CountInv'
  OBVIOUS
<1>1. EndedInv' /\ EndedInv /\ TypeOK
  BY EndedInductive DEF CountInv, EndedInv, NoticeInv, SafeInv, TypeInv
<1>2. CASE ~Up'
  BY <1>1, <1>2 DEF CountInv
<1>3. CASE Up'
  <2>. DEFINE Kids == Children
  <2>1. IsFiniteSet(Kids) /\ nb_process = Cardinality(Kids) /\ Cardinality(Kids) \in Nat
    <3>1. Up
      BY <1>3, NextIsUp DEF vars, Up
    <3>2. IsFiniteSet(Kids) /\ nb_process = Cardinality(Kids)
      BY <3>1 DEF CountInv
    <3>. QED
      BY <3>2, FS_CardinalityType
  <2>2. ASSUME Children' = Kids, nb_process' = nb_process PROVE CountInv'
    BY <1>1, <2>1, <2>2 DEF CountInv
  <2>3. ASSUME Steady PROVE CountInv'
    <3>1. Children' = Kids
      BY <2>3 DEF Steady, Moves, Children, Unreaped, Alive
    <3>. QED
      BY <2>2, <2>3, <3>1 DEF Steady, tabVars
  <2>4. ASSUME NEW j \in Job, NEW fd, Turned(j, fd) PROVE CountInv'
    <3>1. Children' = Kids
      BY <1>1, <2>4 DEF Turned, TypeOK, Children, Unreaped, Alive
    <3>. QED
      BY <2>2, <2>4, <3>1 DEF Turned
  <2>5. ASSUME NEW j \in Job, NEW p \in Pid, NEW fd \in Job \cup {STDOUT}, Starts(j, p, fd)
        PROVE  CountInv'
    <3>1. Children' = Kids \cup {j} /\ j \notin Kids
      BY <1>1, <2>5 DEF Starts, TypeOK, Children, Unreaped, Alive
    <3>2. nb_process' = nb_process + 1
      BY <2>5 DEF Starts, Adds
    <3>. HIDE DEF Kids
    <3>3. IsFiniteSet(Children') /\ Cardinality(Children') = Cardinality(Kids) + 1
      BY <2>1, <3>1, FS_AddElement
    <3>. QED
      BY <1>1, <2>1, <3>2, <3>3 DEF CountInv
  <2>6. ASSUME NEW j \in Job, Reaped(j) PROVE CountInv'
    <3>1. Children' = Kids \ {j} /\ j \in Kids
      BY <1>1, <2>6 DEF Reaped, TypeOK, Children, Unreaped, Alive
    <3>2. nb_process' = nb_process - 1
      BY <1>3, <2>6 DEF Reaped, Removes
    <3>. HIDE DEF Kids
    <3>3. IsFiniteSet(Children') /\ Cardinality(Children') = Cardinality(Kids) - 1
      BY <2>1, <3>1, FS_RemoveElement
    <3>. QED
      BY <1>1, <2>1, <3>2, <3>3 DEF CountInv
  <2>7. ~Terminates
    BY <1>3 DEF Terminates
  <2>. QED
    BY <1>1, <2>3, <2>4, <2>5, <2>6, <2>7, StepKinds
<1>. QED
  BY <1>2, <1>3

(* There are no children at first.                                         *)
LEMMA CountInit == Init => CountInv
<1>. SUFFICES ASSUME Init PROVE CountInv
  OBVIOUS
<1>1. Children = {} /\ nb_process = 0
  BY DEF Init, Children, Unreaped, Alive
<1>. QED
  BY <1>1, EndedInit, FS_EmptySet DEF CountInv

(* As long as no child is stopped, nb_process is the number of children to *)
(* be waited for: no launch, refusal, kill, reuse of a pid or full table   *)
(* makes it drift.                                                         *)
THEOREM CountExact == ASSUME "stop" \notin Env PROVE Spec => []CountIsExact
<1>1. CountInv => CountIsExact
  BY DEF CountInv, CountIsExact, Children
<1>2. CountInv /\ [Next]_vars => CountInv'
  BY CountInductive
<1>. QED
  BY <1>1, <1>2, CountInit, PTL DEF Spec

-----------------------------------------------------------------------------
(* How the daemon ends.                                                    *)

Full == nb_process > MAX_PROCESS

(* What can be said of a step that may end the daemon.                     *)
EndsWell ==
    \/ daemon' \in {"up", "terminated"}
    \/ daemon' = "sigpipe" /\ gone' # {}
    \/ daemon' = "segv" /\ Full /\ Full'
    \/ /\ daemon' = "segv"
       /\ \E c \in Conn : /\ conn'[c] = "open"
                          /\ \/ c \in gone'
                             \/ inbox'[c] # <<>> /\ Head(inbox'[c]).type = "short"

(* send_message ends the daemon only over a client that has left.          *)
LEMMA NotifyEndsWell ==
  ASSUME Up, gone' = gone, NEW c, NEW js, NEW type, NEW val, Notify(c, js, type, val)
  PROVE  EndsWell
  BY DEF Notify, Up, EndsWell

(* The scan of manager_remove_process leaves the table only if the count   *)
(* has passed its size.                                                    *)
LEMMA AfterWaitEndsWell ==
  ASSUME Up, gone' = gone, NEW p, NEW js, NEW code, AfterWait(p, js, code)
  PROVE  EndsWell
<1>1. CASE ScanOverruns(p, manager, ScanSize) /\ daemon' = "segv" /\ nb_process' = nb_process
  BY <1>1 DEF ScanOverruns, ScanSize, Full, EndsWell
<1>2. CASE Notify(communication_socket, js, "ProcessTerminated", code)
  BY <1>2, NotifyEndsWell
<1>. QED
  BY <1>1, <1>2 DEF AfterWait

(* A message ends the daemon if it asks for that, if it is NULL, or if it  *)
(* is answered to a client that has left; BatchStaysReady tells that a     *)
(* NULL message is half of one or the end of a connection.                 *)
LEMMA MessageEndsWell ==
  ASSUME BatchStaysReady, "pipe" \notin Env, NEW c \in Conn, HandleMessage(c)
  PROVE  EndsWell
<1>1. ASSUME ReadsNull(c) PROVE EndsWell
  <2>1. Up /\ Ev("SOCK_MESSAGE", c) \in batch
    BY <1>1 DEF ReadsNull, Handles
  <2>2. Ev("SOCK_MESSAGE", c) \in Ready
    BY <2>1 DEF BatchStaysReady
  <2>3. conn[c] = "open" /\ (inbox[c] # <<>> \/ c \in gone)
    BY <2>2 DEF Ready, Ev
  <2>. QED
    BY <1>1, <2>3 DEF ReadsNull, connVars, EndsWell
<1>2. ASSUME ReadsEmpty(c) \/ ReadsOther(c) \/ KillProcess(c) PROVE EndsWell
  BY <1>2 DEF ReadsEmpty, ReadsOther, KillProcess, Reads, Handles, Up, EndsWell
<1>3. ASSUME NEW j \in Job, NEW fd, NEW p \in Pid, NEW watched \in BOOLEAN,
             LaunchProcess(c, j, p, fd, watched)
      PROVE  EndsWell
  <2>1. Up /\ gone' = gone /\ Notify(c, {j}, "ProcessLaunched", 0)
    BY <1>3 DEF LaunchProcess, Reads, Handles
  <2>. QED
    BY <2>1, NotifyEndsWell
<1>4. ASSUME NEW j \in Job, NEW fd, LaunchRefused(c, j, fd) PROVE EndsWell
  <2>1. Up /\ gone' = gone /\ Notify(c, {j}, "ChildCreationError", 0)
    BY <1>4 DEF LaunchRefused, Reads, Handles
  <2>. QED
    BY <2>1, NotifyEndsWell
<1>5. ASSUME KillDaemon(c) PROVE EndsWell
  BY <1>5 DEF KillDaemon, Full, EndsWell
<1>6. ~PipeFails(c)
  BY DEF PipeFails
<1>. QED
  BY <1>1, <1>2, <1>3, <1>4, <1>5, <1>6 DEF HandleMessage

(* Every step ends well.                                                   *)
LEMMA StepEndsWell ==
  ASSUME BatchStaysReady, "pipe" \notin Env, "epoll" \notin Env, Next
  PROVE  EndsWell
<1>1. Up
  BY NextIsUp
<1>2. ASSUME ClientStep \/ ChildStep \/ EpollWait \/ HandleSignalBlocks PROVE EndsWell
  <2>1. daemon' = daemon
    BY <1>2 DEF ClientStep, Connect, SendRun, SendKill, SendPlain, Put, Disconnect,
                ChildStep, ChildExec, ChildExecFail, ChildSigpipe, ChildFailExit,
                ChildExit, ChildCrash, ChildStop, ChildContinue, ChildVarsOnly,
                EpollWait, HandleSignalBlocks
  <2>. QED
    BY <1>1, <2>1 DEF Up, EndsWell
<1>3. ASSUME NEW c \in Conn, Accept(c) PROVE EndsWell
  BY <1>3 DEF Accept, EndsWell
<1>4. ASSUME NEW c \in Conn, HandleMessage(c) PROVE EndsWell
  BY <1>4, MessageEndsWell
<1>5. ASSUME NEW j \in Job, HandleExecve(j) PROVE EndsWell
  <2>1. gone' = gone /\ Notify(communication_socket, {j}, "ExecveTerminated", success(pipe[j]))
    BY <1>5 DEF HandleExecve, connVars
  <2>. QED
    BY <1>1, <2>1, NotifyEndsWell
<1>6. ASSUME HandleSignal \/ WaitReturns PROVE EndsWell
  <2>1. PICK j \in Job : gone' = gone /\ Reap(j)
    BY <1>6 DEF HandleSignal, WaitReturns, Holders, connVars
  <2>. QED
    BY <1>1, <2>1, AfterWaitEndsWell DEF Reap
<1>7. ASSUME HandleSignalStale PROVE EndsWell
  <2>1. PICK code \in ExitCode :
           gone' = gone /\ AfterWait(pending, {j \in Job : pidOf[j] = pending}, code)
    BY <1>7 DEF HandleSignalStale, connVars
  <2>. QED
    BY <1>1, <2>1, AfterWaitEndsWell
<1>8. ~AcceptFails
  BY DEF AcceptFails
<1>. QED
  BY <1>2, <1>3, <1>4, <1>5, <1>6, <1>7, <1>8 DEF Next, DaemonStep

(* What holds of every state: the reason for which the daemon has ended,   *)
(* or that its count has passed the size of the table.                     *)
EndInvariant == NoticeInv /\ (EndsForAReason \/ Full)

(* It is inductive when pipe, accept and epoll_ctl do not fail.            *)
LEMMA EndInductive ==
  ASSUME "pipe" \notin Env, "epoll" \notin Env
  PROVE  EndInvariant /\ [Next]_vars => EndInvariant'
<1>. SUFFICES ASSUME EndInvariant, [Next]_vars PROVE EndInvariant'
  OBVIOUS
<1>1. NoticeInv' /\ BatchStaysReady
  BY NoticeInductive DEF EndInvariant, NoticeInv
<1>2. ASSUME Next PROVE (EndsForAReason \/ Full)'
  <2>1. EndsWell
    BY <1>1, <1>2, StepEndsWell
  <2>. QED
    BY <2>1 DEF EndsWell, EndsForAReason, Full
<1>3. ASSUME UNCHANGED vars PROVE (EndsForAReason \/ Full)'
  BY <1>3 DEF EndInvariant, EndsForAReason, Full, vars, tabVars, connVars
<1>. QED
  BY <1>1, <1>2, <1>3 DEF EndInvariant

(* When the calls that make the daemon exit do not fail, it ends because   *)
(* it is asked to, because of a client that has left or half a message, or *)
(* because nb_process has passed MAX_PROCESS, after which                  *)
(* manager_remove_process and free_manager leave the table.                *)
THEOREM EndsWithCause ==
  ASSUME "pipe" \notin Env, "epoll" \notin Env
  PROVE  Spec => [](EndsForAReason \/ Full)
<1>1. Init => EndInvariant
  <2>1. Init => EndsForAReason
    BY DEF Init, EndsForAReason
  <2>. QED
    BY <2>1, NoticeInit DEF EndInvariant
<1>2. EndInvariant => EndsForAReason \/ Full
  BY DEF EndInvariant
<1>3. EndInvariant /\ [Next]_vars => EndInvariant'
  BY EndInductive
<1>. QED
  BY <1>1, <1>2, <1>3, PTL DEF Spec

-----------------------------------------------------------------------------
(* A client that waits for the end of each job.                            *)

Open(j) == state[j] \in {"requested"} \cup Unreaped

OneOpen == \A j, k \in Job : Open(j) /\ Open(k) => j = k

(* The record of the one child is the first, with its pid and its error    *)
(* file, and no other is occupied.                                         *)
TidyTable ==
    /\ \A i \in Slot : manager[i].stack_p # NULL =>
          i = 0 /\ state[manager[i].stack_p] \in Unreaped
    /\ \A j \in Job : state[j] \in Unreaped =>
          /\ manager[0].stack_p = j /\ manager[0].child_id = pidOf[j]
          /\ errf[j] = "open" => manager[0].err_file = j
    /\ \A j \in Job : state[j] = "reaped" => errf[j] # "open"

IdleInv == CountInv /\ (Up => OneOpen /\ TidyTable)

(* Only a client makes a request.                                          *)
LEMMA OnlySendRun ==
  ASSUME TypeOK, NEW k \in Job, [Next]_vars, state[k] = "unborn", state'[k] = "requested"
  PROVE  \E c \in Conn : SendRun(c, k)
<1>1. state' # state
  OBVIOUS
<1>2. ~UNCHANGED vars
  BY <1>1 DEF vars, jobVars
<1>3. ~ChildStep
  BY DEF ChildStep, ChildExec, ChildExecFail, ChildSigpipe, ChildFailExit,
         ChildExit, ChildCrash, ChildStop, ChildContinue, Dies, TypeOK, Alive
<1>4. ~\E c \in Conn : HandleMessage(c)
  <2>. SUFFICES ASSUME NEW c \in Conn, HandleMessage(c) PROVE FALSE
    OBVIOUS
  <2>1. ~(ReadsNull(c) \/ ReadsEmpty(c) \/ ReadsOther(c) \/ PipeFails(c))
    BY <1>1 DEF ReadsNull, ReadsEmpty, ReadsOther, PipeFails, jobVars
  <2>2. ~\E j \in Job, fd \in Job \cup {STDOUT}, p \in Pid, watched \in BOOLEAN :
            LaunchProcess(c, j, p, fd, watched)
    BY DEF LaunchProcess, TypeOK
  <2>3. ~\E j \in Job, fd \in Job \cup {NULL, STDOUT} : LaunchRefused(c, j, fd)
    BY DEF LaunchRefused, TypeOK
  <2>4. ~KillProcess(c)
    BY <1>1 DEF KillProcess, Dies, TypeOK, Victims, Holders
  <2>5. ~KillDaemon(c)
    BY DEF KillDaemon
  <2>. QED
    BY <2>1, <2>2, <2>3, <2>4, <2>5 DEF HandleMessage
<1>5. ~DaemonStep
  <2>1. ~(EpollWait \/ AcceptFails \/ HandleSignalBlocks \/ HandleSignalStale)
    BY <1>1 DEF EpollWait, AcceptFails, HandleSignalBlocks, HandleSignalStale, jobVars
  <2>2. ~(HandleSignal \/ WaitReturns)
    BY DEF HandleSignal, WaitReturns, Reap, Holders, TypeOK
  <2>3. ~\E c \in Conn : Accept(c)
    BY <1>1 DEF Accept, jobVars
  <2>4. ~\E j \in Job : HandleExecve(j)
    BY <1>1 DEF HandleExecve
  <2>. QED
    BY <1>4, <2>1, <2>2, <2>3, <2>4 DEF DaemonStep
<1>6. ClientStep
  BY <1>2, <1>3, <1>5 DEF Next
<1>7. PICK c \in Conn : \E j \in Job : SendRun(c, j)
  BY <1>1, <1>6 DEF ClientStep, Connect, SendKill, SendPlain, Disconnect, jobVars
<1>8. PICK j \in Job : SendRun(c, j)
  BY <1>7
<1>9. j = k
  BY <1>8 DEF SendRun, TypeOK
<1>. QED
  BY <1>8, <1>9

(* An open job has not been told to have ended.                            *)
LEMMA OpenIsUnderWay ==
  ASSUME NoticeInv, NEW j \in Job, Open(j)
  PROVE  UnderWay(j)
<1>1. JobInv(j)
  BY DEF NoticeInv
<1>2. state[j] # "unborn" /\ state[j] # "reaped"
  BY DEF Open, Unreaped, Alive
<1>3. \A i \in 1 .. Len(mail[j]) : mail[j][i].type # "ChildCreationError"
  <2>1. CASE state[j] = "requested"
    BY <1>1, <2>1 DEF JobInv, NotLaunched
  <2>2. CASE state[j] \in Unreaped
    BY <1>1, <2>2 DEF JobInv, AnswerInv, Launched
  <2>. QED
    BY <2>1, <2>2 DEF Open
<1>4. \A i \in 1 .. Len(mail[j]) : mail[j][i].type # "ProcessTerminated"
  BY <1>1, <1>2 DEF JobInv, EndInv
<1>. QED
  BY <1>2, <1>3, <1>4 DEF UnderWay, Sent

(* A client of Window 1 asks only when no job is open.                     *)
LEMMA AsksWhenIdle ==
  ASSUME NoticeInv, IsFiniteSet(Job), Window = 1, NEW c \in Conn, NEW k \in Job,
         SendRun(c, k)
  PROVE  \A j \in Job : ~Open(j)
<1>. DEFINE Way == {j \in Job : UnderWay(j)}
<1>1. Way = {}
  <2>1. IsFiniteSet(Way)
    BY FS_Subset
  <2>2. Cardinality(Way) < 1
    BY DEF SendRun
  <2>. HIDE DEF Way
  <2>. QED
    BY <2>1, <2>2, FS_EmptySet, FS_CardinalityType
<1>. QED
  BY <1>1, OpenIsUnderWay

(* A launch fills the first record.                                        *)
LEMMA StartIsTidy ==
  ASSUME TypeOK, OneOpen, TidyTable, nb_process = Cardinality(Children),
         NEW j \in Job, NEW p \in Pid, NEW fd \in Job \cup {STDOUT}, Starts(j, p, fd)
  PROVE  OneOpen' /\ TidyTable'
<1>1. /\ state[j] = "requested"
      /\ state'[j] = "cloned" /\ pidOf'[j] = p
      /\ \A x \in Job : x # j => /\ state'[x] = state[x] /\ pidOf'[x] = pidOf[x]
                                 /\ errf'[x] = errf[x]
      /\ errf'[j] = ErrFileState(fd) /\ fd \in {j, STDOUT}
  BY DEF Starts, TypeOK
<1>2. \A x \in Job : x # j => ~Open(x)
  BY <1>1 DEF OneOpen, Open
<1>3. \A x \in Job : state[x] \notin Unreaped
  BY <1>1, <1>2 DEF Open, Unreaped, Alive
<1>4. nb_process = 0
  BY <1>3, FS_EmptySet DEF Children
<1>5. manager \in Table /\ \A i \in Slot : manager[i].stack_p = NULL
  BY <1>3 DEF TypeOK, TidyTable, Table, process_info
<1>6. add_result(manager, nb_process) = 1
  <2>1. 0 \in Slot
    BY DEF Slot
  <2>. QED
    BY <1>4, <1>5, <2>1 DEF add_result, FreeSlots, Occupied
<1>7. PICK l \in Slot :
         /\ \A k \in Slot : k < l => manager[k].stack_p # NULL
         /\ manager'[l].stack_p = j /\ manager'[l].child_id = p
         /\ manager'[l].err_file = fd
         /\ \A i \in Slot : i # l => manager'[i] = manager[i]
  BY <1>4, <1>5, <1>6, AddEffect DEF Starts, Adds
<1>8. l = 0
  BY <1>5, <1>7 DEF Slot
<1>9. \A x \in Job : x # j => state'[x] \notin Unreaped
  BY <1>1, <1>3
<1>10. errf'[j] = "open" => fd = j
  BY <1>1 DEF ErrFileState
<1>11. OneOpen'
  BY <1>1, <1>2 DEF OneOpen, Open
<1>12. "cloned" \in Unreaped /\ "cloned" # "reaped"
  BY DEF Unreaped, Alive
<1>13. TidyTable'
  <2>1. ASSUME NEW i \in Slot, manager'[i].stack_p # NULL
        PROVE  i = 0 /\ state'[manager'[i].stack_p] \in Unreaped
    BY <1>1, <1>5, <1>7, <1>8, <1>12, <2>1
  <2>2. ASSUME NEW x \in Job, state'[x] \in Unreaped
        PROVE  /\ manager'[0].stack_p = x /\ manager'[0].child_id = pidOf'[x]
               /\ errf'[x] = "open" => manager'[0].err_file = x
    BY <1>1, <1>7, <1>8, <1>9, <1>10, <2>2
  <2>3. ASSUME NEW x \in Job, state'[x] = "reaped" PROVE errf'[x] # "open"
    BY <1>1, <1>12, <2>3 DEF TidyTable
  <2>. QED
    BY <2>1, <2>2, <2>3 DEF TidyTable
<1>. QED
  BY <1>11, <1>13

(* The scan finds the record of the child that has ended, and its error    *)
(* file is closed.                                                         *)
LEMMA ReapIsTidy ==
  ASSUME TypeOK, OneOpen, TidyTable, nb_process = Cardinality(Children),
         NEW j \in Job, Reaped(j), Removes(pidOf[j]),
         errf' = Closed({removed_err_file(pidOf[j], manager, nb_process)})
  PROVE  OneOpen' /\ TidyTable'
<1>1. /\ state[j] = "zombie" /\ state'[j] = "reaped"
      /\ \A x \in Job : x # j => state'[x] = state[x]
  BY DEF Reaped, TypeOK
<1>2. state[j] \in Unreaped /\ \A x \in Job : x # j => ~Open(x)
  BY <1>1 DEF OneOpen, Open, Unreaped
<1>3. nb_process = 1
  <2>1. Children = {j}
    BY <1>2 DEF Children, Open
  <2>. QED
    BY <2>1, FS_Singleton
<1>4. 0 \in Slot /\ Scanned(1) = {0}
  BY DEF Slot, Scanned
<1>5. /\ manager[0].child_id = pidOf[j]
      /\ errf[j] = "open" => manager[0].err_file = j
  BY <1>2 DEF TidyTable
<1>6. Matches(pidOf[j], manager, nb_process) = {0}
  BY <1>3, <1>4, <1>5 DEF Matches
<1>7. Lowest({0}) = 0
  BY DEF Lowest
<1>8. manager' = [manager EXCEPT ![0].stack_p = NULL]
  BY <1>6, <1>7 DEF Removes, manager_remove_process
<1>9. \A i \in Slot : manager'[i].stack_p = NULL
  <2>1. \A i \in Slot : i # 0 => manager[i].stack_p = NULL
    BY DEF TidyTable
  <2>2. manager \in Table
    BY DEF TypeOK
  <2>. QED
    BY <1>4, <1>8, <2>1, <2>2 DEF Table, process_info
<1>10. errf[j] = "open" => removed_err_file(pidOf[j], manager, nb_process) = j
  BY <1>5, <1>6, <1>7 DEF removed_err_file
<1>11. /\ errf'[j] # "open"
       /\ \A x \in Job : errf[x] # "open" => errf'[x] # "open"
  BY <1>10 DEF Closed
<1>12. \A x \in Job : state'[x] \notin {"requested"} \cup Unreaped
  BY <1>1, <1>2 DEF Open, Unreaped, Alive
<1>13. OneOpen'
  BY <1>12 DEF OneOpen, Open
<1>14. TidyTable'
  BY <1>1, <1>9, <1>11, <1>12 DEF TidyTable
<1>. QED
  BY <1>13, <1>14

(* A step in which no child is launched, refused or waited for.            *)
LEMMA SteadyIsTidy ==
  ASSUME NoticeInv, OneOpen, TidyTable, IsFiniteSet(Job), Window = 1, [Next]_vars, Steady
  PROVE  OneOpen' /\ TidyTable'
<1>. TypeOK
  BY DEF NoticeInv, SafeInv, TypeInv
<1>1. UNCHANGED <<manager, nb_process, errf, pidOf>>
  BY DEF Steady, tabVars
<1>2. \A x \in Job : /\ state'[x] \in Unreaped <=> state[x] \in Unreaped
                     /\ state'[x] = "reaped" <=> state[x] = "reaped"
  BY DEF Steady, Moves, Unreaped, Alive
<1>3. TidyTable'
  <2>1. \A i \in Slot : manager[i].stack_p # NULL => manager[i].stack_p \in Job
    BY DEF TypeOK, Table, process_info
  <2>. QED
    BY <1>1, <1>2, <2>1 DEF TidyTable
<1>4. CASE \E k \in Job : state[k] = "unborn" /\ state'[k] = "requested"
  <2>1. PICK k \in Job : state[k] = "unborn" /\ state'[k] = "requested"
    BY <1>4
  <2>2. PICK c \in Conn : SendRun(c, k)
    BY <2>1, OnlySendRun
  <2>3. \A j \in Job : ~Open(j)
    BY <2>2, AsksWhenIdle
  <2>4. \A j \in Job : j # k => state'[j] = state[j]
    BY <2>2 DEF SendRun, TypeOK
  <2>5. OneOpen'
    BY <2>3, <2>4 DEF OneOpen, Open
  <2>. QED
    BY <1>3, <2>5
<1>5. CASE ~\E k \in Job : state[k] = "unborn" /\ state'[k] = "requested"
  <2>1. \A j \in Job : Open(j)' => Open(j)
    BY <1>2, <1>5 DEF Open, Steady, Moves
  <2>2. OneOpen'
    BY <2>1 DEF OneOpen
  <2>. QED
    BY <1>3, <2>2
<1>. QED
  BY <1>4, <1>5

(* The table stays tidy.                                                   *)
LEMMA IdleInductive ==
  ASSUME "stop" \notin Env, IsFiniteSet(Job), Window = 1
  PROVE  IdleInv /\ [Next]_vars => IdleInv'
<1>. SUFFICES ASSUME IdleInv, [Next]_vars PROVE IdleInv'
  OBVIOUS
<1>1. CountInv' /\ CountInv /\ EndedInv /\ NoticeInv /\ TypeOK
  BY CountInductive DEF IdleInv, CountInv, EndedInv, NoticeInv, SafeInv, TypeInv
<1>2. CASE ~Up'
  BY <1>1, <1>2 DEF IdleInv
<1>3. CASE Up'
  <2>1. Up
    BY <1>3, NextIsUp DEF vars, Up
  <2>2. OneOpen /\ TidyTable /\ nb_process = Cardinality(Children)
    BY <1>1, <2>1 DEF IdleInv, CountInv
  <2>3. ASSUME Steady PROVE OneOpen' /\ TidyTable'
    BY <1>1, <2>2, <2>3, SteadyIsTidy
  <2>4. ASSUME NEW j \in Job, NEW p \in Pid, NEW fd \in Job \cup {STDOUT}, Starts(j, p, fd)
        PROVE  OneOpen' /\ TidyTable'
    BY <1>1, <2>2, <2>4, StartIsTidy
  <2>5. ASSUME NEW j \in Job, NEW fd, Turned(j, fd) PROVE OneOpen' /\ TidyTable'
    <3>1. /\ state[j] = "requested" /\ state'[j] = "refused"
          /\ \A x \in Job : x # j => state'[x] = state[x] /\ errf'[x] = errf[x]
          /\ manager' = manager /\ pidOf' = pidOf
      BY <1>1, <2>5 DEF Turned, TypeOK
    <3>2. \A i \in Slot : manager[i].stack_p # NULL => manager[i].stack_p \in Job
      BY <1>1 DEF TypeOK, Table, process_info
    <3>3. "refused" \notin {"requested", "reaped"} \cup Unreaped /\ "requested" \notin Unreaped
      BY DEF Unreaped, Alive
    <3>4. OneOpen'
      BY <2>2, <3>1, <3>3 DEF OneOpen, Open
    <3>5. TidyTable'
      BY <2>2, <3>1, <3>2, <3>3 DEF TidyTable
    <3>. QED
      BY <3>4, <3>5
  <2>6. ASSUME NEW j \in Job, Reaped(j) PROVE OneOpen' /\ TidyTable'
    <3>1. /\ Removes(pidOf[j])
          /\ errf' = Closed({removed_err_file(pidOf[j], manager, nb_process)})
      BY <1>3, <2>6 DEF Reaped
    <3>. QED
      BY <1>1, <2>2, <2>6, <3>1, ReapIsTidy
  <2>7. ~Terminates
    BY <1>3 DEF Terminates
  <2>8. OneOpen' /\ TidyTable'
    BY <1>1, <2>3, <2>4, <2>5, <2>6, <2>7, StepKinds
  <2>. QED
    BY <1>1, <2>8 DEF IdleInv
<1>. QED
  BY <1>2, <1>3

(* A client that waits for the end of each job before it asks for the next *)
(* leaves nothing behind: between two jobs the table is empty, nb_process  *)
(* is 0 and the error file of every process is closed, although the scan   *)
(* of manager_remove_process is bounded by the count and not by the table. *)
(* With stops, or two jobs at a time, this does not hold.                  *)
THEOREM CleanBetweenJobs ==
  ASSUME "stop" \notin Env, IsFiniteSet(Job), Window = 1
  PROVE  Spec => []IdleIsClean
<1>1. Init => IdleInv
  <2>. SUFFICES ASSUME Init PROVE IdleInv
    OBVIOUS
  <2>1. /\ \A j \in Job : state[j] = "unborn"
        /\ \A i \in Slot : manager[i].stack_p = NULL
    BY DEF Init, create_process_manager
  <2>2. OneOpen /\ TidyTable
    BY <2>1 DEF OneOpen, Open, TidyTable, Unreaped, Alive
  <2>. QED
    BY <2>2, CountInit DEF IdleInv
<1>2. IdleInv => IdleIsClean
  <2>. SUFFICES ASSUME IdleInv, Up, \A j \in Job : state[j] \notin Unreaped
                PROVE  /\ Occupied(manager) = {} /\ nb_process = 0
                       /\ \A j \in Job : state[j] = "reaped" => errf[j] # "open"
    BY DEF IdleIsClean
  <2>1. TidyTable /\ nb_process = Cardinality(Children) /\ TypeOK
    BY DEF IdleInv, CountInv, EndedInv, NoticeInv, SafeInv, TypeInv
  <2>2. Children = {}
    BY DEF Children
  <2>3. nb_process = 0
    BY <2>1, <2>2, FS_EmptySet
  <2>4. Occupied(manager) = {}
    BY <2>1 DEF TidyTable, Occupied, TypeOK, Table, process_info
  <2>. QED
    BY <2>1, <2>3, <2>4 DEF TidyTable
<1>3. IdleInv /\ [Next]_vars => IdleInv'
  BY IdleInductive
<1>. QED
  BY <1>1, <1>2, <1>3, PTL DEF Spec

-----------------------------------------------------------------------------
(* Clients that keep no more jobs under way than the table has records.    *)

OpenJobs == {j \in Job : Open(j)}

WindowInv == CountInv /\ Cardinality(OpenJobs) <= Window

(* A job is opened by its request only.                                    *)
LEMMA OpenedByRequest ==
  ASSUME NEW k \in Job, JobStep(k), Open(k)'
  PROVE  Open(k) \/ (state[k] = "unborn" /\ state'[k] = "requested")
BY DEF JobStep, Same, Asks, Execs, Ends, Pauses, Launches, Refuses, ExecTold, Reaps,
       ReapedAgain, Open, Unreaped, Alive

(* A client asks while fewer jobs than Window are open.                    *)
LEMMA RequestFitsWindow ==
  ASSUME NoticeInv, IsFiniteSet(Job), NEW c \in Conn, NEW k \in Job, SendRun(c, k)
  PROVE  Cardinality(OpenJobs) < Window
<1>. DEFINE Way == {j \in Job : UnderWay(j)}
<1>1. OpenJobs \subseteq Way
  BY OpenIsUnderWay DEF OpenJobs
<1>2. Cardinality(Way) < Window
  BY DEF SendRun
<1>3. IsFiniteSet(Way)
  BY FS_Subset
<1>. HIDE DEF Way
<1>4. /\ Cardinality(OpenJobs) <= Cardinality(Way)
      /\ Cardinality(OpenJobs) \in Nat /\ Cardinality(Way) \in Nat
  BY <1>1, <1>3, FS_Subset, FS_CardinalityType
<1>. QED
  BY <1>2, <1>4, BoundAssumption

(* No more jobs than Window are open at a time.                            *)
LEMMA WindowInductive ==
  ASSUME IsFiniteSet(Job), "stop" \notin Env
  PROVE  WindowInv /\ [Next]_vars => WindowInv'
<1>. SUFFICES ASSUME WindowInv, [Next]_vars PROVE WindowInv'
  OBVIOUS
<1>1. CountInv' /\ NoticeInv /\ NoticeInv' /\ TypeOK /\ TypeOK' /\ Consistent
  BY CountInductive, NoticeInductive
     DEF WindowInv, CountInv, EndedInv, NoticeInv, SafeInv, TypeInv
<1>2. /\ IsFiniteSet(OpenJobs) /\ Cardinality(OpenJobs) \in Nat
      /\ Cardinality(OpenJobs) <= Window
  BY FS_Subset, FS_CardinalityType DEF WindowInv, OpenJobs
<1>3. ASSUME NEW S, S = OpenJobs, OpenJobs' \subseteq S
      PROVE  Cardinality(OpenJobs') <= Window
  <2>1. PICK T : T = OpenJobs'
    OBVIOUS
  <2>2. IsFiniteSet(S) /\ T \subseteq S /\ Cardinality(S) <= Window /\ Cardinality(S) \in Nat
    BY <1>2, <1>3, <2>1
  <2>3. Cardinality(T) <= Cardinality(S) /\ Cardinality(T) \in Nat
    BY <2>2, FS_Subset, FS_CardinalityType
  <2>. QED
    BY <2>1, <2>2, <2>3, BoundAssumption
<1>4. CASE UNCHANGED vars
  <2>1. OpenJobs' = OpenJobs
    BY <1>4 DEF OpenJobs, Open, vars, jobVars
  <2>. QED
    BY <1>1, <1>3, <2>1 DEF WindowInv
<1>5. CASE Next
  <2>1. \A k \in Job : JobStep(k)
    BY <1>1, <1>5, ClientJobStep, ChildJobStep, DaemonJobStep DEF Next
  <2>2. CASE \E k \in Job : state[k] = "unborn" /\ state'[k] = "requested"
    <3>1. PICK k \in Job : state[k] = "unborn" /\ state'[k] = "requested"
      BY <2>2
    <3>2. PICK c \in Conn : SendRun(c, k)
      BY <1>1, <3>1, OnlySendRun
    <3>3. \A x \in Job : x # k => state'[x] = state[x]
      BY <1>1, <3>2 DEF SendRun, TypeOK
    <3>4. Cardinality(OpenJobs) < Window
      BY <1>1, <3>2, RequestFitsWindow
    <3>5. OpenJobs' \subseteq OpenJobs \cup {k}
      BY <3>3 DEF OpenJobs, Open
    <3>6. PICK S : S = OpenJobs
      OBVIOUS
    <3>7. PICK T : T = OpenJobs'
      OBVIOUS
    <3>8. IsFiniteSet(S) /\ T \subseteq S \cup {k} /\ Cardinality(S) < Window
      BY <1>2, <3>4, <3>5, <3>6, <3>7
    <3>9. /\ IsFiniteSet(S \cup {k})
          /\ Cardinality(S \cup {k}) \in {Cardinality(S), Cardinality(S) + 1}
          /\ Cardinality(S) \in Nat
      BY <3>8, FS_AddElement, FS_CardinalityType
    <3>10. Cardinality(T) <= Cardinality(S \cup {k}) /\ Cardinality(T) \in Nat
      BY <3>8, <3>9, FS_Subset, FS_CardinalityType
    <3>11. Cardinality(T) <= Window
      BY <3>8, <3>9, <3>10, BoundAssumption
    <3>. QED
      BY <1>1, <3>7, <3>11 DEF WindowInv
  <2>3. CASE ~\E k \in Job : state[k] = "unborn" /\ state'[k] = "requested"
    <3>1. OpenJobs' \subseteq OpenJobs
      BY <2>1, <2>3, OpenedByRequest DEF OpenJobs
    <3>. QED
      BY <1>1, <1>3, <3>1 DEF WindowInv
  <2>. QED
    BY <2>2, <2>3
<1>. QED
  BY <1>4, <1>5

(* Children are open jobs, so that the count stays within the table.       *)
LEMMA NeverFull ==
  ASSUME WindowInv, Up, IsFiniteSet(Job), Window <= MAX_PROCESS
  PROVE  ~Full
<1>1. nb_process = Cardinality(Children)
  BY DEF WindowInv, CountInv
<1>2. Children \subseteq OpenJobs
  BY DEF Children, OpenJobs, Open
<1>3. IsFiniteSet(OpenJobs)
  BY FS_Subset DEF OpenJobs
<1>4. /\ Cardinality(Children) \in Nat /\ Cardinality(OpenJobs) \in Nat
      /\ Cardinality(Children) <= Cardinality(OpenJobs)
  BY <1>2, <1>3, FS_Subset, FS_CardinalityType
<1>. QED
  BY <1>1, <1>4, BoundAssumption DEF Full, WindowInv

(* Clients that between them keep at most MAX_PROCESS jobs under way, of   *)
(* however many in all, never fill the table beyond its end.  As long as   *)
(* no child is stopped and pipe, accept and epoll_ctl do not fail, the     *)
(* daemon then ends because it is asked to or because of a client that has *)
(* left or half a message, and messages of no known type, late kills and   *)
(* the order of clients do not end it.                                     *)
THEOREM EndsOnlyForAReason ==
  ASSUME "pipe" \notin Env, "epoll" \notin Env, "stop" \notin Env,
         IsFiniteSet(Job), Window <= MAX_PROCESS
  PROVE  Spec => []EndsForAReason
<1>1. Init => WindowInv /\ EndsForAReason
  <2>. SUFFICES ASSUME Init PROVE WindowInv /\ EndsForAReason
    OBVIOUS
  <2>1. OpenJobs = {}
    BY DEF Init, OpenJobs, Open, Unreaped, Alive
  <2>2. Cardinality(OpenJobs) = 0
    BY <2>1, FS_EmptySet
  <2>. QED
    BY <2>2, CountInit, BoundAssumption DEF WindowInv, Init, EndsForAReason
<1>2. WindowInv /\ EndsForAReason /\ [Next]_vars => WindowInv' /\ EndsForAReason'
  <2>. SUFFICES ASSUME WindowInv, EndsForAReason, [Next]_vars
                PROVE  WindowInv' /\ EndsForAReason'
    OBVIOUS
  <2>1. WindowInv'
    BY WindowInductive
  <2>2. ASSUME Next PROVE EndsForAReason'
    <3>1. ~Full
      BY <2>2, NextIsUp, NeverFull
    <3>2. EndsWell
      BY <2>2, StepEndsWell DEF WindowInv, CountInv, EndedInv, NoticeInv
    <3>. QED
      BY <3>1, <3>2 DEF EndsWell, EndsForAReason
  <2>3. ASSUME UNCHANGED vars PROVE EndsForAReason'
    BY <2>3 DEF EndsForAReason, vars, connVars
  <2>. QED
    BY <2>1, <2>2, <2>3
<1>. QED
  BY <1>1, <1>2, PTL DEF Spec

-----------------------------------------------------------------------------
(* The error files.                                                        *)

(* A record shows the error file of one job, launched with the pid of the  *)
(* record and shown by no other record; the file is open as long as the    *)
(* record is occupied or the process is there.                             *)
FilesInv ==
    /\ \A i \in Slot : \A x \in Job : manager[i].err_file = x =>
          /\ state[x] \in Launched
          /\ manager[i].child_id = pidOf[x]
          /\ state[x] \in Unreaped => errf[x] = "open"
          /\ manager[i].stack_p # NULL => errf[x] = "open"
          /\ \A k \in Slot : manager[k].err_file = x => k = i
    /\ \A x \in Job : errf[x] \in {"closed", "reclosed"} => state[x] = "reaped"

(* It is kept by what leaves the table and the files alone.                *)
LEMMA FilesKept ==
    ASSUME FilesInv, UNCHANGED <<manager, pidOf, errf>>,
           \A x \in Job : /\ state[x] \in Launched => state'[x] \in Launched
                          /\ state'[x] \in Unreaped => state[x] \in Unreaped
                          /\ state[x] = "reaped" => state'[x] = "reaped"
    PROVE  FilesInv'
<1>1. ASSUME NEW i \in Slot, NEW x \in Job, manager'[i].err_file = x
      PROVE  /\ state'[x] \in Launched
             /\ manager'[i].child_id = pidOf'[x]
             /\ state'[x] \in Unreaped => errf'[x] = "open"
             /\ manager'[i].stack_p # NULL => errf'[x] = "open"
             /\ \A k \in Slot : manager'[k].err_file = x => k = i
  <2>1. manager[i].err_file = x
    BY <1>1
  <2>. QED
    BY <2>1 DEF FilesInv
<1>2. \A x \in Job : errf'[x] \in {"closed", "reclosed"} => state'[x] = "reaped"
  BY DEF FilesInv
<1>. QED
  BY <1>1, <1>2 DEF FilesInv

FileInv == EndedInv /\ ErrFileClosedOnce /\ (Up => FilesInv)

(* An error file that is open when it is closed is not closed twice.       *)
LEMMA CloseOnce ==
    ASSUME TypeOK, NEW S, errf' = Closed(S), UNCHANGED pidOf, ErrFileClosedOnce,
           \A x \in Job \cap S : \/ errf[x] = "open"
                                 \/ \E k \in Job \ {x} : pidOf[k] = pidOf[x]
    PROVE  ErrFileClosedOnce'
<1>1. \A x \in Job : errf'[x] = IF x \notin S THEN errf[x]
                               ELSE IF errf[x] = "open" THEN "closed" ELSE "reclosed"
  BY DEF Closed
<1>. QED
  BY <1>1 DEF ErrFileClosedOnce

(* A launch gives its record an error file of its own.                     *)
LEMMA StartKeepsFiles ==
    ASSUME TypeOK, Consistent, FilesInv, NEW j \in Job, NEW p \in Pid,
           NEW fd \in Job \cup {STDOUT}, Starts(j, p, fd)
    PROVE  FilesInv'
<1>1. /\ state'[j] = "cloned" /\ pidOf'[j] = p
      /\ \A x \in Job : x # j => /\ state'[x] = state[x] /\ pidOf'[x] = pidOf[x]
                                 /\ errf'[x] = errf[x]
      /\ errf'[j] = ErrFileState(fd) /\ fd \in {j, STDOUT}
  BY DEF Starts, TypeOK
<1>2. \A i \in Slot : manager[i].err_file # j
  BY DEF FilesInv, Starts, Launched, Unreaped, Alive
<1>3. fd = j => errf'[j] = "open"
  BY <1>1 DEF ErrFileState
<1>4. errf'[j] \notin {"closed", "reclosed"}
  BY <1>1 DEF ErrFileState
<1>5. manager \in Table /\ nb_process \in Int
  BY DEF TypeOK
<1>6. \/ manager' = manager
      \/ \E l \in Slot : /\ manager'[l].stack_p = j /\ manager'[l].child_id = p
                         /\ manager'[l].err_file = fd
                         /\ \A i \in Slot : i # l => manager'[i] = manager[i]
  BY <1>5, AddEffect DEF Starts, Adds
<1>7. \A x \in Job : errf'[x] \in {"closed", "reclosed"} => state'[x] = "reaped"
  BY <1>1, <1>4 DEF FilesInv
<1>8. CASE manager' = manager
  BY <1>1, <1>2, <1>7, <1>8 DEF FilesInv
<1>9. ASSUME NEW l \in Slot, manager'[l].stack_p = j, manager'[l].child_id = p,
             manager'[l].err_file = fd, \A i \in Slot : i # l => manager'[i] = manager[i]
      PROVE  FilesInv'
  <2>. SUFFICES ASSUME NEW i \in Slot, NEW x \in Job, manager'[i].err_file = x
                PROVE  /\ state'[x] \in Launched
                       /\ manager'[i].child_id = pidOf'[x]
                       /\ state'[x] \in Unreaped => errf'[x] = "open"
                       /\ manager'[i].stack_p # NULL => errf'[x] = "open"
                       /\ \A k \in Slot : manager'[k].err_file = x => k = i
    BY <1>7 DEF FilesInv
  <2>1. CASE i = l
    <3>1. x = j /\ fd = j
      BY <1>1, <1>9, <2>1
    <3>2. \A k \in Slot : manager'[k].err_file = x => k = i
      BY <1>2, <1>9, <2>1, <3>1
    <3>3. state'[x] \in Launched
      BY <1>1, <3>1 DEF Launched, Unreaped, Alive
    <3>. QED
      BY <1>1, <1>3, <1>9, <2>1, <3>1, <3>2, <3>3
  <2>2. CASE i # l
    <3>1. manager[i].err_file = x /\ x # j /\ manager'[i] = manager[i]
      BY <1>2, <1>9, <2>2
    <3>2. fd # x
      BY <1>1, <3>1
    <3>. QED
      BY <1>1, <1>9, <3>1, <3>2 DEF FilesInv
  <2>. QED
    BY <2>1, <2>2
<1>. QED
  BY <1>6, <1>8, <1>9

(* The end of a child closes the file of a record that is then free.       *)
LEMMA ReapKeepsFiles ==
    ASSUME TypeOK, Consistent, FilesInv, ErrFileClosedOnce, NEW j \in Job, Reaped(j),
           Removes(pidOf[j]),
           errf' = Closed({removed_err_file(pidOf[j], manager, nb_process)})
    PROVE  FilesInv' /\ ErrFileClosedOnce'
<1>. DEFINE p == pidOf[j]
            f == removed_err_file(p, manager, nb_process)
<1>1. /\ state'[j] = "reaped" /\ state[j] = "zombie" /\ UNCHANGED pidOf
      /\ \A x \in Job : x # j => state'[x] = state[x]
  BY DEF Reaped, TypeOK
<1>2. \A x \in Job : errf'[x] = IF x # f THEN errf[x]
                               ELSE IF errf[x] = "open" THEN "closed" ELSE "reclosed"
  BY DEF Closed
<1>3. \/ manager' = manager /\ f = NULL
      \/ \E l \in Slot :
            /\ manager[l].child_id = p
            /\ manager'[l].stack_p = NULL /\ manager'[l].child_id = manager[l].child_id
            /\ manager'[l].err_file = manager[l].err_file
            /\ \A i \in Slot : i # l => manager'[i] = manager[i]
            /\ f = IF manager[l].err_file = STDOUT THEN NULL ELSE manager[l].err_file
  <2>1. manager \in Table /\ nb_process \in Int
    BY DEF TypeOK
  <2>. QED
    BY <2>1, RemoveEffect DEF Removes
<1>4. errf' = Closed({f})
  OBVIOUS
<1>. HIDE DEF f
<1>5. CASE manager' = manager /\ f = NULL
  <2>1. errf' = errf
    BY <1>4, <1>5 DEF Closed, TypeOK
  <2>2. FilesInv'
    <3>1. \A x \in Job : /\ state[x] \in Launched => state'[x] \in Launched
                         /\ state'[x] \in Unreaped => state[x] \in Unreaped
                         /\ state[x] = "reaped" => state'[x] = "reaped"
      BY <1>1 DEF Launched, Unreaped, Alive
    <3>. QED
      BY <1>1, <1>5, <2>1, <3>1, FilesKept
  <2>. QED
    BY <1>1, <2>1, <2>2 DEF ErrFileClosedOnce
<1>6. ASSUME NEW l \in Slot, manager[l].child_id = p,
             manager'[l].stack_p = NULL, manager'[l].child_id = manager[l].child_id,
             manager'[l].err_file = manager[l].err_file,
             \A i \in Slot : i # l => manager'[i] = manager[i],
             f = IF manager[l].err_file = STDOUT THEN NULL ELSE manager[l].err_file
      PROVE  FilesInv' /\ ErrFileClosedOnce'
  <2>1. \A x \in Job : x = f => manager[l].err_file = x
    BY <1>6
  <2>2. \A i \in Slot : /\ manager'[i].child_id = manager[i].child_id
                        /\ manager'[i].err_file = manager[i].err_file
    BY <1>6
  <2>3. \A x \in Job : x = f => /\ state'[x] = "reaped"
                                /\ x # j => pidOf[x] = p
                                /\ x = j => errf[x] = "open"
    <3>. SUFFICES ASSUME NEW x \in Job, x = f
                  PROVE  /\ state'[x] = "reaped"
                         /\ x # j => pidOf[x] = p
                         /\ x = j => errf[x] = "open"
      OBVIOUS
    <3>1. pidOf[x] = p /\ state[x] \in Launched /\ (state[x] \in Unreaped => errf[x] = "open")
      BY <1>6, <2>1 DEF FilesInv
    <3>2. x # j => state[x] \notin Unreaped
      BY <1>1, <3>1 DEF Consistent, PidInv, Unreaped
    <3>3. state[j] \in Unreaped
      BY <1>1 DEF Unreaped
    <3>. QED
      BY <1>1, <3>1, <3>2, <3>3 DEF Launched
  <2>4. ErrFileClosedOnce'
    <3>1. \A x \in Job \cap {f} : \/ errf[x] = "open"
                                  \/ \E k \in Job \ {x} : pidOf[k] = pidOf[x]
      BY <2>3
    <3>. QED
      BY <1>1, <1>4, <3>1, CloseOnce
  <2>5. \A x \in Job : errf'[x] \in {"closed", "reclosed"} => state'[x] = "reaped"
    BY <1>1, <1>2, <2>3 DEF FilesInv
  <2>6. ASSUME NEW i \in Slot, NEW x \in Job, manager[i].err_file = x
        PROVE  /\ state'[x] \in Launched
               /\ manager[i].child_id = pidOf'[x]
               /\ state'[x] \in Unreaped => errf'[x] = "open"
               /\ manager'[i].stack_p # NULL => errf'[x] = "open"
               /\ \A k \in Slot : manager[k].err_file = x => k = i
    <3>1. /\ state[x] \in Launched
          /\ manager[i].child_id = pidOf[x]
          /\ state[x] \in Unreaped => errf[x] = "open"
          /\ manager[i].stack_p # NULL => errf[x] = "open"
          /\ \A k \in Slot : manager[k].err_file = x => k = i
      BY <2>6 DEF FilesInv
    <3>2. state'[x] \in Launched /\ (state'[x] \in Unreaped => state[x] \in Unreaped)
      BY <1>1, <3>1 DEF Launched, Unreaped, Alive
    <3>3. CASE x = f
      <4>1. i = l /\ state'[x] = "reaped"
        BY <2>1, <2>3, <3>1, <3>3
      <4>. QED
        BY <1>1, <1>6, <3>1, <3>2, <4>1 DEF Unreaped, Alive
    <3>4. CASE x # f
      <4>1. errf'[x] = errf[x]
        BY <1>2, <3>4
      <4>2. manager'[i].stack_p # NULL => manager[i].stack_p # NULL
        BY <1>6
      <4>. QED
        BY <1>1, <3>1, <3>2, <4>1, <4>2
    <3>. QED
      BY <3>3, <3>4
  <2>7. FilesInv'
    <3>. SUFFICES ASSUME NEW i \in Slot, NEW x \in Job, manager'[i].err_file = x
                  PROVE  /\ state'[x] \in Launched
                         /\ manager'[i].child_id = pidOf'[x]
                         /\ state'[x] \in Unreaped => errf'[x] = "open"
                         /\ manager'[i].stack_p # NULL => errf'[x] = "open"
                         /\ \A k \in Slot : manager'[k].err_file = x => k = i
      BY <2>5 DEF FilesInv
    <3>1. manager[i].err_file = x
      BY <2>2
    <3>2. /\ manager'[i].child_id = manager[i].child_id
          /\ \A k \in Slot : manager'[k].err_file = x => manager[k].err_file = x
      BY <2>2
    <3>3. /\ state'[x] \in Launched
          /\ manager[i].child_id = pidOf'[x]
          /\ state'[x] \in Unreaped => errf'[x] = "open"
          /\ manager'[i].stack_p # NULL => errf'[x] = "open"
          /\ \A k \in Slot : manager[k].err_file = x => k = i
      BY <2>6, <3>1
    <3>. QED
      BY <3>2, <3>3
  <2>. QED
    BY <2>4, <2>7
<1>. QED
  BY <1>3, <1>5, <1>6

(* What is known of the error files is inductive.                          *)
LEMMA FileInductive ==
    ASSUME "stop" \notin Env PROVE FileInv /\ [Next]_vars => FileInv'
<1>. SUFFICES ASSUME FileInv, [Next]_vars PROVE FileInv'
  OBVIOUS
<1>1. EndedInv'
  BY EndedInductive DEF FileInv
<1>2. EndedInv /\ TypeOK /\ Consistent /\ ErrFileClosedOnce /\ \A k \in Job : JobInv(k)
  BY DEF FileInv, EndedInv, NoticeInv, SafeInv, TypeInv
<1>3. CASE UNCHANGED vars
  BY <1>1, <1>2, <1>3 DEF FileInv, FilesInv, ErrFileClosedOnce, Up, vars, jobVars, tabVars
<1>4. CASE Next
  <2>1. Up /\ FilesInv
    BY <1>4, NextIsUp DEF FileInv
  <2>2. CASE Steady
    <3>1. \A x \in Job : /\ state[x] \in Launched <=> state'[x] \in Launched
                         /\ state'[x] \in Unreaped => state[x] \in Unreaped
                         /\ state[x] = "reaped" => state'[x] = "reaped"
      BY <2>2 DEF Steady, Moves, Launched, Unreaped, Alive
    <3>2. UNCHANGED <<manager, errf, pidOf>>
      BY <2>2 DEF Steady, tabVars
    <3>3. FilesInv'
      BY <2>1, <3>1, <3>2, FilesKept
    <3>. QED
      BY <1>1, <1>2, <3>2, <3>3 DEF FileInv, ErrFileClosedOnce
  <2>3. ASSUME NEW j \in Job, NEW fd \in Job \cup {NULL, STDOUT}, Turned(j, fd)
        PROVE  FileInv'
    <3>1. /\ state[j] = "requested" /\ state'[j] = "refused"
          /\ errf'[j] \notin {"closed", "reclosed"}
          /\ \A x \in Job : x # j => state'[x] = state[x] /\ errf'[x] = errf[x]
          /\ UNCHANGED <<manager, pidOf>>
      BY <1>2, <2>3 DEF Turned, TypeOK, ErrFileState
    <3>2. \A i \in Slot : manager[i].err_file # j
      BY <2>1, <3>1 DEF FilesInv, Launched, Unreaped, Alive
    <3>3. FilesInv'
      BY <2>1, <3>1, <3>2 DEF FilesInv
    <3>4. ErrFileClosedOnce'
      BY <1>2, <3>1 DEF ErrFileClosedOnce
    <3>. QED
      BY <1>1, <3>3, <3>4 DEF FileInv
  <2>4. ASSUME NEW j \in Job, NEW p \in Pid, NEW fd \in Job \cup {STDOUT}, Starts(j, p, fd)
        PROVE  FileInv'
    <3>1. FilesInv'
      BY <1>2, <2>1, <2>4, StartKeepsFiles
    <3>2. /\ pidOf[j] = NULL
          /\ \A x \in Job : x # j => pidOf'[x] = pidOf[x] /\ errf'[x] = errf[x]
          /\ errf'[j] # "reclosed"
      BY <1>2, <2>4 DEF Starts, TypeOK, ErrFileState
    <3>3. \A x \in Job : errf[x] = "reclosed" => pidOf[x] # NULL
      BY <1>2, <2>1 DEF FilesInv, Consistent, PidInv
    <3>4. ErrFileClosedOnce'
      BY <1>2, <3>2, <3>3 DEF ErrFileClosedOnce
    <3>. QED
      BY <1>1, <3>1, <3>4 DEF FileInv
  <2>5. ASSUME NEW j \in Job, Reaped(j) PROVE FileInv'
    <3>1. CASE ~Up' /\ UNCHANGED errf
      BY <1>1, <1>2, <2>5, <3>1 DEF FileInv, ErrFileClosedOnce, Reaped
    <3>2. CASE /\ Removes(pidOf[j])
               /\ errf' = Closed({removed_err_file(pidOf[j], manager, nb_process)})
      BY <1>1, <1>2, <2>1, <2>5, <3>2, ReapKeepsFiles DEF FileInv
    <3>. QED
      BY <2>5, <3>1, <3>2 DEF Reaped
  <2>6. CASE Terminates
    <3>1. CASE UNCHANGED errf
      BY <1>1, <1>2, <2>6, <3>1 DEF FileInv, ErrFileClosedOnce, Terminates
    <3>2. CASE errf' = Closed(free_manager(manager, nb_process))
      <4>1. \A x \in Job \cap free_manager(manager, nb_process) : errf[x] = "open"
        BY <2>1 DEF FilesInv, free_manager, Scanned, Occupied
      <4>2. ErrFileClosedOnce'
        BY <1>2, <2>6, <3>2, <4>1, CloseOnce DEF Terminates
      <4>. QED
        BY <1>1, <2>6, <4>2 DEF FileInv, Terminates
    <3>. QED
      BY <2>6, <3>1, <3>2 DEF Terminates
  <2>. QED
    BY <1>2, <2>2, <2>3, <2>4, <2>5, <2>6, StepKinds
<1>. QED
  BY <1>3, <1>4

(* As long as no child is stopped, the descriptor of an error file is      *)
(* closed once, unless its record was taken for that of a later process    *)
(* with the same pid.                                                      *)
THEOREM ErrFilesClosedOnce == ASSUME "stop" \notin Env PROVE Spec => []ErrFileClosedOnce
<1>1. Init => FileInv
  <2>. SUFFICES ASSUME Init PROVE FileInv
    OBVIOUS
  <2>1. FilesInv /\ ErrFileClosedOnce
    BY DEF Init, create_process_manager, FilesInv, ErrFileClosedOnce
  <2>. QED
    BY <2>1, EndedInit DEF FileInv
<1>2. FileInv => ErrFileClosedOnce
  BY DEF FileInv
<1>3. FileInv /\ [Next]_vars => FileInv'
  BY FileInductive
<1>. QED
  BY <1>1, <1>2, <1>3, PTL DEF Spec
=============================================================================
