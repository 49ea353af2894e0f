----------------------------- MODULE RustProofs -----------------------------
(***************************************************************************)
(* Proofs about the Rust daemon, for any number of connections, jobs,      *)
(* watches and threads, and whatever the environment does: the type        *)
(* invariant, NoOrphan, OneAtATime, and that the notices keep to the       *)
(* protocol of module Jobs.                                                *)
(*                                                                         *)
(* What has to be known is how far a job is, seen from three sides: the    *)
(* task that handles it, its process and its notices.  Stage ties them     *)
(* together, Asked and Owned say that a request is read once and by one    *)
(* task.                                                                   *)
(***************************************************************************)
EXTENDS RustDaemon, TLAPS, SequenceTheorems

Answer == <<"ProcessLaunched">>
Settled == {<<"ProcessLaunched", "ExecveTerminated">>,
            <<"ProcessLaunched", "ChildCreationError">>}
Closed == {<<"ProcessLaunched", "ExecveTerminated", "ProcessTerminated">>,
           <<"ProcessLaunched", "ChildCreationError", "ProcessTerminated">>}

(* No job has two tasks.                                                   *)
Owned ==
    \A c, d \in Conn : task[c].job = task[d].job /\ task[c].job # NULL => c = d

(* Where the task is, what has become of the process and what was told.    *)
StageOf(c) ==
    LET j == task[c].job IN
    /\ task[c].pc = "exec" =>
          mail[j] = Answer /\ child[j] \in {"alive", "zombie"}
    /\ task[c].pc \in {"absent", "refused"} =>
          mail[j] = Answer /\ child[j] = "none"
    /\ task[c].pc = "wait" =>
          mail[j] \in Settled /\ child[j] \in {"alive", "zombie"}
    /\ task[c].pc \in Behind =>
          mail[j] \in Settled /\ child[j] \in {"reaped", "none"}
    /\ task[c].pc = "dead" /\ j # NULL =>
          mail[j] \in Settled /\ child[j] \in {"reaped", "none"}
Stage == \A c \in Conn : StageOf(c)

(* A job without a task is not begun or was told to be over.               *)
Unowned ==
    \A j \in Job :
        \/ \E c \in Conn : task[c].job = j
        \/ child[j] \in {"unborn", "asked"} /\ mail[j] = <<>>
        \/ child[j] \in {"reaped", "none"} /\ mail[j] \in Closed

(* A connection has one message at most; a request in it is that of a job  *)
(* that is not begun, and no other connection has the same.                *)
Asked ==
    /\ \A c \in Conn : inbox[c] # <<>> =>
          LET m == inbox[c][1] IN
          /\ inbox[c] = <<m>>
          /\ m.type \in {"run", "kill"} => m.job \in Job
          /\ m.type = "run" => child[m.job] = "asked"
    /\ \A c, d \in Conn :
          (/\ inbox[c] # <<>> /\ inbox[d] # <<>>
           /\ inbox[c][1].type = "run" /\ inbox[d][1].type = "run"
           /\ inbox[c][1].job = inbox[d][1].job) => c = d

Inv == VarTypes /\ Employed /\ Owned /\ Stage /\ Unowned /\ Asked

-----------------------------------------------------------------------------
USE NullAssumption

(* Every connection starts without a task, every job without a process.    *)
LEMMA InitInv == Init => Inv
<1> SUFFICES ASSUME Init PROVE Inv
  OBVIOUS
<1>1. VarTypes
  BY DEF Init, VarTypes, Idle, Pc, Message, Types
<1>2. Employed /\ Owned /\ Stage /\ Unowned /\ Asked
  BY DEF Init, Employed, Owned, Stage, StageOf, Unowned, Asked, Idle, Busy, Behind
<1>. QED
  BY <1>1, <1>2 DEF Inv

Task == [pc : Pc, job : Job \cup {NULL}, at : Nat]
Tasks == [Conn -> Task]

(* Goto changes the place of one task and nothing else.                    *)
LEMMA GotoFacts ==
  ASSUME VarTypes, NEW c \in Conn, NEW p \in Pc, Goto(c, p)
  PROVE  /\ task' \in Tasks
         /\ \A d \in Conn : d # c => task'[d] = task[d]
         /\ task'[c].pc = p /\ task'[c].job = task[c].job
<1>. DEFINE t == [task[c] EXCEPT !.pc = p]
<1>1. task \in Tasks
  BY DEF VarTypes, Tasks, Task
<1>2. t \in Task /\ t.pc = p /\ t.job = task[c].job
  BY <1>1 DEF Tasks, Task
<1>3. task' = [task EXCEPT ![c] = t]
  BY DEF Goto
<1>. HIDE DEF t
<1>. QED
  BY <1>1, <1>2, <1>3 DEF Tasks

(* NextWatch also counts.                                                  *)
LEMMA NextWatchFacts ==
  ASSUME VarTypes, NEW c \in Conn, NextWatch(c)
  PROVE  /\ task' \in Tasks
         /\ \A d \in Conn : d # c => task'[d] = task[d]
         /\ task'[c].pc = "watch" /\ task'[c].job = task[c].job
<1>. DEFINE t == [pc |-> "watch", job |-> task[c].job, at |-> task[c].at + 1]
<1>1. task \in Tasks
  BY DEF VarTypes, Tasks, Task
<1>2. t \in Task /\ t.pc = "watch" /\ t.job = task[c].job
  BY <1>1 DEF Tasks, Task, Pc
<1>3. task' = [task EXCEPT ![c] = t]
  BY <1>1 DEF NextWatch, Tasks, Task
<1>. HIDE DEF t
<1>. QED
  BY <1>1, <1>2, <1>3 DEF Tasks

(* What the steps of a task that neither read, tell nor touch a process    *)
(* have in common: accept, the watches, and the panics.                    *)
Moves(c) ==
    /\ UNCHANGED <<child, mail>>
    /\ task' \in Tasks
    /\ \A d \in Conn : d # c => task'[d] = task[d]
    /\ task'[c].job = task[c].job
    /\ \/ task[c].pc \in {"none", "read"} /\ task'[c].pc \in {"read", "dead"}
       \/ task[c].pc \in Behind /\ task'[c].pc \in Behind \cup {"dead"}

(* A move of one task leaves every job where it was.                       *)
LEMMA MovesKeep ==
  ASSUME Inv, NEW c \in Conn, Moves(c)
  PROVE  Employed' /\ Owned' /\ Stage' /\ Unowned'
<1>1. \A d \in Conn : task'[d].job = task[d].job
  BY DEF Moves
<1>2. Employed'
  BY <1>1 DEF Inv, Employed, Moves, Busy, Behind
<1>3. Owned'
  BY <1>1 DEF Inv, Owned
<1>4. Stage'
  BY <1>1 DEF Inv, Employed, Stage, StageOf, Moves, Busy, Behind
<1>5. Unowned'
  BY <1>1 DEF Inv, Unowned, Moves
<1>. QED
  BY <1>2, <1>3, <1>4, <1>5

(* The plain steps of a task: they are moves, and keep the invariant.      *)
LEMMA PlainSteps ==
  ASSUME Inv, NEW c \in Conn,
         \/ Accept(c)
         \/ ReadEnd(c)
         \/ WatchFile(c)
         \/ WatchFilePanics(c)
         \/ WatchUnknown(c)
         \/ WaitForFile(c)
         \/ FileEvent(c)
         \/ FileEventPanics(c)
         \/ WatchPort(c)
         \/ PortFound(c)
         \/ WatchesDone(c)
  PROVE  Inv'
<1>. VarTypes
  BY DEF Inv
<1>1. ASSUME Accept(c) PROVE Moves(c)
  BY <1>1, GotoFacts DEF Accept, At, Moves, Pc, Behind
<1>2. ASSUME ReadEnd(c) PROVE Moves(c)
  BY <1>2, GotoFacts DEF ReadEnd, At, Moves, Pc, Behind
<1>3. ASSUME WatchFile(c) PROVE Moves(c)
  BY <1>3, GotoFacts DEF WatchFile, At, Moves, Pc, Behind
<1>4. ASSUME WatchFilePanics(c) \/ WatchUnknown(c) PROVE Moves(c)
  BY <1>4, GotoFacts DEF WatchFilePanics, WatchUnknown, At, Panic, Moves, Pc, Behind
<1>5. ASSUME WaitForFile(c) PROVE Moves(c)
  BY <1>5, GotoFacts DEF WaitForFile, At, Moves, Pc, Behind
<1>6. ASSUME FileEvent(c) PROVE Moves(c)
  BY <1>6, NextWatchFacts DEF FileEvent, Moves, Pc, Behind
<1>7. ASSUME FileEventPanics(c) PROVE Moves(c)
  BY <1>7, GotoFacts DEF FileEventPanics, Panic, Moves, Pc, Behind
<1>8. ASSUME WatchPort(c) PROVE Moves(c)
  BY <1>8, GotoFacts DEF WatchPort, At, Moves, Pc, Behind
<1>9. ASSUME PortFound(c) PROVE Moves(c)
  BY <1>9, NextWatchFacts DEF PortFound, At, Moves, Pc, Behind
<1>10. ASSUME WatchesDone(c) PROVE Moves(c)
  BY <1>10, GotoFacts DEF WatchesDone, At, Moves, Pc, Behind
<1>11. UNCHANGED inbox /\ conn' \in [Conn -> {"none", "backlog", "open", "closed"}]
      /\ UNCHANGED <<gone, daemon>>
  BY DEF VarTypes, Accept, ReadEnd, WatchFile, WatchFilePanics, WatchUnknown, WaitForFile,
         FileEvent, FileEventPanics, WatchPort, PortFound, WatchesDone, At, Panic
<1>12. Moves(c)
  BY <1>1, <1>2, <1>3, <1>4, <1>5, <1>6, <1>7, <1>8, <1>9, <1>10
<1>13. VarTypes'
  BY <1>11, <1>12 DEF VarTypes, Moves, Tasks, Task
<1>14. Asked'
  BY <1>11, <1>12 DEF Inv, Asked, Moves
<1>. QED
  BY <1>12, <1>13, <1>14, MovesKeep DEF Inv
-----------------------------------------------------------------------------
(* A message is taken from a connection, which has none left.              *)
LEMMA TakeFacts ==
  ASSUME Inv, NEW c \in Conn, inbox[c] # <<>>,
         inbox' = [inbox EXCEPT ![c] = Tail(@)]
  PROVE  /\ inbox' \in [Conn -> Seq(Message)]
         /\ inbox'[c] = <<>>
         /\ \A d \in Conn : d # c => inbox'[d] = inbox[d]
         /\ Head(inbox[c]) = inbox[c][1]
<1>1. inbox \in [Conn -> Seq(Message)] /\ inbox[c] \in Seq(Message)
  BY DEF Inv, VarTypes
<1>2. PICK m : inbox[c] = <<m>>
  BY DEF Inv, Asked
<1>3. Tail(inbox[c]) = <<>> /\ Head(inbox[c]) = inbox[c][1]
  BY <1>2
<1>4. <<>> \in Seq(Message)
  OBVIOUS
<1>. QED
  BY <1>1, <1>3, <1>4

(* What is left to be read after that is as it was, if no job that was     *)
(* asked for on another connection has changed.                            *)
LEMMA TakeKeepsAsked ==
  ASSUME Inv, NEW c \in Conn, inbox[c] # <<>>,
         inbox' = [inbox EXCEPT ![c] = Tail(@)],
         \A d \in Conn : d # c /\ inbox[d] # <<>> /\ inbox[d][1].type = "run" =>
              child'[inbox[d][1].job] = "asked"
  PROVE  Asked'
<1>1. inbox'[c] = <<>> /\ \A d \in Conn : d # c => inbox'[d] = inbox[d]
  BY TakeFacts
<1>. QED
  BY <1>1 DEF Inv, Asked

(* Processes end, and nothing else happens to a job.                       *)
Ends ==
    /\ child' \in [Job -> {"unborn", "asked", "alive", "zombie", "reaped", "none"}]
    /\ \A j \in Job : \/ child'[j] = child[j]
                      \/ child[j] = "alive" /\ child'[j] = "zombie"
    /\ UNCHANGED <<task, mail>>

(* The end of a process disturbs no stage: a process that may end has its  *)
(* task before child.wait or at it.                                        *)
LEMMA EndsKeep ==
  ASSUME Inv, Ends
  PROVE  Employed' /\ Owned' /\ Stage' /\ Unowned'
<1>1. Employed' /\ Owned'
  BY DEF Inv, Employed, Owned, Ends
<1>2. Stage'
  <2>1. \A c \in Conn : task[c].job # NULL => task[c].job \in Job
    BY DEF Inv, VarTypes
  <2>. QED
    BY <2>1 DEF Inv, Employed, Busy, Behind, Stage, StageOf, Ends
<1>3. Unowned'
  BY DEF Inv, Unowned, Ends
<1>. QED
  BY <1>1, <1>2, <1>3

(* What clients do before the daemon reads it.                             *)
LEMMA ClientSteps ==
  ASSUME Inv, NEW c \in Conn,
         \/ Connect(c)
         \/ Leave(c)
         \/ \E j \in Job : SendRun(c, j) \/ SendKill(c, j)
         \/ \E type \in EnvMoves : SendPlain(c, type)
  PROVE  Inv'
<1>1. CASE Connect(c) \/ Leave(c)
  <2>1. VarTypes'
    BY <1>1 DEF Inv, VarTypes, Connect, Leave
  <2>2. UNCHANGED <<inbox, task, child, mail>>
    BY <1>1 DEF Connect, Leave
  <2>. QED
    BY <2>1, <2>2 DEF Inv, Employed, Owned, Stage, StageOf, Unowned, Asked
<1>2. ASSUME NEW j \in Job, SendRun(c, j) PROVE Inv'
  <2>. DEFINE m == [type |-> "run", job |-> j]
  <2>1. m \in Message /\ m.type = "run" /\ m.job = j
    BY DEF Message
  <2>2. inbox' = [inbox EXCEPT ![c] = <<m>>] /\ inbox[c] = <<>>
    BY <1>2 DEF SendRun, Put
  <2>3. child[j] = "unborn" /\ child' = [child EXCEPT ![j] = "asked"]
    BY <1>2 DEF SendRun
  <2>4. UNCHANGED <<conn, gone, task, mail, daemon>>
    BY <1>2 DEF SendRun, Put
  <2>. HIDE DEF m
  <2>5. VarTypes'
    BY <2>1, <2>2, <2>3, <2>4 DEF Inv, VarTypes
  <2>6. Employed' /\ Owned'
    BY <2>4 DEF Inv, Employed, Owned
  <2>7. Stage'
    BY <2>3, <2>4 DEF Inv, VarTypes, Employed, Stage, StageOf, Busy, Behind
  <2>8. Unowned'
    BY <2>3, <2>4 DEF Inv, VarTypes, Unowned
  <2>9. Asked'
    BY <2>1, <2>2, <2>3 DEF Inv, VarTypes, Asked
  <2>. QED
    BY <2>5, <2>6, <2>7, <2>8, <2>9 DEF Inv
<1>3. ASSUME NEW m \in Message, Put(c, m), UNCHANGED child,
             m.type # "run", m.type = "kill" => m.job \in Job
      PROVE  Inv'
  <2>1. VarTypes'
    BY <1>3 DEF Inv, VarTypes, Put
  <2>2. Employed' /\ Owned' /\ Stage' /\ Unowned'
    BY <1>3 DEF Inv, Employed, Owned, Stage, StageOf, Unowned, Put
  <2>3. inbox'[c] = <<m>> /\ \A d \in Conn : d # c => inbox'[d] = inbox[d]
    BY <1>3 DEF Inv, VarTypes, Put
  <2>4. Asked'
    BY <1>3, <2>3 DEF Inv, Asked
  <2>. QED
    BY <2>1, <2>2, <2>4 DEF Inv
<1>4. ASSUME NEW j \in Job, SendKill(c, j) PROVE Inv'
  <2>1. [type |-> "kill", job |-> j] \in Message
    BY DEF Message
  <2>. QED
    BY <1>3, <1>4, <2>1 DEF SendKill
<1>5. ASSUME NEW type \in EnvMoves, SendPlain(c, type) PROVE Inv'
  <2>1. [type |-> type, job |-> NULL] \in Message /\ type \notin {"run", "kill"}
    BY <1>5 DEF Message, SendPlain
  <2>. QED
    BY <1>3, <1>5, <2>1 DEF SendPlain
<1>. QED
  BY <1>1, <1>2, <1>4, <1>5
(* A step that takes one job on: its task, its process and its notices     *)
(* change together, and no other task has the job.                         *)
LEMMA JobStep ==
  ASSUME Inv, NEW c \in Conn, NEW j \in Job,
         \A d \in Conn : d # c => task[d].job # j,
         task[c].job \in {NULL, j},
         \A d \in Conn : d # c => task'[d] = task[d],
         \A k \in Job : k # j => child'[k] = child[k] /\ mail'[k] = mail[k],
         \/ task'[c].pc \in Busy /\ task'[c].job = j /\ StageOf(c)'
         \/ /\ task'[c].pc = "read" /\ task'[c].job = NULL
            /\ child'[j] \in {"reaped", "none"} /\ mail'[j] \in Closed
  PROVE  Employed' /\ Owned' /\ Stage' /\ Unowned'
<1>1. \A d \in Conn : task[d].job # NULL => task[d].job \in Job
  BY DEF Inv, VarTypes
<1>2. Employed'
  BY DEF Inv, Employed, Busy, Behind
<1>3. Owned'
  BY DEF Inv, Owned
<1>4. Stage'
  <2>1. ASSUME NEW d \in Conn, d # c PROVE StageOf(d)'
    BY <1>1, <2>1 DEF Inv, Employed, Busy, Behind, Stage, StageOf
  <2>2. StageOf(c)'
    BY DEF StageOf, Behind
  <2>. QED
    BY <2>1, <2>2 DEF Stage
<1>5. Unowned'
  BY DEF Inv, Unowned
<1>. QED
  BY <1>2, <1>3, <1>4, <1>5

(* The end of a process, asked for by a client or not.                     *)
LEMMA EndSteps ==
  ASSUME Inv,
         \/ \E j \in Job : ChildEnds(j)
         \/ \E c \in Conn : ReadKill(c) \/ ReadGroup(c) \/ ReadOther(c)
  PROVE  Inv' /\ Ends
<1>. VarTypes
  BY DEF Inv
<1>1. ASSUME NEW j \in Job, ChildEnds(j) PROVE Inv' /\ Ends
  <2>1. VarTypes' /\ Ends
    BY <1>1 DEF VarTypes, ChildEnds, Ends
  <2>2. Asked'
    BY <1>1, <2>1 DEF Inv, Asked, ChildEnds, Ends
  <2>. QED
    BY <2>1, <2>2, EndsKeep DEF Inv
<1>2. ASSUME NEW c \in Conn, ReadKill(c) \/ ReadGroup(c) \/ ReadOther(c)
      PROVE  Inv' /\ Ends
  <2>1. inbox[c] # <<>> /\ inbox' = [inbox EXCEPT ![c] = Tail(@)]
    BY <1>2 DEF ReadKill, ReadGroup, ReadOther, Reads
  <2>2. inbox' \in [Conn -> Seq(Message)] /\ Head(inbox[c]) = inbox[c][1]
    BY <2>1, TakeFacts
  <2>3. ReadKill(c) => inbox[c][1].job \in Job
    BY <2>2 DEF Inv, Asked, ReadKill, Reads
  <2>4. Ends
    <3>1. CASE ReadKill(c)
      BY <2>2, <2>3, <3>1 DEF VarTypes, ReadKill, Ends
    <3>2. CASE ReadGroup(c)
      BY <3>2 DEF VarTypes, ReadGroup, Ends
    <3>3. CASE ReadOther(c)
      BY <3>3 DEF VarTypes, ReadOther, Ends
    <3>. QED
      BY <1>2, <3>1, <3>2, <3>3
  <2>5. conn' = conn /\ gone' = gone /\ daemon' \in {"up", "killed"}
    BY <1>2 DEF VarTypes, ReadKill, ReadGroup, ReadOther, Reads, At
  <2>6. VarTypes'
    BY <2>2, <2>4, <2>5 DEF VarTypes, Ends
  <2>7. \A d \in Conn : d # c /\ inbox[d] # <<>> /\ inbox[d][1].type = "run" =>
            child'[inbox[d][1].job] = "asked"
    BY <2>4 DEF Inv, Asked, Ends
  <2>8. Asked'
    BY <2>1, <2>7, TakeKeepsAsked
  <2>. QED
    BY <2>4, <2>6, <2>8, EndsKeep DEF Inv
<1>. QED
  BY <1>1, <1>2

(* What is not a message ends the task that reads it.                      *)
LEMMA BadStep ==
  ASSUME Inv, NEW c \in Conn, ReadBad(c)
  PROVE  Inv'
<1>1. inbox[c] # <<>> /\ inbox' = [inbox EXCEPT ![c] = Tail(@)]
  BY DEF ReadBad, Reads
<1>2. inbox' \in [Conn -> Seq(Message)]
  BY <1>1, TakeFacts
<1>3. Moves(c)
  BY GotoFacts DEF Inv, ReadBad, Reads, At, Panic, Moves, Pc
<1>4. VarTypes'
  BY <1>2, <1>3 DEF Inv, VarTypes, ReadBad, Reads, At, Panic, Moves, Tasks, Task
<1>5. Asked'
  BY <1>1, <1>3, TakeKeepsAsked DEF Inv, Asked, Moves
<1>. QED
  BY <1>3, <1>4, <1>5, MovesKeep DEF Inv
(* How the notices of a job grow.                                          *)
LEMMA Notices ==
  /\ Append(<<>>, "ProcessLaunched") = Answer
  /\ Append(Answer, "ExecveTerminated") \in Settled
  /\ Append(Answer, "ChildCreationError") \in Settled
  /\ \A s \in Settled : Append(s, "ProcessTerminated") \in Closed
<1>1. Append(<<>>, "ProcessLaunched") = <<"ProcessLaunched">>
  OBVIOUS
<1>2. ASSUME NEW a, NEW b PROVE Append(<<a>>, b) = <<a, b>>
  <2>. DEFINE s == <<a>>  t == <<a, b>>
  <2>1. s \in Seq({a, b}) /\ t \in Seq({a, b})
    OBVIOUS
  <2>2. Append(s, b) \in Seq({a, b}) /\ Len(Append(s, b)) = Len(t)
    BY <2>1
  <2>3. \A i \in 1 .. 2 : Append(s, b)[i] = t[i]
    OBVIOUS
  <2>. QED
    BY <2>1, <2>2, <2>3, SeqEqual
<1>3. ASSUME NEW a, NEW b, NEW e PROVE Append(<<a, b>>, e) = <<a, b, e>>
  <2>. DEFINE s == <<a, b>>  t == <<a, b, e>>
  <2>1. s \in Seq({a, b, e}) /\ t \in Seq({a, b, e})
    OBVIOUS
  <2>2. Append(s, e) \in Seq({a, b, e}) /\ Len(Append(s, e)) = Len(t)
    BY <2>1
  <2>3. \A i \in 1 .. 3 : Append(s, e)[i] = t[i]
    OBVIOUS
  <2>. QED
    BY <2>1, <2>2, <2>3, SeqEqual
<1>. QED
  BY <1>1, <1>2, <1>3 DEF Answer, Settled, Closed

(* A notice is added to those of its job.                                  *)
LEMMA NotifyFacts ==
  ASSUME VarTypes, NEW j \in Job, NEW type \in Types, Notify(j, type)
  PROVE  /\ mail' \in [Job -> Seq(Types)]
         /\ mail'[j] = Append(mail[j], type)
         /\ \A k \in Job : k # j => mail'[k] = mail[k]
<1>1. mail \in [Job -> Seq(Types)]
  BY DEF VarTypes
<1>2. Append(mail[j], type) \in Seq(Types)
  BY <1>1
<1>. QED
  BY <1>1, <1>2 DEF Notify

(* The step that reads a request: the job was asked for and nobody has it. *)
LEMMA SpawnStep ==
  ASSUME Inv, NEW c \in Conn, NEW j \in Job,
         NEW next \in {"exec", "absent", "refused"}, Spawn(c, j, next)
  PROVE  /\ Inv'
         /\ child[j] = "asked" /\ mail[j] = <<>>
         /\ mail' = [mail EXCEPT ![j] = Append(@, "ProcessLaunched")]
         /\ child' = [child EXCEPT ![j] = IF next = "exec" THEN "alive" ELSE "none"]
<1>. VarTypes
  BY DEF Inv
<1>1. inbox[c] # <<>> /\ inbox' = [inbox EXCEPT ![c] = Tail(@)]
  BY DEF Spawn, Reads
<1>2. inbox' \in [Conn -> Seq(Message)] /\ Head(inbox[c]) = inbox[c][1]
  BY <1>1, TakeFacts
<1>3. inbox[c][1].type = "run" /\ inbox[c][1].job = j
  BY <1>2 DEF Spawn, Reads
<1>4. child[j] = "asked"
  BY <1>1, <1>3 DEF Inv, Asked
<1>5. child' = [child EXCEPT ![j] = IF next = "exec" THEN "alive" ELSE "none"]
  BY DEF Spawn
<1>6. \A d \in Conn : task[d].job # j
  BY <1>4 DEF Inv, VarTypes, Employed, Stage, StageOf, Busy, Behind, Pc
<1>7. mail[j] = <<>>
  BY <1>4, <1>6 DEF Inv, Unowned
<1>8. /\ mail' \in [Job -> Seq(Types)]
      /\ mail'[j] = Answer
      /\ \A k \in Job : k # j => mail'[k] = mail[k]
  BY <1>7, NotifyFacts, Notices DEF Spawn, Types
<1>9. /\ task' \in Tasks
      /\ \A d \in Conn : d # c => task'[d] = task[d]
      /\ task'[c].pc = next /\ task'[c].job = j
  <2>. DEFINE t == [pc |-> next, job |-> j, at |-> 1]
  <2>1. task' = [task EXCEPT ![c] = t]
    BY DEF Spawn
  <2>2. t \in Task /\ t.pc = next /\ t.job = j
    BY DEF Task, Pc
  <2>3. task \in Tasks
    BY DEF VarTypes, Tasks, Task
  <2>. HIDE DEF t
  <2>. QED
    BY <2>1, <2>2, <2>3 DEF Tasks
<1>10. VarTypes'
  BY <1>2, <1>5, <1>8, <1>9 DEF VarTypes, Spawn, Reads, At, Tasks, Task
<1>11. StageOf(c)'
  BY <1>5, <1>8, <1>9 DEF StageOf, VarTypes, Behind
<1>12. task[c].job = NULL
  BY DEF Inv, Employed, Spawn, Reads, At
<1>13. \A k \in Job : k # j => child'[k] = child[k]
  BY <1>5 DEF VarTypes
<1>14. Employed' /\ Owned' /\ Stage' /\ Unowned'
  BY <1>6, <1>8, <1>9, <1>11, <1>12, <1>13, JobStep DEF Busy
<1>15. Asked'
  <2>1. ASSUME NEW d \in Conn, d # c, inbox[d] # <<>>, inbox[d][1].type = "run"
        PROVE  child'[inbox[d][1].job] = "asked"
    <3>1. inbox[d][1].job \in Job /\ child[inbox[d][1].job] = "asked"
      BY <2>1 DEF Inv, Asked
    <3>2. inbox[d][1].job # j
      BY <1>1, <1>3, <2>1 DEF Inv, Asked
    <3>. QED
      BY <1>13, <3>1, <3>2
  <2>. QED
    BY <1>1, <2>1, TakeKeepsAsked
<1>. QED
  BY <1>4, <1>5, <1>7, <1>10, <1>14, <1>15 DEF Inv, Spawn, Notify

(* The steps that take a job on in the task that has it: the notice of     *)
(* execve or of a failure, the return of child.wait, the last notice.      *)
LEMMA OwnerSteps ==
  ASSUME Inv, NEW c \in Conn,
         SendExec(c) \/ SendFailure(c) \/ WaitReturns(c) \/ SendEnd(c)
  PROVE  Inv'
<1>. DEFINE j == task[c].job
<1>. VarTypes
  BY DEF Inv
<1>1. j \in Job /\ \A d \in Conn : d # c => task[d].job # j
  BY DEF Inv, Employed, Owned, SendExec, SendFailure, WaitReturns, SendEnd, At,
         Busy, Behind
<1>2. UNCHANGED <<conn, gone, inbox, daemon>>
  BY DEF SendExec, SendFailure, WaitReturns, SendEnd, At
<1>3. CASE SendExec(c)
  <2>1. mail[j] = Answer /\ child[j] \in {"alive", "zombie"}
    BY <1>3 DEF Inv, Stage, StageOf, SendExec, At
  <2>2. /\ mail' \in [Job -> Seq(Types)]
        /\ mail'[j] \in Settled
        /\ \A k \in Job : k # j => mail'[k] = mail[k]
    BY <1>1, <1>3, <2>1, NotifyFacts, Notices DEF SendExec, Types
  <2>3. /\ task' \in Tasks
        /\ \A d \in Conn : d # c => task'[d] = task[d]
        /\ task'[c].pc = "wait" /\ task'[c].job = j
    BY <1>3, GotoFacts DEF SendExec, AfterExec, Pc
  <2>4. child' = child
    BY <1>3 DEF SendExec
  <2>5. StageOf(c)'
    BY <2>1, <2>2, <2>3, <2>4 DEF StageOf, Behind
  <2>6. Employed' /\ Owned' /\ Stage' /\ Unowned'
    BY <1>1, <2>2, <2>3, <2>4, <2>5, JobStep DEF Busy
  <2>7. VarTypes'
    BY <1>2, <2>2, <2>3, <2>4 DEF VarTypes, Tasks, Task
  <2>8. Asked'
    BY <1>2, <2>4 DEF Inv, Asked
  <2>. QED
    BY <2>6, <2>7, <2>8 DEF Inv
<1>4. CASE SendFailure(c)
  <2>1. mail[j] = Answer /\ child[j] = "none"
    BY <1>4 DEF Inv, Stage, StageOf, SendFailure, At
  <2>2. /\ mail' \in [Job -> Seq(Types)]
        /\ mail'[j] \in Settled
        /\ \A k \in Job : k # j => mail'[k] = mail[k]
    BY <1>1, <1>4, <2>1, NotifyFacts, Notices DEF SendFailure, Types
  <2>3. /\ task' \in Tasks
        /\ \A d \in Conn : d # c => task'[d] = task[d]
        /\ task'[c].pc = "watch" /\ task'[c].job = j
    BY <1>4, GotoFacts DEF SendFailure, Pc
  <2>4. child' = child
    BY <1>4 DEF SendFailure
  <2>5. StageOf(c)'
    BY <2>1, <2>2, <2>3, <2>4 DEF StageOf, Behind
  <2>6. Employed' /\ Owned' /\ Stage' /\ Unowned'
    BY <1>1, <2>2, <2>3, <2>4, <2>5, JobStep DEF Busy, Behind
  <2>7. VarTypes'
    BY <1>2, <2>2, <2>3, <2>4 DEF VarTypes, Tasks, Task
  <2>8. Asked'
    BY <1>2, <2>4 DEF Inv, Asked
  <2>. QED
    BY <2>6, <2>7, <2>8 DEF Inv
<1>5. CASE WaitReturns(c)
  <2>1. mail[j] \in Settled /\ child[j] = "zombie" /\ mail' = mail
    BY <1>5 DEF Inv, Stage, StageOf, WaitReturns, At
  <2>2. /\ child' \in [Job -> {"unborn", "asked", "alive", "zombie", "reaped", "none"}]
        /\ child'[j] = "reaped"
        /\ \A k \in Job : k # j => child'[k] = child[k]
    BY <1>1, <1>5 DEF VarTypes, WaitReturns
  <2>3. /\ task' \in Tasks
        /\ \A d \in Conn : d # c => task'[d] = task[d]
        /\ task'[c].pc = "watch" /\ task'[c].job = j
    BY <1>5, GotoFacts DEF WaitReturns, Pc
  <2>4. StageOf(c)'
    BY <2>1, <2>2, <2>3 DEF StageOf, Behind
  <2>5. Employed' /\ Owned' /\ Stage' /\ Unowned'
    BY <1>1, <2>1, <2>2, <2>3, <2>4, JobStep DEF Busy, Behind
  <2>6. VarTypes'
    BY <1>2, <2>1, <2>2, <2>3 DEF VarTypes, Tasks, Task
  <2>7. Asked'
    BY <1>2, <2>1, <2>2 DEF Inv, Asked
  <2>. QED
    BY <2>5, <2>6, <2>7 DEF Inv
<1>6. CASE SendEnd(c)
  <2>1. mail[j] \in Settled /\ child[j] \in {"reaped", "none"}
    BY <1>6 DEF Inv, Stage, StageOf, SendEnd, At, Behind
  <2>2. /\ mail' \in [Job -> Seq(Types)]
        /\ mail'[j] \in Closed
        /\ \A k \in Job : k # j => mail'[k] = mail[k]
    BY <1>1, <1>6, <2>1, NotifyFacts, Notices DEF SendEnd, Types
  <2>3. /\ task' \in Tasks
        /\ \A d \in Conn : d # c => task'[d] = task[d]
        /\ task'[c].pc = "read" /\ task'[c].job = NULL
    <3>1. Idle \in Task /\ Idle.pc = "read" /\ Idle.job = NULL
      BY DEF Idle, Task, Pc
    <3>2. task \in Tasks
      BY DEF VarTypes, Tasks, Task
    <3>. QED
      BY <1>6, <3>1, <3>2 DEF SendEnd, Tasks
  <2>4. child' = child
    BY <1>6 DEF SendEnd
  <2>5. Employed' /\ Owned' /\ Stage' /\ Unowned'
    BY <1>1, <2>1, <2>2, <2>3, <2>4, JobStep
  <2>6. VarTypes'
    BY <1>2, <2>2, <2>3, <2>4 DEF VarTypes, Tasks, Task
  <2>7. Asked'
    BY <1>2, <2>4 DEF Inv, Asked
  <2>. QED
    BY <2>5, <2>6, <2>7 DEF Inv
<1>. QED
  BY <1>3, <1>4, <1>5, <1>6
(* Every step keeps the invariant.                                         *)
LEMMA StepInv ==
  ASSUME Inv, [Next]_vars
  PROVE  Inv'
<1>1. CASE UNCHANGED vars
  BY <1>1 DEF vars, Inv, VarTypes, Employed, Owned, Stage, StageOf, Unowned, Asked
<1>2. CASE EnvStep
  BY <1>2, ClientSteps, PlainSteps, EndSteps DEF EnvStep
<1>3. ASSUME NEW c \in Conn, TaskStep(c) PROVE Inv'
  <2>1. CASE \/ Accept(c) \/ ReadEnd(c)
             \/ WatchFile(c) \/ WatchFilePanics(c) \/ WatchUnknown(c) \/ WaitForFile(c)
             \/ WatchPort(c) \/ WatchesDone(c)
    BY <2>1, PlainSteps
  <2>2. CASE \E j \in Job : \/ Spawn(c, j, "exec")
                            \/ Spawn(c, j, "absent")
                            \/ "spawn" \in Env /\ Spawn(c, j, "refused")
    BY <2>2, SpawnStep
  <2>3. CASE SendExec(c) \/ SendFailure(c) \/ WaitReturns(c) \/ SendEnd(c)
    BY <2>3, OwnerSteps
  <2>4. CASE ReadKill(c) \/ ReadGroup(c) \/ ReadOther(c)
    BY <2>4, EndSteps
  <2>5. CASE ReadBad(c)
    BY <2>5, BadStep
  <2>. QED
    BY <1>3, <2>1, <2>2, <2>3, <2>4, <2>5 DEF TaskStep
<1>. QED
  BY <1>1, <1>2, <1>3 DEF Next

(* The invariant that the theorems below rest on.                          *)
THEOREM Invariance == Spec => []Inv
<1>1. Init => Inv
  BY InitInv
<1>2. Inv /\ [Next]_vars => Inv'
  BY StepInv
<1>. QED
  BY <1>1, <1>2, PTL DEF Spec

(* Connections, tasks, processes and notices keep their types, however     *)
(* tasks interleave, and a task has a job exactly while it handles one.    *)
THEOREM TypeCorrect == Spec => []TypeOK
<1>1. Inv => TypeOK
  BY DEF Inv, TypeOK
<1>. QED
  BY <1>1, Invariance, PTL

(* No process is left behind: the task that called spawn is still there to *)
(* wait for it, whatever clients send, leave or break in the meantime.     *)
THEOREM NoOrphans == Spec => []NoOrphan
<1>1. Inv => NoOrphan
  <2>1. SUFFICES ASSUME Inv, NEW j \in Job, child[j] \in {"alive", "zombie"}
                 PROVE  \E c \in Conn : task[c].job = j /\ task[c].pc \in {"exec", "wait"}
    BY DEF NoOrphan
  <2>2. PICK c \in Conn : task[c].job = j
    BY <2>1 DEF Inv, Unowned
  <2>3. task[c].pc \in Pc /\ j # NULL
    BY <2>1 DEF Inv, VarTypes
  <2>. QED
    BY <2>1, <2>2, <2>3 DEF Inv, Employed, Stage, StageOf, Busy, Behind, Pc
<1>. QED
  BY <1>1, Invariance, PTL

(* A notice of each kind is or is not among these.                         *)
LEMMA Heard ==
  /\ \E i \in 1 .. Len(Answer) : Answer[i] = "ProcessLaunched"
  /\ \A i \in 1 .. Len(Answer) : Answer[i] \notin {"ExecveTerminated", "ChildCreationError"}
  /\ \A s \in Settled : /\ s # <<>>
                        /\ \A i \in 1 .. Len(s) : s[i] # "ProcessTerminated"
  /\ \A s \in Closed : \E i \in 1 .. Len(s) : s[i] = "ProcessTerminated"
<1>1. /\ \E i \in 1 .. Len(Answer) : Answer[i] = "ProcessLaunched"
      /\ \A i \in 1 .. Len(Answer) : Answer[i] \notin {"ExecveTerminated", "ChildCreationError"}
  BY DEF Answer
<1>2. ASSUME NEW s \in Settled
      PROVE  s # <<>> /\ \A i \in 1 .. Len(s) : s[i] # "ProcessTerminated"
  BY DEF Settled
<1>3. ASSUME NEW s \in Closed PROVE \E i \in 1 .. Len(s) : s[i] = "ProcessTerminated"
  <2>1. Len(s) = 3 /\ s[3] = "ProcessTerminated"
    BY DEF Closed
  <2>. QED
    BY <2>1
<1>. QED
  BY <1>1, <1>2, <1>3

(* One job at a time on a connection: from its answer to its end a job has *)
(* one task, so that a client can tell what a notice without a pid is      *)
(* about (the loop of main.rs).                                            *)
THEOREM OneJobAtATime == Spec => []OneAtATime
<1>1. Inv => OneAtATime
  <2>1. SUFFICES ASSUME Inv, NEW j \in Job, Open(j)
                 PROVE  \E c \in Conn : /\ task[c].job = j
                                        /\ \A d \in Conn \ {c} : task[d].job # j
    BY DEF OneAtATime
  <2>2. mail[j] # <<>> /\ mail[j] \notin Closed
    <3>1. mail[j] \in Closed =>
             \E i \in 1 .. Len(mail[j]) : mail[j][i] = "ProcessTerminated"
      BY Heard
    <3>. QED
      BY <2>1, <3>1 DEF Open
  <2>3. PICK c \in Conn : task[c].job = j
    BY <2>1, <2>2 DEF Inv, Unowned
  <2>4. \A d \in Conn : task[d].job = j => d = c
    BY <2>1, <2>3 DEF Inv, Owned
  <2>. QED
    BY <2>3, <2>4
<1>. QED
  BY <1>1, Invariance, PTL
-----------------------------------------------------------------------------
(* The refinement: told is mail, and over the jobs whose process has ended *)
(* or was never made.                                                      *)

(* Nothing that Jobs talks about has changed.                              *)
LEMMA Stutters ==
  ASSUME UNCHANGED <<child, mail>>
  PROVE  UNCHANGED <<mail, Over>>
  BY DEF Over

(* The end of a process is an End step of Jobs.                            *)
LEMMA EndsImplements ==
  ASSUME VarTypes, Ends
  PROVE  J!End
<1>1. Over \subseteq Over' /\ Over' \subseteq Job
  BY DEF Over, Ends
<1>2. UNCHANGED mail
  BY DEF Ends
<1>. QED
  BY <1>1, <1>2 DEF J!End

(* The answer is the first notice; a job without a process is over with    *)
(* it.                                                                     *)
LEMMA SpawnImplements ==
  ASSUME Inv, NEW c \in Conn, NEW j \in Job,
         NEW next \in {"exec", "absent", "refused"}, Spawn(c, j, next)
  PROVE  J!Tell(j, "ProcessLaunched")
<1>1. /\ child[j] = "asked" /\ mail[j] = <<>>
      /\ mail' = [mail EXCEPT ![j] = Append(@, "ProcessLaunched")]
      /\ child' = [child EXCEPT ![j] = IF next = "exec" THEN "alive" ELSE "none"]
  BY SpawnStep
<1>2. J!MayTell(j, "ProcessLaunched")
  BY <1>1 DEF J!MayTell, J!Has
<1>3. Over' \in {Over, Over \cup {j}}
  <2>1. CASE next = "exec"
    BY <1>1, <2>1 DEF Inv, VarTypes, Over
  <2>2. CASE next # "exec"
    BY <1>1, <2>2 DEF Inv, VarTypes, Over
  <2>. QED
    BY <2>1, <2>2
<1>. QED
  BY <1>1, <1>2, <1>3 DEF J!Tell

(* The later notices come in their order, and each is told once; the       *)
(* return of child.wait is not seen.                                       *)
LEMMA OwnerImplements ==
  ASSUME Inv, NEW c \in Conn,
         SendExec(c) \/ SendFailure(c) \/ WaitReturns(c) \/ SendEnd(c)
  PROVE  [J!Next]_<<mail, Over>>
<1>. DEFINE j == task[c].job
<1>1. j \in Job
  BY DEF Inv, Employed, SendExec, SendFailure, WaitReturns, SendEnd, At, Busy, Behind
<1>2. ASSUME NEW type \in Types, J!MayTell(j, type), Notify(j, type), UNCHANGED child
      PROVE  J!Next
  <2>1. Over' = Over
    BY <1>2 DEF Over
  <2>2. J!Tell(j, type)
    BY <1>2, <2>1 DEF J!Tell, Notify
  <2>. QED
    BY <1>1, <2>2 DEF J!Next, J!Types, Types
<1>3. ASSUME mail[j] = Answer
      PROVE  J!MayTell(j, "ExecveTerminated") /\ J!MayTell(j, "ChildCreationError")
  BY <1>3, Heard DEF J!MayTell, J!Has, Answer
<1>4. CASE SendExec(c)
  <2>1. mail[j] = Answer
    BY <1>4 DEF Inv, Stage, StageOf, SendExec, At
  <2>. QED
    BY <1>2, <1>3, <1>4, <2>1 DEF SendExec, Types
<1>5. CASE SendFailure(c)
  <2>1. mail[j] = Answer
    BY <1>5 DEF Inv, Stage, StageOf, SendFailure, At
  <2>. QED
    BY <1>2, <1>3, <1>5, <2>1 DEF SendFailure, Types
<1>6. CASE WaitReturns(c)
  <2>1. Over' = Over
    BY <1>1, <1>6 DEF Inv, VarTypes, WaitReturns, Over
  <2>. QED
    BY <1>6, <2>1 DEF WaitReturns
<1>7. CASE SendEnd(c)
  <2>1. mail[j] \in Settled /\ j \in Over
    BY <1>1, <1>7 DEF Inv, Stage, StageOf, SendEnd, At, Behind, Over
  <2>2. J!MayTell(j, "ProcessTerminated")
    BY <2>1, Heard DEF J!MayTell, J!Has
  <2>. QED
    BY <1>2, <1>7, <2>2 DEF SendEnd, Types
<1>. QED
  BY <1>4, <1>5, <1>6, <1>7

(* Every step of the daemon is a step of Jobs or is not seen there.        *)
LEMMA StepImplements ==
  ASSUME Inv, [Next]_vars
  PROVE  [J!Next]_<<mail, Over>>
<1>1. Ends => J!Next
  BY EndsImplements DEF Inv, J!Next
<1>2. CASE UNCHANGED vars
  BY <1>2, Stutters DEF vars
<1>3. CASE EnvStep
  <2>1. CASE \E j \in Job : ChildEnds(j)
    BY <1>1, <2>1, EndSteps
  <2>2. ASSUME NEW c \in Conn, NEW j \in Job, SendRun(c, j)
        PROVE  UNCHANGED <<mail, Over>>
    <3>1. UNCHANGED mail
      BY <2>2 DEF SendRun, Put
    <3>2. Over' = Over
      BY <2>2 DEF Inv, VarTypes, SendRun, Over
    <3>. QED
      BY <3>1, <3>2
  <2>3. ASSUME NEW c \in Conn,
               \/ Connect(c) \/ Leave(c)
               \/ \E j \in Job : SendKill(c, j)
               \/ \E type \in EnvMoves : SendPlain(c, type)
               \/ FileEvent(c) \/ FileEventPanics(c) \/ PortFound(c)
        PROVE  UNCHANGED <<mail, Over>>
    BY <2>3, Stutters DEF Connect, Leave, SendKill, SendPlain, Put, FileEvent,
       FileEventPanics, PortFound
  <2>. QED
    BY <1>3, <2>1, <2>2, <2>3 DEF EnvStep
<1>4. ASSUME NEW c \in Conn, TaskStep(c) PROVE [J!Next]_<<mail, Over>>
  <2>1. CASE \/ Accept(c) \/ ReadEnd(c)
             \/ WatchFile(c) \/ WatchFilePanics(c) \/ WatchUnknown(c) \/ WaitForFile(c)
             \/ WatchPort(c) \/ WatchesDone(c) \/ ReadBad(c)
    BY <2>1, Stutters DEF Accept, ReadEnd, WatchFile, WatchFilePanics, WatchUnknown, WaitForFile,
       WatchPort, WatchesDone, ReadBad
  <2>2. CASE \E j \in Job : \/ Spawn(c, j, "exec")
                            \/ Spawn(c, j, "absent")
                            \/ "spawn" \in Env /\ Spawn(c, j, "refused")
    BY <2>2, SpawnImplements DEF J!Next, J!Types
  <2>3. CASE SendExec(c) \/ SendFailure(c) \/ WaitReturns(c) \/ SendEnd(c)
    BY <2>3, OwnerImplements
  <2>4. CASE ReadKill(c) \/ ReadGroup(c) \/ ReadOther(c)
    BY <1>1, <2>4, EndSteps
  <2>. QED
    BY <1>4, <2>1, <2>2, <2>3, <2>4 DEF TaskStep
<1>. QED
  BY <1>2, <1>3, <1>4 DEF Next

(* The Rust daemon implements the protocol of Jobs: the answer comes first *)
(* and once, the news of execve or a refusal after it, and the end last,   *)
(* of a job that is over.                                                  *)
THEOREM ImplementsJobs == Spec => JobsSpec
<1>1. Init => J!Init
  BY DEF Init, J!Init, Over
<1>2. Inv /\ [Next]_vars => [J!Next]_<<mail, Over>>
  BY StepImplements
<1>. QED
  BY <1>1, <1>2, Invariance, PTL DEF Spec, JobsSpec, J!Spec
=============================================================================
