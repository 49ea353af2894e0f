----------------------------- MODULE JobsProofs -----------------------------
(***************************************************************************)
(* The C daemon implements module Jobs, as long as children only end and   *)
(* are not stopped: a siginfo of a stop that is read after its process was *)
(* reaped would give a second ProcessTerminated.                           *)
(*                                                                         *)
(* A step tells of one job at most (OneTold), and what it tells is allowed *)
(* by Jobs because of what JobInv knows of the job (TellImplements).       *)
(***************************************************************************)
EXTENDS TableProofs, DaemonJobs, SequenceTheorems

USE MaxProcessAssumption, NullAssumption, StdoutAssumption, ConnAssumption,
    CodeAssumption

(* A notice is of a type Jobs knows.                                       *)
LEMMA NoticeType ==
    ASSUME NEW s \in Seq(Notice), NEW i \in 1 .. Len(s) PROVE s[i].type \in J!Types
<1>1. s[i] \in Notice
  BY ElementOfSeq
<1>. HIDE DEF Notice
<1>. QED
  BY <1>1 DEF Notice, J!Types

(* The types of a sequence of notices.                                     *)
LEMMA ToldOf ==
    ASSUME TypeOK, NEW j \in Job
    PROVE  /\ Len(mail[j]) \in Nat
           /\ Told[j] \in Seq(J!Types) /\ Len(Told[j]) = Len(mail[j])
           /\ \A i \in 1 .. Len(mail[j]) : Told[j][i] = mail[j][i].type
<1>1. mail[j] \in Seq(Notice) /\ Len(mail[j]) \in Nat
  BY DEF TypeOK
<1>2. \A i \in 1 .. Len(mail[j]) : mail[j][i].type \in J!Types
  BY <1>1, NoticeType
<1>3. Told[j] = [i \in 1 .. Len(mail[j]) |-> mail[j][i].type]
  BY DEF Told
<1>4. Told[j] \in [1 .. Len(mail[j]) -> J!Types]
  BY <1>2, <1>3
<1>5. Told[j] \in Seq(J!Types) /\ Len(Told[j]) = Len(mail[j])
  BY <1>1, <1>3, <1>4
<1>. QED
  BY <1>1, <1>3, <1>5

(* A notice more is a type more.                                           *)
LEMMA ToldGrows ==
    ASSUME TypeOK, TypeOK', NEW j \in Job, NEW n \in Notice,
           mail'[j] = Append(mail[j], n), \A k \in Job \ {j} : mail'[k] = mail[k]
    PROVE  Told' = [Told EXCEPT ![j] = Append(Told[j], n.type)]
<1>1. Len(mail[j]) \in Nat /\ mail[j] \in Seq(Notice)
  BY DEF TypeOK
<1>2. /\ Len(mail'[j]) = Len(mail[j]) + 1
      /\ \A i \in 1 .. Len(mail[j]) : i \in 1 .. Len(mail'[j]) /\ mail'[j][i] = mail[j][i]
      /\ mail'[j][Len(mail[j]) + 1] = n
      /\ \A i \in 1 .. Len(mail'[j]) : i \in 1 .. Len(mail[j]) \/ i = Len(mail[j]) + 1
  BY <1>1, GrowFacts
<1>3. n.type \in J!Types
  BY DEF Notice, J!Types
<1>4. /\ Told[j] \in Seq(J!Types) /\ Len(Told[j]) = Len(mail[j])
      /\ \A i \in 1 .. Len(mail[j]) : Told[j][i] = mail[j][i].type
  BY ToldOf
<1>5. /\ Told'[j] = [i \in 1 .. Len(mail'[j]) |-> mail'[j][i].type]
      /\ mail'[j] \in Seq(Notice)
  BY DEF Told, TypeOK
<1>6. Told'[j] \in Seq(J!Types) /\ Len(Told'[j]) = Len(mail[j]) + 1
  <2>1. \A i \in 1 .. Len(mail'[j]) : mail'[j][i].type \in J!Types
    BY <1>5, NoticeType
  <2>2. Told'[j] \in [1 .. Len(mail'[j]) -> J!Types]
    BY <1>5, <2>1
  <2>. QED
    BY <1>1, <1>2, <1>5, <2>2
<1>. DEFINE s == Append(Told[j], n.type)
<1>7. /\ s \in Seq(J!Types) /\ Len(s) = Len(mail[j]) + 1
      /\ \A i \in 1 .. Len(mail[j]) : s[i] = Told[j][i]
      /\ s[Len(mail[j]) + 1] = n.type
  BY <1>3, <1>4, AppendProperties
<1>8. \A i \in 1 .. Len(Told'[j]) : Told'[j][i] = s[i]
  <2>. SUFFICES ASSUME NEW i \in 1 .. Len(mail'[j]) PROVE Told'[j][i] = s[i]
    BY <1>2, <1>6
  <2>1. Told'[j][i] = mail'[j][i].type
    BY <1>5
  <2>2. CASE i \in 1 .. Len(mail[j])
    BY <1>2, <1>4, <1>7, <2>1, <2>2
  <2>3. CASE i = Len(mail[j]) + 1
    BY <1>2, <1>7, <2>1, <2>3
  <2>. QED
    BY <1>2, <2>2, <2>3
<1>9. Told'[j] = s
  <2>. HIDE DEF s
  <2>. QED
    BY <1>6, <1>7, <1>8, SeqEqual
<1>10. \A k \in Job \ {j} : Told'[k] = Told[k]
  BY DEF Told
<1>11. Told \in [Job -> Seq(J!Types)] /\ DOMAIN Told' = Job
  <2>1. \A k \in Job : Told[k] \in Seq(J!Types)
    BY ToldOf
  <2>2. DOMAIN Told = Job /\ DOMAIN Told' = Job /\ Told = [k \in Job |-> Told[k]]
    BY DEF Told
  <2>. QED
    BY <2>1, <2>2
<1>12. Told' = [k \in Job |-> Told'[k]]
  BY DEF Told
<1>. HIDE DEF s
<1>13. [Told EXCEPT ![j] = s] = [k \in Job |-> IF k = j THEN s ELSE Told[k]]
  BY <1>11
<1>14. Told' = [Told EXCEPT ![j] = s]
  BY <1>9, <1>10, <1>12, <1>13
<1>. QED
  BY <1>14 DEF s
-----------------------------------------------------------------------------
(* A step that tells of a job leaves the others where they are, and does   *)
(* not tell of the end of a process that was reaped before.                *)
LEMMA OneTold ==
    ASSUME EndedInv, Next
    PROVE  \/ UNCHANGED mail
           \/ \E j \in Job : /\ \A k \in Job \ {j} : state'[k] = state[k] /\ mail'[k] = mail[k]
                             /\ state[j] # "reaped" \/ pipe'[j] # pipe[j]
<1>. DEFINE One(j) ==
        /\ \A k \in Job \ {j} : state'[k] = state[k] /\ mail'[k] = mail[k]
        /\ state[j] # "reaped" \/ pipe'[j] # pipe[j]
<1>. TypeOK /\ Consistent /\ BatchStaysReady
  BY DEF EndedInv, NoticeInv, SafeInv, TypeInv
<1>1. ASSUME NEW c, NEW j \in Job, NEW type, NEW val, Notify(c, {j}, type, val)
      PROVE  \A k \in Job \ {j} : mail'[k] = mail[k]
  BY <1>1 DEF Notify
<1>2. ASSUME NEW c \in Conn, HandleMessage(c)
      PROVE  UNCHANGED mail \/ \E j \in Job : One(j)
  <2>1. ASSUME NEW j \in Job, NEW fd, NEW p, NEW watched, LaunchProcess(c, j, p, fd, watched)
        PROVE  One(j)
    <3>1. state[j] = "requested"
      BY <2>1, LaunchRequested DEF LaunchProcess
    <3>2. \A k \in Job \ {j} : mail'[k] = mail[k]
      BY <1>1, <2>1 DEF LaunchProcess
    <3>3. \A k \in Job \ {j} : state'[k] = state[k]
      BY <2>1 DEF LaunchProcess, TypeOK
    <3>. QED
      BY <3>1, <3>2, <3>3
  <2>2. ASSUME NEW j \in Job, NEW fd, LaunchRefused(c, j, fd)
        PROVE  One(j)
    <3>1. state[j] = "requested"
      BY <2>2, LaunchRequested DEF LaunchRefused
    <3>2. \A k \in Job \ {j} : mail'[k] = mail[k]
      BY <1>1, <2>2 DEF LaunchRefused
    <3>3. \A k \in Job \ {j} : state'[k] = state[k]
      BY <2>2 DEF LaunchRefused, TypeOK
    <3>. QED
      BY <3>1, <3>2, <3>3
  <2>3. CASE \/ ReadsNull(c) \/ ReadsEmpty(c) \/ ReadsOther(c) \/ PipeFails(c)
             \/ KillProcess(c) \/ KillDaemon(c)
    BY <2>3 DEF ReadsNull, ReadsEmpty, ReadsOther, PipeFails, KillProcess, KillDaemon
  <2>. HIDE DEF One
  <2>. QED
    BY <1>2, <2>1, <2>2, <2>3 DEF HandleMessage
<1>3. ASSUME NEW j \in Job, HandleExecve(j) PROVE One(j)
  <2>1. Ev("EXECVE", j) \in Ready
    BY <1>3 DEF HandleExecve, Handles, BatchStaysReady
  <2>2. pipe[j] \in ReadyPipe
    BY <2>1, ReadyCases DEF Ev
  <2>3. pipe'[j] = "closed" /\ UNCHANGED state
    BY <1>3 DEF HandleExecve, PipeAfterNotice, TypeOK
  <2>4. \A k \in Job \ {j} : mail'[k] = mail[k]
    BY <1>1, <1>3 DEF HandleExecve
  <2>. QED
    BY <2>2, <2>3, <2>4 DEF ReadyPipe
<1>4. ASSUME HandleSignal PROVE \E j \in Job : One(j)
  <2>1. PICK j \in Job : Reap(j)
    BY <1>4 DEF HandleSignal, Holders
  <2>2. state[j] = "zombie" /\ \A k \in Job \ {j} : state'[k] = state[k]
    BY <2>1 DEF Reap, TypeOK
  <2>3. AfterWait(pidOf[j], {j}, exit_status(status[j]))
    BY <2>1 DEF Reap, Reported
  <2>4. \A k \in Job \ {j} : mail'[k] = mail[k]
    BY <1>1, <2>3 DEF AfterWait
  <2>. QED
    BY <2>2, <2>4
<1>5. ASSUME EpollWait \/ AcceptFails \/ \E c \in Conn : Accept(c) PROVE UNCHANGED mail
  BY <1>5 DEF EpollWait, AcceptFails, Accept
<1>6. ASSUME ClientStep PROVE UNCHANGED mail
  BY <1>6 DEF ClientStep, Connect, SendRun, SendKill, SendPlain, Put, Disconnect
<1>7. ASSUME ChildStep PROVE UNCHANGED mail
  BY <1>7 DEF ChildStep, ChildExec, ChildExecFail, ChildSigpipe, ChildFailExit,
              ChildExit, ChildCrash, ChildStop, ChildContinue, ChildVarsOnly
<1>8. UNCHANGED mail \/ \E j \in Job : One(j)
  <2>. HIDE DEF One
  <2>. QED
    BY <1>2, <1>3, <1>4, <1>5, <1>6, <1>7, WaitAtOnce DEF Next, DaemonStep
<1>. QED
  BY <1>8

(* What is told of a job may be told of it, by what is known of it.        *)
LEMMA TellImplements ==
    ASSUME TypeOK, TypeOK', NEW j \in Job, JobInv(j), JobStep(j), Up,
           \A k \in Job \ {j} : state'[k] = state[k] /\ mail'[k] = mail[k],
           state[j] # "reaped" \/ pipe'[j] # pipe[j], mail'[j] # mail[j]
    PROVE  J!Next
<1>1. /\ Len(mail[j]) \in Nat /\ mail[j] \in Seq(Notice)
      /\ Len(Told[j]) = Len(mail[j]) /\ Told[j] \in Seq(J!Types)
      /\ \A i \in 1 .. Len(mail[j]) : Told[j][i] = mail[j][i].type
  BY ToldOf DEF TypeOK
<1>2. ASSUME NEW type \in J!Types, NEW val, Tells(j, type, val), J!MayTell(j, type),
             Over' \in {Over, Over \cup {j}}
      PROVE  J!Next
  <2>1. PICK n \in Notice : n.type = type /\ mail'[j] = Append(mail[j], n)
    BY <1>2 DEF Tells
  <2>2. Told' = [Told EXCEPT ![j] = Append(Told[j], type)]
    BY <2>1, ToldGrows
  <2>3. J!Tell(j, type)
    BY <1>2, <2>2 DEF J!Tell
  <2>. QED
    BY <2>3 DEF J!Next
<1>3. mail[j] = <<>> => Told[j] = <<>>
  BY <1>1
<1>4. ASSUME NEW type, J!Has(j, type)
      PROVE  \E i \in 1 .. Len(mail[j]) : mail[j][i].type = type
  BY <1>1, <1>4 DEF J!Has
<1>5. ASSUME state'[j] = state[j] \/ {state[j], state'[j]} \subseteq {"zombie", "reaped"}
      PROVE  Over' = Over
  BY <1>5 DEF Over
<1>6. CASE Launches(j)
  <2>1. mail[j] = <<>> /\ Over' = Over
    BY <1>6 DEF Launches, JobInv, NotLaunched, Over
  <2>2. J!MayTell(j, "ProcessLaunched")
    BY <1>1, <1>3, <2>1 DEF J!MayTell, J!Has
  <2>3. "ProcessLaunched" \in J!Types
    BY DEF J!Types
  <2>. QED
    BY <1>2, <1>6, <2>1, <2>2, <2>3 DEF Launches
<1>7. CASE Refuses(j)
  <2>1. mail[j] = <<>> /\ Over' = Over \cup {j}
    BY <1>7 DEF Refuses, JobInv, NotLaunched, Over
  <2>2. J!MayTell(j, "ChildCreationError")
    BY <1>1, <1>3, <2>1 DEF J!MayTell, J!Has
  <2>3. "ChildCreationError" \in J!Types
    BY DEF J!Types
  <2>. QED
    BY <1>2, <1>7, <2>1, <2>2, <2>3 DEF Refuses
<1>8. ASSUME state[j] \in Launched
      PROVE  /\ mail[j] # <<>> /\ Told[j] # <<>>
             /\ J!Has(j, "ProcessLaunched") /\ ~J!Has(j, "ChildCreationError")
  <2>1. mail[j] # <<>>
    BY <1>8 DEF JobInv, AnswerInv
  <2>2. 1 \in 1 .. Len(mail[j])
    BY <1>1, <2>1
  <2>3. mail[j][1].type = "ProcessLaunched"
    BY <1>8, <2>2 DEF JobInv, AnswerInv
  <2>4. J!Has(j, "ProcessLaunched")
    BY <1>1, <2>2, <2>3 DEF J!Has
  <2>5. ~J!Has(j, "ChildCreationError")
    BY <1>4, <1>8 DEF JobInv, AnswerInv
  <2>6. Told[j] # <<>>
    BY <1>1, <2>2
  <2>. QED
    BY <2>1, <2>4, <2>5, <2>6
<1>9. CASE ExecTold(j)
  <2>1. state[j] \in Launched
    BY <1>9 DEF ExecTold, ReadyPipe, JobInv, NotLaunched, TypeOK, JobState, Launched
  <2>2. ~J!Has(j, "ExecveTerminated")
    BY <1>4, <1>9 DEF ExecTold, ReadyPipe, JobInv, PipeInv
  <2>3. J!MayTell(j, "ExecveTerminated")
    BY <1>8, <2>1, <2>2 DEF J!MayTell
  <2>4. "ExecveTerminated" \in J!Types /\ Over' = Over
    BY <1>5, <1>9 DEF J!Types, ExecTold
  <2>. QED
    BY <1>2, <1>9, <2>3, <2>4 DEF ExecTold
<1>10. CASE Reaps(j)
  <2>1. state[j] \in Launched /\ j \in Over
    BY <1>10 DEF Reaps, Launched, Unreaped, Over
  <2>2. ~J!Has(j, "ProcessTerminated")
    BY <1>4, <1>10 DEF Reaps, JobInv, EndInv
  <2>3. J!MayTell(j, "ProcessTerminated")
    BY <1>8, <2>1, <2>2 DEF J!MayTell
  <2>4. "ProcessTerminated" \in J!Types /\ Over' = Over
    BY <1>5, <1>10 DEF J!Types, Reaps
  <2>. QED
    BY <1>2, <1>10, <2>3, <2>4 DEF Reaps
<1>11. ~ReapedAgain(j)
  BY DEF ReapedAgain
<1>12. ~Same(j) /\ ~Asks(j) /\ ~Execs(j) /\ ~Ends(j) /\ ~Pauses(j)
  BY DEF Same, Asks, Execs, Ends, Pauses, Untold
<1>. QED
  BY <1>6, <1>7, <1>9, <1>10, <1>11, <1>12 DEF JobStep

(* A job that is over stays over.                                          *)
LEMMA OverStays ==
    ASSUME \A k \in Job : JobStep(k)
    PROVE  Over \subseteq Over'
  BY DEF Over, JobStep, Same, Asks, Execs, Ends, Pauses, Launches, Refuses, ExecTold, Reaps,
         ReapedAgain, Alive

(* Every step is a step of Jobs, or nothing Jobs speaks of.                *)
LEMMA StepImplements ==
    ASSUME "stop" \notin Env PROVE EndedInv /\ [Next]_vars => [J!Next]_<<Told, Over>>
<1>. SUFFICES ASSUME EndedInv, [Next]_vars PROVE [J!Next]_<<Told, Over>>
  OBVIOUS
<1>1. TypeOK /\ Consistent /\ NoticeInv /\ \A k \in Job : JobInv(k)
  BY DEF EndedInv, NoticeInv, SafeInv, TypeInv
<1>2. TypeOK'
  BY NoticeInductive, <1>1 DEF NoticeInv, SafeInv, TypeInv
<1>3. CASE UNCHANGED vars
  BY <1>3 DEF vars, jobVars, Told, Over
<1>4. CASE Next
  <2>1. Up
    BY <1>4, NextIsUp
  <2>2. \A k \in Job : JobStep(k)
    BY <1>1, <1>2, <1>4, ClientJobStep, ChildJobStep, DaemonJobStep DEF Next
  <2>3. CASE UNCHANGED mail
    <3>1. Told' = Told
      BY <2>3 DEF Told
    <3>2. Over \subseteq Over' /\ Over' \subseteq Job
      BY <2>2, OverStays DEF Over
    <3>. QED
      BY <3>1, <3>2 DEF J!Next, J!End
  <2>4. ASSUME NEW j \in Job,
               \A k \in Job \ {j} : state'[k] = state[k] /\ mail'[k] = mail[k],
               state[j] # "reaped" \/ pipe'[j] # pipe[j]
        PROVE  [J!Next]_<<Told, Over>>
    <3>1. CASE mail'[j] # mail[j]
      BY <1>1, <1>2, <2>1, <2>2, <2>4, <3>1, TellImplements
    <3>2. CASE mail'[j] = mail[j]
      <4>1. mail' = mail
        BY <1>1, <1>2, <2>4, <3>2 DEF TypeOK
      <4>. QED
        BY <2>3, <4>1
    <3>. QED
      BY <3>1, <3>2
  <2>. QED
    BY <1>4, <2>3, <2>4, OneTold
<1>. QED
  BY <1>3, <1>4

(* The C daemon implements the protocol of Jobs, as long as no child is    *)
(* stopped: one answer first, news of execve and of the end once each and  *)
(* in any order, the end only of a process that is over.                   *)
THEOREM ImplementsJobs == ASSUME "stop" \notin Env PROVE Spec => JobsSpec
<1>1. Init => J!Init
  BY DEF Init, J!Init, Told, Over
<1>2. EndedInv /\ [Next]_vars => EndedInv' /\ [J!Next]_<<Told, Over>>
  BY EndedInductive, StepImplements
<1>. QED
  BY <1>1, <1>2, EndedInit, PTL DEF Spec, JobsSpec, J!Spec
=============================================================================
