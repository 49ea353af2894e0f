---------------------------- MODULE NoticeProofs ----------------------------
(***************************************************************************)
(* Theorems about what the C daemon tells of each job, whatever the        *)
(* environment does: AnsweredFirst, ExecNoticeSound, TerminatedSound, and  *)
(* BatchStaysReady, which they rest on.                                    *)
(*                                                                         *)
(* The argument is local.  JobStep lists what a step can do to one job,    *)
(* JobInv says what is then known of it; every action is a JobStep of      *)
(* every job, and a JobStep keeps JobInv.                                  *)
(***************************************************************************)
EXTENDS DaemonProofs, FiniteSetTheorems

USE MaxProcessAssumption, NullAssumption, StdoutAssumption, ConnAssumption,
    CodeAssumption

ReadyPipe == {"errno", "cloexec", "hangup"}

(* The request was not read, or was refused.                               *)
NotLaunched(k) ==
    /\ state[k] \in {"unborn", "requested", "refused"} =>
          pidOf[k] = NULL /\ pipe[k] = "none"
    /\ state[k] \in {"unborn", "requested"} => mail[k] = <<>>
    /\ state[k] = "refused" =>
          \A i \in 1 .. Len(mail[k]) : i = 1 /\ mail[k][i].type = "ChildCreationError"

(* A launched job was answered.                                            *)
AnswerInv(k) ==
    state[k] \in Launched =>
       /\ pidOf[k] \in Pid
       /\ Up => mail[k] # <<>>
       /\ \A i \in 1 .. Len(mail[k]) :
             /\ mail[k][i].type = "ProcessLaunched" <=> i = 1
             /\ mail[k][i].type # "ChildCreationError"

(* The pipe shows how the execve of the child went, until what is read     *)
(* from it is told; what has been told stays true.                         *)
PipeInv(k) ==
    /\ state[k] = "cloned" => pipe[k] \in {"quiet", "closed"} /\ exec[k] = "none"
    /\ pipe[k] \in {"none", "quiet", "hangup"} => exec[k] = "none"
    /\ pipe[k] = "cloexec" => exec[k] = "ok"
    /\ pipe[k] = "errno" => exec[k] = "failed"
    /\ \A i \in 1 .. Len(mail[k]) : mail[k][i].type = "ExecveTerminated" =>
          /\ pipe[k] = "closed"
          /\ state[k] # "cloned"
          /\ mail[k][i].val = 0 <=> exec[k] = "failed"
    /\ \A i, l \in 1 .. Len(mail[k]) :
          mail[k][i].type = "ExecveTerminated" /\ mail[k][l].type = "ExecveTerminated"
             => i = l

(* The end of a process is told when it is reaped, with its status.        *)
EndInv(k) ==
    /\ \A i \in 1 .. Len(mail[k]) : mail[k][i].type = "ProcessTerminated" =>
          /\ state[k] = "reaped"
          /\ \/ mail[k][i].val = status[k].code
             \/ \E l \in 1 .. Len(mail[k]) :
                   l < i /\ mail[k][l].type = "ProcessTerminated"
    /\ Up /\ state[k] = "reaped" =>
          \E i \in 1 .. Len(mail[k]) : mail[k][i].type = "ProcessTerminated"

JobInv(k) == NotLaunched(k) /\ AnswerInv(k) /\ PipeInv(k) /\ EndInv(k)

NoticeInv == SafeInv /\ BatchStaysReady /\ \A k \in Job : JobInv(k)
-----------------------------------------------------------------------------
(* What a step can do to job k.                                            *)

Untold(k) == pidOf'[k] = pidOf[k] /\ mail'[k] = mail[k]

(* A notice is sent, or the daemon ends over it.                           *)
Tells(k, type, val) ==
    \/ \E n \in Notice : /\ n.type = type /\ n.val = val
                         /\ mail'[k] = Append(mail[k], n)
    \/ mail'[k] = mail[k] /\ ~Up'

Same(k) ==
    /\ state'[k] = state[k] /\ status'[k] = status[k] /\ pipe'[k] = pipe[k]
    /\ exec'[k] = exec[k] /\ Untold(k)

Asks(k) ==
    /\ state[k] = "unborn" /\ state'[k] = "requested"
    /\ pipe'[k] = pipe[k] /\ exec'[k] = exec[k] /\ Untold(k)

Execs(k) ==
    /\ state[k] = "cloned"
    /\ \/ /\ state'[k] = "running" /\ exec'[k] = "ok"
          /\ pipe'[k] = PipeAfterExec(pipe[k])
       \/ /\ state'[k] = "failed" /\ exec'[k] = "failed"
          /\ pipe'[k] = IF pipe[k] = "quiet" THEN "errno" ELSE pipe[k]
    /\ Untold(k)

(* The end of a child, possibly of writing errno to a closed pipe.         *)
Ends(k) ==
    /\ state[k] \in Alive /\ state'[k] = "zombie"
    /\ \/ pipe'[k] = pipe[k] /\ exec'[k] = exec[k]
       \/ pipe[k] = "quiet" /\ pipe'[k] = "hangup" /\ exec'[k] = exec[k]
       \/ /\ state[k] = "cloned" /\ pipe[k] = "closed"
          /\ pipe'[k] = "closed" /\ exec'[k] = "failed"
    /\ Untold(k)

Pauses(k) ==
    /\ state[k] \in {"running", "stopped"} /\ state'[k] \in {"running", "stopped"}
    /\ pipe'[k] = pipe[k] /\ exec'[k] = exec[k] /\ Untold(k)

Launches(k) ==
    /\ state[k] = "requested" /\ state'[k] = "cloned"
    /\ pidOf'[k] \in Pid /\ pipe'[k] \in {"quiet", "closed"} /\ exec'[k] = exec[k]
    /\ Tells(k, "ProcessLaunched", 0)

Refuses(k) ==
    /\ state[k] = "requested" /\ state'[k] = "refused"
    /\ pidOf'[k] = pidOf[k] /\ pipe'[k] = pipe[k] /\ exec'[k] = exec[k]
    /\ Tells(k, "ChildCreationError", 0)

ExecTold(k) ==
    /\ pipe[k] \in ReadyPipe /\ pipe'[k] = "closed" /\ exec'[k] = exec[k]
    /\ state'[k] = state[k] /\ status'[k] = status[k] /\ pidOf'[k] = pidOf[k]
    /\ Tells(k, "ExecveTerminated", success(pipe[k]))

Reaps(k) ==
    /\ state[k] = "zombie" /\ state'[k] = "reaped"
    /\ status'[k] = status[k] /\ pipe'[k] = pipe[k] /\ pidOf'[k] = pidOf[k]
    /\ exec'[k] = exec[k]
    /\ Tells(k, "ProcessTerminated", status[k].code)

(* A siginfo about a process reaped before.                                *)
ReapedAgain(k) ==
    /\ state[k] = "reaped" /\ state'[k] = state[k]
    /\ status'[k] = status[k] /\ pipe'[k] = pipe[k] /\ pidOf'[k] = pidOf[k]
    /\ exec'[k] = exec[k]
    /\ \E val \in Nat : Tells(k, "ProcessTerminated", val)

JobStep(k) ==
    \/ Same(k) \/ Asks(k) \/ Execs(k) \/ Ends(k) \/ Pauses(k) \/ Launches(k)
    \/ Refuses(k) \/ ExecTold(k) \/ Reaps(k) \/ ReapedAgain(k)

(* A sequence with one notice more.                                        *)
LEMMA GrowFacts ==
    ASSUME NEW s \in Seq(Notice), NEW n \in Notice, NEW t, t = Append(s, n)
    PROVE  /\ Len(s) \in Nat /\ Len(t) = Len(s) + 1 /\ t # <<>>
           /\ \A i \in 1 .. Len(s) : i \in 1 .. Len(t) /\ t[i] = s[i]
           /\ t[Len(s) + 1] = n
           /\ \A i \in 1 .. Len(t) : i \in 1 .. Len(s) \/ i = Len(s) + 1
  OBVIOUS

(* What is known of a job survives any step of it.                         *)
LEMMA JobStepKeeps ==
    ASSUME TypeOK, Up, NEW k \in Job, JobInv(k), JobStep(k)
    PROVE  JobInv(k)'
<1>. DEFINE m == mail[k]
            L == Len(mail[k])
<1>1. m \in Seq(Notice) /\ L \in Nat /\ (m = <<>> <=> L = 0)
  BY DEF TypeOK
<1>2. CASE Same(k) \/ Asks(k) \/ Execs(k) \/ Ends(k) \/ Pauses(k)
  <2>1. mail'[k] = mail[k] /\ pidOf'[k] = pidOf[k]
    BY <1>2 DEF Same, Asks, Execs, Ends, Pauses, Untold
  <2>2. NotLaunched(k)'
    BY <1>2, <2>1 DEF JobInv, NotLaunched, Same, Asks, Execs, Ends, Pauses, Alive
  <2>3. AnswerInv(k)'
    BY <1>2, <2>1 DEF JobInv, AnswerInv, Same, Asks, Execs, Ends, Pauses, Launched,
       Unreaped, Alive
  <2>4. PipeInv(k)'
    BY <1>1, <1>2, <2>1 DEF JobInv, NotLaunched, PipeInv, Same, Asks, Execs, Ends, Pauses,
       PipeAfterExec
  <2>5. EndInv(k)'
    <3>1. CASE Same(k)
      BY <2>1, <3>1 DEF JobInv, EndInv, Same
    <3>2. CASE ~Same(k)
      <4>1. state[k] # "reaped" /\ state'[k] # "reaped"
        BY <1>2, <3>2 DEF Asks, Execs, Ends, Pauses, Alive
      <4>. QED
        BY <2>1, <4>1 DEF JobInv, EndInv
    <3>. QED
      BY <3>1, <3>2
  <2>. QED
    BY <2>2, <2>3, <2>4, <2>5 DEF JobInv
<1>3. CASE \/ Launches(k) \/ Refuses(k) \/ ExecTold(k) \/ Reaps(k) \/ ReapedAgain(k)
  <2>1. CASE mail'[k] = mail[k] /\ ~Up'
    <3>1. NotLaunched(k)'
      BY <1>1, <1>3, <2>1 DEF JobInv, NotLaunched, Launches, Refuses, ExecTold, Reaps,
         ReapedAgain, ReadyPipe
    <3>2. AnswerInv(k)'
      BY <1>1, <1>3, <2>1 DEF JobInv, NotLaunched, AnswerInv, Launches, Refuses, ExecTold,
         Reaps, ReapedAgain, Launched, Unreaped, Alive
    <3>3. PipeInv(k)'
      BY <1>1, <1>3, <2>1 DEF JobInv, NotLaunched, PipeInv, Launches, Refuses, ExecTold,
         Reaps, ReapedAgain, ReadyPipe
    <3>4. EndInv(k)'
      BY <1>1, <1>3, <2>1 DEF JobInv, NotLaunched, EndInv, Launches, Refuses, ExecTold,
         Reaps, ReapedAgain
    <3>. QED
      BY <3>1, <3>2, <3>3, <3>4 DEF JobInv
  <2>2. ASSUME NEW n \in Notice, mail'[k] = Append(mail[k], n)
        PROVE  /\ Len(mail'[k]) = L + 1 /\ mail'[k] # <<>>
               /\ \A i \in 1 .. L : i \in 1 .. Len(mail'[k]) /\ mail'[k][i] = mail[k][i]
               /\ mail'[k][L + 1] = n
               /\ \A i \in 1 .. Len(mail'[k]) : i \in 1 .. L \/ i = L + 1
    <3>. DEFINE t == mail'[k]
    <3>1. m \in Seq(Notice) /\ t = Append(m, n)
      BY <1>1, <2>2
    <3>. HIDE DEF m, t
    <3>2. /\ Len(t) = Len(m) + 1 /\ t # <<>>
          /\ \A i \in 1 .. Len(m) : i \in 1 .. Len(t) /\ t[i] = m[i]
          /\ t[Len(m) + 1] = n
          /\ \A i \in 1 .. Len(t) : i \in 1 .. Len(m) \/ i = Len(m) + 1
      BY <3>1, GrowFacts
    <3>. QED
      BY <3>2 DEF m, t
  <2>3. CASE Launches(k) /\ ~(mail'[k] = mail[k] /\ ~Up')
    <3>1. PICK n \in Notice : n.type = "ProcessLaunched" /\ mail'[k] = Append(mail[k], n)
      BY <2>3 DEF Launches, Tells
    <3>2. L = 0
      BY <1>1, <2>3 DEF JobInv, NotLaunched, Launches
    <3>3. \A i \in 1 .. Len(mail'[k]) : i = 1 /\ mail'[k][i].type = "ProcessLaunched"
      BY <2>2, <3>1, <3>2
    <3>4. NotLaunched(k)' /\ AnswerInv(k)'
      BY <2>2, <2>3, <3>1, <3>2, <3>3 DEF NotLaunched, AnswerInv, Launches
    <3>5. PipeInv(k)' /\ EndInv(k)'
      BY <2>3, <3>3 DEF JobInv, NotLaunched, PipeInv, EndInv, Launches
    <3>. QED
      BY <3>4, <3>5 DEF JobInv
  <2>4. CASE Refuses(k) /\ ~(mail'[k] = mail[k] /\ ~Up')
    <3>1. PICK n \in Notice : n.type = "ChildCreationError" /\ mail'[k] = Append(mail[k], n)
      BY <2>4 DEF Refuses, Tells
    <3>2. L = 0
      BY <1>1, <2>4 DEF JobInv, NotLaunched, Refuses
    <3>3. \A i \in 1 .. Len(mail'[k]) : i = 1 /\ mail'[k][i].type = "ChildCreationError"
      BY <2>2, <3>1, <3>2
    <3>4. NotLaunched(k)' /\ AnswerInv(k)'
      BY <2>4, <3>3 DEF JobInv, NotLaunched, AnswerInv, Refuses, Launched, Unreaped, Alive
    <3>5. PipeInv(k)' /\ EndInv(k)'
      BY <2>4, <3>3 DEF JobInv, NotLaunched, PipeInv, EndInv, Refuses
    <3>. QED
      BY <3>4, <3>5 DEF JobInv
  <2>5. CASE ExecTold(k) /\ ~(mail'[k] = mail[k] /\ ~Up')
    <3>1. PICK n \in Notice : /\ n.type = "ExecveTerminated" /\ n.val = success(pipe[k])
                              /\ mail'[k] = Append(mail[k], n)
      BY <2>5 DEF ExecTold, Tells
    <3>2. state[k] \in Launched /\ L > 0
      BY <1>1, <2>5 DEF JobInv, NotLaunched, AnswerInv, ExecTold, ReadyPipe, TypeOK, JobState, Launched
    <3>3. NotLaunched(k)' /\ AnswerInv(k)'
      BY <1>1, <2>2, <2>5, <3>1, <3>2 DEF JobInv, NotLaunched, AnswerInv, ExecTold, Launched,
         Unreaped, Alive
    <3>4. \A i \in 1 .. L : mail[k][i].type # "ExecveTerminated"
      BY <2>5 DEF JobInv, PipeInv, ExecTold, ReadyPipe
    <3>5. PipeInv(k)'
      BY <1>1, <2>2, <2>5, <3>1, <3>4 DEF JobInv, PipeInv, ExecTold, ReadyPipe, success
    <3>6. EndInv(k)'
      BY <1>1, <2>2, <2>5, <3>1 DEF JobInv, EndInv, ExecTold
    <3>. QED
      BY <3>3, <3>5, <3>6 DEF JobInv
  <2>6. CASE (Reaps(k) \/ ReapedAgain(k)) /\ ~(mail'[k] = mail[k] /\ ~Up')
    <3>1. PICK n \in Notice : /\ n.type = "ProcessTerminated"
                              /\ Reaps(k) => n.val = status[k].code
                              /\ mail'[k] = Append(mail[k], n)
      BY <2>6 DEF Reaps, ReapedAgain, Tells
    <3>2. /\ state[k] \in {"zombie", "reaped"} /\ state'[k] = "reaped" /\ L > 0
          /\ status'[k] = status[k] /\ pipe'[k] = pipe[k] /\ pidOf'[k] = pidOf[k]
          /\ exec'[k] = exec[k]
      BY <1>1, <2>6 DEF JobInv, AnswerInv, Reaps, ReapedAgain, Launched, Unreaped
    <3>3. NotLaunched(k)' /\ AnswerInv(k)'
      BY <1>1, <2>2, <3>1, <3>2 DEF JobInv, NotLaunched, AnswerInv, Launched, Unreaped
    <3>4. PipeInv(k)'
      BY <1>1, <2>2, <3>1, <3>2 DEF JobInv, PipeInv
    <3>5. EndInv(k)'
      <4>1. CASE Reaps(k)
        BY <1>1, <2>2, <3>1, <3>2, <4>1 DEF JobInv, EndInv, Reaps
      <4>2. CASE ReapedAgain(k)
        BY <1>1, <2>2, <3>1, <3>2, <4>2 DEF JobInv, EndInv, ReapedAgain
      <4>. QED
        BY <2>6, <4>1, <4>2
    <3>. QED
      BY <3>3, <3>4, <3>5 DEF JobInv
  <2>. QED
    BY <1>3, <2>1, <2>3, <2>4, <2>5, <2>6
<1>. QED
  BY <1>2, <1>3 DEF JobStep
-----------------------------------------------------------------------------
(* Every action is a JobStep of every job.                                 *)

(* send_message tells of the jobs it is about, and of no other.            *)
LEMMA NotifyTells ==
    ASSUME TypeOK, NEW c \in Conn \cup {NULL}, NEW js,
           NEW type \in {"ProcessLaunched", "ChildCreationError",
                         "ExecveTerminated", "ProcessTerminated"},
           NEW val \in Nat,
           Notify(c, js, type, val), NEW k \in Job
    PROVE  IF k \in js THEN Tells(k, type, val) ELSE mail'[k] = mail[k]
<1>. DEFINE n == [type |-> type, val |-> val,
                  to |-> IF conn[c] = "open" /\ c \notin gone THEN c ELSE NULL]
<1>1. n \in Notice /\ n.type = type /\ n.val = val
  BY DEF Notice
<1>2. CASE daemon' = "sigpipe" /\ UNCHANGED mail
  BY <1>2 DEF Tells, Up
<1>3. CASE mail' = [j \in Job |-> IF j \notin js THEN mail[j] ELSE Append(mail[j], n)]
  <2>. HIDE DEF n
  <2>1. k \in js => mail'[k] = Append(mail[k], n)
    BY <1>3
  <2>2. k \notin js => mail'[k] = mail[k]
    BY <1>3
  <2>. QED
    BY <1>1, <2>1, <2>2 DEF Tells
<1>. QED
  BY <1>2, <1>3 DEF Notify

(* So does handle_SIGCHLD, unless the scan leaves the table.               *)
LEMMA AfterWaitTells ==
    ASSUME TypeOK, NEW p, NEW js, NEW code \in Nat, AfterWait(p, js, code),
           NEW k \in Job
    PROVE  IF k \in js THEN Tells(k, "ProcessTerminated", code) ELSE mail'[k] = mail[k]
<1>1. CASE daemon' = "segv" /\ UNCHANGED mail
  BY <1>1 DEF Tells, Up
<1>2. CASE Notify(communication_socket, js, "ProcessTerminated", code)
  <2>1. communication_socket \in Conn \cup {NULL}
    BY DEF TypeOK
  <2>. QED
    BY <1>2, <2>1, NotifyTells
<1>. QED
  BY <1>1, <1>2 DEF AfterWait

(* The end of one process is no step of another job.                       *)
LEMMA DiesStep ==
    ASSUME TypeOK, NEW j \in Job, NEW ws, Dies(j, ws), state[j] \in Alive,
           \/ UNCHANGED exec
           \/ state[j] = "cloned" /\ pipe[j] = "closed" /\ exec' = [exec EXCEPT ![j] = "failed"],
           UNCHANGED <<pidOf, mail>>, NEW k \in Job
    PROVE  Same(k) \/ Ends(k)
<1>1. CASE k = j
  BY <1>1 DEF Dies, TypeOK, Ends, Untold
<1>2. CASE k # j
  BY <1>2 DEF Dies, TypeOK, Same, Untold
<1>. QED
  BY <1>1, <1>2

(* Steps of clients.                                                       *)
LEMMA ClientJobStep ==
    ASSUME TypeOK, ClientStep, NEW k \in Job
    PROVE  JobStep(k)
<1>1. UNCHANGED <<status, pidOf, pipe, exec, mail>>
  BY DEF ClientStep, Connect, SendRun, SendKill, SendPlain, Put, Disconnect, jobVars
<1>2. CASE UNCHANGED state
  BY <1>1, <1>2 DEF JobStep, Same, Untold
<1>3. ASSUME NEW c \in Conn, NEW j \in Job, SendRun(c, j) PROVE JobStep(k)
  BY <1>1, <1>3 DEF SendRun, TypeOK, JobStep, Same, Asks, Untold
<1>. QED
  BY <1>2, <1>3 DEF ClientStep, Connect, SendKill, SendPlain, Disconnect, jobVars

(* Steps of children.                                                      *)
LEMMA ChildJobStep ==
    ASSUME TypeOK, ChildStep, NEW k \in Job
    PROVE  JobStep(k)
<1>1. PICK j \in Job :
         \/ ChildExec(j) \/ ChildExecFail(j) \/ ChildSigpipe(j)
         \/ ChildFailExit(j)
         \/ \E code \in ExitCode : ChildExit(j, code)
         \/ ChildCrash(j) \/ ChildStop(j) \/ ChildContinue(j)
  BY DEF ChildStep
<1>2. UNCHANGED <<pidOf, mail>>
  BY <1>1 DEF ChildExec, ChildExecFail, ChildSigpipe, ChildFailExit, ChildExit,
              ChildCrash, ChildStop, ChildContinue, ChildVarsOnly
<1>3. ASSUME NEW ws, Dies(j, ws), state[j] \in Alive,
             \/ UNCHANGED exec
             \/ /\ state[j] = "cloned" /\ pipe[j] = "closed"
                /\ exec' = [exec EXCEPT ![j] = "failed"]
      PROVE  JobStep(k)
  BY <1>2, <1>3, DiesStep DEF JobStep
<1>4. CASE ChildSigpipe(j) \/ ChildFailExit(j) \/ ChildCrash(j)
  BY <1>3, <1>4 DEF ChildSigpipe, ChildFailExit, ChildCrash, Alive
<1>5. ASSUME NEW code \in ExitCode, ChildExit(j, code) PROVE JobStep(k)
  BY <1>3, <1>5 DEF ChildExit, Alive
<1>6. CASE ChildExec(j) \/ ChildExecFail(j)
  <2>1. k # j => Same(k)
    BY <1>2, <1>6 DEF ChildExec, ChildExecFail, TypeOK, Same, Untold
  <2>2. Execs(j)
    BY <1>2, <1>6 DEF ChildExec, ChildExecFail, TypeOK, Execs, Untold
  <2>. QED
    BY <2>1, <2>2 DEF JobStep
<1>7. CASE ChildStop(j) \/ ChildContinue(j)
  <2>1. k # j => Same(k)
    BY <1>2, <1>7 DEF ChildStop, ChildContinue, TypeOK, Same, Untold
  <2>2. Pauses(j)
    BY <1>2, <1>7 DEF ChildStop, ChildContinue, TypeOK, Pauses, Untold
  <2>. QED
    BY <2>1, <2>2 DEF JobStep
<1>. QED
  BY <1>1, <1>4, <1>5, <1>6, <1>7

(* A request that is read is of a job that waits for it.                   *)
LEMMA LaunchRequested ==
    ASSUME TypeOK, Consistent, NEW c \in Conn, NEW j \in Job,
           Reads(c, "run"), Head(inbox[c]).job = j
    PROVE  state[j] = "requested"
<1>1. Len(inbox[c]) \in Nat \ {0} /\ Head(inbox[c]) = inbox[c][1]
  BY ReadsTakes
<1>2. 1 \in 1 .. Len(inbox[c]) /\ inbox[c][1].type = "run" /\ inbox[c][1].job = j
  BY <1>1 DEF Reads
<1>. QED
  BY <1>2 DEF Consistent, RequestInv, IsRun

(* Handlers of messages.                                                   *)
LEMMA MessageJobStep ==
    ASSUME TypeOK, TypeOK', Consistent, NEW c \in Conn, HandleMessage(c), NEW k \in Job
    PROVE  JobStep(k)
<1>1. CASE ReadsNull(c) \/ ReadsEmpty(c) \/ ReadsOther(c) \/ PipeFails(c)
  BY <1>1 DEF ReadsNull, ReadsEmpty, ReadsOther, PipeFails, jobVars, JobStep, Same, Untold
<1>2. ASSUME NEW j \in Job, NEW fd \in Job \cup {STDOUT}, NEW p \in Pid,
             NEW watched \in BOOLEAN, LaunchProcess(c, j, p, fd, watched)
      PROVE  JobStep(k)
  <2>1. state[j] = "requested"
    BY <1>2, LaunchRequested DEF LaunchProcess
  <2>2. IF k \in {j} THEN Tells(k, "ProcessLaunched", 0) ELSE mail'[k] = mail[k]
    <3>1. Notify(c, {j}, "ProcessLaunched", 0) /\ c \in Conn \cup {NULL} /\ 0 \in Nat
      BY <1>2 DEF LaunchProcess
    <3>. QED
      BY <3>1, NotifyTells
  <2>3. CASE k = j
    BY <1>2, <2>1, <2>2, <2>3 DEF LaunchProcess, TypeOK, JobStep, Launches
  <2>4. CASE k # j
    BY <1>2, <2>2, <2>4 DEF LaunchProcess, TypeOK, JobStep, Same, Untold
  <2>. QED
    BY <2>3, <2>4
<1>3. ASSUME NEW j \in Job, NEW fd \in Job \cup {NULL, STDOUT}, LaunchRefused(c, j, fd)
      PROVE  JobStep(k)
  <2>1. state[j] = "requested"
    BY <1>3, LaunchRequested DEF LaunchRefused
  <2>2. IF k \in {j} THEN Tells(k, "ChildCreationError", 0) ELSE mail'[k] = mail[k]
    <3>1. Notify(c, {j}, "ChildCreationError", 0) /\ c \in Conn \cup {NULL} /\ 0 \in Nat
      BY <1>3 DEF LaunchRefused
    <3>. QED
      BY <3>1, NotifyTells
  <2>3. CASE k = j
    BY <1>3, <2>1, <2>2, <2>3 DEF LaunchRefused, TypeOK, JobStep, Refuses
  <2>4. CASE k # j
    BY <1>3, <2>2, <2>4 DEF LaunchRefused, TypeOK, JobStep, Same, Untold
  <2>. QED
    BY <2>3, <2>4
<1>4. CASE KillProcess(c)
  <2>1. UNCHANGED <<pidOf, exec, mail>>
    BY <1>4 DEF KillProcess
  <2>2. CASE UNCHANGED <<state, status, pipe>>
    BY <2>1, <2>2 DEF JobStep, Same, Untold
  <2>3. ASSUME NEW j \in Job, NEW ws, Dies(j, ws), state[j] \in Alive PROVE JobStep(k)
    BY <2>1, <2>3, DiesStep DEF JobStep
  <2>. QED
    BY <1>4, <2>2, <2>3 DEF KillProcess, Victims, Holders
<1>5. CASE KillDaemon(c)
  <2>1. UNCHANGED <<pidOf, pipe, exec, mail>>
    BY <1>5 DEF KillDaemon
  <2>2. \/ state'[k] = state[k] /\ status'[k] = status[k]
        \/ state[k] \in Alive /\ state'[k] = "zombie"
    BY <1>5 DEF KillDaemon
  <2>. QED
    BY <2>1, <2>2 DEF JobStep, Same, Ends, Untold
<1>. QED
  BY <1>1, <1>2, <1>3, <1>4, <1>5 DEF HandleMessage

(* The other handlers.  An event that is handled is still there, so that   *)
(* there is something in the pipe and a siginfo to be read.                *)
LEMMA DaemonJobStep ==
    ASSUME NoticeInv, TypeOK', DaemonStep, NEW k \in Job
    PROVE  JobStep(k)
<1>. TypeOK /\ StatusInv /\ Consistent /\ BatchStaysReady /\ \A j \in Job : JobInv(j)
  BY DEF NoticeInv, SafeInv, TypeInv
<1>1. CASE EpollWait \/ AcceptFails \/ HandleSignalBlocks \/ \E c \in Conn : Accept(c)
  BY <1>1 DEF EpollWait, AcceptFails, HandleSignalBlocks, Accept, jobVars, JobStep,
              Same, Untold
<1>2. CASE \E c \in Conn : HandleMessage(c)
  BY <1>2, MessageJobStep
<1>3. ASSUME NEW j \in Job, HandleExecve(j) PROVE JobStep(k)
  <2>1. Ev("EXECVE", j) \in Ready
    BY <1>3 DEF HandleExecve, Handles, BatchStaysReady
  <2>2. pipe[j] \in ReadyPipe
    BY <2>1 DEF Ready, Ev, ReadyPipe
  <2>3. success(pipe[j]) \in Nat /\ communication_socket \in Conn \cup {NULL}
    BY DEF success, TypeOK
  <2>4. IF k \in {j} THEN Tells(k, "ExecveTerminated", success(pipe[j]))
                    ELSE mail'[k] = mail[k]
    <3>1. PICK val \in Nat : val = success(pipe[j])
      BY <2>3
    <3>2. PICK c \in Conn \cup {NULL} : c = communication_socket
      BY <2>3
    <3>3. Notify(c, {j}, "ExecveTerminated", val)
      BY <1>3, <3>1, <3>2 DEF HandleExecve
    <3>4. TypeOK
      OBVIOUS
    <3>5. IF k \in {j} THEN Tells(k, "ExecveTerminated", val) ELSE mail'[k] = mail[k]
      BY <3>3, <3>4, NotifyTells
    <3>. QED
      BY <3>1, <3>5
  <2>5. CASE k = j
    BY <1>3, <2>2, <2>4, <2>5 DEF HandleExecve, PipeAfterNotice, TypeOK, JobStep, ExecTold
  <2>6. CASE k # j
    BY <1>3, <2>4, <2>6 DEF HandleExecve, TypeOK, JobStep, Same, Untold
  <2>. QED
    BY <2>5, <2>6
<1>4. CASE HandleSignal \/ WaitReturns
  <2>1. PICK j \in Job : Reap(j)
    BY <1>4 DEF HandleSignal, WaitReturns, Holders
  <2>2. UNCHANGED <<status, pidOf, pipe, exec>>
    BY <1>4 DEF HandleSignal, WaitReturns
  <2>3. status[j].code \in Nat
    BY <2>1 DEF Reap, StatusInv, WaitStatus
  <2>4. IF k = j THEN Tells(k, "ProcessTerminated", status[j].code) ELSE mail'[k] = mail[k]
    BY <2>1, <2>3, AfterWaitTells DEF Reap, Reported, exit_status
  <2>5. CASE k = j
    BY <2>1, <2>2, <2>4, <2>5 DEF Reap, TypeOK, JobStep, Reaps
  <2>6. CASE k # j
    BY <2>1, <2>2, <2>4, <2>6 DEF Reap, TypeOK, JobStep, Same, Untold
  <2>. QED
    BY <2>5, <2>6
<1>5. CASE HandleSignalStale
  <2>1. UNCHANGED <<state, status, pidOf, pipe, exec>>
    BY <1>5 DEF HandleSignalStale
  <2>. DEFINE js == {j \in Job : pidOf[j] = pending}
  <2>2. PICK garbage \in ExitCode : AfterWait(pending, js, garbage)
    BY <1>5 DEF HandleSignalStale
  <2>3. IF k \in js THEN Tells(k, "ProcessTerminated", garbage) ELSE mail'[k] = mail[k]
    <3>. HIDE DEF js
    <3>1. garbage \in Nat
      OBVIOUS
    <3>. QED
      BY <2>2, <3>1, AfterWaitTells
  <2>4. CASE pidOf[k] # pending
    BY <2>1, <2>3, <2>4 DEF JobStep, Same, Untold
  <2>5. CASE pidOf[k] = pending
    <3>1. Ev("SIGNALFD", NULL) \in Ready
      BY <1>5 DEF HandleSignalStale, Handles, BatchStaysReady
    <3>2. pidOf[k] # NULL
      BY <2>5, <3>1 DEF Ready, Ev
    <3>3. state[k] \in Launched
      BY <3>2 DEF JobInv, NotLaunched, TypeOK, JobState, Launched
    <3>4. state[k] \notin Unreaped
      BY <1>5, <2>5 DEF HandleSignalStale, Holders
    <3>5. state[k] = "reaped"
      BY <3>3, <3>4 DEF Launched
    <3>6. garbage \in Nat
      OBVIOUS
    <3>. QED
      BY <2>1, <2>3, <2>5, <3>5, <3>6 DEF JobStep, ReapedAgain
  <2>. QED
    BY <2>4, <2>5
<1>. QED
  BY <1>1, <1>2, <1>3, <1>4, <1>5 DEF DaemonStep
-----------------------------------------------------------------------------
(* Events of the batch stay ready.                                         *)

(* What makes an event ready.                                              *)
LEMMA ReadyCases ==
    \A e : e \in Ready <=>
       \/ e = Ev("SIGNALFD", NULL) /\ pending # NULL
       \/ e = Ev("SOCK_CONNEXION", NULL) /\ \E c \in Conn : conn[c] = "backlog"
       \/ \E c \in Conn : /\ e = Ev("SOCK_MESSAGE", c)
                          /\ conn[c] = "open" /\ (inbox[c] # <<>> \/ c \in gone)
       \/ \E j \in Job : e = Ev("EXECVE", j) /\ pipe[j] \in ReadyPipe
  BY DEF Ready, ReadyPipe

(* Everything that is ready stays so, but for event h, which is handled.   *)
StaysBut(h) ==
    /\ h # Ev("SIGNALFD", NULL) /\ pending # NULL => pending' # NULL
    /\ \A c \in Conn :
          h # Ev("SOCK_CONNEXION", NULL) /\ conn[c] = "backlog" => conn'[c] = "backlog"
    /\ \A c \in Conn :
          (/\ h # Ev("SOCK_MESSAGE", c)
           /\ conn[c] = "open" /\ (inbox[c] # <<>> \/ c \in gone)) =>
             conn'[c] = "open" /\ (inbox'[c] # <<>> \/ c \in gone')
    /\ \A j \in Job :
          h # Ev("EXECVE", j) /\ pipe[j] \in ReadyPipe => pipe'[j] \in ReadyPipe

(* Stands for no event, where nothing is handled.                          *)
NoEvent == Ev("NONE", NULL)

(* The rest of the batch is then ready.                                    *)
LEMMA RestStaysReady ==
    ASSUME batch \subseteq Ready, NEW h, batch' \subseteq batch, h \notin batch', StaysBut(h)
    PROVE  batch' \subseteq Ready'
<1>. SUFFICES ASSUME NEW e \in batch' PROVE e \in Ready'
  OBVIOUS
<1>1. e \in Ready /\ e # h
  OBVIOUS
<1>2. \A x : x \in Ready' <=>
       \/ x = Ev("SIGNALFD", NULL) /\ pending' # NULL
       \/ x = Ev("SOCK_CONNEXION", NULL) /\ \E c \in Conn : conn'[c] = "backlog"
       \/ \E c \in Conn : /\ x = Ev("SOCK_MESSAGE", c)
                          /\ conn'[c] = "open" /\ (inbox'[c] # <<>> \/ c \in gone')
       \/ \E j \in Job : x = Ev("EXECVE", j) /\ pipe'[j] \in ReadyPipe
  BY DEF Ready, ReadyPipe, Ev
<1>3. CASE e = Ev("SIGNALFD", NULL) /\ pending # NULL
  BY <1>1, <1>2, <1>3 DEF StaysBut
<1>4. CASE e = Ev("SOCK_CONNEXION", NULL) /\ \E c \in Conn : conn[c] = "backlog"
  BY <1>1, <1>2, <1>4 DEF StaysBut
<1>5. ASSUME NEW c \in Conn, e = Ev("SOCK_MESSAGE", c),
             conn[c] = "open" /\ (inbox[c] # <<>> \/ c \in gone)
      PROVE  e \in Ready'
  BY <1>1, <1>2, <1>5 DEF StaysBut
<1>6. ASSUME NEW j \in Job, e = Ev("EXECVE", j), pipe[j] \in ReadyPipe
      PROVE  e \in Ready'
  BY <1>1, <1>2, <1>6 DEF StaysBut
<1>. QED
  BY <1>1, <1>3, <1>4, <1>5, <1>6, ReadyCases

(* Nothing that was appended to is empty.                                  *)
LEMMA AppendNotEmpty ==
    ASSUME NEW S, NEW s \in Seq(S), NEW m PROVE Append(s, m) # <<>>
<1>1. s \in Seq(S \cup {m}) /\ m \in S \cup {m}
  OBVIOUS
<1>2. Len(Append(s, m)) = Len(s) + 1 /\ Len(s) \in Nat
  BY <1>1
<1>. QED
  BY <1>2

(* The pipe of a process that ends keeps what it holds.                    *)
LEMMA DiesKeepsPipes ==
    ASSUME TypeOK, NEW j \in Job, NEW ws, Dies(j, ws)
    PROVE  /\ \A k \in Job : pipe[k] \in ReadyPipe => pipe'[k] \in ReadyPipe
           /\ pending # NULL => pending' # NULL
  BY DEF Dies, Raise, TypeOK, ReadyPipe

(* Clients and children add events and take none away.                     *)
LEMMA OthersStay ==
    ASSUME TypeOK, ClientStep \/ ChildStep
    PROVE  batch' = batch /\ StaysBut(NoEvent)
<1>1. CASE ClientStep
  <2>1. UNCHANGED <<pending, pipe, batch>>
    BY <1>1 DEF ClientStep, Connect, SendRun, SendKill, SendPlain, Put, Disconnect,
                jobVars, loopVars
  <2>2. ASSUME NEW c \in Conn, Connect(c) PROVE StaysBut(NoEvent)
    BY <2>1, <2>2 DEF Connect, TypeOK, StaysBut
  <2>3. ASSUME NEW c \in Conn, Disconnect(c) PROVE StaysBut(NoEvent)
    BY <2>1, <2>3 DEF Disconnect, TypeOK, StaysBut
  <2>4. ASSUME NEW c \in Conn, NEW m, Put(c, m) PROVE StaysBut(NoEvent)
    <3>1. inbox' = [inbox EXCEPT ![c] = Append(inbox[c], m)] /\ inbox[c] \in Seq(Message)
      BY <2>4 DEF Put, TypeOK
    <3>2. Append(inbox[c], m) # <<>>
      BY <3>1, AppendNotEmpty
    <3>3. UNCHANGED <<conn, gone>>
      BY <2>4 DEF Put
    <3>4. \A d \in Conn : inbox[d] # <<>> => inbox'[d] # <<>>
      <4>. HIDE DEF Put
      <4>. QED
        BY <3>1, <3>2 DEF TypeOK
    <3>. QED
      BY <2>1, <3>3, <3>4 DEF StaysBut
  <2>. QED
    BY <1>1, <2>1, <2>2, <2>3, <2>4 DEF ClientStep, SendRun, SendKill, SendPlain
<1>2. CASE ChildStep
  <2>1. PICK j \in Job :
           \/ ChildExec(j) \/ ChildExecFail(j) \/ ChildSigpipe(j)
           \/ ChildFailExit(j)
           \/ \E code \in ExitCode : ChildExit(j, code)
           \/ ChildCrash(j) \/ ChildStop(j) \/ ChildContinue(j)
    BY <1>2 DEF ChildStep
  <2>2. UNCHANGED <<conn, gone, inbox, batch>>
    BY <2>1 DEF ChildExec, ChildExecFail, ChildSigpipe, ChildFailExit, ChildExit,
                ChildCrash, ChildStop, ChildContinue, ChildVarsOnly, connVars, loopVars
  <2>3. ASSUME NEW ws, Dies(j, ws) PROVE StaysBut(NoEvent)
    BY <2>2, <2>3, DiesKeepsPipes DEF StaysBut
  <2>4. CASE ChildExec(j) \/ ChildExecFail(j)
    BY <2>2, <2>4 DEF ChildExec, ChildExecFail, PipeAfterExec, TypeOK, ReadyPipe, StaysBut
  <2>5. CASE ChildStop(j) \/ ChildContinue(j)
    BY <2>2, <2>5 DEF ChildStop, ChildContinue, Raise, TypeOK, StaysBut
  <2>. QED
    BY <2>1, <2>2, <2>3, <2>4, <2>5 DEF ChildSigpipe, ChildFailExit, ChildExit, ChildCrash
<1>. QED
  BY <1>1, <1>2

(* The handler of a message leaves the other events alone.                 *)
LEMMA MessageStays ==
    ASSUME NoticeInv, NEW c \in Conn, HandleMessage(c), Up'
    PROVE  batch' = batch \ {Ev("SOCK_MESSAGE", c)} /\ StaysBut(Ev("SOCK_MESSAGE", c))
<1>. DEFINE h == Ev("SOCK_MESSAGE", c)
<1>. TypeOK /\ Consistent /\ \A j \in Job : JobInv(j)
  BY DEF NoticeInv, SafeInv, TypeInv
<1>1. batch' = batch \ {h} /\ gone' = gone
  BY DEF HandleMessage, ReadsNull, ReadsEmpty, ReadsOther, LaunchProcess, LaunchRefused,
         PipeFails, KillProcess, KillDaemon, Reads, Handles, connVars
<1>2. ~ReadsNull(c) /\ ~PipeFails(c) /\ ~KillDaemon(c)
  BY DEF ReadsNull, PipeFails, KillDaemon, Up
<1>3. \A d \in Conn : d # c => inbox'[d] = inbox[d]
  BY <1>2 DEF HandleMessage, ReadsEmpty, ReadsOther, LaunchProcess, LaunchRefused,
         KillProcess, Reads, TypeOK
<1>4. \A d \in Conn : /\ conn[d] = "backlog" => conn'[d] = "backlog" \/ d = c
                      /\ d # c => conn'[d] = conn[d]
  BY <1>2 DEF HandleMessage, ReadsEmpty, ReadsOther, LaunchProcess, LaunchRefused,
         KillProcess, Reads, TypeOK
<1>5. conn[c] = "open"
  <2>1. h \in batch /\ Up
    BY DEF HandleMessage, ReadsNull, ReadsEmpty, ReadsOther, LaunchProcess, LaunchRefused,
           PipeFails, KillProcess, KillDaemon, Reads, Handles
  <2>2. h \in Ready
    BY <2>1 DEF NoticeInv, BatchStaysReady
  <2>. QED
    BY <2>2, ReadyCases DEF Ev
<1>. DEFINE Kept == /\ pending # NULL => pending' # NULL
                    /\ \A k \in Job : pipe[k] \in ReadyPipe => pipe'[k] \in ReadyPipe
<1>6. Kept
  <2>1. CASE ReadsEmpty(c) \/ ReadsOther(c)
    BY <2>1 DEF ReadsEmpty, ReadsOther, jobVars
  <2>2. ASSUME NEW j \in Job, NEW fd, NEW p, NEW watched \in BOOLEAN,
               LaunchProcess(c, j, p, fd, watched)
        PROVE  Kept
    <3>1. state[j] = "requested"
      BY <2>2, LaunchRequested DEF LaunchProcess
    <3>2. pipe[j] = "none"
      BY <3>1 DEF JobInv, NotLaunched
    <3>. QED
      BY <2>2, <3>2 DEF LaunchProcess, TypeOK, ReadyPipe
  <2>3. ASSUME NEW j \in Job, NEW fd, LaunchRefused(c, j, fd) PROVE Kept
    BY <2>3 DEF LaunchRefused
  <2>4. CASE KillProcess(c)
    <3>1. \/ UNCHANGED <<pipe, pending>>
          \/ \E j \in Job : Dies(j, [how |-> "signaled", code |-> SIGKILL])
      BY <2>4 DEF KillProcess, Victims, Holders
    <3>. QED
      BY <3>1, DiesKeepsPipes
  <2>. QED
    BY <1>2, <2>1, <2>2, <2>3, <2>4 DEF HandleMessage
<1>. HIDE DEF Kept
<1>. QED
  BY <1>1, <1>3, <1>4, <1>5, <1>6 DEF StaysBut, Ev, Kept

(* A step of the daemon takes one event from the batch and leaves the      *)
(* others ready, unless it collects a new batch.                           *)
LEMMA DaemonStays ==
    ASSUME NoticeInv, DaemonStep, Up'
    PROVE  \/ batch' \subseteq Ready'
           \/ \E h : batch' \subseteq batch /\ h \notin batch' /\ StaysBut(h)
<1>. TypeOK /\ BatchStaysReady
  BY DEF NoticeInv, SafeInv, TypeInv
<1>1. CASE EpollWait
  <2>1. batch' \subseteq Ready
    BY <1>1 DEF EpollWait
  <2>2. Ready' = Ready
    BY <1>1 DEF EpollWait, jobVars, connVars, Ready
  <2>. QED
    BY <2>1, <2>2
<1>2. ASSUME NEW c \in Conn, Accept(c)
      PROVE  \E h : batch' \subseteq batch /\ h \notin batch' /\ StaysBut(h)
  <2>. DEFINE h == Ev("SOCK_CONNEXION", NULL)
  <2>1. batch' = batch \ {h} /\ UNCHANGED <<pending, pipe, gone, inbox>>
    BY <1>2 DEF Accept, Handles, jobVars
  <2>2. \A d \in Conn : conn[d] = "open" => conn'[d] = "open"
    BY <1>2 DEF Accept, TypeOK
  <2>3. StaysBut(h)
    BY <2>1, <2>2 DEF StaysBut
  <2>. QED
    BY <2>1, <2>3
<1>3. ASSUME NEW c \in Conn, HandleMessage(c)
      PROVE  \E h : batch' \subseteq batch /\ h \notin batch' /\ StaysBut(h)
  BY <1>3, MessageStays
<1>4. ASSUME NEW j \in Job, HandleExecve(j)
      PROVE  \E h : batch' \subseteq batch /\ h \notin batch' /\ StaysBut(h)
  <2>. DEFINE h == Ev("EXECVE", j)
  <2>1. batch' = batch \ {h} /\ UNCHANGED <<pending, conn, gone, inbox>>
    BY <1>4 DEF HandleExecve, Handles, connVars
  <2>2. \A k \in Job : k # j => pipe'[k] = pipe[k]
    BY <1>4 DEF HandleExecve, TypeOK
  <2>3. StaysBut(h)
    BY <2>1, <2>2 DEF StaysBut
  <2>. QED
    BY <2>1, <2>3
<1>5. CASE HandleSignal \/ HandleSignalBlocks \/ HandleSignalStale
  <2>. DEFINE h == Ev("SIGNALFD", NULL)
  <2>1. batch' = batch \ {h} /\ UNCHANGED <<pipe, conn, gone, inbox>>
    BY <1>5 DEF HandleSignal, HandleSignalBlocks, HandleSignalStale, Handles, connVars
  <2>2. StaysBut(h)
    BY <2>1 DEF StaysBut
  <2>. QED
    BY <2>1, <2>2
<1>6. CASE WaitReturns
  <2>1. UNCHANGED <<pending, pipe, conn, gone, inbox, batch>>
    BY <1>6 DEF WaitReturns, connVars
  <2>2. NoEvent \notin batch
    BY DEF TypeOK, Event, NoEvent, Ev
  <2>3. StaysBut(NoEvent)
    BY <2>1 DEF StaysBut
  <2>. QED
    BY <2>1, <2>2, <2>3
<1>7. ~AcceptFails
  BY DEF AcceptFails, Up
<1>. QED
  BY <1>1, <1>2, <1>3, <1>4, <1>5, <1>6, <1>7 DEF DaemonStep

(* Nothing happens once the daemon has ended.                              *)
LEMMA NextIsUp == Next => Up
<1>1. ClientStep => Up
  BY DEF ClientStep, Connect, SendRun, SendKill, SendPlain, Put, Disconnect
<1>2. ChildStep => Up
  BY DEF ChildStep, ChildExec, ChildExecFail, ChildSigpipe, ChildFailExit, ChildExit,
         ChildCrash, ChildStop, ChildContinue
<1>3. ASSUME NEW c \in Conn, HandleMessage(c) PROVE Up
  BY <1>3 DEF HandleMessage, ReadsNull, ReadsEmpty, ReadsOther, LaunchProcess,
     LaunchRefused, PipeFails, KillProcess, KillDaemon, Reads, Handles
<1>4. DaemonStep => Up
  BY <1>3 DEF DaemonStep, EpollWait, AcceptFails, Accept, HandleExecve, HandleSignal,
     HandleSignalBlocks, HandleSignalStale, WaitReturns, Handles
<1>. QED
  BY <1>1, <1>2, <1>4 DEF Next

(* What is known of the jobs and of the batch is inductive.                *)
LEMMA NoticeInductive == NoticeInv /\ [Next]_vars => NoticeInv'
<1>. SUFFICES ASSUME NoticeInv, [Next]_vars PROVE NoticeInv'
  OBVIOUS
<1>1. SafeInv' /\ TypeOK'
  BY SafeInductive DEF NoticeInv, SafeInv, TypeInv
<1>2. TypeOK /\ Consistent /\ BatchStaysReady /\ \A k \in Job : JobInv(k)
  BY DEF NoticeInv, SafeInv, TypeInv
<1>3. CASE UNCHANGED vars
  <2>1. BatchStaysReady'
    BY <1>2, <1>3 DEF BatchStaysReady, Ready, Up, vars, jobVars, connVars, loopVars
  <2>2. ASSUME NEW k \in Job PROVE JobInv(k)'
    BY <1>2, <1>3 DEF JobInv, NotLaunched, AnswerInv, PipeInv, EndInv, Up, vars, jobVars
  <2>. QED
    BY <1>1, <2>1, <2>2 DEF NoticeInv
<1>4. CASE Next
  <2>1. Up
    BY <1>4, NextIsUp
  <2>2. ASSUME NEW k \in Job PROVE JobInv(k)'
    <3>1. JobStep(k)
      BY <1>1, <1>2, <1>4, ClientJobStep, ChildJobStep, DaemonJobStep DEF Next
    <3>. QED
      BY <1>2, <2>1, <3>1, JobStepKeeps
  <2>3. ASSUME Up' PROVE batch' \subseteq Ready'
    <3>1. batch \subseteq Ready
      BY <1>2, <2>1 DEF BatchStaysReady
    <3>2. CASE ClientStep \/ ChildStep
      <4>1. batch' = batch /\ StaysBut(NoEvent)
        BY <1>2, <3>2, OthersStay
      <4>2. NoEvent \notin batch
        BY <1>2 DEF TypeOK, Event, NoEvent, Ev
      <4>. QED
        BY <3>1, <4>1, <4>2, RestStaysReady
    <3>3. CASE DaemonStep
      BY <2>3, <3>1, <3>3, DaemonStays, RestStaysReady
    <3>. QED
      BY <1>4, <3>2, <3>3 DEF Next
  <2>4. BatchStaysReady'
    BY <2>3 DEF BatchStaysReady
  <2>. QED
    BY <1>1, <2>2, <2>4 DEF NoticeInv
<1>. QED
  BY <1>3, <1>4

(* Nothing was asked for or told at first.                                 *)
LEMMA NoticeInit == Init => NoticeInv
<1>. SUFFICES ASSUME Init PROVE NoticeInv
  OBVIOUS
<1>1. BatchStaysReady
  BY DEF Init, BatchStaysReady
<1>2. ASSUME NEW k \in Job PROVE JobInv(k)
  BY DEF Init, JobInv, NotLaunched, AnswerInv, PipeInv, EndInv, Launched, Unreaped, Alive
<1>. QED
  BY <1>1, <1>2, SafeInit DEF NoticeInv
-----------------------------------------------------------------------------
(* The theorems.                                                           *)

(* An event the daemon collected is still there when its turn comes: no    *)
(* read, accept or waitpid of the loop meets a descriptor that was drained *)
(* or closed by the handler of an earlier event of the same batch.         *)
THEOREM BatchReady == Spec => []BatchStaysReady
<1>1. NoticeInv => BatchStaysReady
  BY DEF NoticeInv
<1>. QED
  BY NoticeInit, NoticeInductive, <1>1, PTL DEF Spec

(* A request has one answer and it comes before all else that is told of   *)
(* its job; nothing follows a refusal.                                     *)
THEOREM AnswerComesFirst == Spec => []AnsweredFirst
<1>1. ASSUME NoticeInv, NEW j \in Job
      PROVE  /\ \A i \in 1 .. Len(mail[j]) :
                   mail[j][i].type \in {"ProcessLaunched", "ChildCreationError"} <=> i = 1
             /\ Sent(j, "ChildCreationError") # {} => Len(mail[j]) = 1
  <2>1. TypeOK /\ JobInv(j)
    BY <1>1 DEF NoticeInv, SafeInv, TypeInv
  <2>2. mail[j] \in Seq(Notice) /\ Len(mail[j]) \in Nat /\ (mail[j] = <<>> => Len(mail[j]) = 0)
    BY <2>1 DEF TypeOK
  <2>3. CASE state[j] \in {"unborn", "requested"}
    BY <2>1, <2>2, <2>3 DEF JobInv, NotLaunched, Sent
  <2>4. CASE state[j] = "refused"
    <3>1. \A i \in 1 .. Len(mail[j]) : i = 1 /\ mail[j][i].type = "ChildCreationError"
      BY <2>1, <2>4 DEF JobInv, NotLaunched
    <3>2. Len(mail[j]) # 0 => Len(mail[j]) \in 1 .. Len(mail[j])
      BY <2>2
    <3>3. Len(mail[j]) \in {0, 1}
      BY <3>1, <3>2
    <3>. QED
      BY <3>1, <3>3 DEF Sent
  <2>5. CASE state[j] \in Launched
    BY <2>1, <2>2, <2>5 DEF JobInv, AnswerInv, Sent
  <2>. QED
    BY <2>1, <2>3, <2>4, <2>5 DEF TypeOK, JobState, Launched
<1>2. NoticeInv => AnsweredFirst
  BY <1>1 DEF AnsweredFirst
<1>. QED
  BY NoticeInit, NoticeInductive, <1>2, PTL DEF Spec

(* The daemon tells of execve once at most, and tells of a failure exactly *)
(* when errno was written, whatever has become of the child since.         *)
THEOREM ExecNotices == Spec => []ExecNoticeSound
<1>1. ASSUME NoticeInv, NEW j \in Job
      PROVE  LET told == Sent(j, "ExecveTerminated")
             IN  /\ Cardinality(told) <= 1
                 /\ state[j] \in {"cloned", "requested", "refused"} => told = {}
                 /\ \A i \in told : mail[j][i].val = 0 <=> exec[j] = "failed"
  <2>. DEFINE told == Sent(j, "ExecveTerminated")
  <2>1. TypeOK /\ JobInv(j)
    BY <1>1 DEF NoticeInv, SafeInv, TypeInv
  <2>2. \A i \in told : i \in 1 .. Len(mail[j]) /\ mail[j][i].type = "ExecveTerminated"
    BY DEF Sent
  <2>3. \A i, l \in told : i = l
    BY <2>1, <2>2 DEF JobInv, PipeInv
  <2>4. Cardinality(told) <= 1
    <3>1. CASE told = {}
      BY <3>1, FS_EmptySet
    <3>2. CASE told # {}
      <4>1. PICK i \in told : TRUE
        BY <3>2
      <4>2. told = {i}
        BY <2>3, <4>1
      <4>. HIDE DEF told
      <4>3. Cardinality(told) = 1
        BY <4>2, FS_Singleton
      <4>. QED
        BY <4>3
    <3>. QED
      BY <3>1, <3>2
  <2>5. state[j] \in {"cloned", "requested", "refused"} => told = {}
    <3>1. mail[j] \in Seq(Notice) /\ (mail[j] = <<>> => Len(mail[j]) = 0)
      BY <2>1 DEF TypeOK
    <3>2. CASE state[j] = "cloned"
      BY <2>1, <2>2, <3>2 DEF JobInv, PipeInv
    <3>3. CASE state[j] \in {"requested", "refused"}
      BY <2>1, <2>2, <3>1, <3>3 DEF JobInv, NotLaunched
    <3>. QED
      BY <3>2, <3>3
  <2>6. \A i \in told : mail[j][i].val = 0 <=> exec[j] = "failed"
    BY <2>1, <2>2 DEF JobInv, PipeInv
  <2>. QED
    BY <2>4, <2>5, <2>6
<1>2. NoticeInv => ExecNoticeSound
  BY <1>1 DEF ExecNoticeSound
<1>. QED
  BY NoticeInit, NoticeInductive, <1>2, PTL DEF Spec

(* A process that is reported ended was waited for, and the first report   *)
(* of it has its exit code or its signal.  Later ones, for a siginfo whose *)
(* process is gone, may have anything.                                     *)
THEOREM EndNotices == Spec => []TerminatedSound
<1>1. ASSUME NoticeInv, NEW j \in Job, NEW i \in Sent(j, "ProcessTerminated")
      PROVE  /\ state[j] = "reaped"
             /\ (\A k \in Sent(j, "ProcessTerminated") : i <= k)
                   => mail[j][i].val = status[j].code
  <2>1. TypeOK /\ JobInv(j)
    BY <1>1 DEF NoticeInv, SafeInv, TypeInv
  <2>2. Len(mail[j]) \in Nat
    BY <2>1 DEF TypeOK
  <2>3. i \in 1 .. Len(mail[j]) /\ mail[j][i].type = "ProcessTerminated"
    BY <1>1 DEF Sent
  <2>4. ASSUME \A k \in Sent(j, "ProcessTerminated") : i <= k
        PROVE  ~ \E l \in 1 .. Len(mail[j]) : l < i /\ mail[j][l].type = "ProcessTerminated"
    BY <2>2, <2>3, <2>4 DEF Sent
  <2>. QED
    BY <2>1, <2>3, <2>4 DEF JobInv, EndInv
<1>2. NoticeInv => TerminatedSound
  BY <1>1 DEF TerminatedSound
<1>. QED
  BY NoticeInit, NoticeInductive, <1>2, PTL DEF Spec
=============================================================================
