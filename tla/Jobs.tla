-------------------------------- MODULE Jobs --------------------------------
(***************************************************************************)
(* What a client may rely on about a job, whichever daemon it talks to:    *)
(* the protocol of flatbuffer/demon.fbs without connections, pids and      *)
(* tables.  Module Daemon and module RustDaemon are shown to implement it. *)
(***************************************************************************)
EXTENDS Naturals, Sequences

CONSTANT Job

VARIABLES
    told,       \* the notices about each job, in the order they were sent
    over        \* jobs that have no process any more, or never had one

Types == {"ProcessLaunched", "ChildCreationError", "ExecveTerminated",
          "ProcessTerminated"}

Init ==
    /\ told = [j \in Job |-> <<>>]
    /\ over = {}

Has(j, type) == \E i \in 1 .. Len(told[j]) : told[j][i] = type

(* The answer comes first, a refusal takes the place of the news of        *)
(* execve, and the end is told of a process that is over; all of them once. *)
MayTell(j, type) ==
    /\ ~Has(j, type)
    /\ type = "ProcessLaunched" => told[j] = <<>>
    /\ type = "ChildCreationError" => told[j] \in {<<>>, <<"ProcessLaunched">>}
    /\ type = "ExecveTerminated" =>
          Has(j, "ProcessLaunched") /\ ~Has(j, "ChildCreationError")
    /\ type = "ProcessTerminated" => told[j] # <<>> /\ j \in over

(* A job for which no process can be made is over with its answer.         *)
Tell(j, type) ==
    /\ MayTell(j, type)
    /\ told' = [told EXCEPT ![j] = Append(@, type)]
    /\ over' \in {over, over \cup {j}}

(* Processes end.                                                          *)
End ==
    /\ over \subseteq over' /\ over' \subseteq Job
    /\ UNCHANGED told

Next ==
    \/ \E j \in Job, type \in Types : Tell(j, type)
    \/ End

Spec == Init /\ [][Next]_<<told, over>>

=============================================================================
