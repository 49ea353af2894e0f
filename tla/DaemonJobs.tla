----------------------------- MODULE DaemonJobs -----------------------------
(* The C daemon as an implementation of module Jobs.                       *)
EXTENDS Daemon

Told == [j \in Job |-> [i \in 1 .. Len(mail[j]) |-> mail[j][i].type]]
Over == {j \in Job : state[j] \in {"zombie", "reaped", "refused"}}

J == INSTANCE Jobs WITH told <- Told, over <- Over

(* The notices about a job keep to the protocol both daemons share: the    *)
(* answer first, execve and the end once each and in any order, the end    *)
(* only of a process that is over, and nothing after a refusal but an end. *)
JobsSpec == J!Spec
=============================================================================
