------------------------------- MODULE MCRust -------------------------------
(* Constants of the runs of RustDaemon.                                    *)
EXTENDS RustDaemon, TLC

CONSTANTS c1, c2, j1, j2

(* A job whose file and port are watched, and a plain one.                 *)
SomeWatched == (j1 :> <<"file", "port">>) @@ (j2 :> <<>>)
NoneWatched == [j \in Job |-> <<>>]

Kills == {"kill"}
=============================================================================
