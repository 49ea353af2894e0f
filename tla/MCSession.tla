----------------------------- MODULE MCSession -----------------------------
(* Constants of the runs of Session.                                       *)
EXTENDS Session, TLC

Kinds == ("work" :> "cwd") @@ ("log" :> "file") @@ ("tmp" :> "dir")
KindOf == [p \in Path |-> Kinds[p]]

Plain == Command("sleep", <<"sleep">>, <<>>, 0, 4, <<>>)

(* A directory is watched for its size and for something else.             *)
TwoWatches == Command("sleep", <<"sleep">>, <<"log">>, 0, 4,
    <<InotifyParameters("work", Bit.MODIFY + Bit.CREATE, 1),
      InotifyParameters("work", Bit.ACCESS, 0)>>)

(* A file, with a size that does not fit into an int.                      *)
FileOnly == Command("sleep", <<"sleep">>, <<>>, 3, 0,
    <<InotifyParameters("log", Bit.MODIFY, MAX31 + 2)>>)

(* A directory that is watched for one thing.                              *)
OneWatch == Command("sleep", <<"sleep">>, <<>>, 0, 4,
    <<InotifyParameters("work", Bit.ACCESS, 0)>>)

(* No command, as in the tests of ports, and a watch of an unknown kind.   *)
PortOnly == Command("sleep", <<>>, <<>>, 0, 4,
    <<[event |-> "TIMER", ptr_event |-> None], WatchSocket(1)>>)

TooLarge == Command("sleep", <<"sleep">>, <<>>, 2 * MAX31 + 2, 4, <<>>)

Test(cmd, wanted, kill) == [cmd |-> cmd, wanted |-> wanted, kill |-> kill]

(* The tests of test_demon.py, and more to watch.                          *)
AllTests ==
    {Test(Plain, class, FALSE) :
         class \in {"PROCESS_LAUNCHED", "CHILD_CREATION_ERROR",
                    "EXECVE_TERMINATED", "PROCESS_TERMINATED"}}
    \cup {Test(Plain, "PROCESS_TERMINATED", TRUE),
          Test(TwoWatches, "PROCESS_TERMINATED", FALSE),
          Test(FileOnly, "INOTIFY_WATCH_LIST_UPDATED", FALSE),
          Test(FileOnly, "INOTIFY_PATH_UPDATED", FALSE),
          Test(OneWatch, "INOTIFY_PATH_UPDATED", FALSE),
          Test(PortOnly, "SOCKET_WATCHED", FALSE),
          Test(PortOnly, "SOCKET_WATCH_TERMINATED", FALSE),
          Test(TooLarge, "PROCESS_LAUNCHED", FALSE)}

(* Short reads with every kind of notice, and without the commands that    *)
(* have the most of them.                                                  *)
AfterMost == {None, Plain, OneWatch, PortOnly}

(* A directory other than the daemon's.                                    *)
Elsewhere ==
    {Test(Command("sleep", <<"sleep">>, <<>>, 0, 4,
                  <<InotifyParameters("tmp", Bit.MODIFY, 1)>>),
          wanted, FALSE) :
         wanted \in {"PROCESS_TERMINATED", "INOTIFY_PATH_UPDATED"}}
=============================================================================
