# Verification of the process control daemon

This directory holds a TLA+ development of the daemon in this repository: a
server that runs programs for its clients, tells them what becomes of the
programs, kills processes on request and watches files and ports. There are two
implementations behind one FlatBuffers protocol, one in C (`c/`) and one in Rust
(`rust/`), and one Python client (`tests_python/`), which the tests use against
both. The C daemon has the most modules: its control is the hardest, because it
manages processes, signals, pipes and descriptors by hand.

## The system

| part | state it keeps | operations | talks to |
|---|---|---|---|
| event loop (`c/daemon-core.c`, `events.c`) | `nb_process`, `communication_socket`, the batch of the last `epoll_wait` | one handler per kind of descriptor | all others |
| process table (`process_manager.c`) | `MAX_PROCESS` records: stack, pid, error file | create, add, remove, free | the loop, which passes its own count as the size |
| process launch (`clone.c`) | a pipe per child, closed by `execve` | `launch_process`, `child_function` | the child shares only the pipe with the daemon |
| framing (`Network.c`) | sockets | accept, read one message, send one message | clients |
| error files (`Errors.c`) | a descriptor per child | open, closed by the table | |
| socket detector (`Detect_socket.c`) | globals `found`, `timeout`, one alarm, a netlink socket per thread | one detached thread per watch | the kernel, the client's socket, the loop through `exit` and `SIGALRM` |
| file surveillance (`events.c`) | inotify descriptors | add a watch, turn events into messages | the kernel, the client |
| serialization (`serialize.cpp`) | none | C structures to and from FlatBuffers | |
| Python client (`tests_python/serialization.py`, `demon/*.py`, `test_demon.py`) | one connection per test, the notice it waits for | build a request, read notices until the one it wants, kill | a daemon |
| Rust daemon (`rust/src/bin/main.rs`, `monitoring_tools/`) | one task per connection | read a message, handle it to its end, read the next | tokio, the kernel |

What is hard in it:

* *Signals.* `SIGCHLD` is a standard signal: while one is pending another is
  dropped, with the pid it carried. It is also raised when a child is stopped or
  continued. The loop reads one siginfo and calls a blocking `waitpid`.
* *Batches.* A batch of events is handled in an order nobody controls, and what
  an event was about can be gone when its turn comes.
* *A count with three meanings.* `nb_process` is the number of children, the
  number of records a scan visits, and part of a file name. Records are filled at
  the first free place and are not moved, pids come back, and freed records keep
  the pid they had.
* *Partial failures.* Each call of the launch path can fail after earlier ones
  succeeded; a client can leave while it is being told something.
* *Threads and signals* in the socket detector, *blocking calls in async tasks*
  in the Rust daemon.
* *Two codecs for one protocol.* Defaults are left out of messages, integers are
  converted between widths and signs, each side numbers states and events itself,
  and the client does not look at how much `recv` returned.

`PROJECT.json` lists these hazards line by line with the properties that cover
them.

## Modules

### ProcessManager

The process table as operators on a function from record numbers to records.
A *job* is one child; its name stands for what belongs to it alone (its stack and
the descriptor of its error file), so `stack_p = j` reads "the record of j". The
operators keep the code's peculiarities: `add_result` is -1, not 0, for a full
table; `manager_remove_process` scans `size` records, compares `child_id` in
free records too, and does not erase it; `ScanOverruns` tells when the loop
leaves the table.

### Daemon

The loop, with the processes, the kernel and the clients around it.

| variable | in the code |
|---|---|
| `manager`, `nb_process`, `communication_socket` | the variables of `main` with these names |
| `batch` | the events of `events[]` that are still to be handled |
| `waiting` | the pid on which `waitpid` blocks in `handle_SIGCHLD` |
| `daemon` | whether the daemon runs, or how it ended (null dereference or scan out of bounds, SIGPIPE, `exit`, SIGTERM to its own group) |
| `errf` | each child's error file; `reclosed` is a second `close` of the same number |
| `conn`, `gone`, `inbox` | the connections: as the daemon sees them, whether the client has closed them, and the messages to be read |
| `state`, `status`, `pidOf` | the kernel's view of each job: requested, cloned, running, stopped, failed (`execve` returned), zombie, reaped; its wait status; its pid |
| `pipe` | the pipe of each job: `quiet`, or readable because of an errno, of `execve` (`cloexec`), or of the child's death (`hangup`); `closed` |
| `pending` | the pid in the one SIGCHLD that can be pending |
| `mail` | every notice sent about each job, with its receiver (history) |
| `exec` | what `execve` did for each job, which the kernel's state no longer shows once the child has ended (history) |

Each handler of the loop is one action: everything from taking the event out of
the batch to the notice that ends it. `HandleSignal`, `HandleSignalBlocks` with
`WaitReturns`, and `HandleSignalStale` are the three ways of `handle_SIGCHLD`: the
child has ended, is still alive, or was waited for before, in which case `wstatus`
is never written and the model picks any code. `LaunchProcess`, `LaunchRefused` and
`PipeFails` are the ways of `process_command_request`. `KillDaemon` is
`KILL_PROCESS` with pid 0. `Notify` is `send_message`: on a connection whose client
has left it ends the daemon with SIGPIPE, or is lost, as the kernel decides.

Children, clients and the kernel take their steps between handlers. The constant
`Env` says which troubles a run includes (failing calls, pid reuse, stops, foreign
kills, leaving clients, odd messages), so that each run is about one of them at a
size at which it can happen.

Abstractions: messages are records of the fields the loop looks at, program paths,
arguments and texts are left out; requests have no `to_watch` and no clone flags; a
program does not fork; a message is complete, or is a short read, which `Network.c`
does not tell from end of file. `Init` is the state in which the loop is entered: a
`socket`, `bind`, `signalfd` or `epoll_create1` that fails before it ends the daemon
when there is nothing yet to say of it, and is not modelled.

### SocketWatch

The detector threads and the part of the main thread that matters to them.

| variable | in the code |
|---|---|
| `main`, `to_watch`, `at` | whether main is in `epoll_wait`, the surveillances of the request it handles, and which of the two calls for the first of them is next |
| `pc`, `turn`, `replies`, `state` | per watch: the step of `search_TCP_connection`, its turns, the unread dumps on its netlink socket, `sock_info.state` (undefined at first) |
| `found`, `timeout`, `alarm` | the two globals and the alarm of the process |
| `sockets` | what the kernel has to show of each port, per address family |
| `sent`, `shown` | notices per watch; what was to be seen of its port since it began (history) |

A turn asks for two dumps (`Ask`) and reads one (`Recv`), as the code does, so the
replies that are read lag behind. A dump is the set of its entries, and any of
them can be the last, which decides the state. An entry can be an error message,
which the code does not skip. `AlarmFires` gives SIGALRM to any thread: `signal`
does not make `epoll_wait` restart, so main exits if it takes the signal there.
The alarm has no clock: it fires at some time after it was set. A failing
`sendmsg` and clients that leave are not modelled here.

### Wire, PyCodec, CCodec

The protocol and its two codecs as operators. In `Wire` a table is a function from
the fields that are present to their values: `Build` leaves out a field that has
its default value, `Get` returns the default of a field that is not there, and
`Fits` is the range check of the Python builder. Widths are constants (`MAX31`,
`MAX16`), so that values on both sides of every limit fit into a small instance. A
buffer also records how much of it was received: all, without the table of its
event, without a readable message, or nothing. Offsets and bytes are left out.

`PyCodec` has an operator for every function of `serialization.py`, by its name,
with what each returns for no buffer, for another type and after an exception. Three
functions can only fail: `receive_command` calls accessors that `flatc` does not
generate for vectors of strings, and two of the `send_..._to_user` functions use
names that do not exist. `CCodec` is the daemon's side of `serialize.cpp`; arguments
are converted to the C type of the parameter, and enumerations keep their numbers.

Loops are recursive functions of the number of turns (`KeptUpTo` for the loop over
`to_watch`, `EventsRead` of `FileWatch`, `InstancesUpTo` of `Session`), with the
result of the last turn under its own name, so that TLC runs them and the proofs
reason about one turn. The dataclasses of `serialization.py` are sets (`Commands`,
`ExecveInfo`, ...).

### FileWatch

The inotify instances of the C daemon and the kernel's queues. Instance 1 is the
shared one of `main`; a watch with a size has its own. The kernel replaces the mask
of a path that is watched twice, merges equal neighbours and sends IN_IGNORED when a
watched file is deleted. `PathUpdates` is `handle_inotify_event` with `process_Event`:
one `info` for all events of a read, never initialised, a name that is missing for
events on files, `stat` of a name relative to another directory (`daemon(3)` has made
`/` the daemon's), and an unsigned comparison of its -1.

### Session

One test function, the connection and the daemon, end to end: `ClientAsks` sends a
request through `send_command_to_demon`, `ServeCommand` reads it with `receive_command`
of `serialize.cpp`, launches or refuses a process and starts the watches; notices come
back through the C functions and are read by `ClientReads`, one turn of the loops of
`test_demon.py`. The process table and the detector threads are abstracted: a job is launched,
tells of execve and ends, and a watched port is reported in any state, after which the
thread ends the daemon (`Exits`); modules `Daemon` and `SocketWatch` have their details.
A client still receives what was sent before the daemon ended. `told`, `killed` and `client.meant` are
histories.

The client does not look at how much `recv` returned, and its loop goes on.
`ClientReceivesPart` is a short read of a message, `ClientReceivesPartOfSize` one of the
four bytes of its size. Unless the part was enough to leave the loop, the client is then
`misframed`: it takes bytes in the middle of a message for a size. `ClientMisreads` is a
turn of the loop on such bytes, which can be read as anything: nothing, the end of a
message, the notice that is waited for, an execve notice with a pid of `Misread`, or an
exception. `client.framed` records that no such thing has happened, and it stays false
even if the stream comes back into frame. Bound: a kill of a misread pid is sent only when
the daemon has read all that was sent before. A client whose daemon has ended is `lost`:
`recv` raises, or returns nothing for ever.

A behaviour is over when the test function is, although the C daemon is not: it has called
`daemon(3)`, so that the `killpg` of the fixture does not reach it, and it ends of the null
pointer at `daemon-core.c:158` when the connection is closed (`ReadEof` of `Daemon`).

### RustDaemon

A task per connection, with a step from each `await` to the next. A task that waits
for a change of a file does it in `epoll_wait` without an `await` and keeps its thread
of the runtime (`Blocked`, `Free`). A panic drops the task and its connection, not the
daemon. A write to a client that has left changes nothing, because the code ignores its
result. A surveillance of an unknown type panics in the middle of a request
(`WatchUnknown`); a request without a field that is unwrapped is the message `bad`. Notices about watches carry no job and are left out, and so are the codes of
notices; `read_events_inotify` ends at its first events whatever they are.

### Jobs and DaemonJobs

`Jobs` is the abstract specification: what may be told about one job, in which order,
whichever daemon it runs on. The answer is first, the news of execve and the end come
once each, a refusal takes the place of execve, and the end is told only of a job
without a process. Connections, pids, tables, signals and tasks are not in it. `DaemonJobs`
maps the C daemon to it (`told` is the types of `mail`, `over` the jobs that have ended
or were refused); `RustDaemon` does the same at its end. In both the refinement is the
property `JobsSpec`. The two daemons use different parts of it: the C daemon refuses
without a first answer and may tell the end before execve; the Rust daemon answers
ProcessLaunched even when it cannot spawn, and tells an end after every refusal.

### The modules of proofs

| module | about | extends |
|---|---|---|
| `DaemonProofs` | types, the table and pids of the C daemon | `Daemon` |
| `NoticeProofs` | what it tells of each job | `DaemonProofs` |
| `TableProofs` | its scans, its count, its error files, how it ends | `NoticeProofs` |
| `JobsProofs` | that it implements `Jobs` | `TableProofs`, `DaemonJobs` |
| `RustProofs` | the Rust daemon, and that it implements `Jobs` | `RustDaemon` |
| `SocketWatchProofs` | the socket detector | `SocketWatch` |
| `CodecProofs` | round trips through both codecs | `PyCodec`, `CCodec` |
| `SessionProofs` | a session, from end to end | `Session`, `CodecProofs` |

## Runs

`MCDaemon`, `MCSocketWatch`, `MCSession` and `MCRust` name the constants, the sets of
troubles and the requests of the tests.
Jobs, pids and connections are only compared, so the safety runs use symmetry; the
runs with liveness do not. `CHECK_DEADLOCK FALSE` is set because the system really
stops: when the daemon has ended, and when clients have nothing more to ask.

| run | instance | checks |
|---|---|---|
| `faults` | 3 jobs, 2 pids, table of 1, failing calls, pid reuse, shutdown | `TypeOK`, `AnsweredFirst`, `ExecNoticeSound`, `CountIsExact`, `ErrFileClosedOnce`, `JobsSpec` |
| `signals` | 3 jobs, 2 pids, table of 2, stops, foreign kills, pid reuse | `Consistent`, `ScanReadsWritten`, `TerminatedSound`, `ExecNoticeSound`, `NeverFreesLive` |
| `clients` | 1 job, 2 connections, every message, clients leave | `BatchStaysReady`, `EndsForAReason` |
| `sequential` | 2 jobs, one at a time, kills, fairness | `IdleIsClean`, `EndIsReported` |
| `service` | 2 jobs at a time, 2 unread messages, kills, fairness | `RequestIsAnswered`, `ExecIsReported`, `KillIsServed` |
| `end_reported` | 2 jobs at a time, fairness | `EndIsReported` is violated |
| `watches` | 2 watches, 2 ports, 2 turns, every trouble, fairness | `TypeOK`, `AnnouncedFirst`, `ReportSound`, `GivesUpLate`, `WatchEnds` |
| `watch_reported` | 1 watch, fairness | `WatchIsReported` is violated |
| `session` | each of 12 tests and a bare connection, 2 paths, 2 changes of files, short reads, fairness | `TypeOK`, `CommandAsSent`, `NoticeAsMeant`, `CrashIsExplained`, `CodecsAgree`, `KillsOwn`, `EventsAsAsked`, `SizeIsReported`, `WaitedFor`, `KillEnds` |
| `size_reached` | a watch with a size in a directory other than the daemon's | `ReachedIsReal` is violated |
| `rust` | 2 connections, 2 jobs, 2 threads, a watched file and port, every trouble, fairness | `TypeOK`, `OneAtATime`, `NoOrphan`, `JobsSpec`, `RequestIsAnswered`, `EndIsReported`, `KillFromElsewhere` |
| `rust_kill` | 1 connection, 1 job, kills, fairness | `KillIsServed` is violated |

Why the bounds are enough. A lost SIGCHLD, a hole in the table and a scan that
stops short need two children; the reuse of a pid while its old record is still
there needs a third. A table of one record is full with one child, so the count
passes its size with the second. `Window` is the number of jobs a client keeps
under way and `MaxInbox` the unread messages of a connection: 1 makes a client that
waits, 2 one that does not. `MAX_EVENTS` is 4: a batch can be cut, and can hold all
kinds of events. Two watches are enough to share flags; two turns are needed for a
thread to read the second dump of the first. One port has IPv4 sockets and the
other IPv6 ones, so that both dumps are met with and without entries.

In `session`, `MAX31` is 15 and `MAX16` is 3: the requests hold values at 0, in the
middle, above the largest `int` (a size of `MAX31 + 2`) and above the largest
`uint32_t` (flags that the builder refuses). One test watches a directory twice, with
and without a size, which needs both kinds of instance; one watches a file, whose
events have no name. Two changes of files are enough for a merge, for a read of two
events where the second leaves the kind of the first, and for a file that grows and is
deleted before its event is read. Reads are short in the tests with no watch, one watched
directory or a watched port (`ShortReads`), which between them meet every class of notice;
two watches of a directory and changes of a watched file are left to whole messages, since
a client that is out of frame skips through all of them in every way. `Misread` holds 0, with
which a kill ends the daemon, and a pid of no child. `Tests` has at least two members in
both configurations: TLC then keeps the requests as a set of records. In `rust`, one watch of a file and two
threads mean that a thread is always free; that a daemon with as many blocked watches as threads
stops is what the seeded fault of `RequestIsAnswered` shows. A client has one unread
message at a time.

What the violations say. `end_reported`: the second of two children that end close
together is never reported, although the README of the repository promises a
message when "a process finishes no matter how"; the passing run `sequential`
shows that a client with one job at a time is safe from it.
`watch_reported`: the timeout of
a watch can end the daemon instead of the watch; `ReportSound` and `GivesUpLate`
hold for a watch that is alone, and name the influence of another one.
`size_reached`: for a file that is not in `/`, `findSize` fails, and its -1 is
larger than every size once it is in the `uint32_t` of the notice; in `/` the
passing `SizeIsReported` holds. `rust_kill`: the Rust daemon reads a kill on the connection
that launched the process only after the process has ended, which `test_kill_process`
does not allow; on another connection the kill is served (`KillFromElsewhere`).

What passing runs say about known weaknesses. `EndsForAReason` bounds how the C daemon can
end: a client that leaves, or half a message, ends it (the null pointer at
`daemon-core.c:158`, SIGPIPE), and nothing else a client sends does. `ExecNoticeSound`
says that failure is told exactly of a child whose `execve` returned, also when the child
has exited or was waited for by the time its pipe is read: in `faults` every `execve` may
fail, in `signals` children are killed at any time. What is told of a child that was killed before
`execve` is success. `IdleIsClean` says that a client with one job at a time leaves no record beyond the
scan; with two under way, the record of the later one may be kept for ever. `CrashIsExplained` lists the ways in which a test function raises: its own
request, a short read, or an event on a file, whose name and kind may be garbage.
`EventsAsAsked` leaves out one event: the IN_IGNORED that follows the deletion of a watched
file. `KillsOwn` and `WaitedFor` hold for a client in frame, `KillEnds` for one that has met no
short read; out of frame a client may kill another process or end the daemon, and may
wait for ever. `NoticeAsMeant` holds because the Python
enumerations repeat those of C and not those of the schema.

Fairness. `FairSpec` assumes that the daemon's thread is scheduled when it can run,
and that a child gets from `clone` to `execve`, or from a failed `execve` to
`_exit`; both are a few instructions without waiting. Nothing is assumed of
programs, which may run for ever, and of clients, who may never send or leave.
For the watches: detector threads are scheduled, and an alarm that is set fires.
In `Session` the client's loop and the event loop are weakly fair together: a session
is finite, so that one weak fairness makes both go on until neither has anything to
do. Files and programs need not change or end. In `RustDaemon` tokio polls a task that
is ready (`WF` of each task) while it has a free thread: an idle
thread takes over what a blocked one has queued; changes of files, ports and
the end of programs are not fair.

## Proofs

Every theorem holds for all values of the constants that the named `ASSUME`s allow:
any sets of jobs, pids, connections, watches, ports, paths and tests, any size of the
table, any width of integers, any bounds, and any troubles unless one is excluded.

### The C daemon

`DaemonProofs`:

* `TypeCorrect`: `Spec => []TypeOK`. It is proved with `StatusInv` (an ended
  process has a wait status), without which the code in ProcessTerminated has no
  type.
* `Agreement`: `Spec => []Consistent`. `Consistent` is inductive together with the
  types; its parts need each other: `RequestInv` (an unread request is the only
  one of a job that was not launched) keeps a launch from reusing the record of a
  job, `PidInv` (a pid names at most one process not waited for) and `RecordInv`
  (an occupied record shows the pid of its job) tie a scan for a pid to one job.
* `LiveRecordsKept`: `Spec => NeverFreesLive`, from the two others: a scan that
  stops at an occupied record has found the process `waitpid` just returned, or
  one that was reaped before, and the first free record is never an occupied one.

`NoticeProofs`: `BatchReady`, `AnswerComesFirst`, `ExecNotices` and `EndNotices`. The
argument is local to a job. `JobStep` lists the ten or so things a step can do to a
job, each action is shown to be one of them for every job, and a `JobStep` keeps
`JobInv`: what the kernel's state of the job, its pipe and its mail say of each other.
`exec` remembers the outcome of `execve`, and `JobInv` ties it to an errno in the
pipe and to the value told, so that `ExecNotices` also speaks of children that have ended.
`PipeInv` carries the weight: a pipe is readable only for a reason that the state of
the child still shows, and closed once it has been reported, so that no second notice
can come of it. A notice is attributed to a job by its pid, which needs `Consistent`.

`TableProofs`: `ScanIsDefined` holds in every environment. Records are written from
the first one on and never unwritten, and as long as one is unwritten the count is at
most the number of occupied records, which come before it. `CountExact` and
`ErrFilesClosedOnce`, like `ImplementsJobs` in `JobsProofs`, assume that no child is
stopped (`"stop" \notin Env`). The hypothesis is needed: the siginfo of a stop that is
read after its process was reaped makes `handle_SIGCHLD` count the end a second time,
close what the old record shows and tell a second ProcessTerminated. Without stops every
pending SIGCHLD is about a zombie (`SignalsInv`), which is what these proofs share.

How the daemon ends: every step that ends it is followed back to its cause (`EndsWell`),
with `BatchStaysReady` for the null pointer of a message, which then is half a message or
the end of a connection. `EndsWithCause` assumes that `pipe`, `accept` and `epoll_ctl` do not
fail, since the code answers that with `exit`, and leaves `nb_process > MAX_PROCESS` as a
further cause: scans then leave the table. `EndsOnlyForAReason` excludes it when the
clients keep at most `MAX_PROCESS` jobs under way (`Window <= MAX_PROCESS`), of any finite
number in all. By `WindowInv` at most `Window` jobs are open; a child that is not waited for is
open, and without stops the count is the number of these children, so a launch never takes
it past the table. The hypothesis is about clients: nothing in the code limits them, and with one more
job the overrun happens.

`CleanBetweenJobs` is `IdleIsClean` for `Window = 1`, without stops. `TidyTable` says that the
record of the one child is the first one, so that a scan of `nb_process = 1` records finds it;
that a second request comes only after the first job was reaped is `AsksWhenIdle`, from what
`JobInv` says of the mail of an open job. With two jobs at a time it is false.

`JobsProofs`: `Spec => JobsSpec`, the refinement of `Jobs`. A step tells of one job at
most, and each thing told is a step of `Jobs` because of `JobInv`; the rest stutters.

### The Rust daemon

`RustProofs`: `TypeCorrect`, `NoOrphans`, `OneJobAtATime` and `ImplementsJobs`, with
no hypothesis on the environment. The inductive invariant looks at a job from three
sides: where its task is, what has become of its process, and what was told. `Stage`
ties the three together, `Owned` gives a job to one task at most, `Unowned` says what is
true of a job that no task has, and `Asked` that a request is read once.

### The socket detector

`SocketWatchProofs`: `TypeCorrect`, `AnnouncedOnceFirst`, `ReportsAreSound` and
`GivesUpWithCause`. `SentInv` says what was sent of a watch from the place of its
thread, `MainInv` that the main thread starts each thread once, `SeenInv` follows what
the kernel has shown of a port through the unread dumps into `sock_info.state`, and
`FoundInv` traces the shared flag `found` back to a thread that set it. The invariant
holds while the process runs; a failing call ends it in the middle of a request, after
which only what was told is left to speak of.

### Codecs and sessions

`CodecProofs`: `KillRoundTrip` and `CommandRoundTrip` for the requests, and a lemma for
each notice. Everything rests on `GetBuild`: a getter returns what the builder was given
whether or not the field was left out as a default; with the conversions of C on top,
which leave alone what fits. A list of watches may have any length: what the loop over
`to_watch` keeps is shown by induction on its turns. The induction is done by hand,
through the least natural number of a set (`LeastNat`): `LoopExists` gives a run of a
loop as a function, `LoopKeeps` what every turn keeps.

`SessionProofs`: all invariants of `Session`, from one inductive invariant. Its parts:

* `RequestInv`: until the request is served it is the only message on its way up, and
  nothing else has happened; afterwards there are only kills of the process launched for
  it. This is where the round trips of the requests are used.
* `NoticesInv`: the message of a notice is what the C function of its class makes of
  what the daemon means, and an execve notice carries the pid of the process. `FullRead`
  and `TextRead`, `RootRead`, `HeadRead` then say what the client can read of it, in full
  and after each kind of short read; `GoodRead` is the sum, and one turn of the loop of a
  test function (`ReadStep`) needs nothing else.
* `WatchInv`: every mask of every inotify instance was asked for, and so was every event
  in a queue, unless it tells of the end of a watched file. Both loops
  (`InstancesType`, `EventsReadType`) are again by induction on their turns.

Bytes out of frame need little: `PartOfSizeKeeps` and `MisreadsKeeps` say that they touch the
client and its kills only, and the parts of the invariant about what was sent and read
speak of a client in frame (`KillsSent`) or of the notice it left its loop with.

The theorems are `TypeCorrect`, `CommandIsAsSent`, `NoticeIsAsMeant`,
`CrashesAreExplained`, `KillsOnlyOwn`, `EventsAreAsAsked` and `TheCodecsAgree`.

### Assumptions

They are the named `ASSUME`s of the modules, which TLC evaluates in the runs: the
table has a record; the special values (NULL, STDOUT, None) are not jobs, pids,
connections or values that a message can hold; text and bytes that are not text are
disjoint; pids are positive and fit into 32 bits; exit codes and errnos are small and
not negative; the port of the daemon is one; a test gives a command that the Python
types allow and watches files of the model (`TestsAssumption`).

### Model-checked only

Every invariant of a passing run has a theorem, and so have its action property and both
refinements. What is left:

* `EndIsReported`, `RequestIsAnswered`, `ExecIsReported`, `KillIsServed`, `WatchEnds`,
  `SizeIsReported`, `WaitedFor`, `KillEnds` and `KillFromElsewhere`: liveness under
  fairness, which this prover does not do.

## Plan

1. `ProcessManager`, `Daemon`, `DaemonProofs`, `SocketWatch`: done.
2. `Wire`, `PyCodec`, `CCodec`, `FileWatch`, `Session`; `Jobs`, `DaemonJobs`,
   `RustDaemon`: done.
3. Proofs of the invariants, of `NeverFreesLive` and of both refinements: done.

## Not modelled

* Clone flags: with CLONE_VM or CLONE_FILES the child shares what the parent
  frees or closes. No client of the repository sends them.
* Names of error files, and the terminating NULL that `args` and `envp` lack:
  what is read behind an array has no model.
* Time: an alarm fires at some time after it was set, so that the postponement of one watch
  by another cannot be stated; a descriptor limit is a failing call, not a count.
* The functions of `serialize.cpp` for clients, which only the regression test calls;
  `serialisation.rs`, one builder call per notice; the generated C++ and Rust code.
* The example client, the regression test, the measurements, and the experiments in
  `rust/src/monitoring_tools` that nothing calls.
