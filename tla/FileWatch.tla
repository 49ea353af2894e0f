------------------------------ MODULE FileWatch ------------------------------
(***************************************************************************)
(* File surveillance of the C daemon: the inotify instances it keeps, the  *)
(* kernel that queues events on them, and what handle_inotify_event makes  *)
(* of the events (c/daemon-features/events.c).                             *)
(*                                                                         *)
(* Instance 1 is the one main creates; a watch with a size gets one of its *)
(* own, whose size is kept in the data of its epoll registration.          *)
(***************************************************************************)
EXTENDS CCodec

CONSTANTS
    Path,       \* what clients ask to watch
    Kind,       \* what each path is: "file", or a directory, "cwd" if it is
                \* the one in which the daemon runs ("/", by daemon(3)) and
                \* "dir" otherwise
    MaxSize,    \* largest file (bound)
    MaxEvents,  \* events that fit into buf[512]
    Garbage,    \* what an InotifyEvent that was never written may hold
    Stray       \* what bytes that are no name may be read as

ASSUME KindAssumption == Kind \in [Path -> {"file", "dir", "cwd"}]
ASSUME PathAssumption == Path \subseteq Text
ASSUME FileBoundAssumption == MaxSize \in Nat /\ MaxEvents \in Nat \ {0}
ASSUME GarbageAssumption == Garbage \subseteq Int8 /\ Stray \subseteq Text \cup Bytes

VARIABLES
    files,      \* size of each file, -1 if there is none; for a directory,
                \* of the one file in it
    inst,       \* inotify instances: the size and the masks of the watches
    queue       \* events the kernel holds for each instance

fileVars == <<files, inst, queue>>

(* Bits of a mask.                                                         *)
Bit == [ACCESS |-> 1, MODIFY |-> 2, CREATE |-> 4, DELETE |-> 8]
Has(mask, what) == (mask \div Bit[what]) % 2 = 1

Instance(size) == [size |-> size, mask |-> [p \in Path |-> 0]]

FileTypeOK ==
    /\ files \in [Path -> -1 .. MaxSize]
    /\ \A i \in DOMAIN inst : inst[i].size \in Int32 /\ inst[i].mask \in [Path -> Int32]
    /\ DOMAIN queue = DOMAIN inst
    /\ \A i \in DOMAIN queue :
          queue[i] \in Seq([path : Path, what : DOMAIN Bit \cup {"IGNORED"}])

FileInit ==
    /\ files \in [Path -> {-1, MaxSize}]
    /\ inst = <<Instance(0)>>
    /\ queue = << <<>> >>

-----------------------------------------------------------------------------
(* The kernel.                                                             *)

Exists(p) == Kind[p] # "file" \/ files[p] >= 0

(* A second watch of a path replaces the mask of the first.  The result is *)
(* not looked at: nothing is added for a path that does not exist.         *)
inotify_add_watch(instance, p, mask) ==
    IF Exists(p) THEN [instance EXCEPT !.mask[p] = mask] ELSE instance

(* An event equal to the last one that is queued is not queued again.      *)
Enqueue(q, e) == IF q # <<>> /\ q[Len(q)] = e THEN q ELSE Append(q, e)

(* Which events a change of p queues: the creation of a watched file is    *)
(* not seen, and its deletion ends the watch whatever the mask.            *)
Queued(i, p, what) ==
    IF Kind[p] = "file" /\ what = "DELETE"
    THEN IF inst[i].mask[p] # 0
         THEN Enqueue(queue[i], [path |-> p, what |-> "IGNORED"]) ELSE queue[i]
    ELSE IF Has(inst[i].mask[p], what)
         THEN Enqueue(queue[i], [path |-> p, what |-> what]) ELSE queue[i]

Change(p, what, size) ==
    /\ what = "CREATE" <=> files[p] = -1
    /\ files' = [files EXCEPT ![p] = size]
    /\ queue' = [i \in DOMAIN queue |-> Queued(i, p, what)]
    /\ inst' = IF Kind[p] = "file" /\ what = "DELETE"
               THEN [i \in DOMAIN inst |-> [inst[i] EXCEPT !.mask[p] = 0]]
               ELSE inst

FileCreate(p) == Change(p, "CREATE", 0)
FileModify(p) == \E size \in 0 .. MaxSize : Change(p, "MODIFY", size)
FileAccess(p) == Change(p, "ACCESS", files[p])
FileDelete(p) == Change(p, "DELETE", -1)

-----------------------------------------------------------------------------
(* process_surveillance_requests, case INOTIFY: the instances after the    *)
(* request I_param.                                                        *)
Shared(i_param) == i_param.size = 0

(* Seeded fault: the size is kept as it came.                               *)
KeepsUnsigned(instances, i_param) ==
    LET p == i_param.root_paths
    IN  IF Shared(i_param)
        THEN [instances EXCEPT ![1] = inotify_add_watch(@, p, i_param.mask)]
        ELSE Append(instances,
                    inotify_add_watch(Instance(i_param.size), p, i_param.mask))

AddInotify(instances, i_param) ==
    LET p == i_param.root_paths
        mask == i_param.mask
    IN  IF Shared(i_param)
        THEN [instances EXCEPT ![1] = inotify_add_watch(@, p, mask)]
        ELSE Append(instances,
                    inotify_add_watch(Instance(ToInt32(i_param.size)), p, mask))

(* stat of the name in an event: it is relative to the directory that is   *)
(* watched, but is looked up in the one where the daemon runs, and an      *)
(* event on a watched file has none.                                       *)
findSize(p) == IF Kind[p] = "cwd" THEN files[p] ELSE -1

(* The name is missing in an event on a file, and i->name is then whatever *)
(* follows the event in the buffer.                                        *)
Names(p) == IF Kind[p] = "file" THEN Stray ELSE {p}

(* Seeded fault: one byte too late.                                         *)
ReachedLate(p, size) == ToUint32(findSize(p)) > ToUint32(size) + 1
SizeReached(p, size) == ToUint32(findSize(p)) > ToUint32(size)

(* The field event of info after an event; before is what it holds, which  *)
(* an event of another kind leaves there.                                  *)
(* Seeded fault: creation and deletion are swapped.                         *)
SwapsEvents(e, size, before) ==
    CASE e.what = "ACCESS" -> CInotifyEvent.ACCESSED
      [] e.what = "CREATE" -> CInotifyEvent.DELETED
      [] e.what = "DELETE" -> CInotifyEvent.CREATED
      [] e.what = "MODIFY" -> CInotifyEvent.MODIFIED
      [] OTHER -> before

EventAfter(e, size, before) ==
    CASE e.what = "ACCESS" -> CInotifyEvent.ACCESSED
      [] e.what = "CREATE" -> CInotifyEvent.CREATED
      [] e.what = "DELETE" -> CInotifyEvent.DELETED
      [] e.what = "MODIFY" /\ ~SizeReached(e.path, size) -> CInotifyEvent.MODIFIED
      [] e.what = "MODIFY" /\ SizeReached(e.path, size) -> CInotifyEvent.SIZE_REACHED
      [] OTHER -> before

(* The field event of info after each of the first n events of an          *)
(* instance: info is one variable for all of them, and starts as garbage.  *)
EventsRead(i, n, garbage) ==
    LET event[k \in 0 .. n] ==
            IF k = 0 THEN garbage
            ELSE EventAfter(queue[i][k], inst[i].size, event[k - 1])
    IN  event

(* The notices handle_inotify_event sends for them.                        *)
PathUpdates(i, n, names, garbage) ==
    LET size  == inst[i].size
        event == EventsRead(i, n, garbage)
    IN  [k \in 1 .. n |->
            [path       |-> names[k],
             event      |-> event[k],
             size       |-> IF queue[i][k].what = "MODIFY"
                            THEN findSize(queue[i][k].path) ELSE size,
             size_limit |-> size]]

(* One call of handle_inotify_event: read takes as many events as fit.     *)
ReadCount(i) == IF Len(queue[i]) > MaxEvents THEN MaxEvents ELSE Len(queue[i])
ReadInotify(i) ==
    /\ queue[i] # <<>>
    /\ queue' = [queue EXCEPT ![i] = SubSeq(@, ReadCount(i) + 1, Len(@))]
    /\ UNCHANGED <<files, inst>>

=============================================================================
