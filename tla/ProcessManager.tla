--------------------------- MODULE ProcessManager ---------------------------
(***************************************************************************)
(* The process table of the C daemon (c/daemon-features/process_manager.c): *)
(* MAX_PROCESS records allocated once, each either free (stack_p = NULL) or *)
(* occupied by a child.  The table keeps no count of its own: every        *)
(* function is given one by its caller, and the functions read it          *)
(* differently.  manager_add_process uses it as the number of children,    *)
(* manager_remove_process and free_manager as the number of records to     *)
(* scan.                                                                   *)
(*                                                                         *)
(* A job is one launched child.  Its name stands for what belongs to it    *)
(* alone: the stack allocated for its clone and the descriptor of its      *)
(* error file.                                                             *)
(***************************************************************************)
EXTENDS Integers, FiniteSets

CONSTANTS
    Job,            \* the children the daemon is asked to launch
    Pid,            \* process identifiers the kernel hands out
    MAX_PROCESS,    \* size of the table (256 in process_manager.h)
    NULL,           \* the null pointer; in child_id, never written
    STDOUT          \* STDOUT_FILENO, the error file when none could be opened

ASSUME MaxProcessAssumption == MAX_PROCESS \in Nat \ {0}
ASSUME NullAssumption == NULL \notin Job \cup Pid
ASSUME StdoutAssumption == STDOUT \notin Job \cup {NULL}

Slot == 0 .. (MAX_PROCESS - 1)

process_info == [stack_p  : Job \cup {NULL},
                 child_id : Pid \cup {NULL},
                 err_file : Job \cup {NULL, STDOUT}]

Table == [Slot -> process_info]

(* malloc leaves child_id and err_file undefined; only stack_p is written.  *)
create_process_manager ==
    [i \in Slot |-> [stack_p |-> NULL, child_id |-> NULL, err_file |-> NULL]]

Occupied(manager) == {i \in Slot : manager[i].stack_p # NULL}

FreeSlots(manager) == Slot \ Occupied(manager)

Lowest(S) == CHOOSE i \in S : \A k \in S : i <= k

(* What manager_add_process returns.  Both outcomes are true to the `if` of *)
(* its only caller.                                                        *)
add_result(manager, nb_process) ==
    IF nb_process < MAX_PROCESS /\ FreeSlots(manager) # {} THEN 1 ELSE -1

(* Seeded faults: the record at index nb_process; the last free record.    *)
SlotAtCount(manager, nb_process) == nb_process
LastFreeSlot(manager, nb_process) ==
    CHOOSE i \in FreeSlots(manager) : \A k \in FreeSlots(manager) : i >= k

(* The first free record.                                                  *)
SlotToFill(manager, nb_process) == Lowest(FreeSlots(manager))

manager_add_process(pid, manager, err_file, stack, nb_process) ==
    IF add_result(manager, nb_process) = 1
    THEN [manager EXCEPT ![SlotToFill(manager, nb_process)] =
             [stack_p |-> stack, child_id |-> pid, err_file |-> err_file]]
    ELSE manager

(* The records of the table that a loop bounded by `size` visits.          *)
Scanned(size) == {i \in Slot : i < size}

(* The records such a loop can stop at.  A freed record keeps its child_id. *)
Matches(pid, manager, size) == {i \in Scanned(size) : manager[i].child_id = pid}

(* The loop leaves the table: undefined behaviour.                          *)
ScanOverruns(pid, manager, size) ==
    size > MAX_PROCESS /\ Matches(pid, manager, size) = {}

manager_remove_process(pid, manager, size) ==
    LET hits == Matches(pid, manager, size)
    IN  IF hits = {} THEN manager
        ELSE [manager EXCEPT ![Lowest(hits)].stack_p = NULL]

(* The error file that manager_remove_process closes; NULL for none.       *)
removed_err_file(pid, manager, size) ==
    LET hits == Matches(pid, manager, size)
        fd   == manager[Lowest(hits)].err_file
    IN  IF hits = {} \/ fd = STDOUT THEN NULL ELSE fd

(* Seeded fault: free records are not skipped.                             *)
FreeEveryRecord(manager, size) == {manager[i].err_file : i \in Scanned(size)}

(* The error files that free_manager closes.                               *)
free_manager(manager, size) ==
    {manager[i].err_file : i \in Scanned(size) \cap Occupied(manager)}
=============================================================================
