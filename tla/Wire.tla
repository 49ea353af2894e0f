-------------------------------- MODULE Wire --------------------------------
(***************************************************************************)
(* FlatBuffers messages as the generated accessors of                      *)
(* tests_python/demon/*.py build and read them.                            *)
(*                                                                         *)
(* A table is a function from the fields that are present to their values: *)
(* the builder leaves out a field that has its default value, and a        *)
(* getter returns the default of a field that is not there.  The name of a *)
(* field stands for its slot.  Offsets and alignment are left out.         *)
(***************************************************************************)
EXTENDS Integers, Sequences

CONSTANTS
    MAX31,      \* the largest int32 (2^31 - 1)
    MAX16,      \* the largest uint16 (2^16 - 1)
    Text,       \* strings that are valid UTF-8
    Bytes,      \* strings that are not
    None,       \* Python's None, a null pointer in C
    Raised      \* an exception that leaves the function

ASSUME WidthAssumption == MAX31 \in Nat /\ MAX16 \in Nat
ASSUME TextAssumption == Text \cap Bytes = {} /\ None \notin Text \cup Bytes

Int32 == (-MAX31 - 1) .. MAX31
Uint32 == 0 .. (2 * MAX31 + 1)
Uint16 == 0 .. MAX16
Int8 == (-128) .. 127
Uint8 == 0 .. 255

(* Conversions of a C integer to uint32_t and to int32_t.                  *)
ToUint32(x) == x % (2 * MAX31 + 2)
ToInt32(x) == IF ToUint32(x) > MAX31 THEN ToUint32(x) - (2 * MAX31 + 2)
                                     ELSE ToUint32(x)

-----------------------------------------------------------------------------
(* The enumerations of the schema.                                         *)

Event ==
    [NONE |-> 0, RunCommand |-> 1, KillProcess |-> 2,
     EstablishTCPConnection |-> 3, EstablishUnixConnection |-> 4,
     ExecveTerminated |-> 5, ProcessLaunched |-> 6, ChildCreationError |-> 7,
     ProcessTerminated |-> 8, TCPSocketListening |-> 9,
     InotifyPathUpdated |-> 10, InotifyWatchListUpdated |-> 11,
     SocketWatched |-> 12, SocketWatchTerminated |-> 13]

Surveillance == [NONE |-> 0, Inotify |-> 1, TCPSocket |-> 2]

SocketState == [unknown |-> 0, created |-> 1, listeing |-> 2]

InotifyEvent == [modified |-> 0, created |-> 1, size_reached |-> 2,
                 deleted |-> 3, accessed |-> 4]

-----------------------------------------------------------------------------
(* The tables: the type of each field.                                     *)

Message == [events_type |-> "uint8", events |-> "offset"]
SurveillanceEvent == [event_type |-> "uint8", event |-> "offset"]
Inotify == [root_paths |-> "string", mask |-> "int32", size |-> "uint32"]
TCPSocket == [destport |-> "uint32"]
RunCommand == [path |-> "string", args |-> "offset", envp |-> "offset",
               flags |-> "uint32", stack_size |-> "uint32",
               to_watch |-> "offset"]
KillProcess == [pid |-> "int32"]
ExecveTerminated == [pid |-> "int32", command_name |-> "string",
                     success |-> "bool"]
ProcessLaunched == [pid |-> "int32"]
ChildCreationError == [error_code |-> "uint32"]
ProcessTerminated == [pid |-> "int32", error_code |-> "uint32"]
TCPSocketListening == [port |-> "uint16"]
InotifyPathUpdated == [path |-> "string", trigger_events |-> "int8",
                       size |-> "uint32", size_limit |-> "uint32"]
InotifyWatchListUpdated == [path |-> "string"]
SocketWatched == [port |-> "int32"]
SocketWatchTerminated == [port |-> "int32", state |-> "int8"]

-----------------------------------------------------------------------------
(* The FlatBuffers library.                                                *)

Default(type) == CASE type \in {"string", "offset"} -> None
                   [] type = "bool" -> FALSE
                   [] OTHER -> 0

(* The builder refuses a number that its type cannot hold.                 *)
Fits(type, v) == CASE type = "int32" -> v \in Int32
                   [] type = "uint32" -> v \in Uint32
                   [] type = "uint16" -> v \in Uint16
                   [] type = "uint8" -> v \in Uint8
                   [] type = "int8" -> v \in Int8
                   [] OTHER -> TRUE

CanBuild(table, v) == \A f \in DOMAIN table : Fits(table[f], v[f])

(* StartObject, one Add per field, EndObject.                              *)
Build(table, v) ==
    [f \in {g \in DOMAIN table : v[g] # Default(table[g])} |-> v[f]]

(* The getter of field f.                                                  *)
Get(table, tab, f) == IF f \in DOMAIN tab THEN tab[f] ELSE Default(table[f])

(* A buffer as it was received: in full, without the table of its event,   *)
(* without a readable Message table, or empty.                             *)
Part == {"all", "root", "head", "none"}
Truncated(b, part) == [b EXCEPT !.part = part]
Length(b) == IF b.part = "none" THEN 0 ELSE 1

(* builder.Finish and Output of a Message that carries an event.           *)
Finish(type, table) ==
    [part    |-> "all",
     message |-> Build(Message, [events_type |-> type, events |-> table])]

EventsType(b) == Get(Message, b.message, "events_type")
Events(b) == Get(Message, b.message, "events")

=============================================================================
