----------------------------- MODULE RegistryRace -----------------------------
(***************************************************************************)
(* GS_register called from several application threads.  GS_compss.cc     *)
(* takes no lock: each call copies objectMap[ref], tests its filename,     *)
(* creates a temporary file with mkstemp and only then stores the entry    *)
(* back, so the check and the insert are separate steps that other calls   *)
(* can run between.  Each thread makes one out/inout registration of the   *)
(* address RefOf[t], up to MaxCalls times; mkstemp failures are the       *)
(* subject of ObjectRegistry and are left out here.                        *)
(***************************************************************************)
EXTENDS Naturals

CONSTANTS
    Threads,     \* application threads calling generated stubs
    Refs,        \* addresses
    RefOf,       \* RefOf[t]: the address thread t registers
    TmpNames,    \* names mkstemp may produce
    NULL,        \* filename of a default-constructed Entry
    MaxCalls     \* GS_register calls each thread makes

ASSUME RefOf \in [Threads -> Refs] /\ MaxCalls \in Nat

VARIABLES
    objectMap,   \* objectMap[r]: backing file name of address r, or NULL
    disk,        \* temporary files that exist
    pc,          \* pc[t]: "idle", "create", "store" or "done"
    entry,       \* entry[t]: the thread's local copy of the filename
    filename,    \* filename[t]: the name GS_register hands back to thread t
    calls        \* calls[t]: GS_register calls thread t has started

vars == <<objectMap, disk, pc, entry, filename, calls>>

Init ==
    /\ objectMap = [r \in Refs |-> NULL]
    /\ disk = {}
    /\ pc = [t \in Threads |-> "idle"]
    /\ entry = [t \in Threads |-> NULL]
    /\ filename = [t \in Threads |-> NULL]
    /\ calls = [t \in Threads |-> 0]

\* Thread t, outside GS_register, calls it again.
Calling(t) ==
    /\ pc[t] \in {"idle", "done"}
    /\ calls[t] < MaxCalls
    /\ calls' = [calls EXCEPT ![t] = calls[t] + 1]

\* entry = objectMap[ref]; the stored filename is not NULL: ENTRY FOUND.
LookupFound(t) ==
    /\ Calling(t)
    /\ objectMap[RefOf[t]] # NULL
    /\ filename' = [filename EXCEPT ![t] = objectMap[RefOf[t]]]
    /\ pc' = [pc EXCEPT ![t] = "done"]
    /\ UNCHANGED <<objectMap, disk, entry>>

\* entry = objectMap[ref]; the filename is NULL: a new entry is built.
LookupMissing(t) ==
    /\ Calling(t)
    /\ objectMap[RefOf[t]] = NULL
    /\ pc' = [pc EXCEPT ![t] = "create"]
    /\ UNCHANGED <<objectMap, disk, entry, filename>>

\* entry.filename = mkstemp("compss-serialized-obj_XXXXXX").
Mkstemp(t) ==
    /\ pc[t] = "create"
    /\ \E n \in TmpNames \ disk :
         /\ disk' = disk \cup {n}
         /\ entry' = [entry EXCEPT ![t] = n]
    /\ pc' = [pc EXCEPT ![t] = "store"]
    /\ UNCHANGED <<objectMap, filename, calls>>

\* objectMap[ref] = entry; filename = strdup(entry.filename).
Store(t) ==
    /\ pc[t] = "store"
    /\ objectMap' = [objectMap EXCEPT ![RefOf[t]] = entry[t]]
    /\ filename' = [filename EXCEPT ![t] = entry[t]]
    /\ pc' = [pc EXCEPT ![t] = "done"]
    /\ UNCHANGED <<disk, entry, calls>>

Next ==
    \E t \in Threads :
        \/ LookupFound(t)
        \/ LookupMissing(t)
        \/ Mkstemp(t)
        \/ Store(t)

Spec == Init /\ [][Next]_vars

-----------------------------------------------------------------------------
(***************************************************************************)
(* Every thread whose GS_register has returned holds the backing file the  *)
(* registry records for its address, two addresses never record the same  *)
(* file, and once no call is in progress no temporary file the registry    *)
(* created is left without an address recording it.                        *)
(***************************************************************************)
ConcurrentRegistrationsAgree ==
    /\ \A t \in Threads : pc[t] = "done" => filename[t] = objectMap[RefOf[t]]
    /\ \A r1, r2 \in Refs : r1 # r2 /\ objectMap[r1] # NULL => objectMap[r1] # objectMap[r2]
    /\ (\A t \in Threads : pc[t] \in {"idle", "done"}) =>
          disk = {objectMap[r] : r \in Refs} \ {NULL}

=============================================================================
