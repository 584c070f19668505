--------------------------- MODULE ObjectRegistry ---------------------------
(***************************************************************************)
(* The C binding's object registry (GS_compss.cc): objectMap, keyed by the *)
(* address of an application value, maps it to the file that backs it     *)
(* across the task boundary.  GS_register creates or reuses an entry,      *)
(* GS_clean (called by compss_off) removes the backing files.              *)
(*                                                                         *)
(* Data abstraction: an address is an element of Refs, a temporary file    *)
(* name produced by mkstemp an element of TmpNames, a file the application *)
(* names itself an element of UserFiles.  The class name an entry stores   *)
(* is never read back by the binding and is left out.  Datatypes collapse  *)
(* to the three classes GS_register tells apart: object_dt, file_dt and    *)
(* everything else ("other").                                              *)
(***************************************************************************)
EXTENDS Naturals, FiniteSets

CONSTANTS
    Refs,          \* addresses passed to GS_register
    TmpNames,      \* names mkstemp may produce
    UserFiles,     \* file names passed with file_dt
    NULL,          \* a NULL char* (filename of a default-constructed Entry)
    NoType,        \* type field of a default-constructed Entry
    Uninit,        \* the caller's char* filename left unassigned
    FdLimit,       \* descriptors the process may hold open (RLIMIT_NOFILE)
    IOFailure,     \* TRUE iff mkstemp may fail for I/O reasons (ENOSPC, EACCES)
    MaxSessions    \* compss_on calls the application makes

ASSUME /\ FdLimit \in Nat
       /\ MaxSessions \in Nat \ {0}
       /\ IOFailure \in BOOLEAN
       /\ TmpNames \cap UserFiles = {}

Names == TmpNames \cup UserFiles

Types == {"object", "file", "other"}
Dirs  == {"in", "out", "inout", "null"}

\* The (type, direction) pairs GS_register is called with.  Generated stubs
\* (c-backend.c generate_parameter_marshalling) pass object_dt with every
\* direction (this: inout, return: null_dir, arguments: in/out/inout) and
\* scalars and strings with out or inout; a string's call passes direction
\* and type swapped, which still lands in the out/inout branch with a
\* non-file type.  file_dt reaches GS_register only by a direct API call.
CallSites ==
    {[type |-> "object", dir |-> d] : d \in Dirs}
    \cup {[type |-> "other", dir |-> d] : d \in {"out", "inout"}}
    \cup {[type |-> "file", dir |-> d] : d \in {"out", "inout"}}

Entry == [type : Types \cup {NoType}, filename : Names \cup {NULL}]

DefaultEntry == [type |-> NoType, filename |-> NULL]

VARIABLES
    objectMap,   \* map<void *, Entry> objectMap
    disk,        \* files that exist in the working directory
    openFds,     \* descriptors returned by mkstemp, never closed
    on,          \* between compss_on and compss_off
    sessions,    \* compss_on calls so far
    ret          \* what the last GS_register call handed back to its caller

vars == <<objectMap, disk, openFds, on, sessions, ret>>

NoCall == [ref |-> NULL, result |-> 0, filename |-> Uninit, session |-> 0]

Init ==
    /\ objectMap = [r \in Refs |-> DefaultEntry]
    /\ disk = UserFiles
    /\ openFds = 0
    /\ on = FALSE
    /\ sessions = 0
    /\ ret = NoCall

(***************************************************************************)
(* GS_register(ref, type, dir, classname, filename).  A null direction is  *)
(* treated as out; the create-or-reuse path is taken for every direction   *)
(* but in, and for in only when the type is object_dt.  objectMap[ref]     *)
(* default-inserts an entry whose filename is NULL, which is what "no      *)
(* entry" means below.                                                     *)
(***************************************************************************)
EffectiveDir(site) == IF site.dir = "null" THEN "out" ELSE site.dir

TakesRegistryPath(site) ==
    EffectiveDir(site) # "in" \/ site.type = "object"

HasEntry(ref) == objectMap[ref].filename # NULL

\* mkstemp creates, with O_EXCL, a name that does not exist yet.
FreeTmpNames == TmpNames \ disk

\* mkstemp can succeed while the process has a descriptor to spare.
MkstempCanSucceed == openFds < FdLimit /\ FreeTmpNames # {}

\* mkstemp fails once the descriptors leaked by earlier calls reach the
\* limit, and whenever an I/O error is possible.
MkstempCanFail == ~MkstempCanSucceed \/ IOFailure

\* ENTRY FOUND: result = 1, the caller gets a copy of the stored name.
RegisterFound(ref, site) ==
    /\ on
    /\ TakesRegistryPath(site)
    /\ HasEntry(ref)
    /\ ret' = [ref |-> ref, result |-> 1, filename |-> objectMap[ref].filename,
                session |-> sessions]
    /\ UNCHANGED <<objectMap, disk, openFds, on, sessions>>

\* ENTRY ADDED for file_dt out/inout: the caller's name is the backing file.
RegisterFile(ref, site, uname) ==
    /\ on
    /\ site.type = "file"
    /\ EffectiveDir(site) # "in"
    /\ ~HasEntry(ref)
    /\ objectMap' = [objectMap EXCEPT ![ref] = [type |-> "file", filename |-> uname]]
    /\ ret' = [ref |-> ref, result |-> 0, filename |-> uname, session |-> sessions]
    /\ UNCHANGED <<disk, openFds, on, sessions>>

\* ENTRY ADDED for any other type: a fresh temporary file backs the value;
\* the descriptor mkstemp returns is never closed.
RegisterTemp(ref, site) ==
    /\ on
    /\ TakesRegistryPath(site)
    /\ site.type # "file"
    /\ ~HasEntry(ref)
    /\ MkstempCanSucceed
    /\ \E n \in FreeTmpNames :
         /\ objectMap' = [objectMap EXCEPT ![ref] = [type |-> site.type, filename |-> n]]
         /\ disk' = disk \cup {n}
         /\ openFds' = openFds + 1
         /\ ret' = [ref |-> ref, result |-> 0, filename |-> n, session |-> sessions]
    /\ UNCHANGED <<on, sessions>>

\* A slip in the failure path, used to confirm that TypeOK detects it: the
\* entry, still holding mkstemp's template, is stored before the check.
MutantRegisterTempFailsStoresTemplate(ref, site) ==
    /\ on
    /\ TakesRegistryPath(site)
    /\ site.type # "file"
    /\ ~HasEntry(ref)
    /\ MkstempCanFail
    /\ objectMap' = [objectMap EXCEPT ![ref] =
                        [type |-> site.type, filename |-> "compss-serialized-obj_XXXXXX"]]
    /\ ret' = [ref |-> ref, result |-> 1, filename |-> Uninit, session |-> sessions]
    /\ UNCHANGED <<disk, openFds, on, sessions>>

\* mkstemp returned -1: GS_register returns 1 before storing the entry and
\* before assigning the caller's filename.
RegisterTempFails(ref, site) ==
    /\ on
    /\ TakesRegistryPath(site)
    /\ site.type # "file"
    /\ ~HasEntry(ref)
    /\ MkstempCanFail
    /\ ret' = [ref |-> ref, result |-> 1, filename |-> Uninit, session |-> sessions]
    /\ UNCHANGED <<objectMap, disk, openFds, on, sessions>>

\* compss_on: GS_On starts a session of the runtime.
CompssOn ==
    /\ ~on
    /\ sessions < MaxSessions
    /\ on' = TRUE
    /\ sessions' = sessions + 1
    /\ UNCHANGED <<objectMap, disk, openFds, ret>>

\* compss_off: GS_Off, then GS_clean removes every entry's file (remove of
\* a NULL name fails harmlessly) and leaves objectMap as it is.
CompssOff ==
    /\ on
    /\ on' = FALSE
    /\ disk' = disk \ {objectMap[r].filename : r \in Refs}
    /\ UNCHANGED <<objectMap, openFds, sessions, ret>>

Next ==
    \/ \E ref \in Refs, site \in CallSites :
         \/ RegisterFound(ref, site)
         \/ RegisterTemp(ref, site)
         \/ RegisterTempFails(ref, site)
         \/ \E uname \in UserFiles : RegisterFile(ref, site, uname)
    \/ CompssOn
    \/ CompssOff

Spec == Init /\ [][Next]_vars

-----------------------------------------------------------------------------
TypeOK ==
    /\ objectMap \in [Refs -> Entry]
    /\ disk \subseteq Names
    /\ openFds \in 0..FdLimit
    /\ on \in BOOLEAN
    /\ sessions \in 0..MaxSessions
    /\ ret \in [ref : Refs \cup {NULL}, result : {0, 1}, filename : Names \cup {Uninit},
              session : 0..MaxSessions]

(***************************************************************************)
(* When GS_register returns 1 ("found") in the running session, the      *)
(* generated stub skips writing the current value and hands the returned   *)
(* name to the runtime: that name must be the address's recorded backing   *)
(* file, and the file must exist.                                          *)
(***************************************************************************)
FoundMeansBackingFileReady ==
    (on /\ ret.session = sessions /\ ret.result = 1
        /\ objectMap[ret.ref].type # "file") =>
        /\ ret.filename = objectMap[ret.ref].filename
        /\ ret.filename \in disk

=============================================================================
