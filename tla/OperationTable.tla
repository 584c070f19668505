--------------------------- MODULE OperationTable ---------------------------
(***************************************************************************)
(* The operation table compssgen writes into B.h (generate_enum) and the   *)
(* prologue of the generated execute() (generate_prolog) that uses it to   *)
(* pick the case of the requested function:                                *)
(*   - operationCode: one enumerator per function, its name with every ':' *)
(*     replaced by '_' and "Op" appended, in schema order;                 *)
(*   - operationName: the function names as written, N_OPS of them;        *)
(*   - execute(): reject argc < MIN_NUM_INTERNAL_ARGS, read the internal    *)
(*     fields (numSlaves at 8, then slave names, then four more fields),   *)
(*     find argv[METHOD_NAME_POS] in operationName, switch on opCod.        *)
(* A function name is a sequence of characters over a small alphabet; the  *)
(* invocation record is abstracted to the fields the prologue reads.       *)
(***************************************************************************)
EXTENDS Integers, Sequences, Functions

CONSTANTS
    Names,       \* function names a schema may declare
    MaxFuncs,    \* functions per schema
    MaxSlaves,   \* numSlaves in an invocation record
    MaxAppArgs,  \* application tokens after the internal fields
    WellFormed   \* TRUE iff argc always counts every field the record has

NUM_BASE_ARGS == 9
MIN_NUM_INTERNAL_ARGS == 13
METHOD_NAME_POS == 7

\* Schemas: sequences of distinct names (function names are unique).
Schemas == {s \in UNION {[1..n -> Names] : n \in 1..MaxFuncs} : IsInjective(s)}

\* replace_char(func_name, ':', '_'), then "%sOp".
Enumerator(name) == [i \in DOMAIN name |-> IF name[i] = ":" THEN "_" ELSE name[i]] \o <<"O", "p">>

\* enum operationCode {...}: enumerator k (0-based) of the schema.
EnumOf(schema) == [k \in 0..(Len(schema) - 1) |-> Enumerator(schema[k + 1])]

\* An invocation record: the method name and numSlaves fields, and argc.
\* A well-formed record has 13 + numSlaves internal fields.
Records ==
    {r \in [name : Names, numSlaves : 0..MaxSlaves,
            argc : 1..(13 + MaxSlaves + MaxAppArgs)] :
        WellFormed => r.argc - 13 - r.numSlaves \in 0..MaxAppArgs}

Outcome(kind, fn) == [kind |-> kind, fn |-> fn]

VARIABLES
    schema,      \* the schema B.h and execute() were generated from
    rec,         \* the invocation record the worker is started with
    pc,          \* "check", "header", "lookup", "switch", "done"
    reads,       \* argv indices execute() has read
    opCod,       \* the selected operation code; "uninit" before the lookup
    ran          \* outcome: the case of a function, "error" or "rejected"

vars == <<schema, rec, pc, reads, opCod, ran>>

Init ==
    /\ schema \in Schemas
    \* the stub sends its own func->name; a worker built from another
    \* schema may not have it
    /\ rec \in Records
    /\ pc = "check"
    /\ reads = {}
    /\ opCod = "uninit"
    /\ ran = Outcome("none", <<>>)

\* if (argc < MIN_NUM_INTERNAL_ARGS) { ...; return -1; }
RejectShort ==
    /\ pc = "check" /\ rec.argc < MIN_NUM_INTERNAL_ARGS
    /\ pc' = "done" /\ ran' = Outcome("rejected", <<>>)
    /\ UNCHANGED <<schema, rec, reads, opCod>>

\* argv[0..8], the slave names argv[9..8+numSlaves], then
\* argv[NUM_INTERNAL_ARGS++] four times, and the application arguments
\* NUM_INTERNAL_ARGS..argc-1.
ReadHeader ==
    /\ pc = "check" /\ rec.argc >= MIN_NUM_INTERNAL_ARGS
    /\ LET internal == NUM_BASE_ARGS + rec.numSlaves + 4 IN
         reads' = (0..(internal - 1)) \cup (internal..(rec.argc - 1))
    /\ pc' = "lookup"
    /\ UNCHANGED <<schema, rec, opCod, ran>>

\* for (i = 0; i < N_OPS; i++) if (strcmp(operationName[i], opName) == 0)
\* { opCod = i; break; }: the first match.
NameFound ==
    /\ pc = "lookup"
    /\ \E k \in 0..(Len(schema) - 1) :
         /\ schema[k + 1] = rec.name
         /\ \A j \in 0..(k - 1) : schema[j + 1] # rec.name
         /\ opCod' = k
    /\ pc' = "switch"
    /\ UNCHANGED <<schema, rec, reads, ran>>

\* No name matches: opCod is never assigned, and the uninitialised local
\* holds whatever the stack held.
NameMissing ==
    /\ pc = "lookup"
    /\ \A k \in 1..Len(schema) : schema[k] # rec.name
    /\ \E garbage \in -1..Len(schema) : opCod' = garbage
    /\ pc' = "switch"
    /\ UNCHANGED <<schema, rec, reads, ran>>

\* switch (opCod): case <enumerator k>Op runs function k; no case matches
\* any other value and execute() prints the error and returns -1.
Switch ==
    /\ pc = "switch"
    /\ ran' = IF opCod \in 0..(Len(schema) - 1) THEN Outcome("case", schema[opCod + 1])
              ELSE Outcome("error", <<>>)
    /\ pc' = "done"
    /\ UNCHANGED <<schema, rec, reads, opCod>>

Next == RejectShort \/ ReadHeader \/ NameFound \/ NameMissing \/ Switch

Spec == Init /\ [][Next]_vars

-----------------------------------------------------------------------------
(***************************************************************************)
(* The generated B.h compiles and the operation codes are a bijection with *)
(* the schema's functions: replace_char(':', '_') never gives two          *)
(* functions the same enumerator (spec section 8, operation bijection).    *)
(***************************************************************************)
EnumeratorsDistinct == IsInjective(EnumOf(schema))

(***************************************************************************)
(* A malformed invocation record is rejected as a whole (spec section 7,  *)
(* MalformedInvocationError): execute() reads no argv index at or past     *)
(* argc, and a method name the table lacks runs no function's case.       *)
(***************************************************************************)
MalformedRecordRejected ==
    /\ \A i \in reads : i < rec.argc
    /\ (pc = "done" /\ rec.name \notin Range(schema)) => ran.kind # "case"

=============================================================================
