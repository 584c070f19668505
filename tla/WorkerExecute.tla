---------------------------- MODULE WorkerExecute ----------------------------
(***************************************************************************)
(* One task crossing the boundary between the code that compssgen          *)
(* (c-backend.c) generates for a schema function:                          *)
(*   - the stub marshals one (value, type, direction) triple per slot:     *)
(*     "this" for a non-static method, the return object for a non-void    *)
(*     function, then every declared argument                              *)
(*     (generate_parameter_marshalling);                                   *)
(*   - the runtime turns every triple into argv tokens after the internal  *)
(*     fields: type, stream, prefix, then the value, where a string passed *)
(*     by value is a word count followed by that many words (the layout    *)
(*     the generated worker states in its comments);                       *)
(*   - the generated execute() walks argv with arg_offset and decodes each *)
(*     slot (generate_worker_case), then calls the implementation.         *)
(* A token is identified by the slot it belongs to and its part; arg_offset*)
(* is kept relative to the first application parameter (NUM_INTERNAL_ARGS)*)
(* and positions are 1-based indices into that part of argv.               *)
(***************************************************************************)
EXTENDS Naturals, Sequences, SequencesExt

CONSTANTS
    MaxArgs,     \* declared arguments per function
    ArgTypes,    \* argument types, a subset of AllTypes
    ArgDirs,     \* argument directions, a subset of AllDirs
    Targets,     \* function shapes: [method : BOOLEAN, ret : BOOLEAN]
    MaxWords,    \* words in a string passed by value
    IntLiteral   \* the literal an int argument is passed as

\* int stands for every scalar read with atoi/atol/strtod or argv[i][0].
AllTypes == {"int", "bool", "string", "object", "file"}
AllDirs  == {"in", "out", "inout", "null"}

ASSUME /\ ArgTypes \subseteq AllTypes /\ ArgDirs \subseteq AllDirs
       /\ Targets \subseteq [method : BOOLEAN, ret : BOOLEAN]
       /\ MaxArgs \in Nat /\ MaxWords \in Nat /\ IntLiteral \in Nat

\* datatype codes (c_types order), what atoi makes of a type token.
TypeCode == [int |-> 4, bool |-> 0, string |-> 8, file |-> 9, object |-> 10]

\* A value the application passes: a boolean, a word count, or nothing the
\* decoding depends on (a path, an int literal).
ValsOf(type, dir) ==
    IF dir \in {"in", "null"} /\ type = "bool" THEN {0, 1}
    ELSE IF dir \in {"in", "null"} /\ type = "string" THEN 0..MaxWords
    ELSE {0}

ArgSlots ==
    UNION {{[kind |-> "arg", type |-> t, dir |-> d, val |-> v] : v \in ValsOf(t, d)} :
              t \in ArgTypes, d \in ArgDirs}

TargetSlot(kind) == [kind |-> kind, type |-> "object", dir |-> "inout", val |-> 0]

\* generate_parameter_marshalling: this, return, then the arguments.
Slots(t, args) ==
    (IF t.method THEN <<TargetSlot("this")>> ELSE <<>>)
    \o (IF t.ret THEN <<TargetSlot("ret")>> ELSE <<>>)
    \o args

Calls == {Slots(t, args) : t \in Targets, args \in SeqOf(ArgSlots, MaxArgs)}

\* A string whose in or null direction sends it through the default branch
\* of the stub, by value; every other slot is sent as one path or literal.
ByValueString(s) == s.type = "string" /\ s.kind = "arg" /\ s.dir \in {"in", "null"}

Tok(i, part, n) == [slot |-> i, part |-> part, n |-> n]

Header(i) == <<Tok(i, "type", 0), Tok(i, "stream", 0), Tok(i, "prefix", 0)>>

Body(call, i) ==
    IF ByValueString(call[i])
    THEN <<Tok(i, "nwords", call[i].val)>>
         \o [w \in 1..call[i].val |-> Tok(i, "word", w)]
    ELSE <<Tok(i, "value", 0)>>

Argv(call) == FlattenSeq([i \in 1..Len(call) |-> Header(i) \o Body(call, i)])

\* Positions of slot i's value tokens in Argv(call).
SlotStart(call, i) ==
    Len(FlattenSeq([j \in 1..(i - 1) |-> Header(j) \o Body(call, j)]))

ExpectedPos(call, i) ==
    [w \in 1..Len(Body(call, i)) |-> SlotStart(call, i) + 3 + w]

VARIABLES
    call,        \* the submitted slots
    argv,        \* the application part of the worker's argv
    arg_offset,  \* the generated code's cursor
    pc,          \* slot being decoded; Len(call) + 1 once all are decoded
    readPos,     \* readPos[i]: positions execute() took slot i's value from
    heapZeroed,  \* heapZeroed[i]: first byte of slot i's malloc'ed buffer was 0
    invoked,     \* the implementation has been called
    allocated,   \* buffers the case strdup'ed or malloc'ed: <<slot, "name" or "value">>
    freed        \* buffers passed to free() before the case returns

vars == <<call, argv, arg_offset, pc, readPos, heapZeroed, invoked, allocated, freed>>

\* atoi applied to the token at a position; past the end nothing is read.
Atoi(p) ==
    IF p > Len(argv) THEN 0
    ELSE LET t == argv[p] IN
         CASE t.part = "nwords" -> t.n
           [] t.part = "value" /\ call[t.slot].type = "int" -> IntLiteral
           [] t.part = "type" -> TypeCode[call[t.slot].type]
           [] OTHER -> 0

Init ==
    /\ call \in Calls
    /\ argv = Argv(call)
    /\ arg_offset = 0
    /\ pc = 1
    /\ readPos = [i \in 1..Len(call) |-> <<>>]
    /\ heapZeroed = [i \in 1..Len(call) |-> TRUE]
    /\ invoked = FALSE
    /\ allocated = {}
    /\ freed = {}

Decoding(kind) == pc <= Len(call) /\ call[pc].kind \in kind

\* What the decoding blocks strdup: an in file's path, an in object's file
\* name; an out/inout slot's file name, or a file's path, and a string's
\* text.
InFixedBuffers(type) ==
    CASE type = "file" -> {"value"} [] type = "object" -> {"name"} [] OTHER -> {}

OutBuffers(type) ==
    CASE type = "file" -> {"value"} [] type = "string" -> {"name", "value"}
      [] OTHER -> {"name"}

\* The loop after the write-back: free(arg) for every file and string
\* argument, whatever its direction.
FreedAtEnd(c) ==
    {<<i, "value">> : i \in {j \in 1..Len(c) : c[j].kind = "arg" /\ c[j].type \in {"file", "string"}}}

\* this_filename / return_filename: arg_offset += 1, read, arg_offset += 1.
DecodeTarget ==
    /\ Decoding({"this", "ret"})
    /\ readPos' = [readPos EXCEPT ![pc] = <<arg_offset + 2>>]
    /\ arg_offset' = arg_offset + 2
    /\ allocated' = allocated \cup {<<pc, "name">>}
    /\ pc' = pc + 1
    /\ UNCHANGED <<call, argv, heapZeroed, invoked, freed>>

\* The same step without the closing arg_offset += 1, the slip the string
\* case makes; used to confirm that FixedArgumentsAligned detects it.
MutantDecodeInFixedNoAdvance ==
    /\ Decoding({"arg"})
    /\ call[pc].dir = "in"
    /\ call[pc].type # "string"
    /\ readPos' = [readPos EXCEPT ![pc] = <<arg_offset + 4>>]
    /\ arg_offset' = arg_offset + 3
    /\ allocated' = allocated \cup {<<pc, b>> : b \in InFixedBuffers(call[pc].type)}
    /\ pc' = pc + 1
    /\ UNCHANGED <<call, argv, heapZeroed, invoked, freed>>

\* An in scalar, file or object: arg_offset += 3, read, arg_offset += 1;
\* a path is strdup'ed, an object's file name too.
DecodeInFixed ==
    /\ Decoding({"arg"})
    /\ call[pc].dir = "in"
    /\ call[pc].type # "string"
    /\ readPos' = [readPos EXCEPT ![pc] = <<arg_offset + 4>>]
    /\ arg_offset' = arg_offset + 4
    /\ allocated' = allocated \cup {<<pc, b>> : b \in InFixedBuffers(call[pc].type)}
    /\ pc' = pc + 1
    /\ UNCHANGED <<call, argv, heapZeroed, invoked, freed>>

\* An in string: arg_offset += 3, nwords = atoi(argv[arg_offset]), then
\* arg_offset += 1 before each word is strcat'ed onto a malloc'ed buffer
\* that is never initialised; no final arg_offset += 1.
DecodeInString ==
    /\ Decoding({"arg"})
    /\ call[pc].dir = "in"
    /\ call[pc].type = "string"
    /\ LET k == Atoi(arg_offset + 4) IN
         /\ readPos' = [readPos EXCEPT ![pc] = [w \in 1..(k + 1) |-> arg_offset + 3 + w]]
         /\ arg_offset' = arg_offset + 3 + k
    /\ \E z \in BOOLEAN : heapZeroed' = [heapZeroed EXCEPT ![pc] = z]
    /\ allocated' = allocated \cup {<<pc, "value">>}
    /\ pc' = pc + 1
    /\ UNCHANGED <<call, argv, invoked, freed>>

\* An out or inout argument of any type: its file name is read, and
\* strdup'ed except for a file, whose path is; a string is also strdup'ed
\* from what its file holds.
DecodeOutArg ==
    /\ Decoding({"arg"})
    /\ call[pc].dir \in {"out", "inout"}
    /\ readPos' = [readPos EXCEPT ![pc] = <<arg_offset + 4>>]
    /\ arg_offset' = arg_offset + 4
    /\ allocated' = allocated \cup {<<pc, b>> : b \in OutBuffers(call[pc].type)}
    /\ pc' = pc + 1
    /\ UNCHANGED <<call, argv, heapZeroed, invoked, freed>>

\* A null direction matches neither the in nor the out/inout block.
SkipNullArg ==
    /\ Decoding({"arg"})
    /\ call[pc].dir = "null"
    /\ pc' = pc + 1
    /\ UNCHANGED <<call, argv, arg_offset, readPos, heapZeroed, invoked, allocated, freed>>

\* The implementation is called once every slot has been decoded; after
\* the write-back the case frees its argument pointers and returns 0.
Invoke ==
    /\ pc = Len(call) + 1
    /\ ~invoked
    /\ invoked' = TRUE
    /\ freed' = FreedAtEnd(call)
    /\ UNCHANGED <<call, argv, arg_offset, pc, readPos, heapZeroed, allocated>>

Next ==
    \/ DecodeTarget
    \/ DecodeInFixed
    \/ DecodeInString
    \/ DecodeOutArg
    \/ SkipNullArg
    \/ Invoke

Spec == Init /\ [][Next]_vars

-----------------------------------------------------------------------------
(* The C types of a slot in the three places that name it: the prototype  *)
(* of the implementation (generate_prototype), the worker's local and the  *)
(* expression the worker passes for it (generate_worker_case), and what    *)
(* the stub and the worker put in and take out of a slot's archive. A type *)
(* is a base name and a number of '*'; every object class is "Class".      *)

CT(b, n) == [base |-> b, ptrs |-> n]

\* `typedef char* file;`, emitted into the shared header.
Resolve(ct) == IF ct.base = "file" THEN CT("char", ct.ptrs + 1) ELSE ct

\* c_out_types, for the types the model keeps.
COutTypes == [int |-> CT("int", 0), bool |-> CT("int", 0), string |-> CT("char", 1),
              file |-> CT("file", 0), object |-> CT("void", 1)]

\* The parameter: an in value as c_out_types gives it, an object by pointer,
\* and any other direction by pointer, except a file, which is a path.
ParamType(s) ==
    CASE s.type = "object" -> CT("Class", 1)
      [] s.dir = "in" \/ s.type = "file" -> COutTypes[s.type]
      [] OTHER -> [COutTypes[s.type] EXCEPT !.ptrs = @ + 1]

\* The local execute() declares for an argument.
LocalType(type) ==
    CASE type = "object" -> CT("Class", 0)
      [] type \in {"string", "file"} -> CT("char", 1)
      [] OTHER -> CT("int", 0)

\* The worker passing an out string by name, used to confirm that
\* CallMatchesPrototype detects it.
MutantCallArgTypeStringByName(s) ==
    IF s.type = "object" \/ (s.dir # "in" /\ s.type \notin {"file", "string"})
    THEN [LocalType(s.type) EXCEPT !.ptrs = @ + 1]
    ELSE LocalType(s.type)

\* What the call passes: &local for an in object and for every other
\* direction except a file, the local itself otherwise.
CallArgType(s) ==
    IF s.type = "object" \/ (s.dir # "in" /\ s.type # "file")
    THEN [LocalType(s.type) EXCEPT !.ptrs = @ + 1]
    ELSE LocalType(s.type)

\* What the stub writes into an object slot's archive: *this,
\* return_object and *arg for an out/inout object, but the pointer arg
\* itself for an object that is in (or of no direction).
StubArchiveType(s) ==
    IF s.kind = "arg" /\ s.dir \notin {"out", "inout"} THEN CT("Class", 1) ELSE CT("Class", 0)

\* `int b = argv[arg_offset] ? 1 : 0;`: the pointer, not the text, is tested.
BoolFromArgv(p) == IF p <= Len(argv) THEN 1 ELSE 0

\* Slot i was decoded from exactly the tokens the runtime produced for it.
Aligned(i) == readPos[i] = ExpectedPos(call, i)

\* Slots 1..i-1 are arguments that the worker steps over by a fixed width.
FixedWidthBefore(i) ==
    \A j \in 1..(i - 1) :
        /\ call[j].kind = "arg"
        /\ call[j].dir # "null"
        /\ ~ByValueString(call[j])

(***************************************************************************)
(* For a free function, every argument that is reached by stepping over    *)
(* fixed-width arguments only is decoded from its own tokens: the stub's   *)
(* slot order and execute()'s "arg_offset += 3 ... += 1" walk agree on the *)
(* runtime's four-token layout.                                            *)
(***************************************************************************)
FixedArgumentsAligned ==
    invoked =>
      \A i \in 1..Len(call) :
        (call[i].kind = "arg" /\ call[i].dir # "null" /\ FixedWidthBefore(i))
          => Aligned(i)

\* Slot i reaches the implementation with the value the caller passed: it
\* is decoded from its own tokens, a boolean from its text, a string onto
\* a buffer that starts empty, and an object from an archive holding the
\* object, which is what execute() reads into its local (612, 624, 759,
\* 776).
ArrivesUnchanged(i) ==
    /\ Aligned(i)
    /\ (call[i].type = "bool" /\ call[i].dir = "in") => BoolFromArgv(readPos[i][1]) = call[i].val
    /\ ByValueString(call[i]) => heapZeroed[i]
    /\ call[i].type = "object" => StubArchiveType(call[i]) = CT("Class", 0)

(***************************************************************************)
(* Every slot the stub submitted (this, the return object and each         *)
(* argument) reaches the implementation unchanged (spec 8, scalar and      *)
(* string round-trip): execute()'s arg_offset walk reads each slot from    *)
(* its own tokens, and the in boolean and in string decodes rebuild the    *)
(* value the caller passed.                                                *)
(***************************************************************************)
ArgumentsArriveUnchanged ==
    invoked => \A i \in 1..Len(call) : ArrivesUnchanged(i)

(***************************************************************************)
(* The implementation is called with arguments of the types its prototype  *)
(* declares: for every argument, the expression generate_worker_case       *)
(* passes (a local or its address) has the type generate_prototype gives   *)
(* the parameter, once the header's typedef of file is applied.            *)
(***************************************************************************)
CallMatchesPrototype ==
    invoked =>
      \A i \in 1..Len(call) :
        call[i].kind = "arg" => Resolve(CallArgType(call[i])) = Resolve(ParamType(call[i]))

(***************************************************************************)
(* When the case returns it has released exactly the buffers its decoding  *)
(* allocated (spec 4.3, step 7): nothing strdup'ed for the target, the     *)
(* return object or an argument is left behind, and nothing it never       *)
(* assigned is passed to free().                                           *)
(***************************************************************************)
ReleasesDecodeBuffers ==
    invoked => freed = allocated

=============================================================================
