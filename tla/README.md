# TLA+ models of the COMPSs C binding

This directory holds TLA+ models of the C binding of COMPSs, as found under
`src/compss/programming_model/bindings/c/src/`, and the TLC configurations
that check them. The binding has two parts:

* `bindinglib/GS_compss.cc` is the runtime library that generated stubs link
  against. Its main piece is the **object registry** `objectMap`.
* `compssgen/c-backend.c` is the back end of the IDL compiler. It generates
  the caller-side **stubs** (`B-stubs.cc`), the worker-side **dispatcher**
  `execute()` (`B-executor.cc`) and the shared header (`B.h`).

## 1. Inventory

### Components, their state and operations

| Component | Source | State | Operations |
|---|---|---|---|
| Object registry | GS_compss.cc 23–119 | `objectMap : void* -> Entry{type, classname, filename}`; the temporary files on disk; the descriptors `mkstemp` leaves open | `GS_register`, `GS_clean` |
| Session lifecycle | GS_compss.cc 25–32 | runtime on/off (in the external runtime) | `compss_on`, `compss_off` (`GS_Off` then `GS_clean`) |
| File access API | GS_compss.cc 121–185 | none of its own | `compss_ifstream`, `compss_ofstream`, `compss_fopen`, `compss_delete_file`: they map a name to the runtime's name via `GS_Get_File` and open it |
| Barrier API | GS_compss.cc 187–197 | none | `compss_barrier`, `compss_barrier_new`, forwarded to the runtime |
| Stub pass | c-backend.c 398–591 | the generated stub's locals: `arrayObjs`, `found`, the `*_filename` names | per function: register each slot, write the value when the slot is new, `GS_ExecuteTask`, then `compss_wait_on` for the return value |
| Dispatcher pass | c-backend.c 133–194, 229–239, 593–998 | the generated `execute()`'s `arg_offset`, `opCod` and decoded locals | check `argc`, look the method name up in `operationName`, then `switch` to the function's case. The case decodes this, return and arguments from `argv`, calls the implementation, writes the out values back and frees its buffers |
| Shared declarations | c-backend.c 258–305, 308–396, 1001–1034 | none | the `operationCode` enum, the `operationName` table, the layout constants (`NUM_BASE_ARGS = 9`, `MIN_NUM_INTERNAL_ARGS = 13`, `METHOD_NAME_POS = 7`) and the prototypes |
| Type table | c-backend.c 17–61 | constant | C type names per datatype |
| Output files | c-backend.c 64–226, 229–256 | three `FILE*` | open, write the headers, close |

### How the parts interact

A generated stub calls `GS_register` once for every slot that is not passed
by value: `this` (object, inout), the return object (object, `null_dir`),
and every out or inout argument. An in object is registered too. When
`GS_register` returns 0 (a new entry), the stub serialises the current
value into the returned file. Then it passes one (value-or-file, type,
direction) triple per slot to `GS_ExecuteTask`. The external runtime turns
each triple into `argv` tokens for the worker. Per the worker's own comments
(c-backend.c 679–682) the tokens are type, stream, prefix and value. A string
passed by value becomes a word count followed by that many words. The
generated `execute()` walks `argv` with `arg_offset`, deserialises from the
files it is given, calls the implementation and writes the out values back
to the same files. `compss_off` calls `GS_clean`, which deletes every
registered file.

### What is hard

* **Ordering of a protocol between generated artefacts.** The stub side and
  the worker side must agree on the slot order and on every slot's width in
  `argv`, for every (type, direction) pair and function shape. A unit test
  covers one signature. The model covers all of them up to a bound.
* **Failure inside `GS_register`.** `mkstemp` can fail, and one of the ways it
  fails is certain to happen: every call leaks a descriptor. The failure
  returns the same code as "found".
* **Lifetime.** The registry is keyed by raw addresses and never forgets an
  entry. `GS_clean` deletes the files but leaves the map as it is.
* **Concurrency.** `GS_register` is a check-then-insert with no lock.
* **Undefined behaviour in generated code.** The string buffer is
  `strcat`'ed while uninitialised, `opCod` is uninitialised when no name
  matches, and `compss_fopen` leaves `dir` uninitialised for an unknown mode.

### What makes each component correct

* Registry: every registration of the same address gets the same existing
  file (spec §8 "injective registry"). A "found" result means the file
  already holds a value. Distinct live addresses never share a temporary
  file. A failure leaves no entry behind (spec §4.2, §7).
* Stub + dispatcher: every slot the stub submits is decoded by `execute()`
  from its own tokens, and every value passed in arrives unchanged (spec §8
  "string round-trip", "scalar round-trip", end-to-end scenario).
* Dispatcher: the case that runs is the one for the requested name, and an
  unknown name leads to the error return (spec §4.3, §7).
* Shared declarations: the operation codes are a bijection with the
  functions (spec §8 "operation bijection").

## 2. Modules and runs

| Module | Models | Instantiated by |
|---|---|---|
| `ObjectRegistry` | `GS_register` as one atomic call in four actions (found / new file-type entry / new temporary file / `mkstemp` failure), `compss_on`, `compss_off` with `GS_clean` | `MC_ObjectRegistry` |
| `RegistryRace` | the steps of one `GS_register` call (look-up, `mkstemp`, store), interleaved between threads | `MC_RegistryRace` |
| `WorkerExecute` | one task crossing from the stub's slot list, through the runtime's `argv` layout, to `execute()`'s decoding walk, one action per decoding block | `MC_WorkerExecute` |
| `StubSession` | an application thread calling generated stubs, composed with `ObjectRegistry` (`INSTANCE`), and the runtime executing the submitted tasks through the worker | `MC_StubSession` |
| `OperationTable` | `generate_enum` (enumerator names, `operationName`, the layout constants) as operators, and the prologue of `execute()`: the `argc` check, the header reads, the name look-up and the `switch` | `MC_OperationTable` |
| `FileAccess` | `compss_ifstream`, `compss_ofstream`, `compss_fopen` and `compss_delete_file` as the calls they make to the runtime | `MC_FileAccess` |

### Correspondence with the code

*ObjectRegistry.* `objectMap` is the C++ map, restricted to the addresses in
`Refs`. An address that was never inserted and one that `operator[]`
default-inserted are both an entry with filename `NULL`. The binding never
tells them apart. `disk` is the set of files in the working directory.
`openFds` counts the descriptors `mkstemp` returned; none is ever closed.
`ret` is what the caller of the last `GS_register` sees: the result, the
filename (`Uninit` when the function returned before assigning it), and the
session. The (type, direction) inputs are `CallSites`, the pairs the
generated stubs pass. Datatypes are reduced to the three classes
`GS_register` tells apart. The string call swaps type and direction
(c-backend.c 499), but it still takes the out/inout branch with a non-file
type, so it is one of the "other, out/inout" sites. `IOFailure` lets
`mkstemp` fail for I/O reasons, such as a read-only working directory.
`FdLimit` is the process's descriptor limit.

*RegistryRace.* Each thread has a `pc` and keeps its local `entry` copy. The
four actions are the four places in `GS_register` where another thread's
step can come in between. A thread calls `GS_register` for its address
`RefOf[t]` up to `MaxCalls` times (`Calling`), so a later call can take the
"found" path.

*WorkerExecute.* `call` is the slot sequence that
`generate_parameter_marshalling` produces: `this`, the return slot, then the
arguments. Each slot has a type, a direction and the value that matters for
decoding: a boolean, or a string's word count. `argv` is the runtime's
encoding of it. A token is named by its slot and its part. `arg_offset` and
`readPos` follow the generated code exactly:

* `this`/return: `+= 1`, read, `+= 1`.
* in fixed-width value: `+= 3`, read, `+= 1`.
* in string: `+= 3`, count, then `+= 1` per word, and no final `+= 1`.
* out/inout: `+= 3`, read, `+= 1`.
* null direction: matches no block.

`heapZeroed` is the one nondeterministic choice. `malloc` returns an
uninitialised buffer and `strcat` appends to it, so the result is either the
correct string (the first byte happened to be 0) or garbage. Types are
reduced to int (every scalar read with `atoi`/`atol`/`strtod`/`[0]`), bool,
string, object and file.

`allocated` is the set of heap buffers the case owns, each named by its
slot and whether it holds the slot's file name or its value. Each decoding
block adds what it `strdup`s or `malloc`s (`InFixedBuffers`, `OutBuffers`,
c-backend.c 608, 620, 728, 742, 756, 783, 793, 799, 804). `Invoke` is the
call. After the write-back (modelled in `StubSession`), the case frees the
pointer of every file and string argument, whatever its direction, and
returns 0 (`FreedAtEnd`, 962–993). The result is `freed`.

The C types are records of a base name and a number of `*`, and every
class is `"Class"`:

* `ParamType` is `generate_prototype`'s parameter type, built from
  `c_out_types` (`COutTypes`).
* `LocalType` is the local that `execute()` declares.
* `CallArgType` is the expression the call passes: the local or its
  address.
* `Resolve` applies the header's `typedef char* file;` (224).
* `StubArchiveType` is what the stub writes into an object slot's archive:
  `*this`, `return_object`, `*arg` for an out/inout object, and the
  pointer `arg` itself for an in object.

*StubSession.* The registry's variables are `ObjectRegistry`'s, and its
actions are used through `Reg == INSTANCE ObjectRegistry`. `heap[a]` is the
object (class, value) living at address `a`, or `Free`. `fileVal[n]` is what
file `n` holds. `stub` is the stub frame the application thread is in. A
function (`Funcs`) is a record of its target class or `"none"`, its return
class or `"void"`, its one object argument's class or `"none"`, and that
argument's direction. The stub's `pc` follows the generated code, skipping
the slots the function does not have (`AfterThis`, `AfterReturn`):
`RegisterThis` registers the target inout (c-backend.c 415–437),
`RegisterReturn` the return slot with `null_dir` (439–462),
`RegisterArgOut` an out or inout argument (468–494) and `RegisterArgIn` an
in argument (527–541). Each one writes the object into the file only when
`GS_register` returned 0 (`Register`). `Submit` is `GS_ExecuteTask` (577),
and `WaitOn` is `compss_wait_on(return_object)` (581–587). The return
object is a stack local, so it always sits at `RetAddr`; the application's
own objects can live there when no stub frame does. `tasks` is the
runtime's queue. `Execute` is the worker's case for the head task. It reads
the target, return and argument files (604–626, 753–790), runs the
implementation, which may change the target and an out/inout argument and
returns a value, and writes back the target, `return_object` and the
out/inout argument in that order (900–928, `WriteBack`). For a method the
worker does not assign `return_object` (817–823, `ReturnObjectAfterCall`),
so what it writes back is what it read. `log[k]` records what call `k`'s
task read and wrote, and `returned[k]` what the stub returned.
Registration failures are excluded by `FdLimit` equal to the number of
addresses; they are `ObjectRegistry`'s subject.

*FileAccess.* `rtCalls` is the sequence of calls the wrappers make to the
runtime: `GS_Get_File(name, dir, ...)` with the mode the file is then
opened with, and `GS_Delete_File(name)`. `DirsOfMode` is the chain of
`strcmp`s in `compss_fopen` (GS_compss.cc 148–169). A mode none of them
matches leaves `dir` uninitialised; the model then lets `dir` be any
direction or an invalid value. The properties compare the announced
direction with `DirNeeded`, a reference definition from what the C
standard says a mode does: a mode starting with `r` or `a` keeps the
content, one starting with `w` or `a` or containing `+` writes it.

*OperationTable.* A function name is a sequence of characters.
`Enumerator` is `replace_char(name, ':', '_')` followed by `Op`, and
`EnumOf(schema)` is the enum in schema order. A record is the method name,
`numSlaves` and `argc`. The actions are the prologue's blocks in order:
`RejectShort` (140–145), `ReadHeader` (146–170: argv 0–8, the slave names,
four more fields, then the application arguments), `NameFound`/`NameMissing`
(177–183), `Switch` (192–194 and the default of 229–238). When no name
matches, `opCod` was never assigned (173); it is a nondeterministic choice
among -1 and the valid codes, which covers both a value that hits a case
and one that falls to the default. `WellFormed` says whether `argc` always
counts 13 + `numSlaves` internal fields.

### Runs

| Run | Checks | Result and meaning |
|---|---|---|
| `registry_core` | `TypeOK` | pass. Within one session, with descriptor exhaustion and I/O failures, every branch of `GS_register`, `compss_on` and `compss_off` keeps the registry, the files and the descriptor count within their types. No branch stores a name `mkstemp` did not produce. |
| `registry_fd_leak` | `FoundMeansBackingFileReady` | violation. With no I/O errors at all, the third new address fails in `mkstemp` only because the first two leaked their descriptors. `GS_register` returns 1, the stub reads that as "found" and skips the write, and the filename it passes is unassigned. With two sessions the same property also catches an address "found" after `compss_off`/`compss_on` with a file `GS_clean` deleted. |
| `registry_race` | `ConcurrentRegistrationsAgree` | violation. Two threads registering one address both create a file. The first thread keeps a name the registry no longer records. |
| `worker_core` | `FixedArgumentsAligned`, `CallMatchesPrototype` | pass. Over every function shape and every argument type and direction, an argument reached only through fixed-width arguments is decoded from its own tokens. Every argument the worker passes has the type the prototype declares for it. |
| `worker_slots` | `ArgumentsArriveUnchanged` | violation. Over every shape with int, boolean, string or object arguments, in or of no direction, some slot does not reach the implementation as the caller passed it. In the trace TLC reports, an argument of no direction matches no decoding block, and the implementation is called with it never read; spec §3 says an unspecified direction means out, and spec §7 forbids passing a partially initialised argument. The same property is also broken in four other ways. The `this`/return stride of two and an in string leaving `arg_offset` one token short make later slots read other slots' tokens. An in boolean false is read as 1, because the pointer is tested (c-backend.c 693). An in object's archive holds the pointer the stub wrote (`oa << arg`, 535), where `execute()` reads an object (759). A string is `strcat`'ed onto an uninitialised buffer (742). |
| `worker_release` | `ReleasesDecodeBuffers` | violation. Spec §4.3 step 7 says the case releases what it allocated for decoding. The file names it `strdup`s for the target, the return object, in objects and out/inout arguments are never freed; the trace has one out int argument. A string or file argument of no direction is never assigned, yet `free()` is called on it, which is undefined behaviour. |
| `stub_session` | `ReturnValueDelivered`, `UpdatesChained` | pass. Over three calls of a free function taking an in object and returning one, and of a void method taking an inout object, with the application allocating, changing and freeing objects in between. A stub returns the value its own task computed. Every task reads a target or argument file with what the last task that wrote that file left there, so the stub never overwrites a task's update with its stale copy. |
| `stub_inputs` | `WorkerReadsCallerInputs` | violation. In the trace TLC reports, two functions return different classes and share the stack address of `return_object`. The second stub's registration is "found", nothing is written, and the worker reads an object of the first function's class. The same property catches an in object passed, changed by the application and passed again, which the task reads with its old value. |
| `stub_method_return` | `ReturnValueDelivered` | violation. A non-void method's stub returns the default object it wrote into the return file: the worker calls `this_C.m(...)` without assigning `return_object` (c-backend.c 818). |
| `optable_clash` | `EnumeratorsDistinct` | violation. A schema with the method `A::f` and the free function `A__f` gets `A__fOp` for both from `replace_char(':', '_')` (c-backend.c 274, 600). The enum and the switch have duplicate labels, while spec §8 says the codes are a bijection with the functions. |
| `optable_malformed` | `MalformedRecordRejected` | violation. Spec §7 makes a short record or an unknown name a malformed invocation. The `argc` check is against the fixed 13 while the header has 13 + `numSlaves` fields, so a short record is read past `argc`; and an unknown name leaves `opCod` uninitialised, so the switch may run another function's case. |
| `fileaccess_mode` | `AccessAnnouncedToRuntime` | violation. `compss_fopen(name, "rb")` matches none of the six mode strings, and the runtime is told an uninitialised direction, for example out for a file that is only read. |

Each property of a passing run has a mutant in `PROJECT.json`: a plausible
slip in the mapped code (a dropped guard, a missing advance, a wrong index)
under which TLC finds the property violated with the run's own
configuration.

### Bounds

* Registry: three addresses against a limit of two descriptors, so the leak
  reaches the limit. Three temporary names, so a name is never what runs
  out. One user file, and one or two sessions.
* Registry race: two threads on one address, one call each, are enough for
  the lost name.
* Worker: up to two arguments, which is enough for one slot to shift the
  next. Strings have 0–2 words, which includes the empty boundary. All four
  function shapes are checked. `worker_release` needs one argument of a
  free void function: every type that owns a buffer, in every direction.
* Stub session: two addresses, one of them the return slot, two classes,
  two values, three calls of two function shapes. Two addresses are enough
  for a method's target and its argument to be live at once, and for the
  return slot to be reused by an application object. Three calls are the
  fewest in which a file is written by one task, left alone by a second
  call and read by a third, which is the case `UpdatesChained` is about.
  The passing run has 1 012 520 distinct states and takes under two
  minutes. The violation runs use one or three other shapes, chosen for
  their question.
* File access: one name, the six mode strings and `"rb"`, `"wb"`, two
  calls.
* Operation table: schemas of up to three functions over three names that
  include a method (`A::f`), up to two slaves and one application argument.
  `optable_clash` uses `ClashingNames`, the smallest pair of names that
  `replace_char` maps to one enumerator. `optable_malformed` uses
  `PlainNames`, so that an unknown name is one the table really lacks.

### Fairness

No run states a liveness property, so no specification assumes fairness.
A non-void stub can block in `compss_wait_on` only if its task never runs,
which is the runtime's concern, or if its return file was never assigned.
The second case is the `mkstemp` failure that `registry_fd_leak` reports as
a safety violation.

Every run that may stop says `CHECK_DEADLOCK FALSE`. Such a run stops
because the program stops: after `compss_off`, after each thread's calls,
when `execute()` has returned, or after the application's last call.

## 3. Plan

In order of importance, with what is done marked:

1. **Registry core** (`ObjectRegistry`): done.
2. **Argument protocol** (`WorkerExecute`): done for decoding.
3. **Registry race** (`RegistryRace`): done.
4. **Stub session** (`StubSession`): done for a method's target, the
   return slot and in, out and inout object arguments.
5. **Abstract registry**: dropped. A refinement mapping that holds has to
   hide what the caller sees. A failed `mkstemp` reaches the caller as
   "found", and `GS_clean` keeps `objectMap`.
6. **Dispatch table** (`OperationTable`): done.
7. **File access API** (`FileAccess`): done.
8. **Worker frees** (`WorkerExecute`): done. The buffers each decoding
   block allocates and the free loop before `return 0`.
9. **Strings and scalars in `StubSession`**: passed by value or through a
   file, including the string case of the stub that passes `arg->dir` as the
   type and `arg->type` as the direction to `GS_register` (c-backend.c 499).

## 4. Not modelled

* Text emission (`generate_prolog`/`generate_epilogue`'s fixed text,
  `generate_prototype`, `generate_class_includes`, include guards) is left
  out. It is formatting, and no property depends on its wording.
* The barrier API only forwards to the external runtime and has no state
  of its own in this repository.
* The method-name buffer a stub `strdup`s is freed after `return
  return_object;` (c-backend.c 585–589), so it leaks on every non-void call.
  It has no effect on any value the program computes, and the model has no
  heap of C strings.
* Boost serialisation is represented only as "the file holds the value",
  or as the C type written and read (`StubArchiveType`). What Boost does
  with a pointer archive read as a value is not modelled: it is Boost's
  behaviour, not this code's.
* The external runtime's own scheduling and versioning of files is outside
  this repository. `StubSession` runs tasks in submission order, one at a
  time.
* The data race inside `std::map` when two threads insert at once is
  undefined behaviour below the level `RegistryRace` models. That model
  shows the logical race only.
* There is no abstract registry and no refinement. Spec §4.2 describes a
  registry in which a failure is reported as a failure and teardown clears
  the map. The code does neither: a failure returns the same 1 as "found",
  and `GS_clean` deletes only the files. A mapping under which the code
  would implement that specification has to invent those distinctions. The
  two divergences are reported directly by `registry_fd_leak`.
* The worker's `opName = strdup(argv[METHOD_NAME_POS])` (c-backend.c 175) is
  never freed either. It is one buffer per process, not per slot, and the
  prologue model (`OperationTable`) has no heap.
