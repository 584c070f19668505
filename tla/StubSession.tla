---------------------------- MODULE StubSession ----------------------------
(***************************************************************************)
(* An application thread calling generated stubs, composed with the        *)
(* object registry (ObjectRegistry) and the runtime that executes the      *)
(* submitted tasks through the generated execute().  The stubs are those   *)
(* generate_parameter_marshalling and generate_execute_call emit for a     *)
(* free function or a non-static method, with an optional object return   *)
(* and an optional object argument passed in, out or inout:                 *)
(*   - a method's target: registered by its address (inout) and, when new, *)
(*     its current value is written;                                       *)
(*   - the return slot: a stack-local return_object is registered by its   *)
(*     address (null_dir) and, when new, its default value is written;     *)
(*   - the argument: registered by its address with its direction and     *)
(*     written when new;                                                   *)
(*   - GS_ExecuteTask submits the task; for a non-void function the stub   *)
(*     blocks in compss_wait_on(return_object) and returns it.             *)
(* The worker deserialises the target's, the return and the argument's     *)
(* files into objects of the declared classes, calls the implementation    *)
(* and writes the target, return_object and an out or inout argument back  *)
(* to their files.                                                         *)
(*                                                                         *)
(* Data: an object is a class and a value; a file holds a serialised       *)
(* object or nothing.  Addresses are Refs; RetAddr is the stack slot the   *)
(* stub's return_object occupies, which the application's own locals also *)
(* occupy when no stub frame is there.  Registration failures are the      *)
(* subject of ObjectRegistry and are excluded by FdLimit >= |Refs|.       *)
(***************************************************************************)
EXTENDS Naturals, Sequences

CONSTANTS
    Refs, TmpNames, UserFiles, NULL, NoType, Uninit, FdLimit, IOFailure,
    MaxSessions,
    RetAddr,     \* address of the stub's stack-local return_object
    Classes,     \* application classes
    Vals,        \* object values
    Dflt,        \* value of a default-constructed object
    Funcs,       \* schema functions: [this, ret, arg, dir]; this is the owning
                 \* class of a non-static method or "none", dir the argument's
    MaxCalls     \* stub calls the application makes

ASSUME /\ RetAddr \in Refs /\ MaxCalls \in Nat
       /\ Funcs \subseteq [this : Classes \cup {"none"}, ret : Classes \cup {"void"},
                          arg : Classes \cup {"none"}, dir : {"in", "out", "inout"}]

VARIABLES
    objectMap, disk, openFds, on, sessions, ret,   \* the registry's state
    heap,        \* heap[a]: the object living at address a, or Free
    fileVal,     \* fileVal[n]: what file n holds
    stub,        \* the stub the application thread is in
    tasks,       \* submitted tasks the runtime has not executed yet
    log,         \* log[k]: what the worker saw and produced for call k
    returned,    \* returned[k]: what stub call k returned to the application
    calls        \* stub calls made

Reg == INSTANCE ObjectRegistry

regVars == <<objectMap, disk, openFds, on, sessions, ret>>
appVars == <<heap, fileVal, stub, tasks, log, returned, calls>>
vars == <<regVars, appVars>>

Obj(c, v) == [cls |-> c, val |-> v]

\* An address nothing lives at, and a file nothing was written to.
Free == Obj("free", Dflt)
Empty == Obj("empty", Dflt)

Idle == [pc |-> "idle", f |-> [this |-> "none", ret |-> "void", arg |-> "none", dir |-> "in"],
         o |-> NULL, a |-> NULL, snap |-> Empty,
         thisFile |-> NULL, retFile |-> NULL, argFile |-> NULL, id |-> 0]

\* The object at address x is usable as an object of class c.
Holds(x, c) == x \in Refs /\ heap[x] # Free /\ heap[x].cls = c

\* The step after the return slot: the argument loop, which a function
\* without arguments leaves at once for the submission.
AfterReturn(f) == IF f.arg = "none" THEN "submit" ELSE "regArg"

\* The step after the target: the return slot of a non-void function.
AfterThis(f) == IF f.ret = "void" THEN AfterReturn(f) ELSE "regRet"

Init ==
    /\ Reg!Init
    /\ heap = [a \in Refs |-> Free]
    /\ fileVal = [n \in TmpNames \cup UserFiles |-> Empty]
    /\ stub = Idle
    /\ tasks = <<>>
    /\ log = <<>>
    /\ returned = [k \in 1..MaxCalls |-> Empty]
    /\ calls = 0

-----------------------------------------------------------------------------
(* The application, outside any stub. *)

\* compss_on before the first task.
AppCompssOn ==
    /\ Reg!CompssOn
    /\ UNCHANGED appVars

\* A local or heap object of class c comes to live at a free address.
AppAlloc(a, c, v) ==
    /\ stub.pc = "idle" /\ heap[a] = Free
    /\ heap' = [heap EXCEPT ![a] = Obj(c, v)]
    /\ UNCHANGED <<regVars, fileVal, stub, tasks, log, returned, calls>>

\* The application assigns to an object it owns.
AppMutate(a, v) ==
    /\ stub.pc = "idle" /\ heap[a] # Free
    /\ heap' = [heap EXCEPT ![a].val = v]
    /\ UNCHANGED <<regVars, fileVal, stub, tasks, log, returned, calls>>

\* The object's scope ends or it is deleted; its address can be reused.
AppFree(a) ==
    /\ stub.pc = "idle" /\ heap[a] # Free
    /\ heap' = [heap EXCEPT ![a] = Free]
    /\ UNCHANGED <<regVars, fileVal, stub, tasks, log, returned, calls>>

-----------------------------------------------------------------------------
(* The generated stub. *)

\* Entering the stub of f on the target at address o with its argument at
\* address a; a non-void stub default-constructs return_object in its
\* frame at RetAddr.
Call(f, o, a) ==
    /\ stub.pc = "idle" /\ on /\ calls < MaxCalls
    /\ IF f.this = "none" THEN o = NULL ELSE Holds(o, f.this)
    /\ IF f.arg = "none" THEN a = NULL ELSE Holds(a, f.arg)
    /\ IF f.ret = "void" THEN heap' = heap
       ELSE heap[RetAddr] = Free /\ heap' = [heap EXCEPT ![RetAddr] = Obj(f.ret, Dflt)]
    /\ calls' = calls + 1
    /\ stub' = [Idle EXCEPT !.pc = IF f.this # "none" THEN "regThis" ELSE AfterThis(f),
                            !.f = f, !.o = o, !.a = a, !.id = calls + 1,
                            !.snap = IF a = NULL THEN Empty ELSE heap[a]]
    /\ UNCHANGED <<regVars, fileVal, tasks, log, returned>>

\* A stub generated without the 'if (!found)' guard, used to confirm that
\* UpdatesChained detects it: the object is serialised every time.
MutantRegisterAlwaysWrites(addr, dir) ==
    /\ \/ Reg!RegisterFound(addr, [type |-> "object", dir |-> dir])
       \/ Reg!RegisterTemp(addr, [type |-> "object", dir |-> dir])
    /\ fileVal' = IF ret'.filename \in DOMAIN fileVal
                  THEN [fileVal EXCEPT ![ret'.filename] = heap[addr]] ELSE fileVal

\* found = GS_register(addr, object_dt, dir, ...); if (!found) the object is
\* serialised into the file.
Register(addr, dir) ==
    /\ \/ Reg!RegisterFound(addr, [type |-> "object", dir |-> dir])
       \/ Reg!RegisterTemp(addr, [type |-> "object", dir |-> dir])
    /\ fileVal' = IF ret'.result = 0 THEN [fileVal EXCEPT ![ret'.filename] = heap[addr]]
                  ELSE fileVal

\* A method's target: this with inout_dir.
RegisterThis ==
    /\ stub.pc = "regThis"
    /\ Register(stub.o, "inout")
    /\ stub' = [stub EXCEPT !.pc = AfterThis(stub.f), !.thisFile = ret'.filename]
    /\ UNCHANGED <<heap, tasks, log, returned, calls>>

\* The return slot: &return_object with null_dir.
RegisterReturn ==
    /\ stub.pc = "regRet"
    /\ Register(RetAddr, "null")
    /\ stub' = [stub EXCEPT !.pc = AfterReturn(stub.f), !.retFile = ret'.filename]
    /\ UNCHANGED <<heap, tasks, log, returned, calls>>

\* An out or inout object argument: registered with its direction, *arg
\* written when new, submitted as a file with inout_dir.
RegisterArgOut ==
    /\ stub.pc = "regArg" /\ stub.f.arg # "none" /\ stub.f.dir # "in"
    /\ Register(stub.a, stub.f.dir)
    /\ stub' = [stub EXCEPT !.pc = "submit", !.argFile = ret'.filename]
    /\ UNCHANGED <<heap, tasks, log, returned, calls>>

\* An in object argument: registered with in_dir, written when new.
RegisterArgIn ==
    /\ stub.pc = "regArg" /\ stub.f.arg # "none" /\ stub.f.dir = "in"
    /\ Register(stub.a, "in")
    /\ stub' = [stub EXCEPT !.pc = "submit", !.argFile = ret'.filename]
    /\ UNCHANGED <<heap, tasks, log, returned, calls>>

\* GS_ExecuteTask(...); a void stub returns, any other one waits.
Submit ==
    /\ stub.pc = "submit"
    /\ tasks' = Append(tasks, stub)
    /\ stub' = IF stub.f.ret = "void" THEN Idle ELSE [stub EXCEPT !.pc = "wait"]
    /\ UNCHANGED <<regVars, heap, fileVal, log, returned, calls>>

\* A stub generated without the implicit synchronisation, used to confirm
\* that ReturnValueDelivered detects it: return_object is read back at once.
MutantWaitOnNoSync ==
    /\ stub.pc = "wait"
    /\ returned' = [returned EXCEPT ![stub.id] = fileVal[stub.retFile]]
    /\ heap' = [heap EXCEPT ![RetAddr] = Free]
    /\ stub' = Idle
    /\ UNCHANGED <<regVars, fileVal, tasks, log, calls>>

\* compss_wait_on(return_object) once the task has run: the return file is
\* read back into return_object, which is returned; the frame is popped.
WaitOn ==
    /\ stub.pc = "wait"
    /\ stub.id \in DOMAIN log
    /\ returned' = [returned EXCEPT ![stub.id] = fileVal[stub.retFile]]
    /\ heap' = [heap EXCEPT ![RetAddr] = Free]
    /\ stub' = Idle
    /\ UNCHANGED <<regVars, fileVal, tasks, log, calls>>

-----------------------------------------------------------------------------
(* The runtime runs the oldest submitted task through the function's case *)
(* of execute().                                                            *)

\* What a slot's file holds; a slot the function lacks reads nothing.
FileOrEmpty(n) == IF n = NULL THEN Empty ELSE fileVal[n]

\* this_C.m(...) for a method, return_object = f(...) for a free function:
\* a method's result is not assigned, return_object keeps what was read.
ReturnObjectAfterCall(t, retRead, result) ==
    IF t.f.this # "none" THEN retRead ELSE result

\* The slots a task writes back: the target, return_object, then an out or
\* inout argument; a later write to the same file wins.
WrittenSlots(t) ==
    {s \in {"this", "ret", "arg"} :
        CASE s = "this" -> t.f.this # "none"
          [] s = "ret" -> t.f.ret # "void"
          [] s = "arg" -> t.f.arg # "none" /\ t.f.dir # "in"}

SlotFile(t, s) == CASE s = "this" -> t.thisFile [] s = "ret" -> t.retFile [] s = "arg" -> t.argFile

\* What the write-back leaves in file n, given the values out of the call.
LastWrite(t, out, n) ==
    LET w == {s \in WrittenSlots(t) : SlotFile(t, s) = n} IN
    CASE "arg" \in w -> out.arg [] "ret" \in w -> out.ret [] OTHER -> out.this

WriteBack(t, out) ==
    [n \in DOMAIN fileVal |->
        IF \E s \in WrittenSlots(t) : SlotFile(t, s) = n THEN LastWrite(t, out, n) ELSE fileVal[n]]

\* The case deserialises the target, return_object and the argument from
\* their files, calls the implementation, which may change the target (to
\* w) and an out or inout argument (to u) and returns v, and writes back.
Execute ==
    /\ tasks # <<>>
    /\ LET t == Head(tasks)
           rd == [this |-> FileOrEmpty(t.thisFile), ret |-> FileOrEmpty(t.retFile),
                  arg |-> FileOrEmpty(t.argFile)]
           \* a void function returns nothing, a free function has no target
           Results == IF t.f.ret = "void" THEN {Dflt} ELSE Vals
           Targets == IF t.f.this = "none" THEN {Dflt} ELSE Vals
           Updates == IF "arg" \in WrittenSlots(t) THEN Vals ELSE {Dflt}
       IN \E v \in Results, w \in Targets, u \in Updates :
            /\ LET out == [this |-> Obj(t.f.this, w),
                           ret |-> ReturnObjectAfterCall(t, rd.ret, Obj(t.f.ret, v)),
                           arg |-> Obj(t.f.arg, u)]
               IN /\ log' = Append(log, [read |-> rd, task |-> t,
                                         result |-> Obj(t.f.ret, v), out |-> out])
                  /\ fileVal' = WriteBack(t, out)
    /\ tasks' = Tail(tasks)
    /\ UNCHANGED <<regVars, heap, stub, returned, calls>>

StubStep == RegisterThis \/ RegisterReturn \/ RegisterArgOut \/ RegisterArgIn \/ Submit \/ WaitOn

Next ==
    \/ AppCompssOn
    \/ \E a \in Refs, c \in Classes, v \in Vals : AppAlloc(a, c, v)
    \/ \E a \in Refs, v \in Vals : AppMutate(a, v)
    \/ \E a \in Refs : AppFree(a)
    \/ \E f \in Funcs, o, a \in Refs \cup {NULL} : Call(f, o, a)
    \/ StubStep
    \/ Execute

Spec == Init /\ [][Next]_vars

-----------------------------------------------------------------------------
(***************************************************************************)
(* The value a non-void stub returns from compss_wait_on is the value the  *)
(* implementation computed in that call's task, never the default object   *)
(* the stub wrote or an earlier call's result left in the same file.       *)
(***************************************************************************)
ReturnValueDelivered ==
    \A k \in 1..MaxCalls :
        returned[k] # Empty => k \in DOMAIN log /\ returned[k] = log[k].result

(***************************************************************************)
(* The inputs the worker deserialises are the caller's: an in object       *)
(* argument is the object the application passed, as it was at the call   *)
(* (spec 4.2: a found entry means a current value is already in the file), *)
(* and the return file holds an object of the function's return class.    *)
(***************************************************************************)
WorkerReadsCallerInputs ==
    \A k \in DOMAIN log :
        /\ (log[k].task.f.arg # "none" /\ log[k].task.f.dir = "in")
              => log[k].read.arg = log[k].task.snap
        /\ log[k].task.f.ret # "void" => log[k].read.ret.cls = log[k].task.f.ret

\* Task k wrote file n.
WroteTo(k, n) == \E s \in WrittenSlots(log[k].task) : SlotFile(log[k].task, s) = n

(***************************************************************************)
(* Every file a task deserialises holds what the last earlier task wrote   *)
(* to it: the runtime runs tasks in order, and the stub's 'if (!found)'    *)
(* never lets the application's local copy, which nothing refreshes after  *)
(* a task, overwrite a task's update of a target, an out or inout argument *)
(* or a return file (spec 4.2: skipping the write is right because the     *)
(* value on disk is current).                                              *)
(***************************************************************************)
UpdatesChained ==
    \A k \in DOMAIN log, s \in {"this", "ret", "arg"} :
        LET n == SlotFile(log[k].task, s) IN
        \A j \in 1..(k - 1) :
            (n # NULL /\ WroteTo(j, n) /\ \A i \in (j + 1)..(k - 1) : ~WroteTo(i, n))
                => log[k].read[s] = LastWrite(log[j].task, log[j].out, n)

=============================================================================
