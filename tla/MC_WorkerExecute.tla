-------------------------- MODULE MC_WorkerExecute --------------------------
(* Model-checking instance of WorkerExecute; the schema bounds are in the  *)
(* .cfg files.                                                             *)
EXTENDS WorkerExecute

\* Every shape: free function or method, void or not.
AllTargets == [method : BOOLEAN, ret : BOOLEAN]

\* Free void functions only.
FreeVoid == {[method |-> FALSE, ret |-> FALSE]}

\* Non-static methods returning void.
VoidMethod == {[method |-> TRUE, ret |-> FALSE]}
=============================================================================
