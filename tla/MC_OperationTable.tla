-------------------------- MODULE MC_OperationTable --------------------------
(* Model-checking instance of OperationTable.                              *)
EXTENDS OperationTable

\* A free function f, a free function Af and the method A::f.
PlainNames == {<<"f">>, <<"A", "f">>, <<"A", ":", ":", "f">>}

\* The method A::f and a free function named A__f.
ClashingNames == {<<"A", ":", ":", "f">>, <<"A", "_", "_", "f">>}
=============================================================================
