--------------------------- MODULE MC_StubSession ---------------------------
(* Model-checking instance of StubSession.                                 *)
EXTENDS StubSession

Fn(t, r, g, d) == [this |-> t, ret |-> r, arg |-> g, dir |-> d]

\* Every slot the marshalling distinguishes: a free function returning an
\* object from an in object, and a void method of class A taking an inout
\* object of class B.
AllShapes == {Fn("none", "A", "B", "in"), Fn("A", "void", "B", "inout")}

\* A void function taking an in object of class A, and two functions
\* without arguments returning objects of different classes.
ReusedAddresses == {Fn("none", "void", "A", "in"), Fn("none", "A", "none", "in"),
                    Fn("none", "B", "none", "in")}

\* A method of class A returning an object of class B.
ValueMethod == {Fn("A", "B", "none", "in")}

=============================================================================
