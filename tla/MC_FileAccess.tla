---------------------------- MODULE MC_FileAccess ----------------------------
(* Model-checking instance of FileAccess.                                  *)
EXTENDS FileAccess

\* The six modes compss_fopen recognises, and the binary modes C also
\* accepts for the same accesses.
CModes == {<<"r">>, <<"w">>, <<"a">>, <<"r", "+">>, <<"w", "+">>, <<"a", "+">>,
           <<"r", "b">>, <<"w", "b">>}
=============================================================================
