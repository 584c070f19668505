--------------------------- MODULE MC_RegistryRace ---------------------------
(* Model-checking instance of RegistryRace.                                *)
EXTENDS RegistryRace

\* Two threads pass the same object to generated stubs.
SameAddress == [t \in Threads |-> CHOOSE r \in Refs : TRUE]

=============================================================================
