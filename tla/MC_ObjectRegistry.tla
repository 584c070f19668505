-------------------------- MODULE MC_ObjectRegistry --------------------------
(* Model-checking instance of ObjectRegistry: addresses and file names are *)
(* model values declared in the .cfg files.                                *)
EXTENDS ObjectRegistry, TLC

=============================================================================
