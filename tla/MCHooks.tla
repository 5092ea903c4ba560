------------------------------ MODULE MCHooks ------------------------------
(* TLC instances of Hooks: see the .cfg files for the constants. *)
EXTENDS Hooks

=============================================================================
