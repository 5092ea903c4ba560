------------------------------- MODULE MCLocal -------------------------------
(* TLC instances of Local: see the .cfg files for the constants. *)
EXTENDS Local, TLC

Symmetry == Permutations(Handlers) \cup Permutations(Instances)

=============================================================================
