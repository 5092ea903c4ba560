--------------------------- MODULE MCWaitableCell ---------------------------
(* TLC instances of WaitableCell: see the .cfg files for the constants. *)
EXTENDS WaitableCell, TLC

(* The watcher of a guest: the exit status, then the guard's value. *)
WatcherProgram == [s \in Setters |-> <<"status", "137">>]

=============================================================================
