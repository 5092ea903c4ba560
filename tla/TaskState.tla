------------------------------ MODULE TaskState ------------------------------
(***************************************************************************)
(* The task life cycle of containerd-shimkit                               *)
(* (sandbox/shim/task_state.rs).  Each method of the Rust enum is a        *)
(* function from the states it accepts to the state it assigns; every      *)
(* other state is answered with FailedPrecondition and left alone.         *)
(***************************************************************************)

TaskStates == {"Created", "Starting", "Started", "Exited", "Deleting"}

(* A task that was started once can be started again. *)
Mut_start == [s \in {"Created", "Exited"} |-> "Starting"]

start == [s \in {"Created"} |-> "Starting"]

kill == [s \in {"Started"} |-> "Started"]

(* A running task can be deleted. *)
Mut_delete == [s \in {"Created", "Started", "Exited"} |-> "Deleting"]

delete == [s \in {"Created", "Exited"} |-> "Deleting"]

started == [s \in {"Starting"} |-> "Started"]

stop == [s \in {"Started", "Starting", "Deleting"} |-> "Exited"]

(***************************************************************************)
(* A transition whose Result is discarded (`let _ = s.stop()`): the state  *)
(* is left alone when the transition refuses it.                           *)
(***************************************************************************)
Ignoring(transition, s) ==
  IF s \in DOMAIN transition THEN transition[s] ELSE s

=============================================================================
