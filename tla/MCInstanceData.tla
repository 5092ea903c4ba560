--------------------------- MODULE MCInstanceData ---------------------------
(***************************************************************************)
(* TLC instances of InstanceData.  The .cfg file has the constants of the  *)
(* first one, in which three callers share a task.  The second has         *)
(* variables of its own; there two callers use two tasks, watchers fail    *)
(* and scheduling is fair.  A behaviour is of one of the two.              *)
(***************************************************************************)
EXTENDS InstanceData

CONSTANTS i1, i2, c1, c2

VARIABLES
  fair,   \* whether the behaviour is of the second instance
  f_state, f_lock, f_pid, f_guest, f_exit_code, f_pc, f_on, f_res

f_vars == <<f_state, f_lock, f_pid, f_guest, f_exit_code, f_pc, f_on, f_res>>
all == <<fair, vars, f_vars>>

Fair ==
  INSTANCE InstanceData WITH
    Instances <- {i1, i2}, Callers <- {c1, c2}, WatcherFails <- TRUE,
    state <- f_state, lock <- f_lock, pid <- f_pid, guest <- f_guest,
    exit_code <- f_exit_code, pc <- f_pc, on <- f_on, res <- f_res

BothInit == fair \in BOOLEAN /\ Init /\ Fair!Init

BothNext ==
  /\ UNCHANGED fair
  /\ \/ ~fair /\ Next /\ UNCHANGED f_vars
     \/ fair /\ Fair!Next /\ UNCHANGED vars

(* The fairness of InstanceData, for the second instance. *)
step(c) == fair /\ Fair!Step(c) /\ UNCHANGED <<fair, vars>>
enter(c) == fair /\ Fair!Enter(c) /\ UNCHANGED <<fair, vars>>
report(i) == fair /\ Fair!report_exit(i) /\ UNCHANGED <<fair, vars>>

BothSpec ==
  /\ BothInit /\ [][BothNext]_all
  /\ \A c \in {c1, c2} : WF_all(step(c)) /\ SF_all(enter(c))
  /\ \A i \in {i1, i2} : WF_all(report(i))

(***************************************************************************)
(* CallsReturn of InstanceData under fair scheduling, also when watchers   *)
(* fail: calls return, and no wait hangs on a failed start                 *)
(* (instance_data.rs:36-84).                                               *)
(***************************************************************************)
FairCallsReturn == Fair!CallsReturn

=============================================================================
