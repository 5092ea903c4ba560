------------------------------- MODULE MCPidFd -------------------------------
(***************************************************************************)
(* TLC instances of PidFd.  The .cfg file has the constants of the first   *)
(* one, in which three guests fill each other's subscriptions and nothing  *)
(* fails.  The second has variables of its own; there the reaper may be    *)
(* late and system calls fail.  A behaviour is of one of the two.          *)
(***************************************************************************)
EXTENDS PidFd, TLC

CONSTANTS g1, g2

VARIABLES
  late,   \* whether the behaviour is of the second instance
  l_proc, l_died, l_released, l_subs, l_listening, l_reaper, l_ready, l_pc, l_exit_code

l_vars ==
  <<l_proc, l_died, l_released, l_subs, l_listening, l_reaper, l_ready, l_pc, l_exit_code>>
all == <<late, vars, l_vars>>

(* An exit status, and the signal of a termination. *)
ThreeOrTerm == {[how |-> "exited", n |-> 3], [how |-> "signaled", n |-> 15]}

Late ==
  INSTANCE PidFd WITH
    Guests <- {g1, g2}, ReaperLags <- TRUE, CallsFail <- TRUE,
    proc <- l_proc, died <- l_died, released <- l_released, subs <- l_subs,
    listening <- l_listening, reaper <- l_reaper, ready <- l_ready, pc <- l_pc,
    exit_code <- l_exit_code

BothInit == late \in BOOLEAN /\ Init /\ Late!Init

BothNext ==
  /\ UNCHANGED late
  /\ \/ ~late /\ Next /\ UNCHANGED l_vars
     \/ late /\ Late!Next /\ UNCHANGED vars

(* The fairness of PidFd, for the second instance. *)
reaper_runs == late /\ Late!reaper_notify /\ UNCHANGED <<late, vars>>
watcher_runs(g) == late /\ Late!watcher(g) /\ UNCHANGED <<late, vars>>

BothSpec ==
  /\ BothInit /\ [][BothNext]_all
  /\ WF_all(reaper_runs)
  /\ \A g \in {g1, g2} : WF_all(watcher_runs(g))

(***************************************************************************)
(* DeathReported of PidFd when the reaper is late and calls fail: the end  *)
(* of a guest whose start has begun is reported (pid_fd.rs:30-58).         *)
(***************************************************************************)
LateDeathReported == Late!DeathReported

=============================================================================
