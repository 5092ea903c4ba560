------------------------- MODULE InstanceData_proofs -------------------------
(***************************************************************************)
(* The safety properties of InstanceData, proved for any number of tasks,  *)
(* callers and exit codes.                                                 *)
(***************************************************************************)
EXTENDS InstanceData, TLAPS

(***************************************************************************)
(* The inductive invariant.  A caller in a method works on a task that was *)
(* constructed; it holds the lock of that task in exactly the steps that   *)
(* are under the lock; and what the state, the guest and the exit code are *)
(* then is known, because nobody else can have changed the state.          *)
(***************************************************************************)
CallerInv ==
  \A c \in Callers :
    /\ pc[c] # "idle" => on[c] \in Instances /\ state[on[c]] # "Unborn"
    /\ pc[c] # "done" => res[c] = "none"

LockInv ==
  \A c \in Callers, i \in Instances :
    lock[i] = c <=> on[c] = i /\ pc[c] \in Holding

HeldInv ==
  \A c \in Callers :
    /\ pc[c] \in Starting => state[on[c]] = "Starting"
    /\ pc[c] = "kill_run" => state[on[c]] = "Started"
    /\ pc[c] = "delete_run" => state[on[c]] = "Deleting"

StartInv ==
  \A c \in Callers :
    /\ pc[c] \in {"start_run", "start_failed"} => guest[on[c]] = "none"
    /\ pc[c] = "start_run" => exit_code[on[c]] = "none"

(* A running guest is under a task that neither exited nor is deleted,     *)
(* unless its watcher gave up on it.                                       *)
GuestInv ==
  \A i \in Instances :
    /\ ~WatcherFails /\ guest[i] = "running"
         => state[i] \in {"Starting", "Started"} /\ exit_code[i] = "none"
    /\ state[i] \in {"Unborn", "Created"} => guest[i] = "none" /\ exit_code[i] = "none"

WaitInv ==
  \A c \in Callers :
    /\ pc[c] = "wait_lock" => exit_code[on[c]] # "none"
    /\ pc[c] = "done" /\ res[c] \in Codes => state[on[c]] \in {"Exited", "Deleting"}

IInv ==
  /\ TypeOK
  /\ CallerInv
  /\ LockInv
  /\ HeldInv
  /\ StartInv
  /\ GuestInv
  /\ WaitInv

-----------------------------------------------------------------------------
LEMMA InitIInv == Init => IInv
BY InstanceAssumption, CallerAssumption, CodeAssumption
   DEF Init, IInv, TypeOK, CallerInv, LockInv, HeldInv, StartInv, GuestInv,
       WaitInv, TaskStates, Labels, Waiting, Holding, Starting

(* One step per action of Next; where an action needs more of IInv than    *)
(* the conjunct it preserves, that conjunct has a step of its own.         *)
LEMMA StepIInv == IInv /\ [Next]_vars => IInv'
<1> SUFFICES ASSUME IInv, [Next]_vars PROVE IInv'
  OBVIOUS
<1> USE InstanceAssumption, CallerAssumption, CodeAssumption
    DEF objects, Labels, Waiting, Starting, Holding, TaskStates
<1>1. ASSUME NEW i \in Instances, new(i) PROVE IInv'
  BY <1>1 DEF new, IInv, TypeOK, CallerInv, LockInv, HeldInv, StartInv,
     GuestInv, WaitInv
<1>2. ASSUME NEW i \in Instances, guest_exit(i) PROVE IInv'
  BY <1>2 DEF guest_exit, IInv, TypeOK, CallerInv, LockInv, HeldInv,
     StartInv, GuestInv, WaitInv
<1>3. ASSUME NEW i \in Instances, report_exit(i) PROVE IInv'
  BY <1>3 DEF report_exit, IInv, TypeOK, CallerInv, LockInv, HeldInv,
     StartInv, GuestInv, WaitInv
<1>4. ASSUME NEW i \in Instances, watch_fail(i) PROVE IInv'
  BY <1>4 DEF watch_fail, IInv, TypeOK, CallerInv, LockInv, HeldInv,
     StartInv, GuestInv, WaitInv
<1>5. ASSUME NEW c \in Callers, start_enter(c) PROVE IInv'
  <2>1. TypeOK' /\ CallerInv' /\ LockInv' /\ HeldInv' /\ GuestInv' /\ WaitInv'
    BY <1>5 DEF start_enter, Guarded, Acquire, Goto, Finish, start,
       IInv, TypeOK, CallerInv, LockInv, HeldInv, GuestInv, WaitInv
  \* A task that can be started has neither a guest nor an exit code yet.
  <2>2. StartInv'
    BY <1>5 DEF start_enter, Guarded, Acquire, Goto, Finish, start,
       IInv, TypeOK, CallerInv, StartInv, GuestInv
  <2> QED BY <2>1, <2>2 DEF IInv
<1>6. ASSUME NEW c \in Callers, kill_enter(c) PROVE IInv'
  BY <1>6 DEF kill_enter, Guarded, Acquire, Goto, Finish, kill, IInv,
     TypeOK, CallerInv, LockInv, HeldInv, StartInv, GuestInv, WaitInv
<1>7. ASSUME NEW c \in Callers, delete_enter(c) PROVE IInv'
  BY <1>7 DEF delete_enter, Guarded, Acquire, Goto, Finish, delete, IInv,
     TypeOK, CallerInv, LockInv, HeldInv, StartInv, GuestInv, WaitInv
<1>8. ASSUME NEW c \in Callers, wait_exited(c) PROVE IInv'
  <2>1. TypeOK' /\ CallerInv' /\ LockInv' /\ StartInv' /\ WaitInv'
    BY <1>8 DEF wait_exited, Finish, IInv, TypeOK, CallerInv, LockInv,
       StartInv, WaitInv
  \* The lock is free, so no caller is in a step under it.
  <2>2. HeldInv'
    BY <1>8 DEF wait_exited, Finish, IInv, TypeOK, LockInv, HeldInv
  \* The exit code is there, so the guest is not running.
  <2>3. GuestInv'
    BY <1>8 DEF wait_exited, Finish, IInv, TypeOK, GuestInv, WaitInv
  <2> QED BY <2>1, <2>2, <2>3 DEF IInv
<1>9. ASSUME NEW c \in Callers, start_run(c) PROVE IInv'
  <2>1. TypeOK' /\ CallerInv' /\ LockInv' /\ HeldInv' /\ WaitInv'
    BY <1>9 DEF start_run, Goto, IInv, TypeOK, CallerInv, LockInv,
       HeldInv, WaitInv
  <2>2. StartInv'    \* No other caller holds the lock of this task.
    BY <1>9 DEF start_run, Goto, IInv, TypeOK, LockInv, StartInv
  <2>3. GuestInv'    \* The task is Starting and has no exit code.
    BY <1>9 DEF start_run, Goto, IInv, TypeOK, HeldInv, StartInv,
       GuestInv
  <2> QED BY <2>1, <2>2, <2>3 DEF IInv
<1>10. ASSUME NEW c \in Callers, start_fail(c) PROVE IInv'
  <2>1. TypeOK' /\ CallerInv' /\ LockInv' /\ HeldInv' /\ WaitInv'
    BY <1>10 DEF start_fail, Goto, IInv, TypeOK, CallerInv, LockInv,
       HeldInv, WaitInv
  <2>2. StartInv'    \* No other caller holds the lock of this task.
    BY <1>10 DEF start_fail, Goto, IInv, TypeOK, LockInv, StartInv
  <2>3. GuestInv'    \* The task is Starting and has no guest.
    BY <1>10 DEF start_fail, Goto, IInv, TypeOK, HeldInv, StartInv,
       GuestInv
  <2> QED BY <2>1, <2>2, <2>3 DEF IInv
<1>11. ASSUME NEW c \in Callers, start_set_pid(c) PROVE IInv'
  BY <1>11 DEF start_set_pid, Goto, IInv, TypeOK, CallerInv, LockInv,
     HeldInv, StartInv, GuestInv, WaitInv
<1>12. ASSUME NEW c \in Callers, start_return(c) PROVE IInv'
  <2>1. TypeOK' /\ CallerInv' /\ LockInv' /\ StartInv' /\ WaitInv'
    BY <1>12 DEF start_return, Finish, Release, Ignoring, started, stop,
       IInv, TypeOK, CallerInv, LockInv, StartInv, WaitInv
  <2>2. HeldInv'    \* No other caller holds the lock of this task.
    BY <1>12 DEF start_return, Finish, Release, Ignoring, started, stop,
       IInv, TypeOK, CallerInv, LockInv, HeldInv
  <2>3. GuestInv'    \* A start that failed has left no guest.
    BY <1>12 DEF start_return, Finish, Release, Ignoring, started, stop,
       IInv, TypeOK, StartInv, GuestInv
  <2> QED BY <2>1, <2>2, <2>3 DEF IInv
<1>13. ASSUME NEW c \in Callers, kill_return(c) PROVE IInv'
  BY <1>13 DEF kill_return, Finish, Release, IInv, TypeOK, CallerInv,
     LockInv, HeldInv, StartInv, GuestInv, WaitInv
<1>14. ASSUME NEW c \in Callers, delete_return(c) PROVE IInv'
  <2>1. TypeOK' /\ CallerInv' /\ LockInv' /\ StartInv' /\ WaitInv'
    BY <1>14 DEF delete_return, Finish, Release, Ignoring, stop, IInv,
       TypeOK, CallerInv, LockInv, StartInv, WaitInv
  <2>2. HeldInv'    \* No other caller holds the lock of this task.
    BY <1>14 DEF delete_return, Finish, Release, Ignoring, stop, IInv,
       TypeOK, CallerInv, LockInv, HeldInv
  \* The task is Deleting, so its guest is not running.
  <2>3. GuestInv'
    BY <1>14 DEF delete_return, Finish, Release, Ignoring, stop, IInv,
       TypeOK, HeldInv, GuestInv
  <2> QED BY <2>1, <2>2, <2>3 DEF IInv
<1>15. ASSUME NEW c \in Callers, wait_code(c) PROVE IInv'
  BY <1>15 DEF wait_code, Goto, IInv, TypeOK, CallerInv, LockInv, HeldInv,
     StartInv, GuestInv, WaitInv
<1>16. ASSUME NEW c \in Callers, Return(c) PROVE IInv'
  BY <1>16 DEF Return, IInv, TypeOK, CallerInv, LockInv, HeldInv,
     StartInv, GuestInv, WaitInv
<1>17. ASSUME NEW c \in Callers, NEW i \in Instances, now_or_never(c, i)
      PROVE  IInv'
  <2>1. TypeOK' /\ CallerInv' /\ LockInv' /\ StartInv' /\ GuestInv' /\ WaitInv'
    BY <1>17 DEF now_or_never, IInv, TypeOK, CallerInv, LockInv,
       StartInv, GuestInv, WaitInv
  <2>2. HeldInv'    \* The state changes only when the lock is free.
    BY <1>17 DEF now_or_never, IInv, TypeOK, CallerInv, LockInv, HeldInv
  <2> QED BY <2>1, <2>2 DEF IInv
<1>18. ASSUME NEW c \in Callers, NEW i \in Instances, NEW m \in Methods, Invoke(c, i, m)
      PROVE  IInv'
  BY <1>18 DEF Invoke, Methods, IInv, TypeOK, CallerInv, LockInv, HeldInv,
     StartInv, GuestInv, WaitInv
<1>19. CASE UNCHANGED vars
  BY <1>19 DEF vars, IInv, TypeOK, CallerInv, LockInv, HeldInv, StartInv,
     GuestInv, WaitInv
<1> QED
  BY <1>1, <1>2, <1>3, <1>4, <1>5, <1>6, <1>7, <1>8, <1>9, <1>10, <1>11,
     <1>12, <1>13, <1>14, <1>15, <1>16, <1>17, <1>18, <1>19 DEF Next,
     Enter, Step

-----------------------------------------------------------------------------
(* IInv holds throughout every behaviour of InstanceData. *)
THEOREM Invariance == Spec => []IInv
<1>1. Init => IInv
  BY InitIInv
<1>2. IInv /\ [Next]_vars => IInv'
  BY StepIInv
<1> QED BY <1>1, <1>2, PTL DEF Spec

(* The variables of InstanceData (instance_data.rs:8-12) keep their types. *)
THEOREM TypeCorrect == Spec => []TypeOK
<1>1. IInv => TypeOK
  BY DEF IInv
<1> QED BY <1>1, Invariance, PTL

(***************************************************************************)
(* The results that start and delete discard (instance_data.rs:44-50, 72)  *)
(* are always Ok, for any number of concurrent callers.                    *)
(***************************************************************************)
THEOREM DiscardedResultsAreOk == Spec => []LockedTransitionsSucceed
<1>1. IInv => LockedTransitionsSucceed
  BY DEF IInv, HeldInv, LockedTransitionsSucceed, Starting, started, stop
<1> QED BY <1>1, Invariance, PTL

(* The engine's delete() never meets a running guest (instance_data.rs:68), *)
(* as long as no watcher fails.                                            *)
THEOREM NoDeleteOfRunningGuest == ~WatcherFails => (Spec => []DeleteOnlyWhenStopped)
<1> SUFFICES ASSUME ~WatcherFails PROVE Spec => []DeleteOnlyWhenStopped
  OBVIOUS
<1>1. IInv => DeleteOnlyWhenStopped
  BY DEF IInv, CallerInv, HeldInv, GuestInv, DeleteOnlyWhenStopped
<1> QED BY <1>1, Invariance, PTL

(* A wait that returns a code leaves a deletable task (instance_data.rs:82). *)
THEOREM WaitMarksTheTask == Spec => []WaitLeavesExited
<1>1. IInv => WaitLeavesExited
  BY DEF IInv, WaitInv, WaitLeavesExited
<1> QED BY <1>1, Invariance, PTL

(***************************************************************************)
(* A task that was Exited or Deleting stays so: the only assignments that  *)
(* could revive it are made by a start() that holds the lock of a Starting *)
(* task (task_state.rs:15-59).                                             *)
(***************************************************************************)
THEOREM ExitIsFinal == Spec => NoResurrection
<1> DEFINE Over == {"Exited", "Deleting"}
<1>1. ASSUME IInv, [Next]_vars, NEW i \in Instances, state[i] \in Over
      PROVE  state'[i] \in Over
  <2> USE DEF IInv, TypeOK, objects
  <2>1. ASSUME NEW j \in Instances, new(j) \/ guest_exit(j) \/ report_exit(j) \/ watch_fail(j)
        PROVE  state'[i] \in Over
    BY <1>1, <2>1 DEF new, guest_exit, report_exit, watch_fail
  <2>2. ASSUME NEW c \in Callers, Enter(c) PROVE state'[i] \in Over
    BY <1>1, <2>2 DEF Enter, start_enter, kill_enter, delete_enter, wait_exited,
       Guarded, start, kill, delete
  <2>3. ASSUME NEW c \in Callers, Step(c) PROVE state'[i] \in Over
    BY <1>1, <2>3 DEF Step, start_run, start_fail, start_set_pid, start_return,
       kill_return, delete_return, wait_code, Ignoring, started, stop
  <2>4. ASSUME NEW c \in Callers, NEW j \in Instances,
               Return(c) \/ now_or_never(c, j) \/ \E m \in Methods : Invoke(c, j, m)
        PROVE  state'[i] \in Over
    BY <1>1, <2>4 DEF Return, now_or_never, Invoke
  <2>5. CASE UNCHANGED vars
    BY <1>1, <2>5 DEF vars
  <2> QED BY <1>1, <2>1, <2>2, <2>3, <2>4, <2>5 DEF Next
<1>2. IInv /\ [Next]_vars
        => [\A i \in Instances : state[i] \in {"Exited", "Deleting"}
              => state'[i] \in {"Exited", "Deleting"}]_vars
  BY <1>1
<1> QED BY <1>2, Invariance, PTL DEF Spec, NoResurrection

=============================================================================
