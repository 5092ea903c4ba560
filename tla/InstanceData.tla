---------------------------- MODULE InstanceData ----------------------------
(***************************************************************************)
(* InstanceData (sandbox/shim/instance_data.rs) of containerd-shimkit: one *)
(* object per task, shared by all the request threads through an Arc.  It  *)
(* serialises start, kill and delete with a tokio RwLock around the        *)
(* TaskState, which is held ACROSS the await of the engine's call; wait    *)
(* awaits the exit code without the lock and takes it afterwards.          *)
(*                                                                         *)
(* The engine's side of an instance (the `Instance` trait, implemented by  *)
(* containerd-shim-wasm's sys/unix/container/instance.rs) is reduced to    *)
(* what InstanceData sees of it: a guest process that runs and dies, and   *)
(* the exit code cell that its watcher sets.                               *)
(*                                                                         *)
(* A caller is a thread or a spawned task that executes one method at a    *)
(* time.  pc[c] is where it is, on[c] the object it works on, res[c] what  *)
(* the method returned.                                                    *)
(***************************************************************************)
EXTENDS TaskState

CONSTANTS
  Instances,    \* the InstanceData objects that may ever be constructed
  Callers,      \* the threads and tasks that call their methods
  Codes,        \* exit codes
  GuardCode,    \* the code left by the exit code guard (137)
  WatcherFails, \* whether the system calls of the watcher may fail
  NoInstance, NoCaller

ASSUME InstanceAssumption == NoInstance \notin Instances
ASSUME CallerAssumption == NoCaller \notin Callers
ASSUME CodeAssumption ==
  /\ GuardCode \in Codes
  /\ {"none", "ok", "err"} \cap Codes = {}
ASSUME WatcherAssumption == WatcherFails \in BOOLEAN

VARIABLES
  state,      \* state[i]: the TaskState behind the RwLock
  lock,       \* lock[i]: the caller that holds the write lock of state[i]
  pid,        \* pid[i]: whether the pid OnceCell is set
  guest,      \* guest[i]: the guest process of the instance
  exit_code,  \* exit_code[i]: the WaitableCell with the exit code
  pc, on, res

objects == <<state, lock, pid, guest, exit_code>>
vars == <<state, lock, pid, guest, exit_code, pc, on, res>>

(* What a caller waiting to acquire the lock, or holding it, is doing. *)
Waiting == {"start", "kill", "delete", "wait_lock"}
Starting == {"start_run", "start_up", "start_pid", "start_failed"}
Holding == Starting \cup {"kill_run", "delete_run"}
Labels == {"idle", "wait", "done"} \cup Waiting \cup Holding

(* One type invariant for the module. *)
TypeOK ==
  /\ state \in [Instances -> TaskStates \cup {"Unborn"}]
  /\ lock \in [Instances -> Callers \cup {NoCaller}]
  /\ pid \in [Instances -> BOOLEAN]
  /\ guest \in [Instances -> {"none", "running", "dead"}]
  /\ exit_code \in [Instances -> Codes \cup {"none"}]
  /\ pc \in [Callers -> Labels]
  /\ on \in [Callers -> Instances \cup {NoInstance}]
  /\ res \in [Callers -> Codes \cup {"none", "ok", "err"}]

Init ==
  /\ state = [i \in Instances |-> "Unborn"]
  /\ lock = [i \in Instances |-> NoCaller]
  /\ pid = [i \in Instances |-> FALSE]
  /\ guest = [i \in Instances |-> "none"]
  /\ exit_code = [i \in Instances |-> "none"]
  /\ pc = [c \in Callers |-> "idle"]
  /\ on = [c \in Callers |-> NoInstance]
  /\ res = [c \in Callers |-> "none"]

(***************************************************************************)
(* How a caller moves on.                                                  *)
(***************************************************************************)
Goto(c, label) == pc' = [pc EXCEPT ![c] = label] /\ UNCHANGED <<on, res>>

Finish(c, r) ==
  /\ pc' = [pc EXCEPT ![c] = "done"]
  /\ res' = [res EXCEPT ![c] = r]
  /\ UNCHANGED on

Acquire(c, i) == lock[i] = NoCaller /\ lock' = [lock EXCEPT ![i] = c]

Release(i) == lock' = [lock EXCEPT ![i] = NoCaller]

(* A caller enters a method, and later consumes its result. *)
Invoke(c, i, method) ==
  /\ pc[c] = "idle"
  /\ state[i] # "Unborn"
  /\ pc' = [pc EXCEPT ![c] = method]
  /\ on' = [on EXCEPT ![c] = i]
  /\ UNCHANGED <<objects, res>>

Return(c) ==
  /\ pc[c] = "done"
  /\ pc' = [pc EXCEPT ![c] = "idle"]
  /\ on' = [on EXCEPT ![c] = NoInstance]
  /\ res' = [res EXCEPT ![c] = "none"]
  /\ UNCHANGED objects

-----------------------------------------------------------------------------
(* InstanceData::new, once the engine's `T::new` has succeeded. *)
new(i) ==
  /\ state[i] = "Unborn"
  /\ state' = [state EXCEPT ![i] = "Created"]
  /\ UNCHANGED <<lock, pid, guest, exit_code, pc, on, res>>

(***************************************************************************)
(* A method that takes the write lock and applies a transition first.  A   *)
(* refused transition returns at once, which drops the lock again.         *)
(***************************************************************************)
Guarded(c, transition, label) ==
  LET i == on[c] IN
  \/ /\ state[i] \in DOMAIN transition
     /\ Acquire(c, i)
     /\ state' = [state EXCEPT ![i] = transition[state[i]]]
     /\ Goto(c, label)
     /\ UNCHANGED <<pid, guest, exit_code>>
  \/ /\ state[i] \notin DOMAIN transition
     /\ lock[i] = NoCaller
     /\ Finish(c, "err")
     /\ UNCHANGED objects

start_enter(c) == pc[c] = "start" /\ Guarded(c, start, "start_run")

(* The engine's start() runs the guest and leaves its watcher behind ... *)
start_run(c) ==
  /\ pc[c] = "start_run"
  /\ guest' = [guest EXCEPT ![on[c]] = "running"]
  /\ Goto(c, "start_up")
  /\ UNCHANGED <<state, lock, pid, exit_code>>

(* A failed start leaves no exit code. *)
Mut_start_fail(c) ==
  /\ pc[c] = "start_run"
  /\ Goto(c, "start_failed")
  /\ UNCHANGED objects

(* ... or fails, and its guard sets the exit code on the way out. *)
start_fail(c) ==
  /\ pc[c] = "start_run"
  /\ exit_code' = [exit_code EXCEPT ![on[c]] = GuardCode]
  /\ Goto(c, "start_failed")
  /\ UNCHANGED <<state, lock, pid, guest>>

start_set_pid(c) ==
  /\ pc[c] = "start_up"
  /\ pid' = [pid EXCEPT ![on[c]] = TRUE]
  /\ Goto(c, "start_pid")
  /\ UNCHANGED <<state, lock, guest, exit_code>>

start_return(c) ==
  /\ \/ /\ pc[c] = "start_pid"
        /\ state' = [state EXCEPT ![on[c]] = Ignoring(started, @)]
        /\ Finish(c, "ok")
     \/ /\ pc[c] = "start_failed"
        /\ state' = [state EXCEPT ![on[c]] = Ignoring(stop, @)]
        /\ Finish(c, "err")
  /\ Release(on[c])
  /\ UNCHANGED <<pid, guest, exit_code>>

kill_enter(c) == pc[c] = "kill" /\ Guarded(c, kill, "kill_run")

(* Whether and when the guest dies of the signal is the guest's business. *)
kill_return(c) ==
  /\ pc[c] = "kill_run"
  /\ \E r \in {"ok", "err"} : Finish(c, r)
  /\ Release(on[c])
  /\ UNCHANGED <<state, pid, guest, exit_code>>

delete_enter(c) == pc[c] = "delete" /\ Guarded(c, delete, "delete_run")

delete_return(c) ==
  /\ pc[c] = "delete_run"
  /\ \/ Finish(c, "ok") /\ UNCHANGED state
     \/ /\ Finish(c, "err")
        /\ state' = [state EXCEPT ![on[c]] = Ignoring(stop, @)]
  /\ Release(on[c])
  /\ UNCHANGED <<pid, guest, exit_code>>

(* The lock is taken along with the exit code, and then taken again. *)
Mut_wait_code(c) ==
  /\ pc[c] = "wait"
  /\ exit_code[on[c]] # "none"
  /\ Acquire(c, on[c])
  /\ Goto(c, "wait_lock")
  /\ UNCHANGED <<state, pid, guest, exit_code>>

wait_code(c) ==
  /\ pc[c] = "wait"
  /\ exit_code[on[c]] # "none"
  /\ Goto(c, "wait_lock")
  /\ UNCHANGED objects

(* The exit code is taken, but the lock is not. *)
Mut_wait_exited(c) ==
  /\ pc[c] = "wait_lock"
  /\ state' = [state EXCEPT ![on[c]] = "Exited"]
  /\ Finish(c, exit_code[on[c]])
  /\ UNCHANGED <<lock, pid, guest, exit_code>>

(* The task is not marked Exited. *)
Mut_wait_unmarked(c) ==
  /\ pc[c] = "wait_lock"
  /\ lock[on[c]] = NoCaller
  /\ Finish(c, exit_code[on[c]])
  /\ UNCHANGED objects

wait_exited(c) ==
  /\ pc[c] = "wait_lock"
  /\ lock[on[c]] = NoCaller
  /\ state' = [state EXCEPT ![on[c]] = "Exited"]
  /\ Finish(c, exit_code[on[c]])
  /\ UNCHANGED <<lock, pid, guest, exit_code>>

(***************************************************************************)
(* `wait().now_or_never()` polls the wait once: it yields nothing when the *)
(* code is not there, and also when the lock cannot be had at once,        *)
(* because it is held or because others queue for it.                      *)
(***************************************************************************)
Contended(c, i) ==
  \/ lock[i] # NoCaller
  \/ \E d \in Callers \ {c} : on[d] = i /\ pc[d] \in Waiting

now_or_never(c, i) ==
  /\ pc[c] = "idle"
  /\ state[i] # "Unborn"
  /\ pc' = [pc EXCEPT ![c] = "done"]
  /\ on' = [on EXCEPT ![c] = i]
  /\ \/ /\ exit_code[i] # "none" /\ lock[i] = NoCaller
        /\ state' = [state EXCEPT ![i] = "Exited"]
        /\ res' = [res EXCEPT ![c] = exit_code[i]]
     \/ /\ exit_code[i] = "none" \/ Contended(c, i)
        /\ UNCHANGED <<state, res>>
  /\ UNCHANGED <<lock, pid, guest, exit_code>>

-----------------------------------------------------------------------------
(* The guest process, and the task that watches it. *)
guest_exit(i) ==
  /\ guest[i] = "running"
  /\ guest' = [guest EXCEPT ![i] = "dead"]
  /\ UNCHANGED <<state, lock, pid, exit_code, pc, on, res>>

(* The watcher reports without waiting for the guest. *)
Mut_report_exit(i) ==
  /\ guest[i] # "none"
  /\ exit_code[i] = "none"
  /\ \E code \in Codes : exit_code' = [exit_code EXCEPT ![i] = code]
  /\ UNCHANGED <<state, lock, pid, guest, pc, on, res>>

report_exit(i) ==
  /\ guest[i] = "dead"
  /\ exit_code[i] = "none"
  /\ \E code \in Codes : exit_code' = [exit_code EXCEPT ![i] = code]
  /\ UNCHANGED <<state, lock, pid, guest, pc, on, res>>

(* The watcher cannot wait for the process and gives up: the code is 137. *)
watch_fail(i) ==
  /\ WatcherFails
  /\ guest[i] = "running"
  /\ exit_code[i] = "none"
  /\ exit_code' = [exit_code EXCEPT ![i] = GuardCode]
  /\ UNCHANGED <<state, lock, pid, guest, pc, on, res>>

-----------------------------------------------------------------------------
Methods == {"start", "kill", "delete", "wait"}

Enter(c) == start_enter(c) \/ kill_enter(c) \/ delete_enter(c) \/ wait_exited(c)

Step(c) ==
  \/ start_run(c) \/ start_fail(c) \/ start_set_pid(c) \/ start_return(c)
  \/ kill_return(c) \/ delete_return(c) \/ wait_code(c)

Next ==
  \/ \E i \in Instances : new(i) \/ guest_exit(i) \/ report_exit(i) \/ watch_fail(i)
  \/ \E c \in Callers : Enter(c) \/ Step(c) \/ Return(c)
  \/ \E c \in Callers, i \in Instances :
        now_or_never(c, i) \/ \E m \in Methods : Invoke(c, i, m)

Spec == Init /\ [][Next]_vars

(***************************************************************************)
(* Fairness: a thread or task that can run does run, and so does the task  *)
(* that watches a dead guest; the engine's calls terminate.  The tokio     *)
(* RwLock hands the lock over in the order of the requests, so a caller    *)
(* that waits while the lock keeps being released gets it.  Nothing makes  *)
(* a guest die or a client send a request.                                 *)
(***************************************************************************)
FairSpec ==
  /\ Spec
  /\ \A c \in Callers : WF_vars(Step(c)) /\ SF_vars(Enter(c))
  /\ \A i \in Instances : WF_vars(report_exit(i))

-----------------------------------------------------------------------------
(***************************************************************************)
(* "These state transitions are always Ok(()) because we hold the lock     *)
(* since s.start()" (instance_data.rs:42) and the same for delete (:71):   *)
(* whenever start or delete is about to discard the result of started() or *)
(* stop(), that transition accepts the state, whatever the other callers   *)
(* have done since the lock was taken.                                     *)
(***************************************************************************)
LockedTransitionsSucceed ==
  \A c \in Callers :
    /\ pc[c] = "start_pid" => state[on[c]] \in DOMAIN started
    /\ pc[c] = "start_failed" => state[on[c]] \in DOMAIN stop
    /\ pc[c] = "delete_run" => state[on[c]] \in DOMAIN stop

(***************************************************************************)
(* The engine's delete() (instance_data.rs:68) never runs on an instance   *)
(* whose guest is still running, although the delete request only looks at *)
(* the TaskState and the guest dies and is reported behind its back.  This *)
(* takes a watcher whose system calls succeed (~WatcherFails).             *)
(***************************************************************************)
DeleteOnlyWhenStopped ==
  \A c \in Callers : pc[c] = "delete_run" => guest[on[c]] # "running"

(***************************************************************************)
(* A wait or a poll that returns an exit code (instance_data.rs:79-84)     *)
(* leaves a task that a delete accepts or that is already being deleted,   *)
(* also when it overtook a start() that had not returned yet.              *)
(***************************************************************************)
WaitLeavesExited ==
  \A c \in Callers :
    pc[c] = "done" /\ res[c] \in Codes
      => state[on[c]] \in {"Exited", "Deleting"}

(***************************************************************************)
(* A task that was seen Exited or Deleting is never startable or killable  *)
(* again: no late start(), kill(), failed delete() or wait() brings it     *)
(* back (task_state.rs:15-59 under instance_data.rs:36-84).                *)
(***************************************************************************)
NoResurrection ==
  [][\A i \in Instances :
       state[i] \in {"Exited", "Deleting"} => state'[i] \in {"Exited", "Deleting"}]_vars

(***************************************************************************)
(* Every start, kill and delete call returns, and a wait returns once the  *)
(* guest has died or has failed to start: callers that hold the lock       *)
(* across an await never lock each other out for good, and the exit code   *)
(* guard of start (sys/unix/container/instance.rs:139) leaves no wait      *)
(* hanging on a failed start.                                              *)
(***************************************************************************)
CallsReturn ==
  \A c \in Callers :
    /\ pc[c] \in Labels \ {"idle", "wait"} ~> pc[c] = "done"
    /\ \A i \in Instances :
         pc[c] = "wait" /\ on[c] = i /\ (state[i] = "Starting" \/ guest[i] = "dead")
           ~> pc[c] = "done" \/ guest[i] = "running"

=============================================================================
