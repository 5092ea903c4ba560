----------------------------- MODULE StressTest -----------------------------
(***************************************************************************)
(* The stress test (crates/stress-test): it sets up its tasks, lets them   *)
(* run the task API against a shim, a few at a time, counts what came of   *)
(* them, and cleans up: by the tasks themselves, when they are dropped,    *)
(* and by killing the processes that are left.                             *)
(*                                                                         *)
(* With the containerd backend the requests go to containerd, with the     *)
(* mock one straight to the shim.  Both, and the guest, are external: a    *)
(* request takes effect or fails.                                          *)
(***************************************************************************)
EXTENDS Integers, FiniteSets

CONSTANTS
  Tasks,        \* count tasks, a finite set
  Clis,         \* the command lines: whether the backend is containerd or
                \* the mock, and a number `parallel`, 0 for no limit
  SetupFails,   \* whether the set up of a task may fail
  RpcFails,     \* whether the other requests may fail
  Timeout,      \* whether there is a timeout
  Procs, Kids   \* the processes that are left; Kids[p]: the children of p

ASSUME TasksAssumption == IsFiniteSet(Tasks)
ASSUME ClisAssumption == Clis \subseteq [containerd : BOOLEAN, parallel : Nat]

(* Every process has been forked by its parent: there is no cycle. *)
ASSUME KidsAssumption ==
  /\ Kids \in [Procs -> SUBSET Procs]
  /\ \A S \in SUBSET Procs :
       S # {} => \E p \in S : \A q \in S : p \notin Kids[q]

VARIABLES
  cli,        \* the command line, which never changes
  main,       \* where main is
  held,       \* what main holds of "lease" (on the snapshots), "shim", "pause"
  setup_done, \* the barrier: "waiting", "released", or "done" when main passed it
  semaphore,  \* the permits that are left
  start,      \* whether the start of the measurement is set
  success, failed, incomplete,
  outcome,    \* "none", "ok", "failed" or "panic"
  pc,
  res,        \* res[t]: the result of t's future
  dropping,   \* dropping[t]: its task is being dropped
  once,       \* once[t]: the parts of the clean up that were done
  container,  \* container[t]: the container that containerd has
  task,       \* task[t]: the state of the task
  proc        \* proc[p]: a process that outlives the test

count == Cardinality(Tasks)
permits == IF cli.parallel = 0 THEN count ELSE cli.parallel

counters == <<success, failed, incomplete, outcome>>
remote == <<container, task>>
mainVars == <<cli, main, held, setup_done, counters, proc>>
vars == <<mainVars, semaphore, start, pc, res, dropping, once, remote>>

Setup == {"image_config", "snapshot"}
Measured == {"create_container", "create_task", "start"}
Cleaning == {"kill", "delete_task", "delete_container", "unmount"}

(* One type invariant for the module. *)
TypeOK ==
  /\ cli \in Clis
  /\ main \in {"start_shim", "pause", "loop", "drain", "drop_pause",
               "drop_shim", "drop_lease", "reap", "exit"}
  /\ held \subseteq {"lease", "shim", "pause"}
  /\ semaphore \in 0 .. permits
  /\ pc \in [Tasks -> {"barrier", "acquire", "wait", "done", "over"}
                      \cup Setup \cup Measured \cup Cleaning]
  /\ res \in [Tasks -> {"none", "ok", "err"}]
  /\ task \in [Tasks -> {"none", "created", "running", "stopped", "deleted"}]
  /\ success + failed + incomplete = count
  /\ incomplete >= 0

Init ==
  /\ cli \in Clis
  /\ main = "start_shim" /\ held = {"lease"} /\ setup_done = "waiting"
  /\ semaphore = permits /\ start = FALSE
  /\ success = 0 /\ failed = 0 /\ incomplete = count /\ outcome = "none"
  /\ pc = [t \in Tasks |-> "image_config"]
  /\ res = [t \in Tasks |-> "none"]
  /\ dropping = [t \in Tasks |-> FALSE]
  /\ once = [t \in Tasks |-> {}]
  /\ container = [t \in Tasks |-> FALSE]
  /\ task = [t \in Tasks |-> "none"]
  /\ proc = [p \in Procs |-> IF \E q \in Procs : p \in Kids[q] THEN "grandchild" ELSE "child"]

Goto(t, label) == pc' = [pc EXCEPT ![t] = label]

(* The drop of a task blocks the thread that polls all the futures. *)
Dropping == \E t \in Tasks : dropping[t] /\ pc[t] \in Cleaning
InLoop == main = "loop" /\ ~Dropping
Polled(t, label) == InLoop /\ pc[t] = label

-----------------------------------------------------------------------------
(* The clean up of a task, by delete() and again when it is dropped: a     *)
(* part that was done is not run again, and the second part is run even if *)
(* the first one failed.                                                   *)
Second == IF cli.containerd THEN "delete_container" ELSE "unmount"
Delete(t) ==
  IF "task" \in once[t] THEN Second
  ELSE IF cli.containerd THEN "kill" ELSE "delete_task"

(* A permit is given back on every error. *)
Mut_Return(t, r) ==
  /\ res' = [res EXCEPT ![t] = r]
  /\ dropping' = [dropping EXCEPT ![t] = TRUE]
  /\ Goto(t, Delete(t))
  /\ semaphore' = semaphore + 1

(* The future of t returns r: its task is dropped, and its permit if it    *)
(* holds one.                                                              *)
Return(t, r) ==
  /\ res' = [res EXCEPT ![t] = r]
  /\ dropping' = [dropping EXCEPT ![t] = TRUE]
  /\ Goto(t, Delete(t))
  /\ semaphore' = semaphore + (IF pc[t] \in Measured THEN 1 ELSE 0)
Error(t) == Return(t, "err") /\ UNCHANGED <<mainVars, start, once, remote>>

(* Task::new: the image's config, then a snapshot of it.  A task whose set *)
(* up failed was never made, so there is nothing to drop.                  *)
setup(t, label, next) ==
  /\ Polled(t, label)
  /\ \/ Goto(t, next) /\ UNCHANGED res
     \/ SetupFails /\ Goto(t, "done") /\ res' = [res EXCEPT ![t] = "err"]
  /\ UNCHANGED <<mainVars, semaphore, start, dropping, once, remote>>
image_config(t) == setup(t, "image_config", "snapshot")
snapshot(t) == setup(t, "snapshot", "barrier")

(* Barrier::new(count + 1): all the tasks, and main, which is told later. *)
barrier ==
  /\ InLoop
  /\ setup_done = "waiting"
  /\ \A t \in Tasks : pc[t] = "barrier"
  /\ setup_done' = "released"
  /\ pc' = [t \in Tasks |-> "acquire"]
  /\ UNCHANGED <<cli, main, held, counters, proc, semaphore, start, res, dropping, once, remote>>

acquire(t) ==
  /\ Polled(t, "acquire")
  /\ semaphore > 0
  /\ semaphore' = semaphore - 1
  /\ start' = TRUE
  /\ Goto(t, IF cli.containerd THEN "create_container" ELSE "create_task")
  /\ UNCHANGED <<mainVars, res, dropping, once, remote>>

create_container(t) ==
  /\ Polled(t, "create_container")
  /\ \/ /\ container' = [container EXCEPT ![t] = TRUE]
        /\ Goto(t, "create_task")
        /\ UNCHANGED <<mainVars, semaphore, start, res, dropping, once, task>>
     \/ RpcFails /\ Error(t)

create_task(t) ==
  /\ Polled(t, "create_task")
  /\ \/ /\ task' = [task EXCEPT ![t] = "created"]
        /\ Goto(t, "start")
        /\ UNCHANGED <<mainVars, semaphore, start, res, dropping, once, container>>
     \/ RpcFails /\ Error(t)

(* The permit is dropped after the start. *)
start_task(t) ==
  /\ Polled(t, "start")
  /\ \/ /\ task' = [task EXCEPT ![t] = "running"]
        /\ Goto(t, "wait")
        /\ semaphore' = semaphore + 1
        /\ UNCHANGED <<mainVars, start, res, dropping, once, container>>
     \/ RpcFails /\ Error(t)

(* The guest ends, or its kill takes effect. *)
guest_exit(t) ==
  /\ task[t] = "running"
  /\ task' = [task EXCEPT ![t] = "stopped"]
  /\ UNCHANGED <<mainVars, semaphore, start, pc, res, dropping, once, container>>

(* wait(): a status other than zero is an error. *)
wait_task(t) ==
  /\ Polled(t, "wait")
  /\ \/ /\ task[t] = "stopped"
        /\ Goto(t, Delete(t))
        /\ UNCHANGED <<mainVars, semaphore, start, res, dropping, once, remote>>
     \/ task[t] = "stopped" /\ Error(t)
wait_error(t) == Polled(t, "wait") /\ RpcFails /\ Error(t)

-----------------------------------------------------------------------------
(* A step of the clean up: of delete(), or of the drop that blocks. *)
Clean(t, label) == pc[t] = label /\ (dropping[t] \/ InLoop)

(* The end of delete(), with an error if either part failed, after which   *)
(* the task is dropped; or the end of that drop.                           *)
Deleted(t, done) ==
  /\ once' = [once EXCEPT ![t] = done]
  /\ dropping' = [dropping EXCEPT ![t] = TRUE]
  /\ \/ /\ dropping[t]
        /\ Goto(t, IF main = "loop" THEN "done" ELSE "over")
        /\ UNCHANGED res
     \/ /\ ~dropping[t]
        /\ res' = [res EXCEPT ![t] = IF done = {"task", "rest"} THEN "ok" ELSE "err"]
        /\ Goto(t, Delete(t))

(* containerd refuses to delete a task that runs, a shim kills it. *)
Deletable(t) ==
  \/ task[t] \in {"created", "stopped"}
  \/ task[t] = "running" /\ ~cli.containerd

(* kill_task: the result is ignored, and the guest dies in its time. *)
kill_task(t) ==
  /\ Clean(t, "kill")
  /\ Goto(t, "delete_task")
  /\ UNCHANGED <<mainVars, semaphore, start, res, dropping, once, remote>>

(* What was done is not remembered. *)
Mut_delete_task(t) ==
  /\ Clean(t, "delete_task")
  /\ Goto(t, Second)
  /\ \/ /\ Deletable(t)
        /\ task' = [task EXCEPT ![t] = "deleted"]
     \/ /\ RpcFails \/ task[t] \in {"none", "running", "deleted"}
        /\ UNCHANGED task
  /\ UNCHANGED <<mainVars, semaphore, start, res, dropping, once, container>>

(* The task's part of the clean up, which is done only if the request      *)
(* succeeded (RunOnce::try_run).                                           *)
delete_task(t) ==
  /\ Clean(t, "delete_task")
  /\ Goto(t, Second)
  /\ \/ /\ Deletable(t)
        /\ task' = [task EXCEPT ![t] = "deleted"]
        /\ once' = [once EXCEPT ![t] = @ \cup {"task"}]
     \/ /\ RpcFails \/ task[t] \in {"none", "running"}
        /\ UNCHANGED <<task, once>>
  /\ UNCHANGED <<mainVars, semaphore, start, res, dropping, container>>

delete_container(t) ==
  /\ Clean(t, "delete_container")
  /\ \/ /\ "rest" \notin once[t] /\ container[t]
        /\ container' = [container EXCEPT ![t] = FALSE]
        /\ Deleted(t, once[t] \cup {"rest"})
     \/ /\ "rest" \in once[t] \/ RpcFails \/ ~container[t]
        /\ Deleted(t, once[t])
        /\ UNCHANGED container
  /\ UNCHANGED <<mainVars, semaphore, start, task>>

(* unmount_recursive only spawns the unmounts: it never fails. *)
unmount_recursive(t) ==
  /\ Clean(t, "unmount")
  /\ Deleted(t, once[t] \cup {"rest"})
  /\ UNCHANGED <<mainVars, semaphore, start, remote>>

future(t) ==
  \/ image_config(t) \/ snapshot(t) \/ acquire(t) \/ create_container(t)
  \/ create_task(t) \/ start_task(t) \/ wait_task(t) \/ kill_task(t)
  \/ delete_task(t) \/ delete_container(t) \/ unmount_recursive(t)

-----------------------------------------------------------------------------
tasksVars == <<cli, semaphore, start, pc, res, dropping, once, remote>>
mainRest == <<setup_done, counters, proc, tasksVars>>

(* Before the loop an error returns at once, which drops what there is. *)
start_shim ==
  /\ main = "start_shim"
  /\ \/ main' = "pause" /\ held' = held \cup {"shim"}
     \/ SetupFails /\ main' = "drop_lease" /\ UNCHANGED held
  /\ UNCHANGED mainRest

create_pause ==
  /\ main = "pause"
  /\ held' = held \cup {"pause"}
  /\ \/ main' = "loop"
     \/ SetupFails /\ main' = "drop_pause"
  /\ UNCHANGED mainRest

setup_passed ==
  /\ InLoop /\ setup_done = "released"
  /\ setup_done' = "done"
  /\ UNCHANGED <<main, held, counters, proc, tasksVars>>

(* After the loop: the time since `start` is unwrapped if all succeeded. *)
Break ==
  /\ main' = "drain"
  /\ outcome' = CASE success # count -> "failed"
                  [] success = count /\ start -> "ok"
                  [] OTHER -> "panic"
  /\ UNCHANGED <<held, setup_done, success, failed, incomplete, proc, tasksVars>>

(* A timeout only stops the wait of the first task. *)
Mut_watchdog == InLoop /\ setup_done = "done" /\ Timeout /\ incomplete = count /\ Break

(* The watchdog counts from the last event, and not before the barrier. *)
watchdog == InLoop /\ setup_done = "done" /\ Timeout /\ Break
ctrl_c == InLoop /\ Break

(* tracker.next() gives a result, or that there is no future left. *)
next_result(t) ==
  /\ Polled(t, "done")
  /\ Goto(t, "over")
  /\ incomplete' = incomplete - 1
  /\ \/ res[t] = "ok" /\ success' = success + 1 /\ UNCHANGED failed
     \/ res[t] = "err" /\ failed' = failed + 1 /\ UNCHANGED success
  /\ UNCHANGED <<cli, main, held, setup_done, outcome, proc, semaphore, start, res,
                 dropping, once, remote>>
no_more == InLoop /\ (\A t \in Tasks : pc[t] = "over") /\ Break

(* The function returns: the futures that are left are dropped first, one  *)
(* after the other, each with its task.                                    *)
drop_future(t) ==
  /\ main = "drain" /\ ~Dropping
  /\ pc[t] # "over"
  /\ \/ /\ pc[t] \in Setup \cup {"done"}
        /\ Goto(t, "over")
        /\ UNCHANGED dropping
     \/ /\ pc[t] \notin Setup \cup {"done"}
        /\ Goto(t, Delete(t))
        /\ dropping' = [dropping EXCEPT ![t] = TRUE]
  /\ UNCHANGED <<mainVars, semaphore, start, res, once, remote>>

drained ==
  /\ main = "drain"
  /\ \A t \in Tasks : pc[t] = "over"
  /\ main' = "drop_pause"
  /\ UNCHANGED <<held, mainRest>>

(* Then the other locals: the pause task, which is deleted, the shim,      *)
(* which is shut down, and the client with its lease.                      *)
drop(label, what, next) ==
  /\ main = label
  /\ main' = next
  /\ held' = held \ {what}
  /\ UNCHANGED mainRest
drop_pause == drop("drop_pause", "pause", "drop_shim")
drop_shim == drop("drop_shim", "shim", "drop_lease")
(* A panic leaves main without reaping. *)
drop_lease == drop("drop_lease", "lease", IF outcome = "panic" THEN "exit" ELSE "reap")

(* reap_children: each child is killed and waited for without blocking,    *)
(* until there is none; the children of one that dies become children.     *)
reap_children ==
  /\ main = "reap"
  /\ \/ /\ \A p \in Procs : proc[p] \notin {"child", "zombie"}
        /\ main' = "exit"
        /\ UNCHANGED proc
     \/ \E p \in Procs :
          /\ \/ /\ proc[p] = "child"
                /\ proc' = [q \in Procs |-> IF q = p THEN "zombie"
                                           ELSE IF q \in Kids[p] THEN "child" ELSE proc[q]]
             \/ /\ proc[p] = "zombie"
                /\ proc' = [proc EXCEPT ![p] = "gone"]
          /\ UNCHANGED main
  /\ UNCHANGED <<held, setup_done, counters, tasksVars>>

run ==
  \/ start_shim \/ create_pause \/ barrier \/ setup_passed \/ no_more
  \/ drained \/ drop_pause \/ drop_shim \/ drop_lease \/ reap_children
  \/ \E t \in Tasks : next_result(t) \/ drop_future(t)

Next ==
  \/ run \/ watchdog \/ ctrl_c
  \/ \E t \in Tasks : future(t) \/ wait_error(t) \/ guest_exit(t)

Spec == Init /\ [][Next]_vars

(* The futures are polled, containerd and the shim answer, and the timer   *)
(* fires.  A guest may run for ever, with nobody to press Ctrl-C.          *)
Fairness ==
  /\ WF_vars(run) /\ WF_vars(watchdog)
  /\ \A t \in Tasks : WF_vars(future(t))

-----------------------------------------------------------------------------
(* Never more than `parallel` tasks are between their create and the end   *)
(* of their start, whatever fails: a failed task gives its permit back,    *)
(* and only its own (run_stress_test).                                     *)
ParallelBound ==
  /\ Cardinality({t \in Tasks : pc[t] \in Measured}) <= permits
  /\ main = "loop" => semaphore + Cardinality({t \in Tasks : pc[t] \in Measured}) = permits

(* A run that reports success has deleted every task and its container,    *)
(* and knows when it started (Task::delete, and start.get().unwrap()).     *)
SuccessIsClean ==
  /\ outcome = "ok" => \A t \in Tasks : task[t] = "deleted" /\ ~container[t]
  /\ outcome = "panic" => count = 0

(* A task that was deleted is not killed or deleted again when it is       *)
(* dropped, nor when its future is dropped between the two parts of the    *)
(* clean up (RunOnce, Task::delete and its Drop).                          *)
DeletedOnce == \A t \in Tasks : pc[t] \in {"kill", "delete_task"} => task[t] # "deleted"

(* "create a "pause" container to keep the shim running", and the lease on *)
(* the snapshots: all are there as long as a task is, on every way out.    *)
ShimOutlivesTasks ==
  \A t \in Tasks :
    pc[t] \notin {"image_config", "done", "over"} => held = {"lease", "shim", "pause"}

(* When the program ends no process that it started is left, not even one  *)
(* whose parent died while it was reaping (reap_children).                 *)
NoOrphans ==
  main = "exit" /\ outcome # "panic" => \A p \in Procs : proc[p] = "gone"

(***************************************************************************)
(* Whatever fails, times out or is interrupted: the limit of tasks that    *)
(* are started at once holds and no permit is lost; a success has deleted  *)
(* every task and container, and none twice; the shim, the pause container *)
(* and the lease outlive the tasks; and no process is left at the end      *)
(* (run_stress_test, Task::delete and its Drop, reap_children).            *)
(***************************************************************************)
StressTestCorrect ==
  /\ ParallelBound /\ SuccessIsClean /\ DeletedOnce /\ ShimOutlivesTasks /\ NoOrphans

(* A task could not be set up, and the barrier stays closed. *)
SetupFailed == setup_done = "waiting" /\ \E t \in Tasks : res[t] = "err"

(* With a timeout the test ends, even if guests run for ever (watchdog):   *)
(* only a task that could not be set up keeps it, since the others are     *)
(* then left at the barrier, where no timeout counts yet.                  *)
TestEnds == <>(main = "exit" \/ SetupFailed)

=============================================================================
