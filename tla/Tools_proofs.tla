---------------------------- MODULE Tools_proofs ----------------------------
(***************************************************************************)
(* Proofs about the programs beside the shim that start containers:        *)
(* StressTest (crates/stress-test) and TestHarness (the suite of the       *)
(* end-to-end tests).  The programs share no state.  StressTest is         *)
(* extended, with the assumptions that its module makes; TestHarness is an *)
(* instance, whose assumptions are named here and stand in the theorems.   *)
(***************************************************************************)
EXTENDS StressTest, Sequences, FiniteSetTheorems, SequenceTheorems, TLAPS

-----------------------------------------------------------------------------
(* StressTest: the inductive invariant.                                    *)

Early == {"start_shim", "pause", "loop"}
Late == {"drop_pause", "drop_shim", "drop_lease", "reap", "exit"}
Before == Setup \cup Measured \cup {"barrier", "acquire", "wait"}
Creating == {t \in Tasks : pc[t] \in Measured}
Running == {t \in Tasks : pc[t] # "over"}
Succeeded == {t \in Tasks : pc[t] = "over" /\ res[t] = "ok"}

Types ==
  /\ cli \in Clis
  /\ main \in Early \cup {"drain"} \cup Late
  /\ held \subseteq {"lease", "shim", "pause"}
  /\ setup_done \in {"waiting", "released", "done"}
  /\ semaphore \in Nat
  /\ start \in BOOLEAN
  /\ success \in Nat /\ failed \in Nat /\ incomplete \in Nat
  /\ outcome \in {"none", "ok", "failed", "panic"}
  /\ pc \in [Tasks -> Before \cup Cleaning \cup {"done", "over"}]
  /\ res \in [Tasks -> {"none", "ok", "err"}]
  /\ dropping \in [Tasks -> BOOLEAN]
  /\ once \in [Tasks -> SUBSET {"task", "rest"}]
  /\ container \in [Tasks -> BOOLEAN]
  /\ task \in [Tasks -> {"none", "created", "running", "stopped", "deleted"}]
  /\ proc \in [Procs -> {"child", "grandchild", "zombie", "gone"}]

(* What a future is at, and what was done for its task. *)
TaskInv(t) ==
  /\ pc[t] \in Before => once[t] = {} /\ ~dropping[t] /\ res[t] = "none"
  /\ "task" \in once[t] <=> task[t] = "deleted"
  /\ pc[t] \in {"kill", "delete_task"} => "task" \notin once[t]
  /\ "rest" \in once[t] => ~container[t]
  /\ pc[t] = "create_container" => cli.containerd
  /\ pc[t] = "unmount" => ~cli.containerd
  /\ container[t] => cli.containerd
  /\ res[t] = "ok" => once[t] = {"task", "rest"} /\ start
  /\ pc[t] \in Measured \cup {"wait"} => start
  /\ pc[t] \in Cleaning /\ ~dropping[t] => start

(* The permits and the counters, which main keeps only in its loop. *)
CountInv ==
  /\ semaphore + Cardinality(Creating) <= permits
  /\ main \in Early => semaphore + Cardinality(Creating) = permits
  /\ success + failed + incomplete = count
  /\ main \in Early => incomplete = Cardinality(Running) /\ success = Cardinality(Succeeded)

(* Where main is, what it holds, and where the tasks can then be. *)
MainInv ==
  /\ main \in Early => outcome = "none"
  /\ outcome = "ok" => \A t \in Tasks : res[t] = "ok"
  /\ outcome = "panic" => Tasks = {}
  /\ main = "start_shim" => held = {"lease"}
  /\ main = "pause" => held = {"lease", "shim"}
  /\ main \in {"loop", "drain"} => held = {"lease", "shim", "pause"}
  /\ main \in {"start_shim", "pause"} => \A t \in Tasks : pc[t] = "image_config"
  /\ main \in Late => \A t \in Tasks : pc[t] \in {"image_config", "over"}

(* A process that is not yet a child has a parent that is alive. *)
ProcInv ==
  /\ \A p \in Procs : proc[p] = "grandchild" =>
       \E q \in Procs : p \in Kids[q] /\ proc[q] \in {"child", "grandchild"}
  /\ main = "exit" /\ outcome # "panic" =>
       \A p \in Procs : proc[p] \notin {"child", "zombie"}

StressInv == Types /\ (\A t \in Tasks : TaskInv(t)) /\ CountInv /\ MainInv /\ ProcInv
-----------------------------------------------------------------------------
(* StressTest: a step of one task.                                         *)

Held(label) == IF label \in Measured THEN 1 ELSE 0

(* Nothing of the task u changes. *)
SameTask(u) ==
  /\ pc'[u] = pc[u] /\ res'[u] = res[u] /\ dropping'[u] = dropping[u]
  /\ once'[u] = once[u] /\ container'[u] = container[u] /\ task'[u] = task[u]

(* A step of the task t alone: it moves only in the loop or while the      *)
(* futures are dropped, it keeps or gives back the permit that it has, and *)
(* its result is settled in the loop.                                      *)
TaskStep(t) ==
  /\ UNCHANGED mainVars
  /\ start => start'
  /\ \A u \in Tasks \ {t} : SameTask(u)
  /\ \/ pc'[t] = pc[t]
     \/ /\ main \in {"loop", "drain"} /\ pc[t] # "over"
        /\ main = "loop" => pc'[t] # "over"
  /\ res'[t] = res[t] \/ (main = "loop" /\ pc[t] # "over")
  /\ main \in Early => semaphore' + Held(pc'[t]) = semaphore + Held(pc[t])
  /\ main \notin Early =>
       semaphore' = semaphore /\ (pc'[t] = pc[t] \/ pc'[t] \notin Measured)

(* The invariant of a task only depends on that task. *)
LEMMA SameTaskInv ==
  ASSUME NEW u \in Tasks, TaskInv(u), SameTask(u), cli' = cli, start => start'
  PROVE  TaskInv(u)'
BY DEF TaskInv, SameTask, Before, Setup, Measured, Cleaning

(* The sets that are counted are finite. *)
LEMMA CountedFinite ==
  /\ IsFiniteSet(Creating) /\ Cardinality(Creating) \in Nat
  /\ IsFiniteSet(Running) /\ Cardinality(Running) \in Nat
  /\ IsFiniteSet(Succeeded) /\ Cardinality(Succeeded) \in Nat
  /\ count \in Nat
<1>1. \A S \in SUBSET Tasks : IsFiniteSet(S) /\ Cardinality(S) \in Nat
  BY TasksAssumption, FS_Subset, FS_CardinalityType
<1>2. Creating \in SUBSET Tasks /\ Running \in SUBSET Tasks /\ Succeeded \in SUBSET Tasks
  BY DEF Creating, Running, Succeeded
<1> QED
  BY <1>1, <1>2 DEF count

(* The number of permits is that of the command line. *)
LEMMA PermitsNat ==
  ASSUME cli \in Clis
  PROVE  permits \in Nat
<1>1. cli.parallel \in Nat
  BY ClisAssumption
<1> QED
  BY <1>1, CountedFinite DEF permits

(* The sum of a task's part and of the other tasks' parts. *)
LEMMA CreatingMoves ==
  ASSUME NEW t \in Tasks,
         \A u \in Tasks \ {t} : pc'[u] = pc[u]
  PROVE  Cardinality(Creating') + Held(pc[t]) = Cardinality(Creating) + Held(pc'[t])
<1>1. IsFiniteSet(Creating) /\ Cardinality(Creating) \in Nat
  BY CountedFinite
<1>2. CASE pc[t] \in Measured <=> pc'[t] \in Measured
  <2>1. Creating' = Creating
    BY <1>2 DEF Creating
  <2> QED
    BY <1>1, <1>2, <2>1 DEF Held
<1>3. CASE pc[t] \notin Measured /\ pc'[t] \in Measured
  <2>1. Creating' = Creating \cup {t} /\ t \notin Creating
    BY <1>3 DEF Creating
  <2>2. Cardinality(Creating \cup {t}) = Cardinality(Creating) + 1
    BY <1>1, <2>1, FS_AddElement
  <2> QED
    BY <1>1, <1>3, <2>1, <2>2 DEF Held
<1>4. CASE pc[t] \in Measured /\ pc'[t] \notin Measured
  <2>1. Creating' = Creating \ {t} /\ t \in Creating
    BY <1>4 DEF Creating
  <2>2. Cardinality(Creating \ {t}) = Cardinality(Creating) - 1
    BY <1>1, <2>1, FS_RemoveElement
  <2> QED
    BY <1>1, <1>4, <2>1, <2>2 DEF Held
<1> QED
  BY <1>2, <1>3, <1>4

(* A step of one task keeps the counts. *)
LEMMA TaskStepCount ==
  ASSUME StressInv, NEW t \in Tasks, TaskStep(t), Types'
  PROVE  CountInv'
<1>1. \A u \in Tasks \ {t} : pc'[u] = pc[u]
  BY DEF TaskStep, SameTask
<1>2. Cardinality(Creating') + Held(pc[t]) = Cardinality(Creating) + Held(pc'[t])
  BY <1>1, CreatingMoves
<1>3. Cardinality(Creating) \in Nat /\ Cardinality(Creating') \in Nat
  <2>1. Creating' \in SUBSET Tasks
    BY DEF Creating
  <2> QED
    BY <2>1, CountedFinite, TasksAssumption, FS_Subset, FS_CardinalityType
<1>4. permits' = permits /\ permits \in Nat /\ count' = count
  BY PermitsNat DEF TaskStep, mainVars, permits, count, StressInv, Types
<1>5. semaphore \in Nat /\ semaphore' \in Nat /\ main' = main
  BY DEF StressInv, Types, TaskStep, mainVars
<1>6. /\ Held(pc[t]) \in 0 .. 1 /\ Held(pc'[t]) \in 0 .. 1
      /\ pc'[t] \notin Measured => Held(pc'[t]) = 0
  BY DEF Held
<1>7. main \in Early => semaphore' + Cardinality(Creating') = permits
  BY <1>2, <1>3, <1>4, <1>5, <1>6 DEF TaskStep, StressInv, CountInv
<1>8. main \notin Early => semaphore' + Cardinality(Creating') <= permits
  <2>1. main \notin Early => semaphore' = semaphore /\ Held(pc'[t]) <= Held(pc[t])
    BY <1>6 DEF TaskStep
  <2> QED
    BY <1>2, <1>3, <1>4, <1>5, <1>6, <2>1 DEF StressInv, CountInv
<1>9. main \in Early => Running' = Running /\ Succeeded' = Succeeded
  <2>1. SUFFICES ASSUME main \in Early
                 PROVE  Running' = Running /\ Succeeded' = Succeeded
    OBVIOUS
  <2>2. pc'[t] = "over" <=> pc[t] = "over"
    BY <2>1 DEF TaskStep, Early
  <2>3. pc[t] = "over" => res'[t] = res[t]
    BY DEF TaskStep
  <2>4. \A u \in Tasks : /\ pc'[u] = "over" <=> pc[u] = "over"
                         /\ pc[u] = "over" => res'[u] = res[u]
    BY <2>2, <2>3 DEF TaskStep, SameTask
  <2> QED
    BY <2>4 DEF Running, Succeeded
<1>10. UNCHANGED <<success, failed, incomplete>>
  BY DEF TaskStep, mainVars, counters
<1> QED
  BY <1>3, <1>4, <1>5, <1>7, <1>8, <1>9, <1>10 DEF StressInv, CountInv

(* A step of one task keeps what main relies on. *)
LEMMA TaskStepMain ==
  ASSUME StressInv, NEW t \in Tasks, TaskStep(t)
  PROVE  MainInv' /\ ProcInv'
<1>1. UNCHANGED <<main, held, outcome, proc>>
  BY DEF TaskStep, mainVars, counters
<1>2. ProcInv'
  BY <1>1 DEF StressInv, ProcInv
<1>3. outcome' = "ok" => \A u \in Tasks : res'[u] = "ok"
  <2>1. outcome = "ok" => main # "loop"
    BY DEF StressInv, MainInv, Early
  <2> QED
    BY <1>1, <2>1 DEF StressInv, MainInv, TaskStep, SameTask
<1>4. main \notin {"loop", "drain"} => \A u \in Tasks : pc'[u] = pc[u]
  BY DEF TaskStep, SameTask
<1>5. MainInv'
  BY <1>1, <1>3, <1>4 DEF StressInv, MainInv, Early, Late
<1> QED
  BY <1>2, <1>5

(* A step of one task keeps the invariant, if it keeps that of the task. *)
LEMMA TaskStepInv ==
  ASSUME StressInv, NEW t \in Tasks, TaskStep(t), Types', TaskInv(t)'
  PROVE  StressInv'
<1>1. \A u \in Tasks : TaskInv(u)'
  <2>1. ASSUME NEW u \in Tasks, u # t PROVE TaskInv(u)'
    <3>1. TaskInv(u) /\ SameTask(u) /\ cli' = cli
      BY <2>1 DEF StressInv, TaskStep, mainVars
    <3> QED
      BY <3>1, SameTaskInv DEF TaskStep
  <2> QED
    BY <2>1
<1> QED
  BY <1>1, TaskStepCount, TaskStepMain DEF StressInv
-----------------------------------------------------------------------------
(* StressTest: the steps of the tasks.                                     *)

(* Where a clean up begins: not with the task's part if that was done. *)
LEMMA DeleteBegins ==
  ASSUME NEW t \in Tasks
  PROVE  /\ Delete(t) \in Cleaning
         /\ Delete(t) \in {"kill", "delete_task"} => "task" \notin once[t]
         /\ Delete(t) = "unmount" => ~cli.containerd
         /\ Second \in Cleaning \ {"kill", "delete_task"}
         /\ Second = "unmount" => ~cli.containerd
BY DEF Delete, Second, Cleaning

(* The labels of the three phases of a future are different ones. *)
LEMMA LabelsDiffer ==
  /\ \A l \in Cleaning \cup {"done", "over"} : l \notin Before /\ l \notin Measured
  /\ \A l \in Cleaning : l # "over" /\ l # "create_container" /\ l # "wait"
  /\ Measured \subseteq Before /\ Setup \subseteq Before
  /\ \A l \in Before : l \notin Cleaning /\ l # "over" /\ l # "done" /\ l # "unmount"
BY DEF Before, Setup, Measured, Cleaning

(* A future that returns an error keeps the invariant. *)
LEMMA ErrorKeeps ==
  ASSUME StressInv, NEW t \in Tasks, InLoop, pc[t] \in Before, pc[t] \notin Setup, Error(t)
  PROVE  StressInv'
<1>1. /\ res' = [res EXCEPT ![t] = "err"]
      /\ dropping' = [dropping EXCEPT ![t] = TRUE]
      /\ pc' = [pc EXCEPT ![t] = Delete(t)]
      /\ semaphore' = semaphore + Held(pc[t])
      /\ UNCHANGED <<mainVars, start, once, container, task>>
  BY DEF Error, Return, Goto, Held, remote
<1>2. Types'
  BY <1>1, DeleteBegins DEF StressInv, Types, mainVars, counters, Held
<1>3. TaskStep(t)
  <2>1. pc'[t] = Delete(t) /\ Held(pc'[t]) = 0
    BY <1>1, DeleteBegins, LabelsDiffer DEF StressInv, Types, Held
  <2>2. semaphore \in Nat /\ Held(pc[t]) \in Nat
    BY DEF StressInv, Types, Held
  <2>3. main = "loop" /\ pc[t] # "over" /\ pc'[t] # "over"
    BY <2>1, DeleteBegins, LabelsDiffer DEF InLoop
  <2>4. \A u \in Tasks \ {t} : SameTask(u)
    BY <1>1 DEF StressInv, Types, SameTask
  <2> QED
    BY <1>1, <2>1, <2>2, <2>3, <2>4 DEF TaskStep, Early
<1>4. TaskInv(t)'
  <2>1. /\ pc'[t] = Delete(t) /\ res'[t] = "err" /\ dropping'[t]
        /\ UNCHANGED <<once[t], container[t], task[t], cli, start>>
    BY <1>1 DEF StressInv, Types, mainVars
  <2> QED
    BY <2>1, DeleteBegins, LabelsDiffer DEF StressInv, TaskInv
<1> QED
  BY <1>2, <1>3, <1>4, TaskStepInv

(* A step of Task::new keeps the invariant. *)
LEMMA SetupKeeps ==
  ASSUME StressInv, NEW t \in Tasks, image_config(t) \/ snapshot(t)
  PROVE  StressInv'
<1>1. /\ main = "loop" /\ pc[t] \in Setup
      /\ \/ \E l \in {"snapshot", "barrier"} : pc' = [pc EXCEPT ![t] = l] /\ res' = res
         \/ pc' = [pc EXCEPT ![t] = "done"] /\ res' = [res EXCEPT ![t] = "err"]
      /\ UNCHANGED <<mainVars, semaphore, start, dropping, once, container, task>>
  BY DEF image_config, snapshot, setup, Polled, InLoop, Goto, remote, Setup
<1>2. Types'
  BY <1>1 DEF StressInv, Types, mainVars, counters, Before, Setup
<1>3. TaskStep(t)
  <2>1. /\ Held(pc'[t]) = 0 /\ Held(pc[t]) = 0 /\ pc[t] # "over" /\ pc'[t] # "over"
    BY <1>1 DEF StressInv, Types, Held, Measured, Setup
  <2>2. \A u \in Tasks \ {t} : SameTask(u)
    BY <1>1 DEF StressInv, Types, SameTask
  <2> QED
    BY <1>1, <2>1, <2>2 DEF TaskStep, Early, StressInv, Types
<1>4. TaskInv(t)'
  BY <1>1 DEF StressInv, Types, TaskInv, mainVars, Before, Setup, Measured, Cleaning
<1> QED
  BY <1>2, <1>3, <1>4, TaskStepInv

(* A task that takes a permit keeps the invariant. *)
LEMMA AcquireKeeps ==
  ASSUME StressInv, NEW t \in Tasks, acquire(t)
  PROVE  StressInv'
<1> DEFINE l == IF cli.containerd THEN "create_container" ELSE "create_task"
<1>1. /\ main = "loop" /\ pc[t] = "acquire" /\ semaphore > 0
      /\ semaphore' = semaphore - 1 /\ start' = TRUE
      /\ pc' = [pc EXCEPT ![t] = l]
      /\ UNCHANGED <<mainVars, res, dropping, once, container, task>>
  BY DEF acquire, Polled, InLoop, Goto, remote
<1>2. l \in Measured /\ (l = "create_container" => cli.containerd)
  BY DEF Measured
<1> HIDE DEF l
<1>3. Types'
  BY <1>1, <1>2 DEF StressInv, Types, mainVars, counters, Before
<1>4. TaskStep(t)
  <2>1. Held(pc'[t]) = 1 /\ Held(pc[t]) = 0 /\ pc[t] # "over" /\ pc'[t] # "over"
    BY <1>1, <1>2 DEF StressInv, Types, Held, Measured
  <2>2. \A u \in Tasks \ {t} : SameTask(u)
    BY <1>1 DEF StressInv, Types, SameTask
  <2> QED
    BY <1>1, <2>1, <2>2 DEF TaskStep, Early, StressInv, Types
<1>5. TaskInv(t)'
  BY <1>1, <1>2 DEF StressInv, Types, TaskInv, mainVars, Before, Setup, Measured, Cleaning
<1> QED
  BY <1>3, <1>4, <1>5, TaskStepInv

(* The requests of the measured part keep the invariant. *)
LEMMA RequestKeeps ==
  ASSUME StressInv, NEW t \in Tasks,
         create_container(t) \/ create_task(t) \/ start_task(t)
  PROVE  StressInv'
<1>1. InLoop /\ main = "loop" /\ pc[t] \in Measured
  BY DEF create_container, create_task, start_task, Polled, InLoop, Measured
<1>2. CASE Error(t)
  BY <1>1, <1>2, ErrorKeeps DEF Before, Setup, Measured
<1>3. CASE ~Error(t)
  <2>1. /\ \/ /\ pc[t] = "create_container" /\ pc' = [pc EXCEPT ![t] = "create_task"]
              /\ container' = [container EXCEPT ![t] = TRUE]
              /\ UNCHANGED <<task, semaphore>>
           \/ /\ pc[t] = "create_task" /\ pc' = [pc EXCEPT ![t] = "start"]
              /\ task' = [task EXCEPT ![t] = "created"]
              /\ UNCHANGED <<container, semaphore>>
           \/ /\ pc[t] = "start" /\ pc' = [pc EXCEPT ![t] = "wait"]
              /\ task' = [task EXCEPT ![t] = "running"] /\ semaphore' = semaphore + 1
              /\ UNCHANGED container
        /\ UNCHANGED <<mainVars, start, res, dropping, once>>
    BY <1>3 DEF create_container, create_task, start_task, Polled, Goto
  <2>2. Types'
    <3>1. pc' \in [Tasks -> Before \cup Cleaning \cup {"done", "over"}]
      BY <2>1 DEF StressInv, Types, Before, Measured
    <3>2. /\ task' \in [Tasks -> {"none", "created", "running", "stopped", "deleted"}]
          /\ container' \in [Tasks -> BOOLEAN]
      BY <2>1 DEF StressInv, Types
    <3>3. semaphore' \in Nat
      BY <2>1 DEF StressInv, Types
    <3> QED
      BY <2>1, <3>1, <3>2, <3>3 DEF StressInv, Types, mainVars, counters
  <2>3. TaskStep(t)
    <3>1. semaphore' + Held(pc'[t]) = semaphore + Held(pc[t]) /\ pc[t] # "over" /\ pc'[t] # "over"
      BY <2>1 DEF StressInv, Types, Held, Measured
    <3>2. \A u \in Tasks \ {t} : SameTask(u)
      BY <2>1 DEF StressInv, Types, SameTask
    <3> QED
      BY <1>1, <2>1, <3>1, <3>2 DEF TaskStep, Early
  <2>4. TaskInv(t)'
    BY <2>1 DEF StressInv, Types, TaskInv, mainVars, Before, Setup, Measured, Cleaning
  <2> QED
    BY <2>2, <2>3, <2>4, TaskStepInv
<1> QED
  BY <1>2, <1>3

(* The end of a guest keeps the invariant. *)
LEMMA GuestExitKeeps ==
  ASSUME StressInv, NEW t \in Tasks, guest_exit(t)
  PROVE  StressInv'
<1>1. /\ task[t] = "running" /\ task' = [task EXCEPT ![t] = "stopped"]
      /\ UNCHANGED <<mainVars, semaphore, start, pc, res, dropping, once, container>>
  BY DEF guest_exit
<1>2. Types'
  BY <1>1 DEF StressInv, Types, mainVars, counters
<1>3. TaskStep(t)
  BY <1>1 DEF StressInv, Types, TaskStep, SameTask
<1>4. TaskInv(t)'
  BY <1>1 DEF StressInv, Types, TaskInv, mainVars
<1> QED
  BY <1>2, <1>3, <1>4, TaskStepInv

(* The wait for a guest keeps the invariant. *)
LEMMA WaitKeeps ==
  ASSUME StressInv, NEW t \in Tasks, wait_task(t) \/ wait_error(t)
  PROVE  StressInv'
<1>1. InLoop /\ main = "loop" /\ pc[t] = "wait"
  BY DEF wait_task, wait_error, Polled, InLoop
<1>2. CASE Error(t)
  BY <1>1, <1>2, ErrorKeeps DEF Before, Setup
<1>3. CASE ~Error(t)
  <2>1. /\ pc' = [pc EXCEPT ![t] = Delete(t)]
        /\ UNCHANGED <<mainVars, semaphore, start, res, dropping, once, container, task>>
    BY <1>3 DEF wait_task, wait_error, Goto, remote
  <2>2. Types'
    BY <2>1, DeleteBegins DEF StressInv, Types, mainVars, counters
  <2>3. TaskStep(t)
    <3>1. Held(pc'[t]) = 0 /\ Held(pc[t]) = 0 /\ pc'[t] # "over"
      BY <1>1, <2>1, DeleteBegins, LabelsDiffer DEF StressInv, Types, Held, Measured
    <3>2. \A u \in Tasks \ {t} : SameTask(u)
      BY <2>1 DEF StressInv, Types, SameTask
    <3> QED
      BY <1>1, <2>1, <3>1, <3>2 DEF TaskStep, Early
  <2>4. TaskInv(t)'
    <3>1. pc'[t] = Delete(t) /\ UNCHANGED <<res, dropping, once, container, task, cli, start>>
      BY <2>1 DEF StressInv, Types, mainVars
    <3>2. start
      BY <1>1 DEF StressInv, TaskInv
    <3> QED
      BY <3>1, <3>2, DeleteBegins, LabelsDiffer DEF StressInv, TaskInv
  <2> QED
    BY <2>2, <2>3, <2>4, TaskStepInv
<1> QED
  BY <1>2, <1>3

(* The kill and the deletion of a task keep the invariant. *)
LEMMA DeleteTaskKeeps ==
  ASSUME StressInv, NEW t \in Tasks, kill_task(t) \/ delete_task(t)
  PROVE  StressInv'
<1>1. PICK l \in {"delete_task", Second} :
        /\ pc' = [pc EXCEPT ![t] = l]
        /\ pc[t] \in {"kill", "delete_task"} /\ (dropping[t] \/ main = "loop")
        /\ \/ task' = task /\ once' = once
           \/ /\ task' = [task EXCEPT ![t] = "deleted"]
              /\ once' = [once EXCEPT ![t] = @ \cup {"task"}]
              /\ l = Second
        /\ UNCHANGED <<mainVars, semaphore, start, res, dropping, container>>
  BY DEF kill_task, delete_task, Clean, InLoop, Goto, remote
<1>2. /\ l \in Cleaning /\ (l = "unmount" => ~cli.containerd)
      /\ l \in {"kill", "delete_task"} => l # Second
      /\ l # "create_container"
  BY <1>1, DeleteBegins DEF Cleaning
<1>3. main \in {"loop", "drain"}
  BY <1>1 DEF StressInv, Types, MainInv, Early, Late
<1>4. Types'
  <2>1. pc' \in [Tasks -> Before \cup Cleaning \cup {"done", "over"}]
    BY <1>1, <1>2 DEF StressInv, Types
  <2>2. /\ task' \in [Tasks -> {"none", "created", "running", "stopped", "deleted"}]
        /\ once' \in [Tasks -> SUBSET {"task", "rest"}]
    BY <1>1 DEF StressInv, Types
  <2> QED
    BY <1>1, <2>1, <2>2 DEF StressInv, Types, mainVars, counters
<1>5. TaskStep(t)
  <2>1. /\ pc'[t] = l /\ Held(pc'[t]) = 0 /\ Held(pc[t]) = 0
        /\ pc[t] # "over" /\ pc'[t] # "over" /\ pc'[t] \notin Measured
    BY <1>1, <1>2, LabelsDiffer DEF StressInv, Types, Held, Measured
  <2>2. \A u \in Tasks \ {t} : SameTask(u)
    BY <1>1 DEF StressInv, Types, SameTask
  <2> QED
    BY <1>1, <1>3, <2>1, <2>2 DEF TaskStep
<1>6. TaskInv(t)'
  <2>1. pc'[t] = l /\ pc[t] \in Cleaning /\ "task" \notin once[t]
    BY <1>1 DEF StressInv, Types, TaskInv, Cleaning
  <2>2. UNCHANGED <<cli, start, res, dropping, container>>
    BY <1>1 DEF mainVars
  <2>3. CASE task' = task /\ once' = once
    BY <1>2, <2>1, <2>2, <2>3, LabelsDiffer DEF StressInv, TaskInv
  <2>4. CASE once' # once
    <3>1. task'[t] = "deleted" /\ once'[t] = once[t] \cup {"task"} /\ l = Second
      BY <1>1, <2>4 DEF StressInv, Types
    <3> QED
      BY <1>2, <2>1, <2>2, <3>1, LabelsDiffer DEF StressInv, TaskInv
  <2>5. CASE task' # task
    <3>1. task'[t] = "deleted" /\ once'[t] = once[t] \cup {"task"} /\ l = Second
      BY <1>1, <2>5 DEF StressInv, Types
    <3> QED
      BY <1>2, <2>1, <2>2, <3>1, LabelsDiffer DEF StressInv, TaskInv
  <2> QED
    BY <2>3, <2>4, <2>5
<1> QED
  BY <1>4, <1>5, <1>6, TaskStepInv

(* The second part of a clean up, and what follows it: the drop of the     *)
(* task, or its end.                                                       *)
LEMMA SecondKeeps ==
  ASSUME StressInv, NEW t \in Tasks, delete_container(t) \/ unmount_recursive(t)
  PROVE  StressInv'
<1>1. /\ pc[t] \in Cleaning /\ (dropping[t] \/ main = "loop")
      /\ UNCHANGED <<mainVars, semaphore, start, task>>
  BY DEF delete_container, unmount_recursive, Clean, InLoop, Cleaning, remote
<1>2. PICK done \in {once[t], once[t] \cup {"rest"}} :
        /\ Deleted(t, done)
        /\ \/ container' = container
           \/ container' = [container EXCEPT ![t] = FALSE]
        /\ "rest" \in done /\ "rest" \notin once[t] =>
             \/ container' = [container EXCEPT ![t] = FALSE]
             \/ container' = container /\ ~cli.containerd
  BY DEF delete_container, unmount_recursive, Clean, remote, StressInv, TaskInv
<1>3. done \subseteq {"task", "rest"} /\ once[t] \subseteq done
      /\ ("task" \in done <=> "task" \in once[t])
  BY <1>2 DEF StressInv, Types
<1>4. /\ once' = [once EXCEPT ![t] = done] /\ dropping' = [dropping EXCEPT ![t] = TRUE]
      /\ \/ /\ dropping[t] /\ res' = res
            /\ pc' = [pc EXCEPT ![t] = IF main = "loop" THEN "done" ELSE "over"]
         \/ /\ ~dropping[t] /\ pc' = [pc EXCEPT ![t] = Delete(t)]
            /\ res' = [res EXCEPT ![t] = IF done = {"task", "rest"} THEN "ok" ELSE "err"]
  BY <1>2 DEF Deleted, Goto
<1>5. main \in {"loop", "drain"}
  BY <1>1 DEF StressInv, Types, MainInv, Early, Late, Cleaning
<1>6. /\ pc'[t] \in Cleaning \cup {"done", "over"}
      /\ pc'[t] \in {"kill", "delete_task"} => "task" \notin once[t]
      /\ pc'[t] = "unmount" => ~cli.containerd
      /\ main = "loop" => pc'[t] # "over"
  BY <1>4, DeleteBegins, LabelsDiffer DEF StressInv, Types, Cleaning
<1>7. Types'
  <2>1. pc' \in [Tasks -> Before \cup Cleaning \cup {"done", "over"}]
    BY <1>4, DeleteBegins DEF StressInv, Types
  <2>2. res' \in [Tasks -> {"none", "ok", "err"}]
    BY <1>4 DEF StressInv, Types
  <2>3. once' \in [Tasks -> SUBSET {"task", "rest"}] /\ dropping' \in [Tasks -> BOOLEAN]
    BY <1>3, <1>4 DEF StressInv, Types
  <2>4. container' \in [Tasks -> BOOLEAN]
    BY <1>2 DEF StressInv, Types
  <2> QED
    BY <1>1, <2>1, <2>2, <2>3, <2>4 DEF StressInv, Types, mainVars, counters
<1>8. TaskStep(t)
  <2>1. /\ Held(pc'[t]) = 0 /\ Held(pc[t]) = 0 /\ pc[t] # "over" /\ pc'[t] \notin Measured
    BY <1>1, <1>6, LabelsDiffer DEF Held
  <2>2. \A u \in Tasks \ {t} : SameTask(u)
    BY <1>1, <1>2, <1>4 DEF StressInv, Types, SameTask
  <2>3. res'[t] = res[t] \/ main = "loop"
    BY <1>1, <1>4
  <2> QED
    BY <1>1, <1>5, <1>6, <2>1, <2>2, <2>3 DEF TaskStep
<1>9. TaskInv(t)'
  <2>1. UNCHANGED <<cli, start, task>>
    BY <1>1 DEF mainVars
  <2>2. once'[t] = done /\ dropping'[t]
    BY <1>4 DEF StressInv, Types
  <2>3. ("rest" \in done => ~container'[t]) /\ (container'[t] => cli.containerd)
    BY <1>2, <1>3 DEF StressInv, Types, TaskInv
  <2>4. res'[t] = "ok" => done = {"task", "rest"} /\ start
    <3>1. CASE dropping[t]
      <4>1. res'[t] = res[t]
        BY <1>4, <3>1
      <4> QED
        BY <1>3, <4>1 DEF StressInv, TaskInv
    <3>2. CASE ~dropping[t]
      <4>1. res'[t] = IF done = {"task", "rest"} THEN "ok" ELSE "err"
        BY <1>4, <3>2 DEF StressInv, Types
      <4> QED
        BY <1>1, <3>2, <4>1 DEF StressInv, TaskInv
    <3> QED
      BY <3>1, <3>2
  <2>5. pc'[t] \notin Before /\ pc'[t] \notin Measured \cup {"wait"}
        /\ pc'[t] # "create_container"
    BY <1>6, LabelsDiffer DEF Measured, Before
  <2> QED
    BY <1>3, <1>6, <2>1, <2>2, <2>3, <2>4, <2>5 DEF StressInv, TaskInv
<1> QED
  BY <1>7, <1>8, <1>9, TaskStepInv

(* The drop of a future that has not ended keeps the invariant. *)
LEMMA DropFutureKeeps ==
  ASSUME StressInv, NEW t \in Tasks, drop_future(t)
  PROVE  StressInv'
<1>1. /\ main = "drain" /\ pc[t] # "over"
      /\ \/ pc' = [pc EXCEPT ![t] = "over"] /\ dropping' = dropping
         \/ /\ pc' = [pc EXCEPT ![t] = Delete(t)]
            /\ dropping' = [dropping EXCEPT ![t] = TRUE]
      /\ UNCHANGED <<mainVars, semaphore, start, res, once, container, task>>
  BY DEF drop_future, Goto, remote
<1>2. /\ pc'[t] \in Cleaning \cup {"over"}
      /\ pc'[t] \in {"kill", "delete_task"} => "task" \notin once[t]
      /\ pc'[t] = "unmount" => ~cli.containerd
      /\ pc'[t] \in Cleaning => dropping'[t]
  BY <1>1, DeleteBegins, LabelsDiffer DEF StressInv, Types, Cleaning
<1>3. Types'
  <2>1. pc' \in [Tasks -> Before \cup Cleaning \cup {"done", "over"}]
    BY <1>1, DeleteBegins DEF StressInv, Types
  <2>2. dropping' \in [Tasks -> BOOLEAN]
    BY <1>1 DEF StressInv, Types
  <2> QED
    BY <1>1, <2>1, <2>2 DEF StressInv, Types, mainVars, counters
<1>4. TaskStep(t)
  <2>1. \A u \in Tasks \ {t} : SameTask(u)
    BY <1>1 DEF StressInv, Types, SameTask
  <2>2. pc'[t] \notin Measured
    BY <1>2, LabelsDiffer
  <2> QED
    BY <1>1, <2>1, <2>2 DEF TaskStep, Early
<1>5. TaskInv(t)'
  <2>1. UNCHANGED <<cli, start, res, once, container, task>>
    BY <1>1 DEF mainVars
  <2>2. pc'[t] \notin Before /\ pc'[t] \notin Measured \cup {"wait"}
        /\ pc'[t] # "create_container"
    BY <1>2, LabelsDiffer DEF Measured, Before
  <2> QED
    BY <1>2, <2>1, <2>2 DEF StressInv, TaskInv
<1> QED
  BY <1>3, <1>4, <1>5, TaskStepInv
-----------------------------------------------------------------------------
(* StressTest: the steps of main.                                          *)

(* A step that leaves the tasks alone keeps their invariants and counts. *)
LEMMA TasksAlone ==
  ASSUME StressInv, UNCHANGED tasksVars, UNCHANGED <<success, failed, incomplete>>,
         main' \in Early => main \in Early
  PROVE  (\A t \in Tasks : TaskInv(t)') /\ CountInv'
<1>1. UNCHANGED <<cli, semaphore, start, pc, res, dropping, once, container, task>>
  BY DEF tasksVars, remote
<1>2. \A t \in Tasks : TaskInv(t)'
  BY <1>1 DEF StressInv, TaskInv
<1>3. UNCHANGED <<permits, count, Creating, Running, Succeeded>>
  BY <1>1 DEF permits, count, Creating, Running, Succeeded
<1> QED
  BY <1>1, <1>2, <1>3 DEF StressInv, CountInv

(* The steps before the loop, and the drops after it. *)
LEMMA MainKeeps ==
  ASSUME StressInv, \/ start_shim \/ create_pause \/ drained
                    \/ drop_pause \/ drop_shim \/ drop_lease
  PROVE  StressInv'
<1>1. UNCHANGED mainRest
  BY DEF start_shim, create_pause, drained, drop_pause, drop_shim, drop_lease, drop
<1>2. UNCHANGED <<tasksVars, setup_done, success, failed, incomplete, outcome, proc, pc, res>>
  BY <1>1 DEF mainRest, counters, tasksVars
<1>3. main' \in Early \cup Late /\ held' \subseteq {"lease", "shim", "pause"}
  BY DEF StressInv, Types, start_shim, create_pause, drained, drop_pause, drop_shim, drop_lease,
         drop, Early, Late
<1>4. main' \in Early => main \in Early
  BY DEF start_shim, create_pause, drained, drop_pause, drop_shim, drop_lease, drop, Early
<1>5. Types'
  BY <1>2, <1>3 DEF StressInv, Types, tasksVars, remote
<1>6. MainInv'
  <2>1. /\ main' \in Early => outcome = "none"
        /\ outcome = "ok" => \A t \in Tasks : res[t] = "ok"
        /\ outcome = "panic" => Tasks = {}
    BY <1>4 DEF StressInv, MainInv
  <2>2. /\ main' # "start_shim" /\ (main' = "pause" => held' = {"lease", "shim"})
        /\ main' \in {"loop", "drain"} => held' = {"lease", "shim", "pause"}
    BY DEF StressInv, MainInv, start_shim, create_pause, drained, drop_pause, drop_shim,
           drop_lease, drop
  <2>3. /\ main' = "pause" => \A t \in Tasks : pc[t] = "image_config"
        /\ main' \in Late => \A t \in Tasks : pc[t] \in {"image_config", "over"}
    BY DEF StressInv, MainInv, start_shim, create_pause, drained, drop_pause, drop_shim,
           drop_lease, drop, Late
  <2> QED
    BY <1>2, <2>1, <2>2, <2>3 DEF MainInv
<1>7. ProcInv'
  <2>1. main' = "exit" => outcome = "panic"
    BY DEF start_shim, create_pause, drained, drop_pause, drop_shim, drop_lease, drop
  <2> QED
    BY <1>2, <2>1 DEF StressInv, ProcInv
<1> QED
  BY <1>2, <1>4, <1>5, <1>6, <1>7, TasksAlone DEF StressInv

(* The barrier keeps the invariant: no task is past it. *)
LEMMA BarrierKeeps ==
  ASSUME StressInv, barrier
  PROVE  StressInv'
<1>1. /\ main = "loop" /\ setup_done' = "released"
      /\ \A t \in Tasks : pc[t] = "barrier"
      /\ pc' = [t \in Tasks |-> "acquire"]
      /\ UNCHANGED <<cli, main, held, success, failed, incomplete, outcome, proc, semaphore,
                     start, res, dropping, once, container, task>>
  BY DEF barrier, InLoop, counters, remote
<1>2. Types'
  BY <1>1 DEF StressInv, Types, Before
<1>3. \A t \in Tasks : TaskInv(t)'
  BY <1>1 DEF StressInv, TaskInv, Before, Setup, Measured, Cleaning
<1>4. UNCHANGED <<permits, count, Creating, Running, Succeeded>>
  BY <1>1 DEF permits, count, Creating, Running, Succeeded, Measured
<1>5. CountInv'
  BY <1>1, <1>4 DEF StressInv, CountInv
<1>6. MainInv' /\ ProcInv'
  BY <1>1 DEF StressInv, MainInv, ProcInv, Early, Late
<1> QED
  BY <1>2, <1>3, <1>5, <1>6 DEF StressInv

(* Main's own turn at the barrier keeps the invariant. *)
LEMMA SetupPassedKeeps ==
  ASSUME StressInv, setup_passed
  PROVE  StressInv'
<1>1. /\ setup_done' = "done"
      /\ UNCHANGED <<main, held, success, failed, incomplete, outcome, proc, tasksVars, pc, res>>
  BY DEF setup_passed, counters, tasksVars
<1>2. Types'
  BY <1>1 DEF StressInv, Types, tasksVars, remote
<1>3. MainInv' /\ ProcInv'
  BY <1>1 DEF StressInv, MainInv, ProcInv
<1> QED
  BY <1>1, <1>2, <1>3, TasksAlone DEF StressInv

(* The end of the loop: a success counted every task, and each of them had *)
(* set the start of the measurement.                                       *)
LEMMA BreakKeeps ==
  ASSUME StressInv, main = "loop", Break
  PROVE  StressInv'
<1>1. /\ main' = "drain"
      /\ outcome' = CASE success # count -> "failed"
                      [] success = count /\ start -> "ok"
                      [] OTHER -> "panic"
      /\ UNCHANGED <<held, setup_done, success, failed, incomplete, proc, tasksVars, pc, res>>
  BY DEF Break, tasksVars
<1>2. success = count => \A t \in Tasks : res[t] = "ok"
  <2>1. SUFFICES ASSUME success = count PROVE \A t \in Tasks : res[t] = "ok"
    OBVIOUS
  <2>2. Cardinality(Tasks) = Cardinality(Succeeded)
    BY <2>1 DEF StressInv, CountInv, Early, count
  <2>3. Succeeded \in SUBSET Tasks
    BY DEF Succeeded
  <2>4. Tasks = Succeeded
    BY <2>2, <2>3, TasksAssumption, FS_Subset
  <2> QED
    BY <2>4 DEF Succeeded
<1>3. success = count /\ Tasks # {} => start
  BY <1>2 DEF StressInv, TaskInv
<1>4. outcome' \in {"failed", "ok", "panic"}
  BY <1>1
<1>5. (outcome' = "ok" => success = count) /\ (outcome' = "panic" => success = count /\ ~start)
  BY <1>1 DEF StressInv, Types
<1>6. Types'
  BY <1>1, <1>4 DEF StressInv, Types, tasksVars, remote
<1>7. MainInv'
  BY <1>1, <1>2, <1>3, <1>5 DEF StressInv, MainInv, Early, Late
<1>8. ProcInv'
  BY <1>1 DEF StressInv, ProcInv
<1>9. main' \in Early => main \in Early
  BY DEF Early
<1> QED
  BY <1>1, <1>6, <1>7, <1>8, <1>9, TasksAlone DEF StressInv

(* A result that main counts. *)
LEMMA NextResultKeeps ==
  ASSUME StressInv, NEW t \in Tasks, next_result(t)
  PROVE  StressInv'
<1>1. /\ main = "loop" /\ pc[t] = "done" /\ pc' = [pc EXCEPT ![t] = "over"]
      /\ incomplete' = incomplete - 1
      /\ \/ res[t] = "ok" /\ success' = success + 1 /\ failed' = failed
         \/ res[t] = "err" /\ failed' = failed + 1 /\ success' = success
      /\ UNCHANGED <<cli, main, held, setup_done, outcome, proc, semaphore, start, res, dropping,
                     once, container, task>>
  BY DEF next_result, Polled, InLoop, Goto, remote
<1>2. pc'[t] = "over" /\ \A u \in Tasks \ {t} : pc'[u] = pc[u]
  BY <1>1 DEF StressInv, Types
<1>3. Running' = Running \ {t} /\ t \in Running
  BY <1>1, <1>2 DEF Running
<1>4. /\ Cardinality(Running) \in Nat
      /\ Cardinality(Running') = Cardinality(Running) - 1
  BY <1>3, CountedFinite, FS_RemoveElement
<1>5. Cardinality(Succeeded') = Cardinality(Succeeded) + (IF res[t] = "ok" THEN 1 ELSE 0)
  <2>1. CASE res[t] = "ok"
    <3>1. Succeeded' = Succeeded \cup {t} /\ t \notin Succeeded
      BY <1>1, <1>2, <2>1 DEF Succeeded
    <3> QED
      BY <2>1, <3>1, CountedFinite, FS_AddElement
  <2>2. CASE res[t] # "ok"
    <3>1. Succeeded' = Succeeded
      BY <1>1, <1>2, <2>2 DEF Succeeded
    <3> QED
      BY <2>2, <3>1, CountedFinite
  <2> QED
    BY <2>1, <2>2
<1>6. Creating' = Creating
  BY <1>1, <1>2 DEF Creating, Measured
<1>7. incomplete = Cardinality(Running) /\ success = Cardinality(Succeeded)
  BY <1>1 DEF StressInv, CountInv, Early
<1>8. Cardinality(Running) # 0
  BY <1>3, CountedFinite, FS_EmptySet
<1>9. success' \in Nat /\ failed' \in Nat /\ incomplete' \in Nat
  BY <1>1, <1>4, <1>7, <1>8 DEF StressInv, Types
<1>10. Types'
  BY <1>1, <1>9 DEF StressInv, Types
<1>11. \A u \in Tasks : TaskInv(u)'
  <2>1. ASSUME NEW u \in Tasks, u # t PROVE TaskInv(u)'
    BY <1>1, <1>2, <2>1, SameTaskInv DEF StressInv, SameTask
  <2>2. TaskInv(t)'
    BY <1>1, <1>2 DEF StressInv, TaskInv, Before, Setup, Measured, Cleaning
  <2> QED
    BY <2>1, <2>2
<1>12. CountInv'
  <2>1. permits' = permits /\ count' = count /\ count \in Nat
    BY <1>1, CountedFinite DEF permits, count
  <2>2. success' = success + (IF res[t] = "ok" THEN 1 ELSE 0)
    BY <1>1 DEF StressInv, Types
  <2>3. success' + failed' + incomplete' = count
    BY <1>1, <2>1 DEF StressInv, CountInv, Types
  <2>4. incomplete' = Cardinality(Running') /\ success' = Cardinality(Succeeded')
    BY <1>1, <1>4, <1>5, <1>7, <2>2
  <2> QED
    BY <1>1, <1>6, <2>1, <2>3, <2>4 DEF StressInv, CountInv
<1>13. MainInv' /\ ProcInv'
  BY <1>1 DEF StressInv, MainInv, ProcInv, Early, Late
<1> QED
  BY <1>10, <1>11, <1>12, <1>13 DEF StressInv

(* The reaping keeps a live parent for each process that is not a child. *)
LEMMA ReapKeeps ==
  ASSUME StressInv, reap_children
  PROVE  StressInv'
<1>1. /\ main = "reap" /\ main' \in {"reap", "exit"}
      /\ UNCHANGED <<held, setup_done, success, failed, incomplete, outcome, tasksVars, pc, res>>
  BY DEF reap_children, counters, tasksVars
<1>2. proc' \in [Procs -> {"child", "grandchild", "zombie", "gone"}]
  BY DEF reap_children, StressInv, Types
<1>3. Types'
  BY <1>1, <1>2 DEF StressInv, Types, Late, tasksVars, remote
<1>4. MainInv'
  BY <1>1 DEF StressInv, MainInv, Early, Late
<1>5. ASSUME NEW p \in Procs, proc'[p] = "grandchild"
      PROVE  \E q \in Procs : p \in Kids[q] /\ proc'[q] \in {"child", "grandchild"}
  <2>1. CASE proc' = proc
    BY <1>5, <2>1 DEF StressInv, ProcInv
  <2>2. ASSUME NEW r \in Procs, proc[r] = "child",
               proc' = [q \in Procs |-> IF q = r THEN "zombie"
                                        ELSE IF q \in Kids[r] THEN "child" ELSE proc[q]]
        PROVE  \E q \in Procs : p \in Kids[q] /\ proc'[q] \in {"child", "grandchild"}
    <3>1. p # r /\ p \notin Kids[r] /\ proc[p] = "grandchild"
      BY <1>5, <2>2
    <3>2. PICK q \in Procs : p \in Kids[q] /\ proc[q] \in {"child", "grandchild"}
      BY <3>1 DEF StressInv, ProcInv
    <3>3. q # r /\ proc'[q] \in {"child", "grandchild"}
      BY <2>2, <3>1, <3>2
    <3> QED
      BY <3>2, <3>3
  <2>3. ASSUME NEW r \in Procs, proc[r] = "zombie", proc' = [proc EXCEPT ![r] = "gone"]
        PROVE  \E q \in Procs : p \in Kids[q] /\ proc'[q] \in {"child", "grandchild"}
    <3>1. proc[p] = "grandchild"
      BY <1>5, <2>3 DEF StressInv, Types
    <3>2. PICK q \in Procs : p \in Kids[q] /\ proc[q] \in {"child", "grandchild"}
      BY <3>1 DEF StressInv, ProcInv
    <3>3. proc'[q] = proc[q]
      BY <2>3, <3>2 DEF StressInv, Types
    <3> QED
      BY <3>2, <3>3
  <2> QED
    BY <2>1, <2>2, <2>3 DEF reap_children
<1>6. main' = "exit" => \A p \in Procs : proc'[p] \notin {"child", "zombie"}
  BY <1>1 DEF reap_children
<1>7. ProcInv'
  BY <1>5, <1>6 DEF ProcInv
<1>8. main' \in Early => main \in Early
  BY <1>1 DEF Early
<1> QED
  BY <1>1, <1>3, <1>4, <1>7, <1>8, TasksAlone DEF StressInv
-----------------------------------------------------------------------------
(* StressTest: the theorems.                                               *)

(* The test begins with the invariant. *)
LEMMA StressInit == Init => StressInv
<1> SUFFICES ASSUME Init PROVE StressInv
  OBVIOUS
<1>2. permits \in Nat /\ count \in Nat
  BY PermitsNat, CountedFinite DEF Init
<1>3. Types
  <2>1. cli \in Clis /\ main \in Early /\ held \subseteq {"lease", "shim", "pause"}
        /\ setup_done = "waiting" /\ semaphore \in Nat /\ start = FALSE
        /\ success = 0 /\ failed = 0 /\ incomplete \in Nat /\ outcome = "none"
    BY <1>2 DEF Init, Early
  <2>2. /\ pc \in [Tasks -> Before \cup Cleaning \cup {"done", "over"}]
        /\ res \in [Tasks -> {"none", "ok", "err"}]
        /\ dropping \in [Tasks -> BOOLEAN]
        /\ once \in [Tasks -> SUBSET {"task", "rest"}]
        /\ container \in [Tasks -> BOOLEAN]
        /\ task \in [Tasks -> {"none", "created", "running", "stopped", "deleted"}]
    BY DEF Init, Before, Setup
  <2>3. proc \in [Procs -> {"child", "grandchild", "zombie", "gone"}]
    BY DEF Init
  <2> QED
    BY <2>1, <2>2, <2>3 DEF Types
<1>4. \A t \in Tasks : TaskInv(t)
  BY DEF Init, TaskInv, Before, Setup, Measured, Cleaning
<1>5. CountInv
  <2>1. Creating = {} /\ Running = Tasks /\ Succeeded = {}
    BY DEF Init, Creating, Running, Succeeded, Measured
  <2>2. Cardinality({}) = 0
    BY FS_EmptySet
  <2> QED
    BY <1>2, <2>1, <2>2 DEF Init, CountInv, count
<1>6. MainInv
  BY DEF Init, MainInv, Early, Late
<1>7. ProcInv
  <2>1. ASSUME NEW p \in Procs, proc[p] = "grandchild"
        PROVE  \E q \in Procs : p \in Kids[q] /\ proc[q] \in {"child", "grandchild"}
    BY <2>1 DEF Init
  <2>2. main # "exit"
    BY DEF Init
  <2> QED
    BY <2>1, <2>2 DEF ProcInv
<1> QED
  BY <1>3, <1>4, <1>5, <1>6, <1>7 DEF StressInv

(* Every step keeps the invariant. *)
LEMMA StressNext == StressInv /\ [Next]_vars => StressInv'
<1> SUFFICES ASSUME StressInv, [Next]_vars PROVE StressInv'
  OBVIOUS
<1>2. CASE UNCHANGED vars
  <2>1. /\ UNCHANGED <<main, held, setup_done, success, failed, incomplete, outcome, proc>>
        /\ UNCHANGED tasksVars /\ UNCHANGED <<pc, res>>
    BY <1>2 DEF vars, mainVars, tasksVars, counters
  <2>2. Types'
    BY <2>1 DEF StressInv, Types, tasksVars, remote
  <2>3. MainInv' /\ ProcInv'
    BY <2>1 DEF StressInv, MainInv, ProcInv
  <2> QED
    BY <2>1, <2>2, <2>3, TasksAlone DEF StressInv
<1>3. CASE run
  <2>1. CASE start_shim \/ create_pause \/ drained \/ drop_pause \/ drop_shim \/ drop_lease
    BY <2>1, MainKeeps
  <2>2. CASE barrier
    BY <2>2, BarrierKeeps
  <2>3. CASE setup_passed
    BY <2>3, SetupPassedKeeps
  <2>4. CASE no_more
    BY <2>4, BreakKeeps DEF no_more, InLoop
  <2>5. CASE reap_children
    BY <2>5, ReapKeeps
  <2>6. ASSUME NEW t \in Tasks, next_result(t) \/ drop_future(t) PROVE StressInv'
    BY <2>6, NextResultKeeps, DropFutureKeeps
  <2> QED
    BY <1>3, <2>1, <2>2, <2>3, <2>4, <2>5, <2>6 DEF run
<1>4. CASE watchdog \/ ctrl_c
  BY <1>4, BreakKeeps DEF watchdog, ctrl_c, InLoop
<1>5. ASSUME NEW t \in Tasks, future(t) \/ wait_error(t) \/ guest_exit(t) PROVE StressInv'
  BY <1>5, SetupKeeps, AcquireKeeps, RequestKeeps, WaitKeeps, DeleteTaskKeeps, SecondKeeps,
     GuestExitKeeps DEF future
<1> QED
  BY <1>2, <1>3, <1>4, <1>5 DEF Next

(* The inductive invariant holds in every state of the stress test. *)
THEOREM StressInvariance == Spec => []StressInv
BY StressInit, StressNext, PTL DEF Spec

(***************************************************************************)
(* The state of the stress test has its type, for any number of tasks and  *)
(* any command line: the semaphore never has more permits than it was made *)
(* with, and the three counters always add up (run_stress_test).           *)
(***************************************************************************)
THEOREM StressTypeOK == Spec => []TypeOK
<1>1. StressInv => TypeOK
  <2> SUFFICES ASSUME StressInv PROVE TypeOK
    OBVIOUS
  <2>2. semaphore \in 0 .. permits
    <3>1. Cardinality(Creating) \in Nat /\ permits \in Nat
      BY CountedFinite, PermitsNat DEF StressInv, Types
    <3> QED
      BY <3>1 DEF StressInv, Types, CountInv
  <2>3. main \in {"start_shim", "pause", "loop", "drain", "drop_pause",
                  "drop_shim", "drop_lease", "reap", "exit"}
    BY DEF StressInv, Types, Early, Late
  <2>4. pc \in [Tasks -> {"barrier", "acquire", "wait", "done", "over"}
                         \cup Setup \cup Measured \cup Cleaning]
    BY DEF StressInv, Types, Before
  <2> QED
    BY <2>2, <2>3, <2>4 DEF StressInv, Types, CountInv, TypeOK
<1> QED
  BY <1>1, StressInvariance, PTL

(***************************************************************************)
(* A process that is left when main has reaped would have a parent that is *)
(* left: since no process is its own ancestor, there is none.              *)
(***************************************************************************)
LEMMA NoneLeft ==
  ASSUME StressInv
  PROVE  NoOrphans
<1>1. SUFFICES ASSUME main = "exit", outcome # "panic"
               PROVE  \A p \in Procs : proc[p] = "gone"
  BY DEF NoOrphans
<1> DEFINE S == {p \in Procs : proc[p] = "grandchild"}
<1>2. \A p \in Procs : proc[p] \in {"grandchild", "gone"}
  BY <1>1 DEF StressInv, Types, ProcInv
<1>3. ASSUME NEW p \in S PROVE \E q \in S : p \in Kids[q]
  BY <1>2, <1>3 DEF StressInv, ProcInv
<1>4. S = {}
  BY <1>3, KidsAssumption
<1> QED
  BY <1>2, <1>4

(***************************************************************************)
(* The stress test is correct for any number of tasks, any limit and both  *)
(* backends, whatever fails and whenever it is interrupted: permits, the   *)
(* counts, one deletion for each task, the lifetimes of the shim and of    *)
(* the lease, and the reaping (run_stress_test, Task::delete, its Drop,    *)
(* reap_children).                                                         *)
(***************************************************************************)
THEOREM StressTestIsCorrect == Spec => []StressTestCorrect
<1>1. StressInv => StressTestCorrect
  <2> SUFFICES ASSUME StressInv PROVE StressTestCorrect
    OBVIOUS
  <2>2. ParallelBound
    <3>1. Cardinality(Creating) \in Nat /\ permits \in Nat /\ semaphore \in Nat
      BY CountedFinite, PermitsNat DEF StressInv, Types
    <3>2. Cardinality(Creating) <= permits
          /\ (main = "loop" => semaphore + Cardinality(Creating) = permits)
      BY <3>1 DEF StressInv, CountInv, Early
    <3> QED
      BY <3>2 DEF ParallelBound, Creating
  <2>3. SuccessIsClean
    <3>1. outcome = "ok" => \A t \in Tasks : task[t] = "deleted" /\ ~container[t]
      BY DEF StressInv, MainInv, TaskInv
    <3>2. outcome = "panic" => count = 0
      BY FS_EmptySet DEF StressInv, MainInv, count
    <3> QED
      BY <3>1, <3>2 DEF SuccessIsClean
  <2>4. DeletedOnce
    BY DEF StressInv, TaskInv, DeletedOnce
  <2>5. ShimOutlivesTasks
    BY DEF StressInv, Types, MainInv, ShimOutlivesTasks, Early
  <2> QED
    BY <2>2, <2>3, <2>4, <2>5, NoneLeft DEF StressTestCorrect
<1> QED
  BY <1>1, StressInvariance, PTL
-----------------------------------------------------------------------------
(* TestHarness: the tests of the engines.                                  *)

CONSTANTS Tests, CtrFails, ListFails, GuestsEnd
VARIABLES
  images, content, containers, test, round, test_pc, file, instance, code,
  guards, panics, verdict

Harness == INSTANCE TestHarness WITH pc <- test_pc

(* Every test runs at least one container. *)
SuiteAssumption == Tests \in Seq(Seq(Harness!Uses) \ {<<>>}) /\ Tests # <<>>

(* The containers of a test have different names. *)
NamesAssumption ==
  \A i \in DOMAIN Tests : \A j, k \in DOMAIN Tests[i] :
    Tests[i][j].container = Tests[i][k].container => j = k

Preparing == {"exists", "import", "remove_file", "create_container"}
Executing == {"build", "start", "wait"}
Dropped == {"drop", "clean_image", "removal"}

(* The image and the container of the round at hand. *)
RoundInv ==
  /\ test_pc \in {"remove_file", "create_container"} \cup Executing =>
       Harness!Use.image \in images
  /\ test_pc \in Executing => Harness!Use.container \in containers

(* The guards are those of the first rounds of the test. *)
GuardInv ==
  /\ test_pc \in {"new", "end", "abort"} \cup Preparing \cup Executing \cup Dropped
  /\ guards \in Seq(Harness!Uses)
  /\ test \in 1 .. Len(Tests) + 1 /\ round \in Nat \ {0}
  /\ test_pc = "end" => guards = <<>>
  /\ test_pc # "end" =>
       /\ test \in 1 .. Len(Tests)
       /\ round \in 1 .. Len(Tests[test])
       /\ Len(guards) <= round
       /\ \A j \in 1 .. Len(guards) : guards[j] = Tests[test][j]
  /\ test_pc \in {"new"} \cup Preparing => Len(guards) = round - 1
  /\ test_pc \in Executing => Len(guards) = round
  /\ test_pc \in {"clean_image", "removal"} => Len(guards) > 0
  /\ test_pc \in Preparing \cup Executing => verdict = "none"
  /\ test_pc = "new" /\ round > 1 => verdict = "none"

(* What the drop of the guards of a test that passed has removed. *)
PassInv ==
  verdict = "ok" /\ test_pc \in Dropped =>
    /\ \A j \in Len(guards) + 1 .. Len(Tests[test]) :
         Tests[test][j].image \notin images /\ Tests[test][j].container \notin containers
    /\ test_pc # "drop" => Tests[test][Len(guards)].container \notin containers
    /\ test_pc = "removal" => Tests[test][Len(guards)].image \notin images

(* The guards that still have their containers, if the commands work. *)
Guarding == IF test_pc \in {"clean_image", "removal"} THEN Len(guards) - 1 ELSE Len(guards)
QuietInv ==
  /\ \A j \in 1 .. Guarding : guards[j].container \in containers
  /\ \A c \in containers : \E j \in 1 .. Guarding : guards[j].container = c
  /\ instance = "running" => test_pc = "wait" /\ code = "none"
  /\ test_pc \in Preparing \cup {"build", "start"} => code = "none"
  /\ verdict = "failed" => code # "expected"
-----------------------------------------------------------------------------
(* TestHarness: the lifetime of the image and of the container.            *)

(* Only the clean up, which comes after the rounds, removes them. *)
LEMMA RoundNext == RoundInv /\ [Harness!Next]_Harness!vars => RoundInv'
<1> SUFFICES ASSUME RoundInv, [Harness!Next]_Harness!vars PROVE RoundInv'
  OBVIOUS
<1> USE DEF Executing
<1>1. CASE Harness!new
  BY <1>1 DEF Harness!new, Harness!Goto, Harness!ctr, Harness!Use, RoundInv
<1>2. CASE Harness!image_exists
  BY <1>2 DEF Harness!image_exists, Harness!Goto, Harness!ctr, Harness!Use, RoundInv
<1>3. CASE Harness!import_image
  BY <1>3 DEF Harness!import_image, Harness!Goto, Harness!Bail, Harness!ctr, Harness!Use, RoundInv
<1>4. CASE Harness!remove_file
  BY <1>4 DEF Harness!remove_file, Harness!Goto, Harness!ctr, Harness!Use, RoundInv
<1>5. CASE Harness!create_container
  BY <1>5 DEF Harness!create_container, Harness!Goto, Harness!Bail, Harness!ctr, Harness!Use, RoundInv
<1>6. CASE Harness!build
  BY <1>6 DEF Harness!build, Harness!Goto, Harness!Bail, Harness!ctr, Harness!Use, RoundInv
<1>7. CASE Harness!start
  BY <1>7 DEF Harness!start, Harness!Goto, Harness!Bail, Harness!ctr, Harness!Use, RoundInv
<1>8. CASE Harness!wait
  BY <1>8 DEF Harness!wait, Harness!Goto, Harness!Bail, Harness!ctr, Harness!Use, RoundInv
<1>9. CASE Harness!clean_container
  BY <1>9 DEF Harness!clean_container, Harness!Goto, Harness!Panic, Harness!Pop,
       Harness!Last, Harness!ctr, Harness!Use, RoundInv
<1>10. CASE Harness!clean_image
  BY <1>10 DEF Harness!clean_image, Harness!Goto, Harness!Panic, Harness!Pop,
       Harness!Last, Harness!ctr, Harness!Use, RoundInv
<1>11. CASE Harness!wait_for_content_removal
  BY <1>11 DEF Harness!wait_for_content_removal, Harness!Goto, Harness!Pop,
       Harness!ctr, Harness!Use, RoundInv
<1>12. CASE Harness!next_test
  BY <1>12 DEF Harness!next_test, Harness!Goto, Harness!ctr, Harness!Use, RoundInv
<1>13. CASE Harness!guest_exit
  BY <1>13 DEF Harness!guest_exit, Harness!Goto, Harness!ctr, Harness!Use, RoundInv
<1>14. CASE Harness!collect
  BY <1>14 DEF Harness!collect, Harness!Goto, Harness!ctr, Harness!Use, RoundInv
<1>15. CASE UNCHANGED Harness!vars
  BY <1>15 DEF Harness!vars, Harness!ctr, Harness!Use, RoundInv
<1> QED
  BY <1>1, <1>2, <1>3, <1>4, <1>5, <1>6, <1>7, <1>8, <1>9, <1>10, <1>11, <1>12,
     <1>13, <1>14, <1>15 DEF Harness!Next, Harness!harness

(* The image and the container of a round are there while it runs, for     *)
(* every suite of tests and whatever commands fail (OCICleanup).           *)
THEOREM HarnessImageOutlivesRun == Harness!Spec => []Harness!ImageOutlivesRun
<1>1. Harness!Init => RoundInv
  BY DEF Harness!Init, RoundInv, Executing
<1>2. RoundInv => Harness!ImageOutlivesRun
  BY DEF RoundInv, Executing, Harness!ImageOutlivesRun
<1> QED
  BY <1>1, <1>2, RoundNext, PTL DEF Harness!Spec
-----------------------------------------------------------------------------
(* TestHarness: the guards.                                                *)

(* A test of the suite is a sequence of at least one container. *)
LEMMA SuiteFacts ==
  ASSUME SuiteAssumption
  PROVE  /\ Len(Tests) \in Nat \ {0}
         /\ \A i \in 1 .. Len(Tests) :
              /\ Tests[i] \in Seq(Harness!Uses) /\ Len(Tests[i]) \in Nat \ {0}
              /\ DOMAIN Tests[i] = 1 .. Len(Tests[i])
              /\ \A j \in 1 .. Len(Tests[i]) : Tests[i][j] \in Harness!Uses
<1>1. Tests \in Seq(Seq(Harness!Uses) \ {<<>>}) /\ Tests # <<>>
  BY DEF SuiteAssumption
<1>2. Len(Tests) \in Nat \ {0}
  BY <1>1
<1>3. ASSUME NEW i \in 1 .. Len(Tests)
      PROVE  /\ Tests[i] \in Seq(Harness!Uses) /\ Len(Tests[i]) \in Nat \ {0}
             /\ DOMAIN Tests[i] = 1 .. Len(Tests[i])
             /\ \A j \in 1 .. Len(Tests[i]) : Tests[i][j] \in Harness!Uses
  <2>1. Tests[i] \in Seq(Harness!Uses) /\ Tests[i] # <<>>
    BY <1>1, <1>3
  <2> QED
    BY <2>1
<1> QED
  BY <1>2, <1>3

(* The drop of the last guard leaves the others. *)
LEMMA PopFacts ==
  ASSUME guards \in Seq(Harness!Uses), Len(guards) > 0, Harness!Pop
  PROVE  /\ guards' \in Seq(Harness!Uses) /\ Len(guards') = Len(guards) - 1
         /\ \A j \in 1 .. Len(guards) - 1 : guards'[j] = guards[j]
<1>1. Len(guards) \in Nat /\ \A j \in 1 .. Len(guards) : guards[j] \in Harness!Uses
  OBVIOUS
<1> DEFINE n == Len(guards) - 1
<1>2. n \in Nat /\ \A j \in 1 .. n : guards[j] \in Harness!Uses
  BY <1>1
<1>3. guards' = SubSeq(guards, 1, n)
  BY DEF Harness!Pop
<1> HIDE DEF n
<1>4. /\ SubSeq(guards, 1, n) \in Seq(Harness!Uses)
      /\ Len(SubSeq(guards, 1, n)) = IF 1 <= n THEN n - 1 + 1 ELSE 0
      /\ \A j \in 1 .. n - 1 + 1 : SubSeq(guards, 1, n)[j] = guards[1 + j - 1]
  BY <1>2, SubSeqProperties
<1>5. Len(guards') = n /\ \A j \in 1 .. n : guards'[j] = guards[j]
  BY <1>2, <1>3, <1>4
<1> QED
  BY <1>3, <1>4, <1>5 DEF n

(* A guard is made after the ones that are there. *)
LEMMA AppendFacts ==
  ASSUME guards \in Seq(Harness!Uses), NEW u \in Harness!Uses, guards' = Append(guards, u)
  PROVE  /\ guards' \in Seq(Harness!Uses) /\ Len(guards') = Len(guards) + 1
         /\ \A j \in 1 .. Len(guards) : guards'[j] = guards[j]
         /\ guards'[Len(guards) + 1] = u
OBVIOUS

(* The drop of a guard keeps that. *)
LEMMA PopKeeps ==
  ASSUME SuiteAssumption, GuardInv, Len(guards) > 0, test_pc # "end", Harness!Pop,
         test_pc \in Dropped, test_pc' \in {"drop", "abort"}, UNCHANGED <<test, round>>
  PROVE  GuardInv'
<1>1. /\ guards' \in Seq(Harness!Uses) /\ Len(guards') = Len(guards) - 1
      /\ \A j \in 1 .. Len(guards) - 1 : guards'[j] = guards[j]
  BY PopFacts DEF GuardInv
<1>2. Len(guards) \in Nat /\ Len(guards) <= round /\ round \in Nat
  BY DEF GuardInv
<1> QED
  BY <1>1, <1>2 DEF GuardInv, Preparing, Executing, Dropped

(* The guards are those of the rounds that made their container. *)
LEMMA GuardNext ==
  SuiteAssumption /\ GuardInv /\ [Harness!Next]_Harness!vars => GuardInv'
<1> SUFFICES ASSUME SuiteAssumption, GuardInv, [Harness!Next]_Harness!vars PROVE GuardInv'
  OBVIOUS
<1> USE DEF Preparing, Executing, Dropped
<1>1. CASE Harness!new
  BY <1>1 DEF Harness!new, Harness!Goto, Harness!ctr, GuardInv
<1>2. CASE Harness!image_exists
  BY <1>2 DEF Harness!image_exists, Harness!Goto, Harness!ctr, GuardInv
<1>3. CASE Harness!import_image
  BY <1>3 DEF Harness!import_image, Harness!Goto, Harness!Bail, Harness!ctr, GuardInv
<1>4. CASE Harness!remove_file
  BY <1>4 DEF Harness!remove_file, Harness!Goto, Harness!ctr, GuardInv
<1>5. CASE Harness!create_container
  <2>1. CASE Harness!Bail
    BY <1>5, <2>1 DEF Harness!create_container, Harness!Bail, Harness!Goto, Harness!ctr, GuardInv
  <2>2. CASE ~Harness!Bail
    <3>1. /\ test_pc = "create_container" /\ test_pc' = "build"
          /\ guards' = Append(guards, Harness!Use)
          /\ UNCHANGED <<test, round, verdict>>
      BY <1>5, <2>2 DEF Harness!create_container, Harness!Goto
    <3>2. Harness!Use = Tests[test][round] /\ Harness!Use \in Harness!Uses
          /\ test \in 1 .. Len(Tests) /\ round \in 1 .. Len(Tests[test])
      BY <3>1, SuiteFacts DEF GuardInv, Harness!Use
    <3>3. guards \in Seq(Harness!Uses) /\ Len(guards) = round - 1
      BY <3>1 DEF GuardInv
    <3>4. /\ guards' \in Seq(Harness!Uses) /\ Len(guards') = round
          /\ \A j \in 1 .. round - 1 : guards'[j] = guards[j]
          /\ guards'[round] = Harness!Use
      BY <3>1, <3>2, <3>3, AppendFacts
    <3>5. \A j \in 1 .. round : guards'[j] = Tests[test][j]
      BY <3>1, <3>2, <3>3, <3>4 DEF GuardInv
    <3> QED
      BY <3>1, <3>2, <3>4, <3>5 DEF GuardInv
  <2> QED
    BY <2>1, <2>2
<1>6. CASE Harness!build
  BY <1>6 DEF Harness!build, Harness!Goto, Harness!Bail, Harness!ctr, GuardInv
<1>7. CASE Harness!start
  BY <1>7 DEF Harness!start, Harness!Goto, Harness!Bail, Harness!ctr, GuardInv
<1>8. CASE Harness!wait
  <2>1. /\ test_pc = "wait" /\ UNCHANGED <<test, guards>>
        /\ \/ /\ test_pc' = "new" /\ round' = round + 1 /\ round < Len(Tests[test])
              /\ verdict' = verdict
           \/ test_pc' = "drop" /\ round' = round
    BY <1>8 DEF Harness!wait, Harness!Bail, Harness!Goto, Harness!ctr
  <2>2. test \in 1 .. Len(Tests) /\ Len(Tests[test]) \in Nat
    BY <2>1, SuiteFacts DEF GuardInv
  <2>3. guards \in Seq(Harness!Uses) /\ Len(guards) = round /\ round \in 1 .. Len(Tests[test])
    BY <2>1 DEF GuardInv
  <2>4. CASE test_pc' = "new"
    BY <2>1, <2>2, <2>3, <2>4 DEF GuardInv
  <2>5. CASE test_pc' = "drop"
    BY <2>1, <2>2, <2>3, <2>5 DEF GuardInv
  <2> QED
    BY <2>1, <2>4, <2>5
<1>9. CASE Harness!clean_container
  <2>1. test_pc = "drop" /\ guards # <<>> /\ guards \in Seq(Harness!Uses) /\ Len(guards) > 0
    BY <1>9 DEF Harness!clean_container, GuardInv
  <2>2. CASE Harness!Panic
    BY <2>1, <2>2, PopKeeps DEF Harness!Panic, Harness!Goto
  <2>3. CASE ~Harness!Panic
    BY <1>9, <2>1, <2>3 DEF Harness!clean_container, Harness!Goto, GuardInv
  <2> QED
    BY <2>2, <2>3
<1>10. CASE Harness!clean_image
  <2>1. test_pc = "clean_image" /\ guards \in Seq(Harness!Uses) /\ Len(guards) > 0
    BY <1>10 DEF Harness!clean_image, GuardInv
  <2>2. \/ Harness!Pop /\ test_pc' \in {"drop", "abort"} /\ UNCHANGED <<test, round>>
        \/ test_pc' = "removal" /\ UNCHANGED <<test, round, guards, verdict>>
    BY <1>10 DEF Harness!clean_image, Harness!Panic, Harness!Goto
  <2>3. CASE Harness!Pop /\ test_pc' \in {"drop", "abort"} /\ UNCHANGED <<test, round>>
    BY <2>1, <2>3, PopKeeps
  <2>4. CASE test_pc' = "removal" /\ UNCHANGED <<test, round, guards, verdict>>
    BY <2>1, <2>4 DEF GuardInv
  <2> QED
    BY <2>2, <2>3, <2>4
<1>11. CASE Harness!wait_for_content_removal
  <2>1. test_pc = "removal" /\ guards \in Seq(Harness!Uses) /\ Len(guards) > 0
    BY <1>11 DEF Harness!wait_for_content_removal, GuardInv
  <2> QED
    BY <1>11, <2>1, PopKeeps DEF Harness!wait_for_content_removal, Harness!Goto
<1>12. CASE Harness!next_test
  <2>1. /\ test_pc = "drop" /\ guards = <<>> /\ guards' = guards
        /\ test' = test + 1 /\ round' = 1
        /\ test_pc' = IF test < Len(Tests) THEN "new" ELSE "end"
    BY <1>12 DEF Harness!next_test, Harness!Goto
  <2>2. test \in 1 .. Len(Tests) /\ Len(Tests) \in Nat /\ Len(guards) = 0
    BY <2>1, SuiteFacts DEF GuardInv
  <2>3. CASE test < Len(Tests)
    <3>1. Len(Tests[test + 1]) \in Nat \ {0} /\ test + 1 \in 1 .. Len(Tests)
      BY <2>2, <2>3, SuiteFacts
    <3> QED
      BY <2>1, <2>2, <2>3, <3>1 DEF GuardInv
  <2>4. CASE ~(test < Len(Tests))
    BY <2>1, <2>2, <2>4 DEF GuardInv
  <2> QED
    BY <2>3, <2>4
<1>13. CASE Harness!guest_exit
  BY <1>13 DEF Harness!guest_exit, Harness!Goto, Harness!ctr, GuardInv
<1>14. CASE Harness!collect
  BY <1>14 DEF Harness!collect, Harness!Goto, Harness!ctr, GuardInv
<1>15. CASE UNCHANGED Harness!vars
  BY <1>15 DEF Harness!vars, Harness!ctr, GuardInv
<1> QED
  BY <1>1, <1>2, <1>3, <1>4, <1>5, <1>6, <1>7, <1>8, <1>9, <1>10, <1>11, <1>12,
     <1>13, <1>14, <1>15 DEF Harness!Next, Harness!harness

(* The first test begins without guards. *)
LEMMA GuardInit == SuiteAssumption /\ Harness!Init => GuardInv
BY SuiteFacts DEF Harness!Init, GuardInv, Preparing, Executing, Dropped
-----------------------------------------------------------------------------
(* TestHarness: what a test leaves.                                        *)

(* A guard of a test that passed removes its container and its image. *)
LEMMA PassNext ==
  SuiteAssumption /\ ~ListFails /\ GuardInv /\ PassInv /\ [Harness!Next]_Harness!vars
    => PassInv'
<1> SUFFICES ASSUME SuiteAssumption, ~ListFails, GuardInv, PassInv,
                    [Harness!Next]_Harness!vars
             PROVE  PassInv'
  OBVIOUS
<1> USE DEF Dropped
<1>1. CASE Harness!new
  BY <1>1 DEF Harness!new, Harness!Goto, Harness!ctr, PassInv
<1>2. CASE Harness!image_exists
  BY <1>2 DEF Harness!image_exists, Harness!Goto, Harness!ctr, PassInv
<1>3. CASE Harness!import_image
  BY <1>3 DEF Harness!import_image, Harness!Goto, Harness!Bail, Harness!ctr, PassInv
<1>4. CASE Harness!remove_file
  BY <1>4 DEF Harness!remove_file, Harness!Goto, Harness!ctr, PassInv
<1>5. CASE Harness!create_container
  BY <1>5 DEF Harness!create_container, Harness!Goto, Harness!Bail, Harness!ctr, PassInv
<1>6. CASE Harness!build
  BY <1>6 DEF Harness!build, Harness!Goto, Harness!Bail, Harness!ctr, PassInv
<1>7. CASE Harness!start
  BY <1>7 DEF Harness!start, Harness!Goto, Harness!Bail, Harness!ctr, PassInv
<1>8. CASE Harness!wait
  <2>1. SUFFICES ASSUME verdict' = "ok", test_pc' = "drop" PROVE PassInv'
    BY <1>8 DEF Harness!wait, Harness!Goto, Harness!Bail, PassInv
  <2>2. round = Len(Tests[test]) /\ UNCHANGED <<test, guards>> /\ test_pc = "wait"
    BY <1>8, <2>1 DEF Harness!wait, Harness!Bail, Harness!Goto, GuardInv
  <2>3. Len(guards) = Len(Tests[test]) /\ Len(Tests[test]) \in Nat
    BY <2>2, SuiteFacts DEF GuardInv, Executing
  <2> QED
    BY <2>1, <2>2, <2>3 DEF PassInv
<1>9. CASE Harness!clean_container
  <2>1. CASE Harness!Panic
    BY <2>1 DEF Harness!Panic, PassInv
  <2>2. CASE ~Harness!Panic
    <3>1. /\ test_pc = "drop" /\ guards # <<>> /\ test_pc' = "clean_image"
          /\ containers' = containers \ {guards[Len(guards)].container}
          /\ UNCHANGED <<images, test, guards, verdict>>
      BY <1>9, <2>2 DEF Harness!clean_container, Harness!Goto, Harness!Last
    <3>2. Len(guards) > 0 /\ guards[Len(guards)] = Tests[test][Len(guards)]
      BY <3>1 DEF GuardInv
    <3> QED
      BY <3>1, <3>2 DEF PassInv
  <2> QED
    BY <2>1, <2>2
<1>10. CASE Harness!clean_image
  <2>1. test_pc = "clean_image" /\ Len(guards) \in Nat \ {0} /\ guards \in Seq(Harness!Uses)
    BY <1>10 DEF Harness!clean_image, GuardInv
  <2>2. /\ test \in 1 .. Len(Tests) /\ round \in 1 .. Len(Tests[test]) /\ Len(Tests[test]) \in Nat
        /\ Len(guards) <= Len(Tests[test])
        /\ guards[Len(guards)] = Tests[test][Len(guards)]
    BY <2>1, SuiteFacts DEF GuardInv
  <2>3. CASE Harness!Panic
    BY <2>3 DEF Harness!Panic, PassInv
  <2>4. \/ Harness!Panic
        \/ /\ test_pc' = "drop" /\ Harness!Pop /\ Tests[test][Len(guards)].image \notin images
           /\ UNCHANGED <<images, containers, test, verdict>>
        \/ /\ test_pc' = "removal" /\ images' = images \ {Tests[test][Len(guards)].image}
           /\ UNCHANGED <<containers, test, guards, verdict>>
    BY <1>10, <2>2 DEF Harness!clean_image, Harness!Goto, Harness!Last, Harness!ctr
  <2>5. CASE /\ test_pc' = "drop" /\ Harness!Pop /\ Tests[test][Len(guards)].image \notin images
             /\ UNCHANGED <<images, containers, test, verdict>>
    <3>1. Len(guards') = Len(guards) - 1
      BY <2>1, <2>5, PopFacts
    <3>2. \A j \in Len(guards') + 1 .. Len(Tests[test]) :
            j = Len(guards) \/ j \in Len(guards) + 1 .. Len(Tests[test])
      BY <2>1, <2>2, <3>1
    <3> QED
      BY <2>1, <2>5, <3>1, <3>2 DEF PassInv
  <2>6. CASE /\ test_pc' = "removal" /\ images' = images \ {Tests[test][Len(guards)].image}
             /\ UNCHANGED <<containers, test, guards, verdict>>
    BY <2>1, <2>6 DEF PassInv
  <2> QED
    BY <2>3, <2>4, <2>5, <2>6
<1>11. CASE Harness!wait_for_content_removal
  <2>1. test_pc = "removal" /\ Len(guards) \in Nat \ {0} /\ guards \in Seq(Harness!Uses)
    BY <1>11 DEF Harness!wait_for_content_removal, GuardInv
  <2>2. /\ test \in 1 .. Len(Tests) /\ round \in 1 .. Len(Tests[test]) /\ Len(Tests[test]) \in Nat
        /\ Len(guards) <= Len(Tests[test])
        /\ guards[Len(guards)] = Tests[test][Len(guards)]
    BY <2>1, SuiteFacts DEF GuardInv
  <2>3. /\ test_pc' = "drop" /\ Harness!Pop
        /\ UNCHANGED <<images, containers, test, verdict>>
    BY <1>11 DEF Harness!wait_for_content_removal, Harness!Goto, Harness!ctr
  <2>4. Len(guards') = Len(guards) - 1
    BY <2>1, <2>3, PopFacts
  <2>5. \A j \in Len(guards') + 1 .. Len(Tests[test]) :
          j = Len(guards) \/ j \in Len(guards) + 1 .. Len(Tests[test])
    BY <2>1, <2>2, <2>4
  <2> QED
    BY <2>1, <2>3, <2>4, <2>5 DEF PassInv
<1>12. CASE Harness!next_test
  BY <1>12 DEF Harness!next_test, Harness!Goto, Harness!ctr, PassInv
<1>13. CASE Harness!guest_exit
  BY <1>13 DEF Harness!guest_exit, Harness!Goto, Harness!ctr, PassInv
<1>14. CASE Harness!collect
  BY <1>14 DEF Harness!collect, Harness!Goto, Harness!ctr, PassInv
<1>15. CASE UNCHANGED Harness!vars
  BY <1>15 DEF Harness!vars, Harness!ctr, PassInv
<1> QED
  BY <1>1, <1>2, <1>3, <1>4, <1>5, <1>6, <1>7, <1>8, <1>9, <1>10, <1>11, <1>12,
     <1>13, <1>14, <1>15 DEF Harness!Next, Harness!harness

(* A test that passes leaves no image and no container behind, for every   *)
(* suite, as long as the images can be listed; containers may not be made  *)
(* or removed, and tests before it may have failed (OCICleanup).           *)
THEOREM HarnessPassLeavesNothing ==
  SuiteAssumption /\ ~ListFails => (Harness!Spec => []Harness!PassLeavesNothing)
<1> SUFFICES ASSUME SuiteAssumption, ~ListFails
             PROVE  Harness!Spec => []Harness!PassLeavesNothing
  OBVIOUS
<1>1. Harness!Init => GuardInv /\ PassInv
  BY GuardInit DEF Harness!Init, PassInv, Dropped
<1>2. GuardInv /\ PassInv /\ [Harness!Next]_Harness!vars => (GuardInv /\ PassInv)'
  BY GuardNext, PassNext
<1>3. GuardInv /\ PassInv => Harness!PassLeavesNothing
  <2> SUFFICES ASSUME GuardInv, PassInv, test_pc = "drop", guards = <<>>, verdict = "ok"
               PROVE  \A j \in DOMAIN Tests[test] :
                        Tests[test][j].image \notin images /\
                        Tests[test][j].container \notin containers
    BY DEF Harness!PassLeavesNothing
  <2>1. DOMAIN Tests[test] = 1 .. Len(Tests[test]) /\ Len(guards) = 0
    BY SuiteFacts DEF GuardInv
  <2> QED
    BY <2>1 DEF PassInv, Dropped
<1> QED
  BY <1>1, <1>2, <1>3, PTL DEF Harness!Spec
-----------------------------------------------------------------------------
(* TestHarness: a failure is one of the guest.                             *)

(* The drop of a guard whose container is gone. *)
LEMMA PoppedKeeps ==
  ASSUME QuietInv, test_pc \in {"clean_image", "removal"}, guards \in Seq(Harness!Uses),
         Len(guards) \in Nat \ {0}, test_pc' = "drop", Harness!Pop,
         UNCHANGED <<containers, instance, code, verdict>>
  PROVE  QuietInv'
<1>1. Len(guards') = Len(guards) - 1 /\ \A j \in 1 .. Len(guards) - 1 : guards'[j] = guards[j]
  BY PopFacts
<1>2. Guarding = Len(guards) - 1 /\ Guarding' = Len(guards) - 1
  BY <1>1 DEF Guarding
<1> QED
  BY <1>1, <1>2 DEF QuietInv, Preparing

(* The containers are those of the guards, so that none is in the way. *)
LEMMA QuietNext ==
  SuiteAssumption /\ NamesAssumption /\ ~ListFails /\ ~CtrFails
    /\ GuardInv /\ QuietInv /\ [Harness!Next]_Harness!vars
    => QuietInv'
<1> SUFFICES ASSUME SuiteAssumption, NamesAssumption, ~ListFails, ~CtrFails,
                    GuardInv, QuietInv, [Harness!Next]_Harness!vars
             PROVE  QuietInv'
  OBVIOUS
<1> USE DEF Preparing
<1>1. CASE Harness!new
  BY <1>1 DEF Harness!new, Harness!Goto, Harness!ctr, QuietInv, Guarding
<1>2. CASE Harness!image_exists
  BY <1>2 DEF Harness!image_exists, Harness!Goto, Harness!ctr, QuietInv, Guarding
<1>3. CASE Harness!import_image
  BY <1>3 DEF Harness!import_image, Harness!Goto, Harness!Bail, Harness!ctr, QuietInv, Guarding
<1>4. CASE Harness!remove_file
  BY <1>4 DEF Harness!remove_file, Harness!Goto, Harness!ctr, QuietInv, Guarding
<1>5. CASE Harness!create_container
  <2>1. test_pc = "create_container" /\ test \in 1 .. Len(Tests) /\ round \in 1 .. Len(Tests[test])
        /\ guards \in Seq(Harness!Uses) /\ Len(guards) = round - 1
        /\ \A j \in 1 .. Len(guards) : guards[j] = Tests[test][j]
    BY <1>5 DEF Harness!create_container, GuardInv
  <2>2. Harness!Use = Tests[test][round] /\ Harness!Use \in Harness!Uses
    BY <2>1, SuiteFacts DEF Harness!Use
  <2>3. Guarding = Len(guards) /\ Len(guards) \in Nat
    BY <2>1 DEF Guarding
  <2>4. Harness!Use.container \notin containers
    <3> SUFFICES ASSUME Harness!Use.container \in containers PROVE FALSE
      OBVIOUS
    <3>1. PICK j \in 1 .. Len(guards) : guards[j].container = Harness!Use.container
      BY <2>3 DEF QuietInv
    <3>2. Tests[test][j].container = Tests[test][round].container /\ j \in 1 .. round - 1
      BY <2>1, <2>2, <3>1
    <3>3. /\ test \in DOMAIN Tests /\ j \in DOMAIN Tests[test] /\ round \in DOMAIN Tests[test]
          /\ j # round
      BY <2>1, <3>2, SuiteFacts DEF SuiteAssumption
    <3> QED
      BY <3>2, <3>3 DEF NamesAssumption
  <2>5. /\ containers' = containers \cup {Harness!Use.container}
        /\ guards' = Append(guards, Harness!Use) /\ test_pc' = "build"
        /\ UNCHANGED <<instance, code, verdict>>
    BY <1>5, <2>4 DEF Harness!create_container, Harness!Goto
  <2>6. /\ Len(guards') = Len(guards) + 1 /\ guards'[Len(guards) + 1] = Harness!Use
        /\ \A j \in 1 .. Len(guards) : guards'[j] = guards[j]
    BY <2>1, <2>2, <2>5, AppendFacts
  <2>7. Guarding' = Len(guards) + 1
    BY <2>5, <2>6 DEF Guarding
  <2>8. \A j \in 1 .. Guarding' : guards'[j].container \in containers'
    <3>1. ASSUME NEW j \in 1 .. Len(guards) + 1 PROVE guards'[j].container \in containers'
      <4>1. CASE j = Len(guards) + 1
        BY <2>5, <2>6, <4>1
      <4>2. CASE j \in 1 .. Len(guards)
        BY <2>3, <2>5, <2>6, <4>2 DEF QuietInv
      <4> QED
        BY <2>3, <3>1, <4>1, <4>2
    <3> QED
      BY <2>7, <3>1
  <2>9. ASSUME NEW c \in containers' PROVE \E j \in 1 .. Guarding' : guards'[j].container = c
    <3>1. CASE c = Harness!Use.container
      BY <2>3, <2>6, <2>7, <3>1
    <3>2. CASE c \in containers
      <4>1. PICK j \in 1 .. Len(guards) : guards[j].container = c
        BY <2>3, <3>2 DEF QuietInv
      <4>2. j \in 1 .. Guarding' /\ guards'[j].container = c
        BY <2>3, <2>6, <2>7, <4>1
      <4> QED
        BY <4>2
    <3> QED
      BY <2>5, <2>9, <3>1, <3>2
  <2> QED
    BY <2>1, <2>5, <2>8, <2>9 DEF QuietInv
<1>6. CASE Harness!build
  BY <1>6 DEF Harness!build, Harness!Goto, Harness!Bail, Harness!ctr, QuietInv, Guarding
<1>7. CASE Harness!start
  BY <1>7 DEF Harness!start, Harness!Goto, Harness!Bail, Harness!ctr, QuietInv, Guarding
<1>8. CASE Harness!wait
  BY <1>8 DEF Harness!wait, Harness!Goto, Harness!Bail, Harness!ctr, QuietInv, Guarding
<1>9. CASE Harness!clean_container
  <2>1. /\ test_pc = "drop" /\ guards \in Seq(Harness!Uses) /\ Len(guards) \in Nat \ {0}
        /\ test \in 1 .. Len(Tests) /\ round \in 1 .. Len(Tests[test]) /\ Len(guards) <= round
        /\ \A j \in 1 .. Len(guards) : guards[j] = Tests[test][j]
    BY <1>9 DEF Harness!clean_container, GuardInv
  <2>2. Guarding = Len(guards) /\ guards[Len(guards)].container \in containers
    BY <2>1 DEF Guarding, QuietInv
  <2>3. /\ containers' = containers \ {guards[Len(guards)].container}
        /\ test_pc' = "clean_image" /\ UNCHANGED <<guards, instance, code, verdict>>
    BY <1>9, <2>2 DEF Harness!clean_container, Harness!Goto, Harness!Last
  <2>4. Guarding' = Len(guards) - 1
    BY <2>3 DEF Guarding
  <2>5. ASSUME NEW j \in 1 .. Len(guards) - 1
        PROVE  guards[j].container # guards[Len(guards)].container
    <3>1. /\ test \in DOMAIN Tests /\ j \in DOMAIN Tests[test]
          /\ Len(guards) \in DOMAIN Tests[test] /\ j # Len(guards)
      BY <2>1, <2>5, SuiteFacts DEF SuiteAssumption
    <3>2. guards[j] = Tests[test][j] /\ guards[Len(guards)] = Tests[test][Len(guards)]
      BY <2>1, <2>5
    <3> QED
      BY <3>1, <3>2 DEF NamesAssumption
  <2>6. \A j \in 1 .. Guarding' : guards'[j].container \in containers'
    BY <2>1, <2>2, <2>3, <2>4, <2>5 DEF QuietInv
  <2>7. ASSUME NEW c \in containers' PROVE \E j \in 1 .. Guarding' : guards'[j].container = c
    <3>1. PICK j \in 1 .. Len(guards) : guards[j].container = c
      BY <2>2, <2>3, <2>7 DEF QuietInv
    <3>2. j \in 1 .. Guarding'
      BY <2>1, <2>3, <2>4, <2>7, <3>1
    <3> QED
      BY <2>3, <3>1, <3>2
  <2> QED
    BY <2>1, <2>3, <2>6, <2>7 DEF QuietInv
<1>10. CASE Harness!clean_image
  <2>1. test_pc = "clean_image" /\ guards \in Seq(Harness!Uses) /\ Len(guards) \in Nat \ {0}
    BY <1>10 DEF Harness!clean_image, GuardInv
  <2>2. /\ \/ test_pc' = "removal" /\ guards' = guards
           \/ test_pc' = "drop" /\ Harness!Pop
        /\ UNCHANGED <<containers, instance, code, verdict>>
    BY <1>10 DEF Harness!clean_image, Harness!Goto, Harness!ctr
  <2>3. CASE test_pc' = "removal" /\ guards' = guards
    BY <2>1, <2>2, <2>3 DEF QuietInv, Guarding
  <2>4. CASE test_pc' = "drop" /\ Harness!Pop
    BY <2>1, <2>2, <2>4, PoppedKeeps
  <2> QED
    BY <2>2, <2>3, <2>4
<1>11. CASE Harness!wait_for_content_removal
  <2>1. test_pc = "removal" /\ guards \in Seq(Harness!Uses) /\ Len(guards) \in Nat \ {0}
    BY <1>11 DEF Harness!wait_for_content_removal, GuardInv
  <2>2. test_pc' = "drop" /\ Harness!Pop /\ UNCHANGED <<containers, instance, code, verdict>>
    BY <1>11 DEF Harness!wait_for_content_removal, Harness!Goto, Harness!ctr
  <2> QED
    BY <2>1, <2>2, PoppedKeeps
<1>12. CASE Harness!next_test
  BY <1>12 DEF Harness!next_test, Harness!Goto, Harness!ctr, QuietInv, Guarding
<1>13. CASE Harness!guest_exit
  <2>1. test_pc = "wait" /\ verdict # "failed"
    BY <1>13 DEF Harness!guest_exit, QuietInv, GuardInv, Executing
  <2> QED
    BY <1>13, <2>1 DEF Harness!guest_exit, Harness!ctr, QuietInv, Guarding
<1>14. CASE Harness!collect
  BY <1>14 DEF Harness!collect, Harness!Goto, Harness!ctr, QuietInv, Guarding
<1>15. CASE UNCHANGED Harness!vars
  BY <1>15 DEF Harness!vars, Harness!ctr, QuietInv, Guarding
<1> QED
  BY <1>1, <1>2, <1>3, <1>4, <1>5, <1>6, <1>7, <1>8, <1>9, <1>10, <1>11, <1>12,
     <1>13, <1>14, <1>15 DEF Harness!Next, Harness!harness

(* If the commands work, a test fails only because its guest hangs or      *)
(* exits with another code, for every suite in which a test gives its      *)
(* containers different names: neither what the tests before it left nor   *)
(* a second guard for an image that is gone makes it fail (OCICleanup).    *)
THEOREM HarnessNoSpuriousFailure ==
  SuiteAssumption /\ NamesAssumption /\ ~ListFails /\ ~CtrFails =>
    (Harness!Spec => []Harness!NoSpuriousFailure)
<1> SUFFICES ASSUME SuiteAssumption, NamesAssumption, ~ListFails, ~CtrFails
             PROVE  Harness!Spec => []Harness!NoSpuriousFailure
  OBVIOUS
<1>1. Harness!Init => GuardInv /\ QuietInv
  BY GuardInit DEF Harness!Init, QuietInv, Guarding, Preparing
<1>2. GuardInv /\ QuietInv /\ [Harness!Next]_Harness!vars => (GuardInv /\ QuietInv)'
  BY GuardNext, QuietNext
<1>3. QuietInv => Harness!NoSpuriousFailure
  BY DEF QuietInv, Harness!NoSpuriousFailure
<1> QED
  BY <1>1, <1>2, <1>3, PTL DEF Harness!Spec
-----------------------------------------------------------------------------
(* TestHarness: its types.                                                 *)

StateTypes ==
  /\ images \subseteq Harness!Images /\ content \subseteq Harness!Images
  /\ containers \subseteq Harness!Names
  /\ instance \in {"none", "created", "running", "exited", "deleted"}
  /\ code \in {"none", "expected", "other"}
  /\ verdict \in {"none", "ok", "failed"}

(* Every step keeps the types. *)
LEMMA TypesNext ==
  SuiteAssumption /\ GuardInv /\ StateTypes /\ [Harness!Next]_Harness!vars => StateTypes'
<1> SUFFICES ASSUME SuiteAssumption, GuardInv, StateTypes, [Harness!Next]_Harness!vars
             PROVE  StateTypes'
  OBVIOUS
<1>1. CASE Harness!new
  BY <1>1 DEF Harness!new, Harness!Goto, Harness!ctr, StateTypes
<1>2. CASE Harness!image_exists
  BY <1>2 DEF Harness!image_exists, Harness!Goto, Harness!ctr, StateTypes
<1>3. CASE Harness!import_image
  <2>1. Harness!Use \in Harness!Uses
    BY <1>3, SuiteFacts DEF Harness!import_image, GuardInv, Harness!Use
  <2>2. Harness!Use.image \in Harness!Images /\ Harness!Use.container \in Harness!Names
    BY <2>1 DEF Harness!Images, Harness!Names
  <2> QED
    BY <1>3, <2>2 DEF Harness!import_image, Harness!Goto, Harness!Bail, Harness!ctr, StateTypes
<1>4. CASE Harness!remove_file
  BY <1>4 DEF Harness!remove_file, Harness!Goto, Harness!ctr, StateTypes
<1>5. CASE Harness!create_container
  <2>1. Harness!Use \in Harness!Uses
    BY <1>5, SuiteFacts DEF Harness!create_container, GuardInv, Harness!Use
  <2>2. Harness!Use.image \in Harness!Images /\ Harness!Use.container \in Harness!Names
    BY <2>1 DEF Harness!Images, Harness!Names
  <2> QED
    BY <1>5, <2>2 DEF Harness!create_container, Harness!Goto, Harness!Bail, Harness!ctr, StateTypes
<1>6. CASE Harness!build
  BY <1>6 DEF Harness!build, Harness!Goto, Harness!Bail, Harness!ctr, StateTypes
<1>7. CASE Harness!start
  BY <1>7 DEF Harness!start, Harness!Goto, Harness!Bail, Harness!ctr, StateTypes
<1>8. CASE Harness!wait
  BY <1>8 DEF Harness!wait, Harness!Goto, Harness!Bail, Harness!ctr, StateTypes
<1>9. CASE Harness!clean_container
  BY <1>9 DEF Harness!clean_container, Harness!Goto, Harness!Panic, Harness!Pop,
       Harness!Last, Harness!ctr, StateTypes
<1>10. CASE Harness!clean_image
  BY <1>10 DEF Harness!clean_image, Harness!Goto, Harness!Panic, Harness!Pop,
       Harness!Last, Harness!ctr, StateTypes
<1>11. CASE Harness!wait_for_content_removal
  BY <1>11 DEF Harness!wait_for_content_removal, Harness!Goto, Harness!Pop, Harness!ctr, StateTypes
<1>12. CASE Harness!next_test
  BY <1>12 DEF Harness!next_test, Harness!Goto, Harness!ctr, StateTypes
<1>13. CASE Harness!guest_exit
  BY <1>13 DEF Harness!guest_exit, Harness!Goto, Harness!ctr, StateTypes
<1>14. CASE Harness!collect
  BY <1>14 DEF Harness!collect, Harness!Goto, Harness!ctr, StateTypes
<1>15. CASE UNCHANGED Harness!vars
  BY <1>15 DEF Harness!vars, Harness!ctr, StateTypes
<1> QED
  BY <1>1, <1>2, <1>3, <1>4, <1>5, <1>6, <1>7, <1>8, <1>9, <1>10, <1>11, <1>12,
     <1>13, <1>14, <1>15 DEF Harness!Next, Harness!harness

(* The state of the harness has its type for every suite; in particular a  *)
(* test never has more guards than it makes containers (OCICleanup).       *)
THEOREM HarnessTypeOK == SuiteAssumption => (Harness!Spec => []Harness!TypeOK)
<1> SUFFICES ASSUME SuiteAssumption PROVE Harness!Spec => []Harness!TypeOK
  OBVIOUS
<1>1. Harness!Init => GuardInv /\ StateTypes
  BY GuardInit DEF Harness!Init, StateTypes
<1>2. GuardInv /\ StateTypes /\ [Harness!Next]_Harness!vars => (GuardInv /\ StateTypes)'
  BY GuardNext, TypesNext
<1>3. GuardInv /\ StateTypes => Harness!TypeOK
  <2> SUFFICES ASSUME GuardInv, StateTypes PROVE Harness!TypeOK
    OBVIOUS
  <2> DEFINE i == IF test > Len(Tests) THEN 1 ELSE test
  <2>1. Len(Tests) \in Nat \ {0} /\ i \in 1 .. Len(Tests) /\ Len(Tests[i]) \in Nat
    BY SuiteFacts DEF GuardInv
  <2>2. CASE test_pc = "end"
    <3>1. Len(guards) = 0
      BY <2>2 DEF GuardInv
    <3> QED
      BY <2>1, <2>2, <3>1 DEF GuardInv, StateTypes, Harness!TypeOK
  <2>3. CASE test_pc # "end"
    <3>1. i = test /\ Len(guards) <= round /\ round \in 1 .. Len(Tests[i])
          /\ guards \in Seq(Harness!Uses)
      BY <2>1, <2>3 DEF GuardInv
    <3>2. Len(guards) <= Len(Tests[i])
      BY <2>1, <3>1
    <3> QED
      BY <3>2 DEF GuardInv, StateTypes, Harness!TypeOK, Preparing, Executing, Dropped
  <2> QED
    BY <2>2, <2>3
<1> QED
  BY <1>1, <1>2, <1>3, PTL DEF Harness!Spec

=============================================================================
