-------------------------------- MODULE Local --------------------------------
(***************************************************************************)
(* The Task service of a shim (containerd-shimkit sandbox/shim/local.rs):  *)
(* request threads that create, start, kill, delete, wait for and inspect  *)
(* tasks, the registry of tasks they share, the events they publish, and   *)
(* the task spawned for each start that publishes the exit.                *)
(*                                                                         *)
(* The tasks themselves are InstanceData objects.  A handler is a caller   *)
(* of InstanceData, and so is the spawned task that waits for instance i,  *)
(* which goes by the name i.                                               *)
(*                                                                         *)
(* A request arrives at a handler together with its first access to shared *)
(* state.  A handler's answer stays visible in rpc[h] until the handler    *)
(* turns to another request.                                               *)
(***************************************************************************)
EXTENDS Sequences, Naturals

CONSTANTS
  Handlers,     \* the request threads of the ttrpc server
  Ids,          \* container ids
  Instances, Codes, GuardCode, WatcherFails,           \* see InstanceData
  NoInstance, NoCaller,
  NoId,
  Requests,     \* the requests that clients send
  SerialClient  \* clients do not overlap life cycle requests

ASSUME HandlerAssumption ==
  /\ Handlers \cap Instances = {}
  /\ NoCaller \notin Handlers \cup Instances
  /\ NoInstance \notin Instances
  /\ NoId \notin Ids
ASSUME RequestAssumption ==
  /\ Requests \subseteq {"create", "start", "kill", "delete", "wait",
                         "state", "stats", "connect", "shutdown"}
  /\ SerialClient \in BOOLEAN
  /\ WatcherFails \in BOOLEAN
ASSUME LocalCodeAssumption ==
  /\ GuardCode \in Codes
  /\ {"none", "ok", "err"} \cap Codes = {}

VARIABLES
  state, lock, pid, guest, exit_code, pc, on, res,     \* see InstanceData
  instances,  \* the registry: instances[id] is the registered instance
  container,  \* container[i]: the id that instance i was created for
  events,     \* events[i]: what has been published about instance i
  rpc,        \* rpc[h]: the request that h serves
  shim,       \* the shim process
  waited      \* history: the instances some Wait request was answered for

inner == <<state, lock, pid, guest, exit_code, pc, on, res>>
vars == <<state, lock, pid, guest, exit_code, pc, on, res,
          instances, container, events, rpc, shim, waited>>

I == INSTANCE InstanceData WITH Callers <- Handlers \cup Instances

EventKinds == {"create", "start", "exit", "delete"}

(* Where a handler is; "start", "kill", "delete" and "wait" stand for a    *)
(* call of that InstanceData method.                                       *)
Creating == {"create_new", "create_insert", "create_event", "create_hooks"}
Deleting == {"delete", "delete_poll", "delete_remove", "delete_event"}
LocalLabels ==
  {"idle", "replied", "start", "start_spawn", "kill", "wait",
   "state_pid", "state_poll", "state_reply", "stats_pid", "connect_pid",
   "shutdown_exit"} \cup Creating \cup Deleting

Answers ==
  Codes \cup {"none", "ok", "err", "AlreadyExists", "NotFound",
              "CREATED", "RUNNING", "STOPPED"}

Idle ==
  [at |-> "idle", id |-> NoId, obj |-> NoInstance, pid |-> FALSE,
   late |-> FALSE, answer |-> "none"]

(* One type invariant for the module. *)
TypeOK ==
  /\ I!TypeOK
  /\ instances \in [Ids -> Instances \cup {NoInstance}]
  /\ container \in [Instances -> Ids \cup {NoId}]
  /\ events \in [Instances -> Seq(EventKinds)]
  /\ rpc \in [Handlers -> [at: LocalLabels, id: Ids \cup {NoId},
                           obj: Instances \cup {NoInstance},
                           pid: BOOLEAN, late: BOOLEAN, answer: Answers]]
  /\ shim \in {"up", "exiting", "gone"}
  /\ waited \subseteq Instances

Init ==
  /\ I!Init
  /\ instances = [id \in Ids |-> NoInstance]
  /\ container = [i \in Instances |-> NoId]
  /\ events = [i \in Instances |-> <<>>]
  /\ rpc = [h \in Handlers |-> Idle]
  /\ shim = "up"
  /\ waited = {}

-----------------------------------------------------------------------------
(* How a handler moves on, answers, and publishes. *)
At(h, label) == shim # "gone" /\ rpc[h].at = label

Goto(h, label) == rpc' = [rpc EXCEPT ![h].at = label]

Reply(h, a) ==
  rpc' = [rpc EXCEPT ![h] = [Idle EXCEPT !.at = "replied", !.answer = a]]

(***************************************************************************)
(* Publishing never blocks and never fails the request: an error is only   *)
(* logged, so events records what was handed to the publisher.             *)
(***************************************************************************)
send(i, kind) == events' = [events EXCEPT ![i] = Append(@, kind)]

(***************************************************************************)
(* A client sends a request of some kind for a container.  With            *)
(* SerialClient, a create or delete is not sent while another one for the  *)
(* same container is being served, a shutdown not while any is, and        *)
(* nothing is sent to a shim that was told to exit.                        *)
(***************************************************************************)
Lifecycle(ids) ==
  \E g \in Handlers : rpc[g].id \in ids /\ rpc[g].at \in Creating \cup Deleting

Arrives(h, id, kind) ==
  /\ At(h, "idle")
  /\ kind \in Requests
  /\ SerialClient =>
       /\ shim = "up" /\ \A g \in Handlers : rpc[g].at # "shutdown_exit"
       /\ kind \in {"create", "delete"} => ~Lifecycle({id})
       /\ kind = "shutdown" => ~Lifecycle(Ids)

Accept(h, id, label, i) ==
  rpc' = [rpc EXCEPT ![h] = [Idle EXCEPT !.at = label, !.id = id, !.obj = i,
                                         !.late = i \in waited]]

(* The handler is free for the next request. *)
Done(h) ==
  /\ At(h, "replied")
  /\ rpc' = [rpc EXCEPT ![h] = Idle]
  /\ UNCHANGED <<inner, instances, container, events, shim, waited>>

-----------------------------------------------------------------------------
(* The registry is not looked at. *)
Mut_task_create(h, id) ==
  /\ Arrives(h, id, "create")
  /\ Reply(h, "err") \/ Accept(h, id, "create_new", NoInstance)
  /\ UNCHANGED <<inner, instances, container, events, shim, waited>>

(***************************************************************************)
(* task_create: the registry is looked at first and written much later,    *)
(* and the prestart hooks run after the task is registered and announced.  *)
(***************************************************************************)
task_create(h, id) ==
  /\ Arrives(h, id, "create")
  /\ \/ Reply(h, "err")      \* options, checkpoint or terminal
     \/ instances[id] # NoInstance /\ Reply(h, "AlreadyExists")
     \/ instances[id] = NoInstance /\ Accept(h, id, "create_new", NoInstance)
  /\ UNCHANGED <<inner, instances, container, events, shim, waited>>

(* The runtime spec, the rootfs mounts or the engine may fail. *)
create_new(h) ==
  /\ At(h, "create_new")
  /\ \/ /\ Reply(h, "err")
        /\ UNCHANGED <<inner, container>>
     \/ \E i \in Instances :
          /\ I!new(i)
          /\ container' = [container EXCEPT ![i] = rpc[h].id]
          /\ rpc' = [rpc EXCEPT ![h].at = "create_insert", ![h].obj = i]
  /\ UNCHANGED <<instances, events, shim, waited>>

create_insert(h) ==
  /\ At(h, "create_insert")
  /\ instances' = [instances EXCEPT ![rpc[h].id] = rpc[h].obj]
  /\ Goto(h, "create_event")
  /\ UNCHANGED <<inner, container, events, shim, waited>>

create_event(h) ==
  /\ At(h, "create_event")
  /\ send(rpc[h].obj, "create")
  /\ Goto(h, "create_hooks")
  /\ UNCHANGED <<inner, instances, container, shim, waited>>

create_hooks(h) ==
  /\ At(h, "create_hooks")
  /\ \E a \in {"ok", "err"} : Reply(h, a)
  /\ UNCHANGED <<inner, instances, container, events, shim, waited>>

-----------------------------------------------------------------------------
(***************************************************************************)
(* get_instance, followed by a call of an InstanceData method on what it   *)
(* found.  The Arc keeps the instance usable after it leaves the registry. *)
(***************************************************************************)
get_instance(h, id, method) ==
  /\ Arrives(h, id, method)
  /\ \/ Reply(h, "err") /\ UNCHANGED inner      \* an exec id is given
     \/ /\ instances[id] = NoInstance
        /\ Reply(h, "NotFound")
        /\ UNCHANGED inner
     \/ /\ instances[id] # NoInstance
        /\ I!Invoke(h, instances[id], method)
        /\ Accept(h, id, method, instances[id])
  /\ UNCHANGED <<instances, container, events, shim, waited>>

task_start(h, id) == get_instance(h, id, "start")
task_kill(h, id) == get_instance(h, id, "kill")
task_delete(h, id) == get_instance(h, id, "delete")
task_wait(h, id) == get_instance(h, id, "wait")

(* The method has returned an error, and so does the request. *)
method_failed(h) ==
  /\ At(h, "start") \/ At(h, "kill") \/ At(h, "delete")
  /\ res[h] = "err"
  /\ I!Return(h)
  /\ Reply(h, "err")
  /\ UNCHANGED <<instances, container, events, shim, waited>>

(* The exit is waited for before the start is published. *)
Mut_start_event(h) ==
  /\ At(h, "start")
  /\ res[h] = "ok"
  /\ I!Return(h)
  /\ Goto(h, "start_spawn")
  /\ UNCHANGED <<instances, container, events, shim, waited>>

start_event(h) ==
  /\ At(h, "start")
  /\ res[h] = "ok"
  /\ I!Return(h)
  /\ send(rpc[h].obj, "start")
  /\ Goto(h, "start_spawn")
  /\ UNCHANGED <<instances, container, shim, waited>>

(* Nobody waits for the exit. *)
Mut_start_spawn(h) ==
  /\ At(h, "start_spawn")
  /\ Reply(h, "ok")
  /\ UNCHANGED <<inner, instances, container, events, shim, waited>>

(* The spawned task starts to wait for the instance. *)
start_spawn(h) ==
  /\ At(h, "start_spawn")
  /\ I!Invoke(rpc[h].obj, rpc[h].obj, "wait")
  /\ Reply(h, "ok")
  /\ UNCHANGED <<instances, container, events, shim, waited>>

exit_event(i) ==
  /\ shim # "gone"
  /\ I!Return(i)
  /\ send(i, "exit")
  /\ UNCHANGED <<instances, container, rpc, shim, waited>>

(* The handler marks the killed task as exited itself. *)
Mut_kill_reply(h) ==
  /\ At(h, "kill")
  /\ res[h] = "ok"
  /\ state' = [state EXCEPT ![on[h]] = "Exited"]
  /\ pc' = [pc EXCEPT ![h] = "idle"]
  /\ on' = [on EXCEPT ![h] = NoInstance]
  /\ res' = [res EXCEPT ![h] = "none"]
  /\ Reply(h, "ok")
  /\ UNCHANGED <<lock, pid, guest, exit_code, instances, container, events, shim, waited>>

kill_reply(h) ==
  /\ At(h, "kill")
  /\ res[h] = "ok"
  /\ I!Return(h)
  /\ Reply(h, "ok")
  /\ UNCHANGED <<instances, container, events, shim, waited>>

wait_reply(h) ==
  /\ At(h, "wait")
  /\ I!Return(h)
  /\ Reply(h, res[h])
  /\ waited' = waited \cup {rpc[h].obj}
  /\ UNCHANGED <<instances, container, events, shim>>

(***************************************************************************)
(* task_delete once the engine has deleted the instance: the exit code is  *)
(* polled for, the id is removed whatever instance it now stands for, and  *)
(* only then is the deletion published.  An exit code that the poll did    *)
(* not get is reported as none, which the reply turns into 0.              *)
(***************************************************************************)
delete_done(h) ==
  /\ At(h, "delete")
  /\ res[h] = "ok"
  /\ I!Return(h)
  /\ Goto(h, "delete_poll")
  /\ UNCHANGED <<instances, container, events, shim, waited>>

delete_poll(h) ==
  /\ At(h, "delete_poll")
  /\ I!now_or_never(h, rpc[h].obj)
  /\ Goto(h, "delete_remove")
  /\ UNCHANGED <<instances, container, events, shim, waited>>

(* The deleted task stays registered. *)
Mut_delete_remove(h) ==
  /\ At(h, "delete_remove")
  /\ I!Return(h)
  /\ rpc' = [rpc EXCEPT ![h].at = "delete_event", ![h].answer = res[h]]
  /\ UNCHANGED <<instances, container, events, shim, waited>>

delete_remove(h) ==
  /\ At(h, "delete_remove")
  /\ I!Return(h)
  /\ instances' = [instances EXCEPT ![rpc[h].id] = NoInstance]
  /\ rpc' = [rpc EXCEPT ![h].at = "delete_event", ![h].answer = res[h]]
  /\ UNCHANGED <<container, events, shim, waited>>

delete_event(h) ==
  /\ At(h, "delete_event")
  /\ send(rpc[h].obj, "delete")
  /\ Reply(h, rpc[h].answer)
  /\ UNCHANGED <<inner, instances, container, shim, waited>>

-----------------------------------------------------------------------------
(***************************************************************************)
(* The requests that only read: the pid is read first, the exit code is    *)
(* polled for later.                                                       *)
(***************************************************************************)
lookup(h, id, kind, label) ==
  /\ Arrives(h, id, kind)
  /\ \/ kind = "state" /\ Reply(h, "err")       \* an exec id is given
     \/ instances[id] = NoInstance /\ Reply(h, "NotFound")
     \/ instances[id] # NoInstance /\ Accept(h, id, label, instances[id])
  /\ UNCHANGED <<inner, instances, container, events, shim, waited>>

task_state(h, id) == lookup(h, id, "state", "state_pid")
task_stats(h, id) == lookup(h, id, "stats", "stats_pid")
connect(h, id) == lookup(h, id, "connect", "connect_pid")

state_pid(h) ==
  /\ At(h, "state_pid")
  /\ rpc' = [rpc EXCEPT ![h].at = "state_poll", ![h].pid = pid[rpc[h].obj]]
  /\ UNCHANGED <<inner, instances, container, events, shim, waited>>

state_poll(h) ==
  /\ At(h, "state_poll")
  /\ I!now_or_never(h, rpc[h].obj)
  /\ Goto(h, "state_reply")
  /\ UNCHANGED <<instances, container, events, shim, waited>>

state_reply(h) ==
  /\ At(h, "state_reply")
  /\ I!Return(h)
  /\ Reply(h, IF ~rpc[h].pid THEN "CREATED"
              ELSE IF res[h] = "none" THEN "RUNNING" ELSE "STOPPED")
  /\ UNCHANGED <<instances, container, events, shim, waited>>

(* Stats fail without a pid, and may fail with one. *)
stats_reply(h) ==
  /\ At(h, "stats_pid")
  /\ \/ Reply(h, "err")
     \/ pid[rpc[h].obj] /\ Reply(h, "ok")
  /\ UNCHANGED <<inner, instances, container, events, shim, waited>>

connect_reply(h) ==
  /\ At(h, "connect_pid")
  /\ Reply(h, "ok")
  /\ UNCHANGED <<inner, instances, container, events, shim, waited>>

-----------------------------------------------------------------------------
(* The registry is not looked at. *)
Mut_shutdown(h) ==
  /\ Arrives(h, NoId, "shutdown")
  /\ Accept(h, NoId, "shutdown_exit", NoInstance)
  /\ UNCHANGED <<inner, instances, container, events, shim, waited>>

(* shutdown sets the exit cell if it saw an empty registry. *)
shutdown(h) ==
  /\ Arrives(h, NoId, "shutdown")
  /\ IF \A id \in Ids : instances[id] = NoInstance
     THEN Accept(h, NoId, "shutdown_exit", NoInstance)
     ELSE Reply(h, "ok")
  /\ UNCHANGED <<inner, instances, container, events, shim, waited>>

shutdown_exit(h) ==
  /\ At(h, "shutdown_exit")
  /\ shim' = "exiting"
  /\ Reply(h, "ok")
  /\ UNCHANGED <<inner, instances, container, events, waited>>

(* Shim::wait returns, and the process exits with all its threads. *)
shim_exit ==
  /\ shim = "exiting"
  /\ shim' = "gone"
  /\ UNCHANGED <<inner, instances, container, events, rpc, waited>>

-----------------------------------------------------------------------------
(* A method of InstanceData makes a step on behalf of its caller, or the   *)
(* watcher of a guest reports; guests also die when the shim is gone.      *)
method_step(c) ==
  /\ shim # "gone"
  /\ I!Enter(c) \/ I!Step(c)
  /\ UNCHANGED <<instances, container, events, rpc, shim, waited>>

watcher_step(i) ==
  /\ \/ I!guest_exit(i)
     \/ shim # "gone" /\ (I!report_exit(i) \/ I!watch_fail(i))
  /\ UNCHANGED <<instances, container, events, rpc, shim, waited>>

Arrival(h) ==
  \/ shutdown(h)
  \/ \E id \in Ids :
       \/ task_create(h, id) \/ task_start(h, id) \/ task_kill(h, id)
       \/ task_delete(h, id) \/ task_wait(h, id) \/ task_state(h, id)
       \/ task_stats(h, id) \/ connect(h, id)

Progress(h) ==
  \/ create_new(h) \/ create_insert(h) \/ create_event(h) \/ create_hooks(h)
  \/ method_failed(h) \/ start_event(h) \/ start_spawn(h)
  \/ kill_reply(h) \/ wait_reply(h)
  \/ delete_done(h) \/ delete_poll(h) \/ delete_remove(h) \/ delete_event(h)
  \/ state_pid(h) \/ state_poll(h) \/ state_reply(h)
  \/ stats_reply(h) \/ connect_reply(h) \/ shutdown_exit(h)

Next ==
  \/ \E h \in Handlers : Arrival(h) \/ Progress(h) \/ Done(h)
  \/ \E i \in Instances : exit_event(i) \/ watcher_step(i)
  \/ \E c \in Handlers \cup Instances : method_step(c)
  \/ shim_exit

Spec == Init /\ [][Next]_vars

(***************************************************************************)
(* Fairness: threads and spawned tasks that can run do run, and the lock   *)
(* of a task is handed over in the order of the requests (InstanceData).   *)
(* Clients need not send anything, guests need not die.                    *)
(***************************************************************************)
FairSpec ==
  /\ Spec
  /\ \A h \in Handlers : WF_vars(Progress(h))
  /\ \A c \in Handlers \cup Instances :
       /\ WF_vars(shim # "gone" /\ I!Step(c) /\ method_step(c))
       /\ SF_vars(shim # "gone" /\ I!Enter(c) /\ method_step(c))
  /\ \A i \in Instances :
       WF_vars(exit_event(i)) /\ WF_vars(I!report_exit(i) /\ watcher_step(i))

-----------------------------------------------------------------------------
(***************************************************************************)
(* The handlers use the tasks only through the methods of InstanceData:    *)
(* every behaviour of the service is one of InstanceData's, with the       *)
(* handlers and the spawned tasks as its callers (local.rs:140-363).       *)
(***************************************************************************)
ImplementsInstanceData == I!Spec

(***************************************************************************)
(* Whatever requests race, the exit of a task is published at most once,   *)
(* after its start, which is published at most once (local.rs:241-262).    *)
(***************************************************************************)
Positions(i, kind) == {n \in 1..Len(events[i]) : events[i][n] = kind}

ExitFollowsStart ==
  \A i \in Instances :
    /\ \A kind \in {"start", "exit"} :
         \A m, n \in Positions(i, kind) : m = n
    /\ \A n \in Positions(i, "exit") : \E m \in Positions(i, "start") : m < n

(***************************************************************************)
(* A State request that is about to answer STOPPED (local.rs:344-350) is   *)
(* right: the pid it read earlier and the exit code it polled later belong *)
(* to a guest that has run and is dead, as long as the watcher of the      *)
(* guest did not fail.                                                     *)
(***************************************************************************)
StoppedIsDead ==
  \A h \in Handlers :
    rpc[h].at = "state_reply" /\ rpc[h].pid /\ res[h] # "none"
      => guest[rpc[h].obj] = "dead"

(***************************************************************************)
(* If clients do not overlap creates and deletes of a container, a running *)
(* guest is always registered under its id: it can be killed, waited for   *)
(* and deleted, and a shutdown cannot miss it (local.rs:201, 298).  This   *)
(* too takes a watcher that does not fail.                                 *)
(***************************************************************************)
RunningIsRegistered ==
  \A i \in Instances : guest[i] = "running" => instances[container[i]] = i

(***************************************************************************)
(* If clients do not overlap creates and deletes of a container, a task    *)
(* whose deletion was published is deleted once, is not registered, and    *)
(* its engine is never called again (local.rs:285-314).                    *)
(***************************************************************************)
DeletedForGood ==
  \A i \in Instances :
    /\ \A m, n \in Positions(i, "delete") : m = n
    /\ Positions(i, "delete") # {} =>
         /\ \A id \in Ids : instances[id] # i
         /\ \A c \in Handlers \cup Instances :
              on[c] = i => pc[c] \notin {"start_run", "kill_run", "delete_run"}

(***************************************************************************)
(* If clients send shutdown on its own and nothing after it, the shim      *)
(* exits with no task registered and no guest running (local.rs:494-504).  *)
(***************************************************************************)
ShutdownLosesNothing ==
  shim = "gone" =>
    /\ \A id \in Ids : instances[id] = NoInstance
    /\ \A i \in Instances : guest[i] # "running"

(***************************************************************************)
(* Every request but Wait is answered, and the exit of a guest that died   *)
(* is published, unless the shim exits first.                              *)
(***************************************************************************)
RequestsAnswered ==
  \A h \in Handlers :
    rpc[h].at \notin {"idle", "wait"} ~> rpc[h].at = "replied" \/ shim = "gone"

ExitPublished ==
  \A i \in Instances :
    guest[i] = "dead" ~> Positions(i, "exit") # {} \/ shim = "gone"

(***************************************************************************)
(* The tests of the service expect STOPPED from a State request that is    *)
(* sent after a Wait request for the same, started task was answered       *)
(* (sandbox/shim/local/tests.rs:276-282 and 467-473).                      *)
(***************************************************************************)
StoppedAfterWait ==
  \A h \in Handlers :
    rpc[h].at = "state_reply" /\ rpc[h].late /\ pid[rpc[h].obj]
      => rpc[h].pid /\ res[h] # "none"

=============================================================================
