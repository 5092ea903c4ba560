---------------------------- MODULE Local_proofs ----------------------------
(***************************************************************************)
(* The Task service implements InstanceData, publishes the exit of a task  *)
(* in order, and answers STOPPED only for the dead, proved for any number  *)
(* of request threads, containers and tasks.  With clients that do not     *)
(* overlap the create and delete requests of a container, no running task  *)
(* is lost, a deleted task stays deleted, and a shutdown leaves nothing    *)
(* behind.  The invariant of InstanceData_proofs is used as it is, with    *)
(* the handlers and the spawned tasks as its callers.                      *)
(***************************************************************************)
EXTENDS Local, SequenceTheorems, TLAPS

P == INSTANCE InstanceData_proofs WITH Callers <- Handlers \cup Instances

LEMMA Constants ==
  /\ NoInstance \notin Instances
  /\ NoCaller \notin Handlers \cup Instances
  /\ GuardCode \in Codes
  /\ {"none", "ok", "err"} \cap Codes = {}
  /\ WatcherFails \in BOOLEAN
  /\ Handlers \cap Instances = {}
  BY HandlerAssumption, RequestAssumption, LocalCodeAssumption, Zenon

(* Where a handler has a task, and where it has a container. *)
WithTask == LocalLabels \ {"idle", "replied", "create_new", "shutdown_exit"}
WithId == WithTask \cup {"create_new"}

Request ==
  [at: LocalLabels, id: Ids \cup {NoId}, obj: Instances \cup {NoInstance},
   pid: BOOLEAN, late: BOOLEAN, answer: Answers]

ServiceType ==
  /\ instances \in [Ids -> Instances \cup {NoInstance}]
  /\ container \in [Instances -> Ids \cup {NoId}]
  /\ events \in [Instances -> Seq(EventKinds)]
  /\ rpc \in [Handlers -> Request]
  /\ shim \in {"up", "exiting", "gone"}
  /\ waited \subseteq Instances

(* A handler that needs a task or a container has one. *)
TaskInv ==
  \A h \in Handlers : /\ rpc[h].at \in WithTask => rpc[h].obj \in Instances
                      /\ rpc[h].at \in WithId => rpc[h].id \in Ids

LInv == P!IInv /\ ServiceType /\ TaskInv

-----------------------------------------------------------------------------
(* The invariant of InstanceData is one of the service. *)
LEMMA InnerInit == I!Init => P!IInv
<1>1. I!Init <=> P!Init
  BY Zenon DEF I!Init, P!Init
<1> QED BY <1>1, P!InitIInv, Constants, Zenon

LEMMA InnerNext == P!IInv /\ [I!Next]_inner => P!IInv'
<1>1. UNCHANGED inner => UNCHANGED P!vars
  BY Zenon DEF P!vars, inner
<1>2. I!Next <=> P!Next
  BY Zenon DEF I!Next, P!Next, I!new, P!new, I!guest_exit, P!guest_exit, I!report_exit, P!report_exit,
     I!watch_fail, P!watch_fail, I!Enter, P!Enter, I!Step, P!Step, I!Return, P!Return,
     I!now_or_never, P!now_or_never, I!Invoke, P!Invoke, I!Methods, P!Methods,
     I!start_enter, P!start_enter, I!kill_enter, P!kill_enter, I!delete_enter, P!delete_enter,
     I!wait_exited, P!wait_exited, I!start_run, P!start_run, I!start_fail, P!start_fail,
     I!start_set_pid, P!start_set_pid, I!start_return, P!start_return, I!kill_return, P!kill_return,
     I!delete_return, P!delete_return, I!wait_code, P!wait_code, I!Guarded, P!Guarded,
     I!Goto, P!Goto, I!Finish, P!Finish, I!Acquire, P!Acquire, I!Release, P!Release,
     I!Contended, P!Contended, I!Waiting, P!Waiting, I!objects, P!objects,
     I!start, P!start, I!kill, P!kill, I!delete, P!delete, I!started, P!started, I!stop, P!stop,
     I!Ignoring, P!Ignoring
<1>3. P!IInv /\ [P!Next]_(P!vars) => P!IInv'
  BY P!StepIInv, Constants, Zenon
<1> QED BY <1>1, <1>2, <1>3, Zenon

(* Every step of the service is a step of InstanceData or leaves it alone. *)
LEMMA RefinesStep == LInv /\ [Next]_vars => [I!Next]_inner
<1> SUFFICES ASSUME LInv, [Next]_vars, ~UNCHANGED inner PROVE I!Next
  OBVIOUS
<1> USE DEF LInv
<1>1. ASSUME NEW h \in Handlers, NEW id \in Ids, NEW m \in I!Methods, get_instance(h, id, m)
      PROVE  I!Next
  <2>1. instances[id] \in Instances /\ I!Invoke(h, instances[id], m)
    BY <1>1, Zenon DEF get_instance, ServiceType
  <2> QED BY <2>1, Zenon DEF I!Next
<1>2. ASSUME NEW h \in Handlers, Arrival(h) PROVE I!Next
  <2>1. CASE \E id \in Ids : task_start(h, id) \/ task_kill(h, id) \/ task_delete(h, id)
                             \/ task_wait(h, id)
    BY <1>1, <2>1, Zenon DEF task_start, task_kill, task_delete, task_wait, I!Methods
  <2>2. CASE shutdown(h) \/ \E id \in Ids : task_create(h, id) \/ task_state(h, id)
                                            \/ task_stats(h, id) \/ connect(h, id)
    BY <2>2, Zenon DEF shutdown, task_create, task_state, task_stats, connect, lookup
  <2> QED BY <1>2, <2>1, <2>2, Zenon DEF Arrival
<1>3. ASSUME NEW h \in Handlers, create_new(h) PROVE I!Next
  BY <1>3, Zenon DEF create_new, I!Next
<1>4. ASSUME NEW h \in Handlers, start_spawn(h) PROVE I!Next
  <2>1. rpc[h].obj \in Instances
    BY <1>4, Zenon DEF start_spawn, At, TaskInv, WithTask, LocalLabels
  <2> QED BY <1>4, <2>1, Zenon DEF start_spawn, I!Next, I!Methods
<1>5. ASSUME NEW h \in Handlers, delete_poll(h) \/ state_poll(h) PROVE I!Next
  <2>1. rpc[h].obj \in Instances
    BY <1>5, Zenon DEF delete_poll, state_poll, At, TaskInv, WithTask, LocalLabels, Deleting
  <2> QED BY <1>5, <2>1, Zenon DEF delete_poll, state_poll, I!Next
<1>6. ASSUME NEW h \in Handlers, \/ method_failed(h) \/ start_event(h) \/ kill_reply(h)
                                 \/ wait_reply(h) \/ delete_done(h) \/ delete_remove(h)
                                 \/ state_reply(h)
      PROVE  I!Next
  BY <1>6, Zenon DEF method_failed, start_event, kill_reply, wait_reply, delete_done, delete_remove,
     state_reply, I!Next
<1>7. ASSUME NEW h \in Handlers, \/ create_insert(h) \/ create_event(h) \/ create_hooks(h)
                                 \/ delete_event(h) \/ state_pid(h) \/ stats_reply(h)
                                 \/ connect_reply(h) \/ shutdown_exit(h) \/ Done(h)
      PROVE  I!Next
  BY <1>7, Zenon DEF create_insert, create_event, create_hooks, delete_event, state_pid, stats_reply,
     connect_reply, shutdown_exit, Done
<1>8. ASSUME NEW i \in Instances, exit_event(i) \/ watcher_step(i) PROVE I!Next
  BY <1>8, Zenon DEF exit_event, watcher_step, I!Next
<1>9. ASSUME NEW c \in Handlers \cup Instances, method_step(c) PROVE I!Next
  BY <1>9, Zenon DEF method_step, I!Next
<1>10. CASE shim_exit
  BY <1>10, Zenon DEF shim_exit
<1>11. CASE UNCHANGED vars
  BY <1>11, Zenon DEF vars, inner
<1> QED
  BY <1>2, <1>3, <1>4, <1>5, <1>6, <1>7, <1>8, <1>9, <1>10, <1>11, Zenon DEF Next, Progress

-----------------------------------------------------------------------------
(* The handlers move on, take a request or answer it. *)
LEMMA GotoStep ==
  ASSUME LInv, NEW h \in Handlers, NEW label \in WithTask, rpc[h].at \in WithTask,
         Goto(h, label) \/ (\E a \in Answers : rpc' = [rpc EXCEPT ![h].at = label, ![h].answer = a])
           \/ (\E b \in BOOLEAN : rpc' = [rpc EXCEPT ![h].at = label, ![h].pid = b])
  PROVE  /\ rpc' \in [Handlers -> Request]
         /\ TaskInv'
<1>1. rpc \in [Handlers -> Request] /\ rpc[h] \in Request /\ label \in LocalLabels
  BY Zenon DEF LInv, ServiceType, WithTask
<1>2. PICK r \in Request : /\ rpc' = [rpc EXCEPT ![h] = r]
                     /\ r.at = label /\ r.obj = rpc[h].obj /\ r.id = rpc[h].id
  <2>1. CASE Goto(h, label)
    <3>1. [rpc[h] EXCEPT !.at = label] \in Request
      BY <1>1, Zenon DEF Request
    <3> QED BY <2>1, <3>1, <1>1, Zenon DEF Goto, Request
  <2>2. ASSUME NEW a \in Answers, rpc' = [rpc EXCEPT ![h].at = label, ![h].answer = a]
        PROVE  \E r \in Request : rpc' = [rpc EXCEPT ![h] = r]
                            /\ r.at = label /\ r.obj = rpc[h].obj /\ r.id = rpc[h].id
    <3>1. [rpc[h] EXCEPT !.at = label, !.answer = a] \in Request
      BY <1>1, Zenon DEF Request
    <3> QED BY <2>2, <3>1, <1>1, Zenon DEF Request
  <2>3. ASSUME NEW b \in BOOLEAN, rpc' = [rpc EXCEPT ![h].at = label, ![h].pid = b]
        PROVE  \E r \in Request : rpc' = [rpc EXCEPT ![h] = r]
                            /\ r.at = label /\ r.obj = rpc[h].obj /\ r.id = rpc[h].id
    <3>1. [rpc[h] EXCEPT !.at = label, !.pid = b] \in Request
      BY <1>1, Zenon DEF Request
    <3> QED BY <2>3, <3>1, <1>1, Zenon DEF Request
  <2> QED BY <2>1, <2>2, <2>3, Zenon
<1>3. rpc' \in [Handlers -> Request] /\ rpc'[h] = r /\ \A g \in Handlers \ {h} : rpc'[g] = rpc[g]
  BY <1>1, <1>2, Zenon
<1> QED BY <1>2, <1>3, Zenon DEF LInv, TaskInv, WithId

LEMMA ReplyStep ==
  ASSUME LInv, NEW h \in Handlers, NEW a \in Answers,
         Reply(h, a) \/ rpc' = [rpc EXCEPT ![h] = Idle]
  PROVE  /\ rpc' \in [Handlers -> Request]
         /\ TaskInv'
<1>1. PICK r \in Request : rpc' = [rpc EXCEPT ![h] = r] /\ r.at \notin WithId
  <2>1. Idle \in Request /\ [Idle EXCEPT !.at = "replied", !.answer = a] \in Request
    BY Zenon DEF Idle, Request, LocalLabels, Answers
  <2> QED BY <2>1, Zenon DEF Reply, WithId, WithTask, Idle
<1>2. /\ rpc' \in [Handlers -> Request]
      /\ rpc'[h] = r /\ \A g \in Handlers \ {h} : rpc'[g] = rpc[g]
  BY <1>1, Zenon DEF LInv, ServiceType
<1> QED BY <1>1, <1>2, Zenon DEF LInv, TaskInv, WithId

LEMMA AcceptStep ==
  ASSUME LInv, NEW h \in Handlers, NEW id \in Ids \cup {NoId}, NEW label \in LocalLabels,
         NEW i \in Instances \cup {NoInstance}, Accept(h, id, label, i),
         label \in WithTask => i \in Instances,
         label \in WithId => id \in Ids
  PROVE  /\ rpc' \in [Handlers -> Request]
         /\ TaskInv'
<1> DEFINE b == i \in waited
           r == [Idle EXCEPT !.at = label, !.id = id, !.obj = i, !.late = b]
<1>1. b \in BOOLEAN
  OBVIOUS
<1>2. rpc' = [rpc EXCEPT ![h] = r]
  BY Zenon DEF Accept
<1> HIDE DEF b
<1>3. r \in Request /\ r.at = label /\ r.id = id /\ r.obj = i
  BY <1>1, Zenon DEF Idle, Request, Answers
<1> HIDE DEF r
<1>4. /\ rpc' \in [Handlers -> Request]
      /\ rpc'[h] = r /\ \A g \in Handlers \ {h} : rpc'[g] = rpc[g]
  BY <1>2, <1>3, Zenon DEF LInv, ServiceType
<1> QED BY <1>3, <1>4, Zenon DEF LInv, TaskInv, WithId

(* Publishing appends to what was published. *)
LEMMA SendStep ==
  ASSUME LInv, NEW i \in Instances, NEW kind \in EventKinds, send(i, kind)
  PROVE  /\ events' \in [Instances -> Seq(EventKinds)]
         /\ events'[i] = Append(events[i], kind)
         /\ \A j \in Instances \ {i} : events'[j] = events[j]
BY AppendProperties, Zenon DEF send, LInv, ServiceType

(* One step per action, or per group of actions that answer alike. *)
LEMMA StepLInv == LInv /\ [Next]_vars => LInv'
<1> SUFFICES ASSUME LInv, [Next]_vars PROVE LInv'
  OBVIOUS
<1>1. P!IInv'
  BY RefinesStep, InnerNext, Zenon DEF LInv
<1> DEFINE Kept == ServiceType' /\ TaskInv'
<1> USE DEF LInv
<1>2. ASSUME NEW h \in Handlers, NEW id \in Ids, NEW m \in I!Methods, get_instance(h, id, m)
      PROVE  Kept
  <2>1. instances[id] \in Instances \cup {NoInstance} /\ m \in LocalLabels /\ m \in WithTask
        /\ "err" \in Answers /\ "NotFound" \in Answers
    BY Zenon DEF ServiceType, I!Methods, LocalLabels, Deleting, WithTask, Answers
  <2>2. rpc' \in [Handlers -> Request] /\ TaskInv'
    BY <1>2, <2>1, ReplyStep, AcceptStep, Zenon DEF get_instance
  <2> QED BY <1>2, <2>2, Zenon DEF get_instance, ServiceType
<1>3. ASSUME NEW h \in Handlers, Arrival(h) PROVE Kept
  <2>1. CASE shutdown(h)
    <3>1. "ok" \in Answers /\ "shutdown_exit" \in LocalLabels \ WithId
      BY Zenon DEF Answers, LocalLabels, WithId, WithTask
    <3>2. rpc' \in [Handlers -> Request] /\ TaskInv'
      BY <2>1, <3>1, ReplyStep, AcceptStep, Zenon DEF shutdown, WithId
    <3> QED BY <2>1, <3>2, Zenon DEF shutdown, ServiceType
  <2>2. ASSUME NEW id \in Ids, task_create(h, id) PROVE Kept
    <3>1. "err" \in Answers /\ "AlreadyExists" \in Answers
          /\ "create_new" \in LocalLabels \ WithTask
      BY Zenon DEF Answers, LocalLabels, Creating, WithTask
    <3>2. rpc' \in [Handlers -> Request] /\ TaskInv'
      BY <2>2, <3>1, ReplyStep, AcceptStep, Zenon DEF task_create
    <3> QED BY <2>2, <3>2, Zenon DEF task_create, ServiceType
  <2>3. ASSUME NEW id \in Ids, task_start(h, id) \/ task_kill(h, id) \/ task_delete(h, id)
                               \/ task_wait(h, id)
        PROVE  Kept
    BY <1>2, <2>3, Zenon DEF task_start, task_kill, task_delete, task_wait, I!Methods
  <2>4. ASSUME NEW id \in Ids, NEW kind, NEW label \in {"state_pid", "stats_pid", "connect_pid"},
               lookup(h, id, kind, label)
        PROVE  Kept
    <3>1. "err" \in Answers /\ "NotFound" \in Answers /\ label \in LocalLabels
          /\ instances[id] \in Instances \cup {NoInstance}
      BY Zenon DEF Answers, LocalLabels, ServiceType
    <3>2. rpc' \in [Handlers -> Request] /\ TaskInv'
      BY <2>4, <3>1, ReplyStep, AcceptStep, Zenon DEF lookup
    <3> QED BY <2>4, <3>2, Zenon DEF lookup, ServiceType
  <2> QED BY <1>3, <2>1, <2>2, <2>3, <2>4, Zenon DEF Arrival, task_state, task_stats, connect
<1>4. ASSUME NEW h \in Handlers, create_new(h) PROVE Kept
  <2>1. rpc[h] \in Request /\ rpc[h].at = "create_new" /\ rpc[h].id \in Ids
    BY <1>4, Zenon DEF create_new, At, ServiceType, TaskInv, WithId
  <2>2. CASE Reply(h, "err") /\ UNCHANGED container
    <3>1. rpc' \in [Handlers -> Request] /\ TaskInv'
      BY <2>2, ReplyStep, Zenon DEF Answers
    <3> QED BY <1>4, <2>2, <3>1, Zenon DEF create_new, ServiceType
  <2>3. ASSUME NEW i \in Instances,
               container' = [container EXCEPT ![i] = rpc[h].id],
               rpc' = [rpc EXCEPT ![h].at = "create_insert", ![h].obj = i]
        PROVE  Kept
    <3> DEFINE r == [rpc[h] EXCEPT !.at = "create_insert", !.obj = i]
    <3>1. r \in Request /\ r.id \in Ids /\ r.obj = i /\ r.at = "create_insert"
      BY <2>1, Zenon DEF Request, LocalLabels, Creating
    <3>2. rpc' = [rpc EXCEPT ![h] = r]
      BY <2>3, Zenon
    <3> HIDE DEF r
    <3>3. /\ rpc' \in [Handlers -> Request]
          /\ rpc'[h] = r /\ \A g \in Handlers \ {h} : rpc'[g] = rpc[g]
      BY <3>1, <3>2, Zenon DEF ServiceType
    <3>4. TaskInv'
      BY <3>1, <3>3, Zenon DEF TaskInv
    <3>5. container' \in [Instances -> Ids \cup {NoId}]
      BY <2>1, <2>3, Zenon DEF ServiceType
    <3> QED BY <1>4, <3>3, <3>4, <3>5, Zenon DEF create_new, ServiceType
  <2> QED BY <1>4, <2>2, <2>3, Zenon DEF create_new
<1>5. ASSUME NEW h \in Handlers, create_insert(h) PROVE Kept
  <2>1. rpc[h].at \in WithTask /\ "create_event" \in WithTask
        /\ rpc[h].obj \in Instances /\ rpc[h].id \in Ids
    BY <1>5, Zenon DEF create_insert, At, TaskInv, WithId, WithTask, LocalLabels, Creating
  <2>2. rpc' \in [Handlers -> Request] /\ TaskInv'
    BY <1>5, <2>1, GotoStep, Zenon DEF create_insert
  <2>3. instances' \in [Ids -> Instances \cup {NoInstance}]
    BY <1>5, <2>1, Zenon DEF create_insert, ServiceType
  <2> QED BY <1>5, <2>2, <2>3, Zenon DEF create_insert, ServiceType
<1>6. ASSUME NEW h \in Handlers, create_event(h) PROVE Kept
  <2>1. rpc[h].at \in WithTask /\ "create_hooks" \in WithTask
        /\ rpc[h].obj \in Instances /\ "create" \in EventKinds
    BY <1>6, Zenon DEF create_event, At, TaskInv, WithTask, LocalLabels, Creating, EventKinds
  <2>2. rpc' \in [Handlers -> Request] /\ TaskInv'
    BY <1>6, <2>1, GotoStep, Zenon DEF create_event
  <2>3. events' \in [Instances -> Seq(EventKinds)]
    BY <1>6, <2>1, SendStep, Zenon DEF create_event
  <2> QED BY <1>6, <2>2, <2>3, Zenon DEF create_event, ServiceType
<1>7. ASSUME NEW h \in Handlers,
             \/ create_hooks(h) \/ method_failed(h) \/ start_spawn(h) \/ kill_reply(h)
             \/ stats_reply(h) \/ connect_reply(h) \/ Done(h)
      PROVE  Kept
  <2>1. /\ \E a \in Answers : Reply(h, a) \/ rpc' = [rpc EXCEPT ![h] = Idle]
        /\ UNCHANGED <<instances, container, events, shim, waited>>
    BY <1>7, Zenon DEF create_hooks, method_failed, start_spawn, kill_reply, stats_reply,
       connect_reply, Done, Answers
  <2>2. rpc' \in [Handlers -> Request] /\ TaskInv'
    BY <2>1, ReplyStep, Zenon
  <2> QED BY <2>1, <2>2, Zenon DEF ServiceType
<1>8. ASSUME NEW h \in Handlers, start_event(h) PROVE Kept
  <2>1. rpc[h].at \in WithTask /\ "start_spawn" \in WithTask
        /\ rpc[h].obj \in Instances /\ "start" \in EventKinds
    BY <1>8, Zenon DEF start_event, At, TaskInv, WithTask, LocalLabels, EventKinds
  <2>2. rpc' \in [Handlers -> Request] /\ TaskInv'
    BY <1>8, <2>1, GotoStep, Zenon DEF start_event
  <2>3. events' \in [Instances -> Seq(EventKinds)]
    BY <1>8, <2>1, SendStep, Zenon DEF start_event
  <2> QED BY <1>8, <2>2, <2>3, Zenon DEF start_event, ServiceType
<1>9. ASSUME NEW i \in Instances, exit_event(i) PROVE Kept
  <2>1. events' \in [Instances -> Seq(EventKinds)]
    BY <1>9, SendStep, Zenon DEF exit_event, EventKinds
  <2> QED BY <1>9, <2>1, Zenon DEF exit_event, ServiceType, TaskInv
<1>10. ASSUME NEW h \in Handlers, wait_reply(h) PROVE Kept
  <2>1. res[h] \in Answers /\ rpc[h].obj \in Instances
    BY <1>10, Zenon DEF wait_reply, At, TaskInv, WithTask, LocalLabels, P!IInv, P!TypeOK, Answers
  <2>2. rpc' \in [Handlers -> Request] /\ TaskInv'
    BY <1>10, <2>1, ReplyStep, Zenon DEF wait_reply
  <2> QED BY <1>10, <2>1, <2>2, Zenon DEF wait_reply, ServiceType
<1>11. ASSUME NEW h \in Handlers, delete_done(h) \/ delete_poll(h) \/ state_poll(h) PROVE Kept
  <2>1. /\ rpc[h].at \in WithTask
        /\ \E label \in WithTask : Goto(h, label)
        /\ UNCHANGED <<instances, container, events, shim, waited>>
    BY <1>11, Zenon DEF delete_done, delete_poll, state_poll, At, WithTask, LocalLabels, Deleting
  <2>2. rpc' \in [Handlers -> Request] /\ TaskInv'
    BY <2>1, GotoStep, Zenon
  <2> QED BY <2>1, <2>2, Zenon DEF ServiceType
<1>12. ASSUME NEW h \in Handlers, delete_remove(h) PROVE Kept
  <2>1. /\ rpc[h].at \in WithTask /\ "delete_event" \in WithTask
        /\ res[h] \in Answers /\ rpc[h].id \in Ids
    BY <1>12, Zenon DEF delete_remove, At, TaskInv, WithTask, WithId, LocalLabels, Deleting,
       P!IInv, P!TypeOK, Answers
  <2>2. rpc' = [rpc EXCEPT ![h].at = "delete_event", ![h].answer = res[h]]
    BY <1>12, Zenon DEF delete_remove
  <2>3. rpc' \in [Handlers -> Request] /\ TaskInv'
    BY <2>1, <2>2, GotoStep, Zenon
  <2>4. instances' \in [Ids -> Instances \cup {NoInstance}]
    BY <1>12, <2>1, Zenon DEF delete_remove, ServiceType
  <2> QED BY <1>12, <2>3, <2>4, Zenon DEF delete_remove, ServiceType
<1>13. ASSUME NEW h \in Handlers, delete_event(h) PROVE Kept
  <2>1. rpc[h].answer \in Answers /\ rpc[h].obj \in Instances
    BY <1>13, Zenon DEF delete_event, At, TaskInv, WithTask, LocalLabels, Deleting, ServiceType, Request
  <2>2. rpc' \in [Handlers -> Request] /\ TaskInv'
    BY <1>13, <2>1, ReplyStep, Zenon DEF delete_event
  <2>3. events' \in [Instances -> Seq(EventKinds)]
    BY <1>13, <2>1, SendStep, Zenon DEF delete_event, EventKinds
  <2> QED BY <1>13, <2>2, <2>3, Zenon DEF delete_event, ServiceType
<1>14. ASSUME NEW h \in Handlers, state_pid(h) PROVE Kept
  <2>1. rpc[h].at \in WithTask /\ "state_poll" \in WithTask /\ pid[rpc[h].obj] \in BOOLEAN
    BY <1>14, Zenon DEF state_pid, At, TaskInv, WithTask, LocalLabels, P!IInv, P!TypeOK
  <2>2. rpc' = [rpc EXCEPT ![h].at = "state_poll", ![h].pid = pid[rpc[h].obj]]
    BY <1>14, Zenon DEF state_pid
  <2>3. rpc' \in [Handlers -> Request] /\ TaskInv'
    BY <2>1, <2>2, GotoStep, Zenon
  <2> QED BY <1>14, <2>3, Zenon DEF state_pid, ServiceType
<1>15. ASSUME NEW h \in Handlers, state_reply(h) PROVE Kept
  <2>1. /\ \E a \in Answers : Reply(h, a)
        /\ UNCHANGED <<instances, container, events, shim, waited>>
    BY <1>15, Zenon DEF state_reply, Answers
  <2>2. rpc' \in [Handlers -> Request] /\ TaskInv'
    BY <2>1, ReplyStep, Zenon
  <2> QED BY <2>1, <2>2, Zenon DEF ServiceType
<1>16. ASSUME NEW h \in Handlers, shutdown_exit(h) PROVE Kept
  <2>1. rpc' \in [Handlers -> Request] /\ TaskInv'
    BY <1>16, ReplyStep, Zenon DEF shutdown_exit, Answers
  <2> QED BY <1>16, <2>1, Zenon DEF shutdown_exit, ServiceType
<1>17. ASSUME \/ \E i \in Instances : watcher_step(i)
              \/ \E c \in Handlers \cup Instances : method_step(c)
              \/ shim_exit
              \/ UNCHANGED vars
       PROVE  Kept
  BY <1>17, Zenon DEF watcher_step, method_step, shim_exit, vars, ServiceType, TaskInv
<1> HIDE DEF Kept
<1>18. Kept
  BY <1>3, <1>4, <1>5, <1>6, <1>7, <1>8, <1>9, <1>10, <1>11, <1>12, <1>13, <1>14, <1>15,
     <1>16, <1>17, Zenon DEF Next, Progress
<1> QED BY <1>1, <1>18, Zenon DEF Kept

-----------------------------------------------------------------------------
LEMMA InitLInv == Init => LInv
<1> SUFFICES ASSUME Init PROVE LInv
  OBVIOUS
<1>1. P!IInv
  BY InnerInit, Zenon DEF Init
<1>2. Idle \in Request
  BY Zenon DEF Idle, Request, LocalLabels, Answers
<1>3. ServiceType
  BY <1>2, EmptySeq, Zenon DEF Init, ServiceType
<1>4. TaskInv
  BY Zenon DEF Init, TaskInv, Idle, WithId, WithTask
<1> QED BY <1>1, <1>3, <1>4, Zenon DEF LInv

(* LInv holds throughout every behaviour of the service. *)
THEOREM Invariance == Spec => []LInv
<1> QED BY InitLInv, StepLInv, PTL DEF Spec

(* The variables of the service (local.rs:88-94) keep their types. *)
THEOREM TypeCorrect == Spec => []TypeOK
<1>1. LInv => TypeOK
  BY Zenon DEF LInv, P!IInv, P!TypeOK, I!TypeOK, P!Labels, I!Labels, P!Waiting, I!Waiting,
     P!Holding, I!Holding, P!Starting, I!Starting, P!TaskStates, I!TaskStates,
     ServiceType, Request, TypeOK
<1> QED BY <1>1, Invariance, PTL

(***************************************************************************)
(* The service implements InstanceData for any number of request threads:  *)
(* handlers and spawned tasks use a task only through its methods          *)
(* (local.rs:140-363), so what is proved of InstanceData holds here.       *)
(***************************************************************************)
THEOREM Refinement == Spec => ImplementsInstanceData
<1>1. Init => I!Init
  BY Zenon DEF Init
<1>2. LInv /\ [Next]_vars => [I!Next]_(I!vars)
  BY RefinesStep, Zenon DEF inner, I!vars
<1> QED BY <1>1, <1>2, Invariance, PTL DEF Spec, ImplementsInstanceData, I!Spec

-----------------------------------------------------------------------------
(***************************************************************************)
(* What the steps of InstanceData never take back: a pid, a guest, an exit *)
(* code, and a task being past its creation.                               *)
(***************************************************************************)
Fresh == {"Unborn", "Created"}

PidInv ==
  /\ \A i \in Instances : pid[i] => guest[i] # "none"
  /\ \A c \in Handlers \cup Instances :
       pc[c] \in {"start_up", "start_pid"} => guest[on[c]] # "none"

Lasting ==
  \A i \in Instances :
    /\ pid[i] => pid'[i]
    /\ guest[i] # "none" => guest'[i] # "none"
    /\ exit_code[i] # "none" => exit_code'[i] # "none"
    /\ state'[i] \in Fresh => state[i] \in Fresh

LEMMA LastingStep ==
  ASSUME P!IInv, PidInv, [I!Next]_inner PROVE PidInv' /\ Lasting
<1> USE Constants DEF P!IInv, P!TypeOK, P!CallerInv, I!objects, Fresh
<1>1. ASSUME NEW i \in Instances,
             I!new(i) \/ I!guest_exit(i) \/ I!report_exit(i) \/ I!watch_fail(i)
      PROVE  PidInv' /\ Lasting
  BY <1>1, SMTT(30) DEF I!new, I!guest_exit, I!report_exit, I!watch_fail, PidInv, Lasting
<1>2. ASSUME NEW c \in Handlers \cup Instances, I!Enter(c) PROVE PidInv' /\ Lasting
  BY <1>2 DEF I!Enter, I!start_enter, I!kill_enter, I!delete_enter, I!wait_exited, I!Guarded,
     I!Acquire, I!Goto, I!Finish, I!start, I!kill, I!delete, PidInv, Lasting
<1>3. ASSUME NEW c \in Handlers \cup Instances, I!start_return(c) PROVE PidInv' /\ Lasting
  BY <1>3 DEF I!start_return, I!Finish, I!Release, I!Ignoring, I!started, I!stop, PidInv, Lasting
<1>4. ASSUME NEW c \in Handlers \cup Instances, I!delete_return(c) PROVE PidInv' /\ Lasting
  BY <1>4 DEF I!delete_return, I!Finish, I!Release, I!Ignoring, I!stop, PidInv, Lasting
<1>5. ASSUME NEW c \in Handlers \cup Instances,
             \/ I!start_run(c) \/ I!start_fail(c) \/ I!start_set_pid(c)
             \/ I!kill_return(c) \/ I!wait_code(c)
      PROVE  PidInv' /\ Lasting
  BY <1>5 DEF I!start_run, I!start_fail, I!start_set_pid, I!kill_return, I!wait_code,
     I!Goto, I!Finish, I!Release, PidInv, Lasting
<1>6. ASSUME NEW c \in Handlers \cup Instances, I!Return(c) PROVE PidInv' /\ Lasting
  BY <1>6, Zenon DEF I!Return, PidInv, Lasting
<1>7. ASSUME NEW c \in Handlers \cup Instances, NEW i \in Instances,
             I!now_or_never(c, i) \/ \E m \in I!Methods : I!Invoke(c, i, m)
      PROVE  PidInv' /\ Lasting
  BY <1>7 DEF I!now_or_never, I!Invoke, I!Methods, PidInv, Lasting
<1>8. CASE UNCHANGED inner
  BY <1>8, Zenon DEF inner, PidInv, Lasting
<1> QED BY <1>1, <1>2, <1>3, <1>4, <1>5, <1>6, <1>7, <1>8, Zenon DEF I!Next, I!Step

(* A caller only moves itself. *)
Same(c) == pc'[c] = pc[c] /\ on'[c] = on[c] /\ res'[c] = res[c]

LEMMA CallStep ==
  ASSUME P!IInv, NEW c \in Handlers \cup Instances, NEW i,
         \/ I!Return(c) \/ I!now_or_never(c, i) \/ (\E m \in I!Methods : I!Invoke(c, i, m))
         \/ I!new(i) \/ I!Enter(c) \/ I!Step(c)
         \/ I!guest_exit(i) \/ I!report_exit(i) \/ I!watch_fail(i) \/ UNCHANGED inner
  PROVE  \A d \in (Handlers \cup Instances) \ {c} : Same(d)
<1> USE DEF P!IInv, P!TypeOK, I!objects, Same
<1>1. CASE I!Return(c) \/ I!now_or_never(c, i) \/ \E m \in I!Methods : I!Invoke(c, i, m)
  BY <1>1 DEF I!Return, I!now_or_never, I!Invoke
<1>2. CASE \/ I!new(i) \/ I!guest_exit(i) \/ I!report_exit(i) \/ I!watch_fail(i)
           \/ UNCHANGED inner
  BY <1>2, Zenon DEF I!new, I!guest_exit, I!report_exit, I!watch_fail, inner
<1>3. CASE I!Enter(c)
  BY <1>3, Zenon DEF I!Enter, I!start_enter, I!kill_enter, I!delete_enter, I!wait_exited, I!Guarded,
     I!Goto, I!Finish
<1>4. CASE I!Step(c)
  BY <1>4, Zenon DEF I!Step, I!start_run, I!start_fail, I!start_set_pid, I!start_return,
     I!kill_return, I!delete_return, I!wait_code, I!Goto, I!Finish
<1> QED BY <1>1, <1>2, <1>3, <1>4, Zenon

(* A caller that makes a step is in a method and stays in it. *)
LEMMA MethodStep ==
  ASSUME P!IInv, NEW c \in Handlers \cup Instances, I!Enter(c) \/ I!Step(c)
  PROVE  /\ pc[c] \notin {"idle", "done"} /\ pc'[c] # "idle"
         /\ on' = on
<1> USE DEF P!IInv, P!TypeOK
<1>1. CASE I!Enter(c)
  BY <1>1, Zenon DEF I!Enter, I!start_enter, I!kill_enter, I!delete_enter, I!wait_exited, I!Guarded,
     I!Goto, I!Finish
<1>2. CASE I!Step(c)
  BY <1>2, Zenon DEF I!Step, I!start_run, I!start_fail, I!start_set_pid, I!start_return,
     I!kill_return, I!delete_return, I!wait_code, I!Goto, I!Finish
<1> QED BY <1>1, <1>2, Zenon

(* Publishing an event of another kind moves no event of this kind. *)
LEMMA SendPositions ==
  ASSUME LInv, NEW i \in Instances, NEW kind \in EventKinds, send(i, kind)
  PROVE  /\ \A k \in EventKinds \ {kind} : Positions(i, k)' = Positions(i, k)
         /\ Positions(i, kind)' = Positions(i, kind) \cup {Len(events[i]) + 1}
         /\ \A j \in Instances \ {i}, k \in EventKinds : Positions(j, k)' = Positions(j, k)
         /\ Len(events[i]) \in Nat
         /\ \A k \in EventKinds : Positions(i, k) \subseteq 1..Len(events[i])
<1>1. /\ events'[i] = Append(events[i], kind)
      /\ \A j \in Instances \ {i} : events'[j] = events[j]
  BY SendStep, Zenon
<1>2. events[i] \in Seq(EventKinds)
  BY Zenon DEF LInv, ServiceType
<1>3. /\ Len(events[i]) \in Nat
      /\ Len(events'[i]) = Len(events[i]) + 1
      /\ \A n \in 1..Len(events[i]) : events'[i][n] = events[i][n]
      /\ events'[i][Len(events[i]) + 1] = kind
  BY <1>1, <1>2, AppendProperties, LenProperties
<1>4. 1..Len(events'[i]) = 1..Len(events[i]) \cup {Len(events[i]) + 1}
  BY <1>3
<1>5. \A k \in EventKinds \ {kind} : Positions(i, k)' = Positions(i, k)
  BY <1>3, <1>4, Zenon DEF Positions
<1>6. Positions(i, kind)' = Positions(i, kind) \cup {Len(events[i]) + 1}
  BY <1>3, <1>4 DEF Positions
<1>7. \A j \in Instances \ {i}, k \in EventKinds : Positions(j, k)' = Positions(j, k)
  BY <1>1, Zenon DEF Positions
<1> QED BY <1>3, <1>5, <1>6, <1>7, Zenon DEF Positions

(* A handler only moves itself. *)
LEMMA RpcStep ==
  ASSUME LInv, NEW h \in Handlers
  PROVE  /\ \A a : Reply(h, a) => rpc'[h].at = "replied"
         /\ \A id, label, i : Accept(h, id, label, i) => rpc'[h].at = label /\ rpc'[h].obj = i
         /\ \A label : Goto(h, label) => rpc'[h].at = label /\ rpc'[h].obj = rpc[h].obj
                                         /\ rpc'[h].pid = rpc[h].pid
         /\ \/ \E a : Reply(h, a)
            \/ \E id, label, i : Accept(h, id, label, i)
            \/ \E label : Goto(h, label)
            => \A g \in Handlers \ {h} : rpc'[g] = rpc[g]
<1>1. rpc \in [Handlers -> Request] /\ rpc[h] \in Request
  BY Zenon DEF LInv, ServiceType
<1>2. \A a : Reply(h, a) => rpc'[h].at = "replied" /\ \A g \in Handlers \ {h} : rpc'[g] = rpc[g]
  BY <1>1, Zenon DEF Reply, Idle
<1>3. \A id, label, i : Accept(h, id, label, i)
        => rpc'[h].at = label /\ rpc'[h].obj = i /\ \A g \in Handlers \ {h} : rpc'[g] = rpc[g]
  BY <1>1, Zenon DEF Accept, Idle
<1>4. \A label : Goto(h, label)
        => /\ rpc'[h].at = label /\ rpc'[h].obj = rpc[h].obj /\ rpc'[h].pid = rpc[h].pid
           /\ \A g \in Handlers \ {h} : rpc'[g] = rpc[g]
  BY <1>1, Zenon DEF Goto, Request
<1> QED BY <1>2, <1>3, <1>4, Zenon

(***************************************************************************)
(* The handler steps that neither start a task nor report its state leave  *)
(* every other handler, every spawned task, and the start and exit events  *)
(* alone.                                                                  *)
(***************************************************************************)
Telling == {"start", "start_spawn", "state_poll", "state_reply"}

Plain(h) ==
  \/ create_new(h) \/ create_insert(h) \/ create_event(h) \/ create_hooks(h)
  \/ method_failed(h) \/ kill_reply(h) \/ wait_reply(h)
  \/ delete_done(h) \/ delete_poll(h) \/ delete_remove(h) \/ delete_event(h)
  \/ state_reply(h) \/ stats_reply(h) \/ connect_reply(h) \/ shutdown_exit(h) \/ Done(h)
  \/ shutdown(h)
  \/ \E id \in Ids : \/ task_create(h, id) \/ task_kill(h, id) \/ task_delete(h, id)
                     \/ task_wait(h, id) \/ task_state(h, id) \/ task_stats(h, id)
                     \/ connect(h, id)

Unmoved(h) ==
  /\ \A g \in Handlers \ {h} : rpc'[g] = rpc[g] /\ Same(g)
  /\ rpc'[h].at \notin Telling
  /\ rpc[h].at # "start_spawn"
  /\ rpc[h].at = "start" => pc[h] = "done" /\ res[h] = "err"
  /\ \A i \in Instances : pc'[i] = pc[i]
  /\ \A i \in Instances, k \in {"start", "exit"} : Positions(i, k)' = Positions(i, k)

LEMMA PlainStep ==
  ASSUME LInv, NEW h \in Handlers, Plain(h) PROVE Unmoved(h)
<1>0. P!IInv /\ h \in Handlers \cup Instances /\ h \notin Instances
  BY Constants, Zenon DEF LInv
<1>1. ASSUME I!Return(h) \/ (\E i \in Instances : I!now_or_never(h, i))
             \/ (\E i, m : m \in I!Methods /\ I!Invoke(h, i, m))
             \/ (\E i \in Instances : I!new(i)) \/ UNCHANGED inner
      PROVE  (\A g \in Handlers \ {h} : Same(g)) /\ (\A i \in Instances : pc'[i] = pc[i])
  <2>1. \A d \in (Handlers \cup Instances) \ {h} : Same(d)
    BY <1>0, <1>1, CallStep, Zenon
  <2> QED BY <2>1, <1>0, Zenon DEF Same
<1>2. ASSUME UNCHANGED events
      PROVE  \A i \in Instances, k \in {"start", "exit"} : Positions(i, k)' = Positions(i, k)
  BY <1>2, Zenon DEF Positions
<1>3. ASSUME NEW i \in Instances, send(i, "create") \/ send(i, "delete")
      PROVE  \A j \in Instances, k \in {"start", "exit"} : Positions(j, k)' = Positions(j, k)
  <2>1. {"create", "delete", "start", "exit"} = EventKinds
    BY Zenon DEF EventKinds
  <2> QED BY <1>3, <2>1, SendPositions, Zenon
<1> USE DEF Unmoved, Telling, At
<1>4. CASE \/ create_hooks(h) \/ method_failed(h) \/ kill_reply(h) \/ wait_reply(h)
           \/ state_reply(h) \/ stats_reply(h) \/ connect_reply(h) \/ shutdown_exit(h)
  <2>1. /\ \E a : Reply(h, a)
        /\ I!Return(h) \/ UNCHANGED inner
        /\ UNCHANGED events
    BY <1>4, Zenon DEF create_hooks, method_failed, kill_reply, wait_reply, state_reply, stats_reply,
       connect_reply, shutdown_exit
  <2>2. /\ rpc[h].at # "start_spawn"
        /\ rpc[h].at = "start" => pc[h] = "done" /\ res[h] = "err"
    BY <1>4, Zenon DEF create_hooks, method_failed, kill_reply, wait_reply, state_reply, stats_reply,
       connect_reply, shutdown_exit, I!Return
  <2> QED BY <2>1, <2>2, <1>1, <1>2, RpcStep, Zenon
<1>5. CASE Done(h)
  <2>1. rpc'[h].at = "idle" /\ \A g \in Handlers \ {h} : rpc'[g] = rpc[g]
    BY <1>5, Zenon DEF Done, LInv, ServiceType, Idle
  <2> QED BY <1>5, <1>1, <1>2, <2>1, Zenon DEF Done
<1>6. CASE shutdown(h)
  BY <1>6, <1>1, <1>2, RpcStep, SMTT(30) DEF shutdown, Arrives
<1>7. ASSUME NEW id \in Ids, task_create(h, id) PROVE Unmoved(h)
  BY <1>7, <1>1, <1>2, RpcStep, SMTT(30) DEF task_create, Arrives
<1>8. ASSUME NEW id \in Ids, NEW m \in {"kill", "delete", "wait"}, get_instance(h, id, m)
      PROVE  Unmoved(h)
  <2>1. m \in I!Methods
    BY Zenon DEF I!Methods
  <2> QED BY <1>8, <1>1, <1>2, <2>1, RpcStep DEF get_instance, Arrives
<1>9. ASSUME NEW id \in Ids, NEW kind, NEW label \in {"state_pid", "stats_pid", "connect_pid"},
             lookup(h, id, kind, label)
      PROVE  Unmoved(h)
  BY <1>9, <1>1, <1>2, RpcStep DEF lookup, Arrives
<1>10. CASE create_new(h)
  <2>1. CASE Reply(h, "err") /\ UNCHANGED inner
    BY <1>10, <2>1, <1>1, <1>2, RpcStep, Zenon DEF create_new
  <2>2. ASSUME NEW i \in Instances, I!new(i),
               rpc' = [rpc EXCEPT ![h].at = "create_insert", ![h].obj = i]
        PROVE  Unmoved(h)
    <3>1. rpc'[h].at = "create_insert" /\ \A g \in Handlers \ {h} : rpc'[g] = rpc[g]
      BY <2>2, Zenon DEF LInv, ServiceType, Request
    <3> QED BY <1>10, <2>2, <3>1, <1>1, <1>2, Zenon DEF create_new
  <2> QED BY <1>10, <2>1, <2>2, Zenon DEF create_new
<1>11. CASE create_insert(h) \/ delete_done(h)
  BY <1>11, <1>1, <1>2, RpcStep, SMTT(30) DEF create_insert, delete_done
<1>12. CASE delete_poll(h)
  <2>1. rpc[h].obj \in Instances
    BY <1>12, Zenon DEF delete_poll, LInv, TaskInv, WithTask, LocalLabels, Deleting
  <2> QED BY <1>12, <2>1, <1>1, <1>2, RpcStep DEF delete_poll
<1>13. CASE delete_remove(h)
  <2>1. rpc'[h].at = "delete_event" /\ \A g \in Handlers \ {h} : rpc'[g] = rpc[g]
    BY <1>13, Zenon DEF delete_remove, LInv, ServiceType, Request
  <2> QED BY <1>13, <2>1, <1>1, <1>2, Zenon DEF delete_remove
<1>14. CASE create_event(h) \/ delete_event(h)
  <2>1. rpc[h].obj \in Instances
    BY <1>14, Zenon DEF create_event, delete_event, LInv, TaskInv, WithTask, LocalLabels, Deleting, Creating
  <2> QED BY <1>14, <2>1, <1>1, <1>3, RpcStep DEF create_event, delete_event
<1> QED
  BY <1>4, <1>5, <1>6, <1>7, <1>8, <1>9, <1>10, <1>11, <1>12, <1>13, <1>14, Zenon
     DEF Plain, task_kill, task_delete, task_wait, task_state, task_stats, connect

-----------------------------------------------------------------------------
(***************************************************************************)
(* What a State request knows: the pid it read is still there, and a code  *)
(* that its poll returned is the exit code of its task.                    *)
(***************************************************************************)
StateInv ==
  \A h \in Handlers :
    /\ rpc[h].at \in {"state_poll", "state_reply"} /\ rpc[h].pid => pid[rpc[h].obj]
    /\ rpc[h].at = "state_reply" =>
         pc[h] = "done" /\ (res[h] # "none" => exit_code[rpc[h].obj] # "none")

LEMMA StateStep ==
  ASSUME LInv, PidInv, StateInv, [Next]_vars PROVE StateInv'
<1>1. Lasting
  BY RefinesStep, LastingStep, Zenon DEF LInv
<1>2. rpc \in [Handlers -> Request] /\ TaskInv /\ P!IInv
  BY Zenon DEF LInv, ServiceType
<1>3. ASSUME NEW g \in Handlers, rpc'[g] = rpc[g], Same(g)
      PROVE  /\ rpc'[g].at \in {"state_poll", "state_reply"} /\ rpc'[g].pid => pid'[rpc'[g].obj]
             /\ rpc'[g].at = "state_reply" =>
                  pc'[g] = "done" /\ (res'[g] # "none" => exit_code'[rpc'[g].obj] # "none")
  <2>1. rpc[g].at \in {"state_poll", "state_reply"} => rpc[g].obj \in Instances
    BY <1>2, Zenon DEF TaskInv, WithTask, LocalLabels
  <2> QED BY <1>1, <1>3, <2>1 DEF Lasting, StateInv, Same
<1>4. ASSUME NEW h \in Handlers, Plain(h) PROVE StateInv'
  <2>1. Unmoved(h)
    BY <1>4, PlainStep, Zenon
  <2> QED BY <1>3, <2>1, Zenon DEF StateInv, Unmoved, Telling
<1>5. ASSUME NEW h \in Handlers, rpc'[h].at \notin Telling \/ rpc'[h].at \in {"start", "start_spawn"},
             \A g \in Handlers \ {h} : rpc'[g] = rpc[g] /\ Same(g)
      PROVE  StateInv'
  BY <1>3, <1>5, Zenon DEF StateInv, Telling
<1>6. ASSUME NEW h \in Handlers, NEW id \in Ids, task_start(h, id) PROVE StateInv'
  <2>1. \A d \in (Handlers \cup Instances) \ {h} : Same(d)
    BY <1>2, <1>6, CallStep, Zenon DEF task_start, get_instance, I!Methods
  <2>2. /\ rpc'[h].at \in {"replied", "start"}
        /\ \A g \in Handlers \ {h} : rpc'[g] = rpc[g]
    BY <1>6, RpcStep DEF task_start, get_instance
  <2> QED BY <1>5, <2>1, <2>2, Zenon DEF Telling
<1>7. ASSUME NEW h \in Handlers, start_event(h) \/ start_spawn(h) PROVE StateInv'
  <2>1. \A g \in Handlers \ {h} : Same(g)
    <3>1. CASE start_event(h)
      BY <1>2, <3>1, CallStep, Zenon DEF start_event
    <3>2. CASE start_spawn(h)
      <4>1. rpc[h].obj \in Instances
        BY <1>2, <3>2, Zenon DEF start_spawn, At, TaskInv, WithTask, LocalLabels
      <4>2. \A d \in (Handlers \cup Instances) \ {rpc[h].obj} : Same(d)
        BY <1>2, <3>2, <4>1, CallStep, Zenon DEF start_spawn, I!Methods
      <4> QED BY <4>1, <4>2, Constants, Zenon
    <3> QED BY <1>7, <3>1, <3>2, Zenon
  <2>2. /\ rpc'[h].at \in {"replied", "start_spawn"}
        /\ \A g \in Handlers \ {h} : rpc'[g] = rpc[g]
    BY <1>7, RpcStep, Zenon DEF start_event, start_spawn
  <2> QED BY <1>5, <2>1, <2>2, Zenon DEF Telling
<1>8. ASSUME NEW h \in Handlers, state_pid(h) PROVE StateInv'
  <2>1. rpc[h].obj \in Instances /\ pid[rpc[h].obj] \in BOOLEAN
    BY <1>2, <1>8, Zenon DEF state_pid, At, TaskInv, WithTask, LocalLabels, P!IInv, P!TypeOK
  <2>2. /\ rpc'[h].at = "state_poll" /\ rpc'[h].obj = rpc[h].obj
        /\ rpc'[h].pid = pid[rpc[h].obj]
        /\ \A g \in Handlers \ {h} : rpc'[g] = rpc[g]
    BY <1>2, <1>8, Zenon DEF state_pid, Request
  <2>3. \A g \in Handlers : Same(g)
    BY <1>8, Zenon DEF state_pid, inner, Same
  <2> QED BY <1>1, <1>3, <2>1, <2>2, <2>3, Zenon DEF StateInv, Lasting
<1>9. ASSUME NEW h \in Handlers, state_poll(h) PROVE StateInv'
  <2>1. rpc[h].obj \in Instances
    BY <1>2, <1>9, Zenon DEF state_poll, At, TaskInv, WithTask, LocalLabels
  <2>2. /\ rpc'[h].at = "state_reply" /\ rpc'[h].obj = rpc[h].obj /\ rpc'[h].pid = rpc[h].pid
        /\ \A g \in Handlers \ {h} : rpc'[g] = rpc[g]
    BY <1>9, RpcStep, Zenon DEF state_poll
  <2>3. \A g \in Handlers \ {h} : Same(g)
    BY <1>2, <1>9, <2>1, CallStep, Zenon DEF state_poll
  <2>4. /\ pc'[h] = "done"
        /\ res'[h] # "none" => exit_code'[rpc[h].obj] # "none"
    BY <1>2, <1>9, <2>1, Constants, Zenon DEF state_poll, I!now_or_never, P!IInv, P!TypeOK, P!CallerInv
  <2>5. rpc'[h].pid => pid'[rpc[h].obj]
    BY <1>1, <1>9, <2>1, <2>2, Zenon DEF StateInv, Lasting, state_poll, At
  <2> QED BY <1>3, <2>2, <2>3, <2>4, <2>5 DEF StateInv
<1>10. ASSUME NEW i \in Instances, exit_event(i) \/ watcher_step(i) PROVE StateInv'
  <2>1. \A g \in Handlers : rpc'[g] = rpc[g] /\ Same(g)
    BY <1>2, <1>10, CallStep, Constants, Zenon DEF exit_event, watcher_step
  <2> QED BY <1>3, <2>1, Zenon DEF StateInv
<1>11. ASSUME NEW c \in Handlers \cup Instances, method_step(c) PROVE StateInv'
  <2>1. \A d \in (Handlers \cup Instances) \ {c} : Same(d)
    BY <1>2, <1>11, CallStep, Zenon DEF method_step
  <2>2. pc[c] # "done" /\ rpc' = rpc
    BY <1>2, <1>11, MethodStep, Zenon DEF method_step
  <2>3. c \in Handlers => rpc[c].at # "state_reply"
    BY <2>2, Zenon DEF StateInv
  <2>4. c \in Handlers /\ rpc[c].at \in {"state_poll", "state_reply"} => rpc[c].obj \in Instances
    BY <1>2, Zenon DEF TaskInv, WithTask, LocalLabels
  <2> QED BY <1>1, <1>3, <2>1, <2>2, <2>3, <2>4, Zenon DEF StateInv, Lasting
<1>12. CASE shim_exit \/ UNCHANGED vars
  <2>1. \A g \in Handlers : rpc'[g] = rpc[g] /\ Same(g)
    BY <1>12, Zenon DEF shim_exit, vars, inner, Same
  <2> QED BY <1>3, <2>1, Zenon DEF StateInv
<1> QED
  BY <1>4, <1>6, <1>7, <1>8, <1>9, <1>10, <1>11, <1>12, Zenon DEF Next, Arrival, Progress, Plain

(***************************************************************************)
(* A State request answers STOPPED only for a guest that has run and died, *)
(* although it reads the pid and the exit code at different times          *)
(* (local.rs:337-350), for any number of requests and as long as no        *)
(* watcher fails.                                                          *)
(***************************************************************************)
THEOREM StoppedMeansDead == ~WatcherFails => (Spec => []StoppedIsDead)
<1> SUFFICES ASSUME ~WatcherFails PROVE Spec => []StoppedIsDead
  OBVIOUS
<1> DEFINE SInv == LInv /\ PidInv /\ StateInv
<1>1. Init => SInv
  <2> SUFFICES ASSUME Init PROVE SInv
    OBVIOUS
  <2>1. PidInv
    BY Zenon DEF Init, I!Init, PidInv
  <2>2. \A h \in Handlers : rpc[h].at = "idle"
    BY Zenon DEF Init, Idle
  <2>3. StateInv
    BY <2>2, Zenon DEF StateInv
  <2> QED BY <2>1, <2>3, InitLInv, Zenon
<1>2. SInv /\ [Next]_vars => SInv'
  <2> SUFFICES ASSUME SInv, [Next]_vars PROVE SInv'
    OBVIOUS
  <2>1. LInv' /\ StateInv'
    BY StepLInv, StateStep, Zenon
  <2>2. PidInv'
    BY RefinesStep, LastingStep, Zenon DEF LInv
  <2> QED BY <2>1, <2>2, Zenon
<1>3. SInv => StoppedIsDead
  <2> SUFFICES ASSUME SInv, NEW h \in Handlers,
                      rpc[h].at = "state_reply", rpc[h].pid, res[h] # "none"
               PROVE  guest[rpc[h].obj] = "dead"
    BY Zenon DEF StoppedIsDead
  <2>1. rpc[h].obj \in Instances
    BY Zenon DEF LInv, TaskInv, WithTask, LocalLabels
  <2>2. guest[rpc[h].obj] # "none" /\ exit_code[rpc[h].obj] # "none"
    BY <2>1, Zenon DEF StateInv, PidInv
  <2> QED BY <2>1, <2>2 DEF LInv, P!IInv, P!TypeOK, P!GuestInv
<1> QED BY <1>1, <1>2, <1>3, PTL DEF Spec

-----------------------------------------------------------------------------
(***************************************************************************)
(* Why the exit is published once and after the start.  A start() that was *)
(* let through leaves the creation states for good, so at most one handler *)
(* ever starts a task: it publishes the start, spawns the waiting task and *)
(* is done; the waiting task publishes the exit.  Each of these is the     *)
(* only one that can publish next.                                         *)
(***************************************************************************)
Starts(h, i) ==
  /\ rpc[h].at = "start" /\ rpc[h].obj = i
  /\ \/ pc[h] \in {"start_run", "start_up", "start_pid", "start_failed"}
     \/ pc[h] = "done" /\ res[h] = "ok"

Spawns(h, i) == rpc[h].at = "start_spawn" /\ rpc[h].obj = i

CallInv ==
  \A h \in Handlers :
    rpc[h].at = "start" =>
      /\ pc[h] \in {"start", "start_run", "start_up", "start_pid", "start_failed", "done"}
      /\ on[h] = rpc[h].obj

ExitInv ==
  \A i \in Instances :
    /\ \A h \in Handlers :
         /\ Starts(h, i) => Positions(i, "start") = {}
         /\ Spawns(h, i) => Positions(i, "start") # {}
         /\ Starts(h, i) \/ Spawns(h, i) =>
              /\ state[i] \notin Fresh /\ pc[i] = "idle" /\ Positions(i, "exit") = {}
              /\ \A g \in Handlers : Starts(g, i) \/ Spawns(g, i) => g = h
    /\ state[i] \in Fresh =>
         pc[i] = "idle" /\ Positions(i, "start") = {} /\ Positions(i, "exit") = {}
    /\ pc[i] # "idle" => Positions(i, "start") # {} /\ Positions(i, "exit") = {}
    /\ \A m, n \in Positions(i, "start") : m = n
    /\ \A m, n \in Positions(i, "exit") : m = n
    /\ \A n \in Positions(i, "exit") : \E m \in Positions(i, "start") : m < n

(* A step keeps ExitInv if nobody becomes a starter and nothing is published. *)
LEMMA QuietStep ==
  ASSUME LInv, PidInv, CallInv, ExitInv, [Next]_vars,
         \A h \in Handlers, i \in Instances :
           (Starts(h, i)' => Starts(h, i)) /\ (Spawns(h, i)' => Spawns(h, i)),
         \A i \in Instances : pc'[i] = "idle" <=> pc[i] = "idle",
         \A i \in Instances, k \in {"start", "exit"} : Positions(i, k)' = Positions(i, k)
  PROVE  ExitInv'
<1>1. Lasting
  BY RefinesStep, LastingStep, Zenon DEF LInv
<1> QED BY <1>1 DEF ExitInv, Lasting

LEMMA ExitStep ==
  ASSUME LInv, PidInv, CallInv, ExitInv, [Next]_vars PROVE CallInv' /\ ExitInv'
<1>1. Lasting
  BY RefinesStep, LastingStep, Zenon DEF LInv
<1>2. rpc \in [Handlers -> Request] /\ TaskInv /\ P!IInv
  BY Zenon DEF LInv, ServiceType
<1>3. ASSUME NEW g \in Handlers, rpc'[g] = rpc[g], Same(g)
      PROVE  /\ \A i \in Instances : (Starts(g, i)' <=> Starts(g, i)) /\ (Spawns(g, i)' <=> Spawns(g, i))
             /\ rpc'[g].at = "start" =>
                  /\ pc'[g] \in {"start", "start_run", "start_up", "start_pid", "start_failed", "done"}
                  /\ on'[g] = rpc'[g].obj
  BY <1>3, Zenon DEF Starts, Spawns, CallInv, Same
<1>4. ASSUME UNCHANGED events
      PROVE  \A i \in Instances, k \in {"start", "exit"} : Positions(i, k)' = Positions(i, k)
  BY <1>4, Zenon DEF Positions
<1>5. ASSUME NEW h \in Handlers, Plain(h) PROVE CallInv' /\ ExitInv'
  <2>1. Unmoved(h)
    BY <1>5, PlainStep, Zenon
  <2>2. \A i \in Instances : ~Starts(h, i)' /\ ~Spawns(h, i)'
    BY <2>1, Zenon DEF Unmoved, Telling, Starts, Spawns
  <2>3. CallInv'
    BY <1>3, <2>1, Zenon DEF CallInv, Unmoved, Telling
  <2>4. ExitInv'
    BY <1>3, <2>1, <2>2, QuietStep, Zenon DEF Unmoved
  <2> QED BY <2>3, <2>4, Zenon
<1>6. ASSUME NEW h \in Handlers, NEW id \in Ids, task_start(h, id) PROVE CallInv' /\ ExitInv'
  <2>1. \A d \in (Handlers \cup Instances) \ {h} : Same(d)
    BY <1>2, <1>6, CallStep, Zenon DEF task_start, get_instance, I!Methods
  <2>2. /\ rpc'[h].at \in {"replied", "start"}
        /\ \A g \in Handlers \ {h} : rpc'[g] = rpc[g]
    BY <1>6, RpcStep DEF task_start, get_instance
  <2>3. rpc'[h].at = "start" => pc'[h] = "start" /\ on'[h] = rpc'[h].obj
    <3>1. CASE \E a : a # "start" /\ Reply(h, a)
      BY <3>1, RpcStep, Zenon
    <3>2. CASE I!Invoke(h, instances[id], "start") /\ Accept(h, id, "start", instances[id])
      BY <1>2, <3>2, RpcStep DEF I!Invoke, P!IInv, P!TypeOK
    <3> QED BY <1>6, <3>1, <3>2, Zenon DEF task_start, get_instance
  <2>4. \A i \in Instances : ~Starts(h, i)' /\ ~Spawns(h, i)'
    BY <2>2, <2>3, Zenon DEF Starts, Spawns
  <2>5. CallInv'
    BY <1>3, <2>1, <2>2, <2>3, Zenon DEF CallInv
  <2>6. \A i \in Instances : pc'[i] = pc[i]
    BY <2>1, Constants, Zenon DEF Same
  <2>7. ExitInv'
    BY <1>3, <1>4, <1>6, <2>1, <2>2, <2>4, <2>6, QuietStep, Zenon DEF task_start, get_instance
  <2> QED BY <2>5, <2>7, Zenon
<1>7. ASSUME NEW h \in Handlers, start_event(h) PROVE CallInv' /\ ExitInv'
  <2>0. PICK o \in Instances : o = rpc[h].obj
    BY <1>2, <1>7, Zenon DEF start_event, At, TaskInv, WithTask, LocalLabels
  <2>1. Starts(h, o) /\ ~Spawns(h, o)
    BY <2>0, <1>7, Zenon DEF start_event, At, Starts, Spawns, I!Return
  <2>2. \A d \in (Handlers \cup Instances) \ {h} : Same(d)
    BY <1>2, <1>7, CallStep, Zenon DEF start_event
  <2>3. /\ rpc'[h].at = "start_spawn" /\ rpc'[h].obj = o
        /\ \A g \in Handlers \ {h} : rpc'[g] = rpc[g]
    BY <2>0, <1>7, RpcStep, Zenon DEF start_event
  <2>4. /\ Positions(o, "exit")' = Positions(o, "exit")
        /\ Positions(o, "start")' = Positions(o, "start") \cup {Len(events[o]) + 1}
        /\ \A j \in Instances \ {o}, k \in {"start", "exit"} : Positions(j, k)' = Positions(j, k)
    BY <2>0, <1>7, SendPositions, Zenon DEF start_event, EventKinds
  <2>5. /\ \A i \in Instances : ~Starts(h, i)' /\ (Spawns(h, i)' <=> i = o)
        /\ \A g \in Handlers \ {h}, i \in Instances :
             (Starts(g, i)' <=> Starts(g, i)) /\ (Spawns(g, i)' <=> Spawns(g, i))
    BY <1>3, <2>2, <2>3, Zenon DEF Starts, Spawns
  <2>6. \A i \in Instances : pc'[i] = pc[i]
    BY <2>2, Constants, Zenon DEF Same
  <2>7. CallInv'
    BY <1>3, <2>2, <2>3, Zenon DEF CallInv
  <2>8. ASSUME NEW i \in Instances \ {o} PROVE ~Starts(h, i) /\ ~Spawns(h, i)
    BY <2>0, <1>7, Zenon DEF start_event, At, Starts, Spawns
  <2>9. state' = state
    BY <1>7, Zenon DEF start_event, I!Return, I!objects
  <2>10. Positions(o, "start") = {}
    BY <2>1, Zenon DEF ExitInv
  <2>11. ExitInv'
    BY <2>1, <2>4, <2>5, <2>6, <2>8, <2>9, <2>10, SMTT(30) DEF ExitInv
  <2> QED BY <2>7, <2>11, Zenon
<1>8. ASSUME NEW h \in Handlers, start_spawn(h) PROVE CallInv' /\ ExitInv'
  <2> DEFINE o == rpc[h].obj
  <2>1. o \in Instances /\ Spawns(h, o)
    BY <1>2, <1>8, Zenon DEF start_spawn, At, TaskInv, WithTask, LocalLabels, Spawns
  <2>2. \A d \in (Handlers \cup Instances) \ {o} : Same(d)
    BY <1>2, <1>8, <2>1, CallStep, Zenon DEF start_spawn, I!Methods
  <2>3. /\ rpc'[h].at = "replied"
        /\ \A g \in Handlers \ {h} : rpc'[g] = rpc[g]
    BY <1>8, RpcStep, Zenon DEF start_spawn
  <2>4. \A i \in Instances, k \in {"start", "exit"} : Positions(i, k)' = Positions(i, k)
    BY <1>4, <1>8, Zenon DEF start_spawn
  <2>5. /\ \A i \in Instances : ~Starts(h, i)' /\ ~Spawns(h, i)'
        /\ \A g \in Handlers \ {h}, i \in Instances :
             (Starts(g, i)' <=> Starts(g, i)) /\ (Spawns(g, i)' <=> Spawns(g, i))
    BY <1>3, <2>1, <2>2, <2>3, Constants, Zenon DEF Starts, Spawns
  <2>6. \A i \in Instances \ {o} : pc'[i] = pc[i]
    BY <2>2, Zenon DEF Same
  <2>7. CallInv'
    BY <1>3, <2>1, <2>2, <2>3, Constants, Zenon DEF CallInv
  <2>8. state' = state
    BY <1>8, Zenon DEF start_spawn, I!Invoke, I!objects
  <2> HIDE DEF o
  <2>9. ExitInv'
    BY <2>1, <2>4, <2>5, <2>6, <2>8, SMTT(30) DEF ExitInv
  <2> QED BY <2>7, <2>9, Zenon
<1>9. ASSUME NEW i \in Instances, exit_event(i) PROVE CallInv' /\ ExitInv'
  <2>1. \A d \in (Handlers \cup Instances) \ {i} : Same(d)
    BY <1>2, <1>9, CallStep, Zenon DEF exit_event
  <2>2. pc[i] = "done" /\ pc'[i] = "idle" /\ state' = state /\ rpc' = rpc
    BY <1>2, <1>9, Zenon DEF exit_event, I!Return, I!objects, P!IInv, P!TypeOK
  <2>3. /\ Positions(i, "start")' = Positions(i, "start")
        /\ Positions(i, "exit")' = Positions(i, "exit") \cup {Len(events[i]) + 1}
        /\ \A j \in Instances \ {i}, k \in {"start", "exit"} : Positions(j, k)' = Positions(j, k)
        /\ Len(events[i]) \in Nat /\ Positions(i, "start") \subseteq 1..Len(events[i])
    BY <1>9, SendPositions, Zenon DEF exit_event, EventKinds
  <2>4. \A g \in Handlers : rpc'[g] = rpc[g] /\ Same(g)
    BY <2>1, <2>2, Constants, Zenon
  <2>5. \A g \in Handlers, j \in Instances :
          (Starts(g, j)' <=> Starts(g, j)) /\ (Spawns(g, j)' <=> Spawns(g, j))
    BY <1>3, <2>4, Zenon
  <2>6. \A j \in Instances \ {i} : pc'[j] = pc[j]
    BY <2>1, Zenon DEF Same
  <2>7. Positions(i, "exit") = {} /\ \E m \in Positions(i, "start") : m < Len(events[i]) + 1
    BY <2>2, <2>3 DEF ExitInv
  <2>8. CallInv'
    BY <1>3, <2>4, Zenon DEF CallInv
  <2>9. ExitInv'
    BY <2>2, <2>3, <2>5, <2>6, <2>7 DEF ExitInv
  <2> QED BY <2>8, <2>9, Zenon
<1>10. ASSUME NEW c \in Handlers \cup Instances, method_step(c) PROVE CallInv' /\ ExitInv'
  <2>1. \A d \in (Handlers \cup Instances) \ {c} : Same(d)
    BY <1>2, <1>10, CallStep, Zenon DEF method_step
  <2>2. pc[c] \notin {"idle", "done"} /\ pc'[c] # "idle" /\ on' = on /\ rpc' = rpc
    BY <1>2, <1>10, MethodStep, Zenon DEF method_step
  <2>3. \A i \in Instances, k \in {"start", "exit"} : Positions(i, k)' = Positions(i, k)
    BY <1>4, <1>10, Zenon DEF method_step
  <2>4. \A i \in Instances : pc'[i] = "idle" <=> pc[i] = "idle"
    BY <2>1, <2>2, Zenon DEF Same
  <2>5. \A g \in Handlers, i \in Instances : Spawns(g, i)' <=> Spawns(g, i)
    BY <2>2, Zenon DEF Spawns
  <2>6. CASE c \in Instances \/ (c \in Handlers /\ rpc[c].at # "start")
    <3>1. \A g \in Handlers, i \in Instances : Starts(g, i)' => Starts(g, i)
      BY <2>1, <2>2, <2>6, Constants, Zenon DEF Starts, Same
    <3>2. CallInv'
      BY <2>1, <2>2, <2>6, Constants, Zenon DEF CallInv, Same
    <3> QED BY <2>3, <2>4, <2>5, <3>1, <3>2, QuietStep, Zenon
  <2>7. ASSUME c \in Handlers, rpc[c].at = "start" PROVE CallInv' /\ ExitInv'
    <3> DEFINE o == rpc[c].obj
    <3>1. o \in Instances /\ on[c] = o
      BY <1>2, <2>7, Zenon DEF TaskInv, WithTask, LocalLabels, CallInv
    <3>2. pc[c] \in {"start", "start_run", "start_up", "start_pid", "start_failed"}
      BY <2>2, <2>7, Zenon DEF CallInv
    <3>3. CASE pc[c] = "start"
      <4>1. I!Guarded(c, I!start, "start_run")
        BY <1>10, <3>3, Zenon DEF method_step, I!Enter, I!Step, I!start_enter, I!kill_enter,
           I!delete_enter, I!wait_exited, I!start_run, I!start_fail, I!start_set_pid,
           I!start_return, I!kill_return, I!delete_return, I!wait_code
      <4>2. CASE pc'[c] = "done" /\ res'[c] = "err"
        <5>1. \A g \in Handlers, i \in Instances : Starts(g, i)' => Starts(g, i)
          BY <2>1, <2>2, <4>2, Zenon DEF Starts, Same
        <5>2. CallInv'
          BY <2>1, <2>2, <4>2, <2>7, Zenon DEF CallInv, Same
        <5> QED BY <2>3, <2>4, <2>5, <5>1, <5>2, QuietStep, Zenon
      <4>3. CASE pc'[c] = "start_run" /\ state[o] = "Created" /\ state'[o] = "Starting"
        <5>1. CallInv'
          BY <2>1, <2>2, <4>3, <2>7, Zenon DEF CallInv, Same
        <5>2. /\ \A i \in Instances : Starts(c, i)' <=> i = o
              /\ \A g \in Handlers \ {c}, i \in Instances : Starts(g, i)' <=> Starts(g, i)
              /\ \A i \in Instances : ~Starts(c, i) /\ ~Spawns(c, i)
          BY <2>1, <2>2, <2>7, <3>3, <4>3, Zenon DEF Starts, Spawns, Same
        <5>3. ExitInv /\ o \in Instances /\ c \in Handlers /\ Lasting
          BY <1>1, <2>7, <3>1, Zenon
        <5> HIDE DEF o
        <5>4. ExitInv'
          BY <2>3, <2>4, <2>5, <4>3, <5>2, <5>3, SMTT(30) DEF ExitInv, Lasting, Fresh
        <5> QED BY <5>1, <5>4, Zenon
      <4> QED BY <1>2, <3>1, <4>1, <4>2, <4>3 DEF I!Guarded, I!start, I!Goto, I!Finish,
              P!IInv, P!TypeOK
    <3>4. CASE pc[c] # "start"
      <4>1. I!start_run(c) \/ I!start_fail(c) \/ I!start_set_pid(c) \/ I!start_return(c)
        BY <1>10, <3>2, <3>4, Zenon DEF method_step, I!Enter, I!Step, I!start_enter, I!kill_enter,
           I!delete_enter, I!wait_exited, I!kill_return, I!delete_return, I!wait_code
      <4>2. pc'[c] \in {"start_up", "start_pid", "start_failed", "done"}
        BY <1>2, <4>1, Zenon DEF I!start_run, I!start_fail, I!start_set_pid, I!start_return, I!Goto,
           I!Finish, P!IInv, P!TypeOK
      <4>3. \A i \in Instances : Starts(c, i)' => Starts(c, i)
        BY <2>2, <2>7, <3>2, <3>4, Zenon DEF Starts
      <4>4. \A g \in Handlers, i \in Instances : Starts(g, i)' => Starts(g, i)
        BY <2>1, <2>2, <4>3, Zenon DEF Starts, Same
      <4>5. CallInv'
        BY <2>1, <2>2, <4>2, <2>7, Zenon DEF CallInv, Same
      <4> QED BY <2>3, <2>4, <2>5, <4>4, <4>5, QuietStep, Zenon
    <3> QED BY <3>3, <3>4, Zenon
  <2> QED BY <2>6, <2>7, Zenon
<1>11. CASE \/ \E h \in Handlers : state_pid(h) \/ state_poll(h)
            \/ \E i \in Instances : watcher_step(i)
            \/ shim_exit \/ UNCHANGED vars
  <2>1. \A i \in Instances, k \in {"start", "exit"} : Positions(i, k)' = Positions(i, k)
    BY <1>4, <1>11, Zenon DEF state_pid, state_poll, watcher_step, shim_exit, vars
  <2>2. CASE \E i \in Instances : watcher_step(i)
    <3>1. PICK i \in Instances : watcher_step(i)
      BY <2>2, Zenon
    <3>2. \A d \in Handlers \cup Instances : Same(d)
      BY <3>1, Zenon DEF watcher_step, I!guest_exit, I!report_exit, I!watch_fail, Same
    <3>3. rpc' = rpc
      BY <3>1, Zenon DEF watcher_step
    <3>4. CallInv'
      BY <1>3, <3>2, <3>3, Zenon DEF CallInv
    <3>5. ExitInv'
      BY <1>3, <2>1, <3>2, <3>3, QuietStep, Zenon DEF Same
    <3> QED BY <3>4, <3>5, Zenon
  <2>3. CASE shim_exit \/ UNCHANGED vars
    <3>1. rpc' = rpc /\ \A d \in Handlers \cup Instances : Same(d)
      BY <2>3, Zenon DEF shim_exit, vars, inner, Same
    <3>2. CallInv'
      BY <1>3, <3>1, Zenon DEF CallInv
    <3>3. ExitInv'
      BY <1>3, <2>1, <3>1, QuietStep, Zenon DEF Same
    <3> QED BY <3>2, <3>3, Zenon
  <2>4. ASSUME NEW h \in Handlers, state_pid(h) \/ state_poll(h) PROVE CallInv' /\ ExitInv'
    <3>1. \A d \in (Handlers \cup Instances) \ {h} : Same(d)
      <4>1. CASE state_pid(h)
        BY <4>1, Zenon DEF state_pid, inner, Same
      <4>2. CASE state_poll(h)
        BY <1>2, <4>2, CallStep, Zenon DEF state_poll
      <4> QED BY <2>4, <4>1, <4>2, Zenon
    <3>2. /\ rpc'[h].at \in {"state_poll", "state_reply"}
          /\ \A g \in Handlers \ {h} : rpc'[g] = rpc[g]
      <4>1. CASE state_pid(h)
        BY <1>2, <4>1, Zenon DEF state_pid, Request
      <4>2. CASE state_poll(h)
        BY <4>2, RpcStep, Zenon DEF state_poll
      <4> QED BY <2>4, <4>1, <4>2, Zenon
    <3>3. \A i \in Instances : ~Starts(h, i)' /\ ~Spawns(h, i)'
      BY <3>2, Zenon DEF Starts, Spawns
    <3>4. \A i \in Instances : pc'[i] = pc[i]
      BY <3>1, Constants, Zenon DEF Same
    <3>5. CallInv'
      BY <1>3, <3>1, <3>2, Zenon DEF CallInv
    <3>6. ExitInv'
      BY <1>3, <2>1, <3>1, <3>2, <3>3, <3>4, QuietStep, Zenon
    <3> QED BY <3>5, <3>6, Zenon
  <2> QED BY <1>11, <2>2, <2>3, <2>4, Zenon
<1> QED
  BY <1>5, <1>6, <1>7, <1>8, <1>9, <1>10, <1>11, Zenon DEF Next, Arrival, Progress, Plain

(***************************************************************************)
(* Whatever requests race, a task's exit is published at most once and     *)
(* after its start, which is published at most once (local.rs:241-262),    *)
(* for any number of requests and whether or not watchers fail.            *)
(***************************************************************************)
THEOREM ExitIsPublishedInOrder == Spec => []ExitFollowsStart
<1> DEFINE EInv == LInv /\ PidInv /\ CallInv /\ ExitInv
<1>1. Init => EInv
  <2> SUFFICES ASSUME Init PROVE EInv
    OBVIOUS
  <2>1. PidInv
    BY Zenon DEF Init, I!Init, PidInv
  <2>2. \A h \in Handlers : rpc[h].at = "idle"
    BY Zenon DEF Init, Idle
  <2>3. \A i \in Instances : events[i] = <<>> /\ pc[i] = "idle"
    BY Zenon DEF Init, I!Init
  <2>4. \A i \in Instances, k \in {"start", "exit"} : Positions(i, k) = {}
    BY <2>3 DEF Positions
  <2>5. CallInv
    BY <2>2, Zenon DEF CallInv
  <2>6. ExitInv
    BY <2>2, <2>3, <2>4, Zenon DEF ExitInv, Starts, Spawns
  <2> QED BY <2>1, <2>5, <2>6, InitLInv, Zenon
<1>2. EInv /\ [Next]_vars => EInv'
  <2> SUFFICES ASSUME EInv, [Next]_vars PROVE EInv'
    OBVIOUS
  <2>1. LInv' /\ CallInv' /\ ExitInv'
    BY StepLInv, ExitStep, Zenon
  <2>2. PidInv'
    BY RefinesStep, LastingStep, Zenon DEF LInv
  <2> QED BY <2>1, <2>2, Zenon
<1>3. EInv => ExitFollowsStart
  BY Zenon DEF ExitInv, ExitFollowsStart
<1> QED BY <1>1, <1>2, <1>3, PTL DEF Spec

-----------------------------------------------------------------------------
(***************************************************************************)
(* Why clients that do not overlap the life cycle requests of a container  *)
(* lose no task.  A create or delete request is then alone with its        *)
(* container, so the slot of the container in the registry is what the     *)
(* request saw or made of it; a task that a create request has not         *)
(* inserted yet is known to nobody else; and a task that is neither over   *)
(* nor on its way into the registry is in it.                              *)
(***************************************************************************)
Over == {"Exited", "Deleting"}
Cycle == Creating \cup Deleting

Gone(i) == Positions(i, "delete") # {}

(* Who can reach a task: the registry, a request that found it there, or a *)
(* caller in one of its methods.                                           *)
Known(i) ==
  \/ \E id \in Ids : instances[id] = i
  \/ \E h \in Handlers : rpc[h].at \in WithTask \ {"create_insert"} /\ rpc[h].obj = i
  \/ \E c \in Handlers \cup Instances : pc[c] # "idle" /\ on[c] = i

KnownInv == \A i \in Instances : Known(i) => state[i] # "Unborn"

InsertInv ==
  \A h \in Handlers, i \in Instances :
    rpc[h].at = "create_insert" /\ rpc[h].obj = i =>
      state[i] = "Created" /\ container[i] = rpc[h].id /\ ~Known(i)

AloneInv ==
  \A g, h \in Handlers :
    rpc[g].at \in Cycle /\ rpc[h].at \in Cycle /\ rpc[g].id = rpc[h].id => g = h

SlotInv ==
  /\ \A h \in Handlers :
       /\ rpc[h].at \in {"create_new", "create_insert", "delete_event"}
            => instances[rpc[h].id] = NoInstance
       /\ rpc[h].at \in {"delete", "delete_poll", "delete_remove"}
            => instances[rpc[h].id] = rpc[h].obj
  /\ \A id \in Ids, i \in Instances : instances[id] = i => container[i] = id /\ ~Gone(i)

DeleteInv ==
  \A h \in Handlers, i \in Instances :
    rpc[h].at \in {"delete_poll", "delete_remove", "delete_event"} /\ rpc[h].obj = i =>
      /\ state[i] \in Over
      /\ rpc[h].at = "delete_event" => container[i] = rpc[h].id /\ ~Gone(i)

DeleterInv ==
  /\ \A h \in Handlers :
       rpc[h].at = "delete" =>
         /\ pc[h] \in {"delete", "delete_run", "done"} /\ on[h] = rpc[h].obj
         /\ pc[h] = "done" /\ res[h] = "ok" => state[rpc[h].obj] \in Over
  /\ \A c \in Handlers \cup Instances :
       pc[c] \in {"delete", "delete_run"} => c \in Handlers /\ rpc[c].at = "delete"

LiveInv ==
  \A i \in Instances :
    state[i] \in {"Created", "Starting", "Started"} =>
      /\ container[i] \in Ids
      /\ \/ instances[container[i]] = i
         \/ \E h \in Handlers : rpc[h].at = "create_insert" /\ rpc[h].obj = i

GoneInv ==
  \A i \in Instances :
    /\ Gone(i) => state[i] \in Over
    /\ \A m, n \in Positions(i, "delete") : m = n

Closing == shim # "up" \/ \E h \in Handlers : rpc[h].at = "shutdown_exit"

Closed ==
  /\ \A id \in Ids : instances[id] = NoInstance
  /\ \A h \in Handlers : rpc[h].at \notin Cycle

ShutdownInv == Closing => Closed

SerialInv ==
  /\ KnownInv /\ InsertInv /\ AloneInv /\ SlotInv /\ DeleteInv /\ DeleterInv
  /\ LiveInv /\ GoneInv /\ ShutdownInv

(* How the state of a task moves on, whoever moves it. *)
Aging ==
  \A i \in Instances :
    /\ state[i] \in Over => state'[i] \in Over
    /\ state[i] # "Unborn" => state'[i] # "Unborn"
    /\ state[i] = "Created" /\ (\A c \in Handlers \cup Instances : pc[c] # "idle" => on[c] # i)
         => state'[i] = "Created"

LEMMA AgingStep ==
  ASSUME P!IInv, [I!Next]_inner PROVE Aging
<1> USE Constants DEF P!IInv, P!TypeOK, P!CallerInv, I!objects, Over, Aging, P!TaskStates
<1>1. ASSUME NEW i \in Instances,
             I!new(i) \/ I!guest_exit(i) \/ I!report_exit(i) \/ I!watch_fail(i)
      PROVE  Aging
  BY <1>1 DEF I!new, I!guest_exit, I!report_exit, I!watch_fail
<1>2. ASSUME NEW c \in Handlers \cup Instances, I!Enter(c) PROVE Aging
  BY <1>2 DEF I!Enter, I!start_enter, I!kill_enter, I!delete_enter, I!wait_exited, I!Guarded,
     I!Acquire, I!Goto, I!Finish, I!start, I!kill, I!delete
<1>3. ASSUME NEW c \in Handlers \cup Instances, I!start_return(c) PROVE Aging
  BY <1>3 DEF I!start_return, I!Finish, I!Release, I!Ignoring, I!started, I!stop
<1>4. ASSUME NEW c \in Handlers \cup Instances, I!delete_return(c) PROVE Aging
  BY <1>4 DEF I!delete_return, I!Finish, I!Release, I!Ignoring, I!stop
<1>5. ASSUME NEW c \in Handlers \cup Instances,
             \/ I!start_run(c) \/ I!start_fail(c) \/ I!start_set_pid(c)
             \/ I!kill_return(c) \/ I!wait_code(c) \/ I!Return(c)
      PROVE  Aging
  BY <1>5 DEF I!start_run, I!start_fail, I!start_set_pid, I!kill_return, I!wait_code, I!Return
<1>6. ASSUME NEW c \in Handlers \cup Instances, NEW i \in Instances,
             I!now_or_never(c, i) \/ \E m \in I!Methods : I!Invoke(c, i, m)
      PROVE  Aging
  \* A task that is only Created has no exit code to be polled for.
  <2>1. state[i] = "Created" => exit_code[i] = "none"
    BY Zenon DEF P!GuestInv
  <2> QED BY <1>6, <2>1 DEF I!now_or_never, I!Invoke
<1>7. CASE UNCHANGED inner
  BY <1>7, Zenon DEF inner
<1> QED BY <1>1, <1>2, <1>3, <1>4, <1>5, <1>6, <1>7, Zenon DEF I!Next, I!Step

(* Only InstanceData::new makes a task. *)
LEMMA UnbornStep ==
  ASSUME P!IInv, NEW c \in Handlers \cup Instances, NEW i,
         \/ I!Return(c) \/ I!now_or_never(c, i) \/ (\E m \in I!Methods : I!Invoke(c, i, m))
         \/ I!Enter(c) \/ I!Step(c)
         \/ I!guest_exit(i) \/ I!report_exit(i) \/ I!watch_fail(i) \/ UNCHANGED inner
  PROVE  \A j \in Instances : state[j] = "Unborn" => state'[j] = "Unborn"
<1> USE DEF P!IInv, P!TypeOK, P!CallerInv, I!objects
<1>1. CASE \/ I!Return(c) \/ I!now_or_never(c, i) \/ (\E m \in I!Methods : I!Invoke(c, i, m))
           \/ I!guest_exit(i) \/ I!report_exit(i) \/ I!watch_fail(i) \/ UNCHANGED inner
  BY <1>1 DEF I!Return, I!now_or_never, I!Invoke, I!guest_exit, I!report_exit, I!watch_fail, inner
<1>2. CASE I!Enter(c)
  BY <1>2, Zenon DEF I!Enter, I!start_enter, I!kill_enter, I!delete_enter, I!wait_exited, I!Guarded
<1>3. CASE I!Step(c)
  BY <1>3, Zenon DEF I!Step, I!start_run, I!start_fail, I!start_set_pid, I!start_return,
     I!kill_return, I!delete_return, I!wait_code
<1> QED BY <1>1, <1>2, <1>3, Zenon

(***************************************************************************)
(* The steps that leave the registry and the published deletions alone and *)
(* make no task.  A handler h may begin a life cycle request, when it is   *)
(* alone with its container, or move on in one.                            *)
(***************************************************************************)
Begins(h) ==
  /\ rpc[h].at = "idle" /\ ~Lifecycle({rpc'[h].id})
  /\ ~Closing
  /\ \/ rpc'[h].at = "create_new" /\ instances[rpc'[h].id] = NoInstance
     \/ rpc'[h].at = "delete" /\ instances[rpc'[h].id] = rpc'[h].obj

MovesOn(h) ==
  /\ rpc'[h].id = rpc[h].id /\ rpc'[h].obj = rpc[h].obj
  /\ \/ rpc[h].at = "create_event" /\ rpc'[h].at = "create_hooks"
     \/ /\ \/ rpc[h].at = "delete" /\ rpc'[h].at = "delete_poll"
           \/ rpc[h].at = "delete_poll" /\ rpc'[h].at = "delete_remove"
        /\ state[rpc[h].obj] \in Over

Ordinary(h) ==
  /\ UNCHANGED <<instances, container>>
  /\ Closing' => Closing \/ (Closed /\ (h \in Handlers => rpc'[h].at \notin Cycle))
  /\ \A i \in Instances :
       /\ Positions(i, "delete")' = Positions(i, "delete")
       /\ state[i] = "Unborn" => state'[i] = "Unborn"
       /\ Known(i)' => Known(i)
  /\ \A g \in Handlers \ {h} : rpc'[g] = rpc[g]
  /\ h \in Handlers =>
       \/ rpc'[h] = rpc[h]
       \/ rpc[h].at # "create_insert" /\ rpc'[h].at \notin Cycle
       \/ Begins(h)
       \/ MovesOn(h)

LEMMA OrdinaryStep ==
  ASSUME LInv, LInv', SerialInv, Aging, NEW h, Ordinary(h), DeleterInv'
  PROVE  SerialInv'
<1>1. rpc \in [Handlers -> Request] /\ rpc' \in [Handlers -> Request]
      /\ TaskInv /\ TaskInv' /\ instances' = instances /\ container' = container
  BY Zenon DEF LInv, ServiceType, Ordinary
<1>2. \A i \in Instances : Gone(i)' <=> Gone(i)
  BY Zenon DEF Gone, Ordinary
<1>3. \A i \in Instances : state'[i] # "Unborn" <=> state[i] # "Unborn"
  BY Zenon DEF Ordinary, Aging
<1>4. KnownInv'
  BY <1>3, Zenon DEF KnownInv, SerialInv, Ordinary
<1>5. \A g \in Handlers : rpc'[g].at = "create_insert" <=> rpc[g].at = "create_insert"
  <2>1. "create_insert" \in Cycle
    BY Zenon DEF Cycle, Creating
  <2> QED BY <2>1, Zenon DEF Ordinary, Begins, MovesOn
<1>6. \A g \in Handlers : rpc'[g].at = "create_insert" => rpc'[g] = rpc[g] /\ rpc[g].obj \in Instances
  <2>1. "create_insert" \in Cycle /\ "create_insert" \in WithTask
    BY Zenon DEF Cycle, Creating, WithTask, LocalLabels
  <2> QED BY <1>1, <2>1, Zenon DEF Ordinary, Begins, MovesOn, TaskInv
<1>7. InsertInv'
  <2> SUFFICES ASSUME NEW g \in Handlers, NEW i \in Instances,
                      rpc'[g].at = "create_insert", rpc'[g].obj = i
               PROVE  state'[i] = "Created" /\ container'[i] = rpc'[g].id /\ ~Known(i)'
    BY Zenon DEF InsertInv
  <2>1. rpc'[g] = rpc[g] /\ state[i] = "Created" /\ container[i] = rpc[g].id /\ ~Known(i)
    BY <1>5, <1>6, Zenon DEF InsertInv, SerialInv
  <2>2. state'[i] = "Created"
    BY <2>1, Zenon DEF Known, Aging
  <2> QED BY <1>1, <2>1, <2>2, Zenon DEF Ordinary
<1>8. AloneInv'
  <2>1. ASSUME h \in Handlers, NEW g \in Handlers \ {h}, rpc'[g].at \in Cycle, rpc'[h].at \in Cycle,
               rpc'[g].id = rpc'[h].id
        PROVE  FALSE
    <3>1. rpc'[g] = rpc[g]
      BY <2>1, Zenon DEF Ordinary
    <3>2. CASE Begins(h)
      BY <2>1, <3>1, <3>2, Zenon DEF Begins, Lifecycle, Cycle
    <3>3. CASE rpc'[h] = rpc[h] \/ MovesOn(h)
      <4>1. rpc[h].at \in Cycle /\ rpc[h].id = rpc'[h].id
        BY <2>1, <3>3, Zenon DEF MovesOn, Cycle, Creating, Deleting
      <4> QED BY <2>1, <3>1, <4>1, Zenon DEF AloneInv, SerialInv
    <3> QED BY <2>1, <3>2, <3>3, Zenon DEF Ordinary
  <2>2. \A g, k \in Handlers \ {h} :
          rpc'[g].at \in Cycle /\ rpc'[k].at \in Cycle /\ rpc'[g].id = rpc'[k].id => g = k
    BY Zenon DEF Ordinary, AloneInv, SerialInv
  <2> QED BY <2>1, <2>2 DEF AloneInv
<1>9. SlotInv'
  <2>1. \A id \in Ids, i \in Instances :
          instances'[id] = i => container'[i] = id /\ ~Gone(i)'
    BY <1>1, <1>2, Zenon DEF SlotInv, SerialInv
  <2>2. \A g \in Handlers \ {h} :
          /\ rpc'[g].at \in {"create_new", "create_insert", "delete_event"}
               => instances'[rpc'[g].id] = NoInstance
          /\ rpc'[g].at \in {"delete", "delete_poll", "delete_remove"}
               => instances'[rpc'[g].id] = rpc'[g].obj
    BY <1>1, Zenon DEF SlotInv, SerialInv, Ordinary
  <2>3. ASSUME h \in Handlers
        PROVE
        /\ rpc'[h].at \in {"create_new", "create_insert", "delete_event"}
             => instances'[rpc'[h].id] = NoInstance
        /\ rpc'[h].at \in {"delete", "delete_poll", "delete_remove"}
             => instances'[rpc'[h].id] = rpc'[h].obj
    <3>1. CASE rpc'[h] = rpc[h]
      BY <1>1, <2>3, <3>1, Zenon DEF SlotInv, SerialInv
    <3>2. CASE rpc'[h].at \notin Cycle
      BY <3>2, Zenon DEF Cycle, Creating, Deleting
    <3>3. CASE Begins(h)
      BY <1>1, <3>3 DEF Begins
    <3>4. CASE MovesOn(h)
      BY <1>1, <2>3, <3>4 DEF MovesOn, SlotInv, SerialInv
    <3> QED BY <2>3, <3>1, <3>2, <3>3, <3>4, Zenon DEF Ordinary
  <2> QED BY <2>1, <2>2, <2>3, Zenon DEF SlotInv
<1>10. DeleteInv'
  <2> SUFFICES ASSUME NEW g \in Handlers, NEW i \in Instances, rpc'[g].obj = i,
                      rpc'[g].at \in {"delete_poll", "delete_remove", "delete_event"}
               PROVE  /\ state'[i] \in Over
                      /\ rpc'[g].at = "delete_event" => container'[i] = rpc'[g].id /\ ~Gone(i)'
    BY Zenon DEF DeleteInv
  <2>1. CASE rpc'[g] = rpc[g]
    BY <1>1, <1>2, <2>1, Zenon DEF DeleteInv, SerialInv, Aging
  <2>2. CASE g = h /\ MovesOn(h)
    BY <2>2 DEF MovesOn, Aging
  <2>3. CASE g = h /\ (rpc'[h].at \notin Cycle \/ Begins(h))
    BY <2>3 DEF Cycle, Deleting, Begins
  <2> QED BY <2>1, <2>2, <2>3, Zenon DEF Ordinary
<1>11. LiveInv'
  <2> SUFFICES ASSUME NEW i \in Instances, state'[i] \in {"Created", "Starting", "Started"}
               PROVE  /\ container'[i] \in Ids
                      /\ \/ instances'[container'[i]] = i
                         \/ \E g \in Handlers : rpc'[g].at = "create_insert" /\ rpc'[g].obj = i
    BY Zenon DEF LiveInv
  <2>1. state[i] \in {"Created", "Starting", "Started"}
    BY <1>3 DEF Aging, Over, LInv, P!IInv, P!TypeOK, P!TaskStates
  <2>2. container[i] \in Ids
    BY <2>1, Zenon DEF LiveInv, SerialInv
  <2>3. CASE instances[container[i]] = i
    BY <1>1, <2>2, <2>3, Zenon
  <2>4. ASSUME NEW g \in Handlers, rpc[g].at = "create_insert", rpc[g].obj = i
        PROVE  rpc'[g].at = "create_insert" /\ rpc'[g].obj = i
    BY <1>5, <1>6, <2>4, Zenon
  <2> QED BY <1>1, <2>1, <2>2, <2>3, <2>4, Zenon DEF LiveInv, SerialInv
<1>12. GoneInv'
  <2>1. \A i \in Instances : Gone(i)' => state'[i] \in Over
    BY <1>2, Zenon DEF GoneInv, SerialInv, Aging
  <2>2. \A i \in Instances : \A m, n \in Positions(i, "delete")' : m = n
    BY Zenon DEF GoneInv, SerialInv, Ordinary
  <2> QED BY <2>1, <2>2, Zenon DEF GoneInv
<1>13. ShutdownInv'
  <2> SUFFICES ASSUME Closing' PROVE Closed'
    BY Zenon DEF ShutdownInv
  <2>1. Closed
    BY Zenon DEF Ordinary, ShutdownInv, SerialInv
  <2>2. h \in Handlers => rpc'[h].at \notin Cycle
    <3>1. CASE Closing
      BY <2>1, <3>1, Zenon DEF Ordinary, Begins, MovesOn, Closed, Cycle, Creating, Deleting
    <3>2. CASE ~Closing
      BY <3>2, Zenon DEF Ordinary
    <3> QED BY <3>1, <3>2, Zenon
  <2> QED BY <1>1, <2>1, <2>2, Zenon DEF Ordinary, Closed
<1> QED BY <1>4, <1>7, <1>8, <1>9, <1>10, <1>11, <1>12, <1>13, Zenon DEF SerialInv

(* A task stays unknown if the handler and the caller that move come to    *)
(* know no other task.                                                     *)
LEMMA KnownStep ==
  ASSUME \A id \in Ids : instances'[id] \in Instances => instances'[id] = instances[id],
         NEW h, NEW c \in Handlers \cup Instances,
         \A g \in Handlers \ {h} : rpc'[g] = rpc[g],
         \A d \in (Handlers \cup Instances) \ {c} : Same(d),
         h \in Handlers /\ rpc'[h].at \in WithTask \ {"create_insert"} => Known(rpc'[h].obj),
         pc'[c] # "idle" => Known(on'[c])
  PROVE  \A i \in Instances : Known(i)' => Known(i)
<1> TAKE i \in Instances
<1> SUFFICES ASSUME Known(i)' PROVE Known(i)
  OBVIOUS
<1>1. ASSUME NEW id \in Ids, instances'[id] = i PROVE Known(i)
  BY <1>1 DEF Known
<1>2. ASSUME NEW g \in Handlers, rpc'[g].at \in WithTask \ {"create_insert"}, rpc'[g].obj = i
      PROVE  Known(i)
  <2>1. CASE g = h
    BY <1>2, <2>1
  <2>2. CASE g # h
    BY <1>2, <2>2, Zenon DEF Known
  <2> QED BY <2>1, <2>2, Zenon
<1>3. ASSUME NEW d \in Handlers \cup Instances, pc'[d] # "idle", on'[d] = i
      PROVE  Known(i)
  <2>1. CASE d = c
    BY <1>3, <2>1
  <2>2. CASE d # c
    BY <1>3, <2>2, Zenon DEF Known, Same
  <2> QED BY <2>1, <2>2, Zenon
<1> QED BY <1>1, <1>2, <1>3, Zenon DEF Known

(* The steps of a handler that leave the registry and the published        *)
(* deletions alone.                                                        *)
LEMMA HandlerStep ==
  ASSUME LInv, LInv', SerialInv, Aging, NEW h \in Handlers,
         UNCHANGED <<instances, container, shim>>,
         \A i \in Instances : Positions(i, "delete")' = Positions(i, "delete"),
         \A i \in Instances : state[i] = "Unborn" => state'[i] = "Unborn",
         \A g \in Handlers \ {h} : rpc'[g] = rpc[g],
         \A d \in (Handlers \cup Instances) \ {h} : Same(d),
         rpc'[h].at \in WithTask \ {"create_insert"} => Known(rpc'[h].obj),
         pc'[h] # "idle" => Known(on'[h]),
         \/ rpc'[h].at # "delete" /\ pc'[h] \notin {"delete", "delete_run"}
         \/ rpc'[h].at = "delete" /\ pc'[h] = "delete" /\ on'[h] = rpc'[h].obj,
         \/ rpc[h].at # "create_insert" /\ rpc'[h].at \notin Cycle \cup {"shutdown_exit"}
         \/ Begins(h)
         \/ MovesOn(h)
  PROVE  SerialInv'
<1>1. \A i \in Instances : Known(i)' => Known(i)
  BY KnownStep, Zenon
<1>2. Closing' => Closing
  <2>1. "shutdown_exit" \notin {"create_new", "delete", "create_hooks", "delete_poll", "delete_remove"}
    OBVIOUS
  <2> QED BY <2>1, Zenon DEF Closing, Begins, MovesOn
<1>3. Ordinary(h)
  BY <1>1, <1>2, Zenon DEF Ordinary
<1>4. DeleterInv'
  <2>1. \A g \in Handlers \ {h} :
          rpc'[g].at = "delete" =>
            /\ pc'[g] \in {"delete", "delete_run", "done"} /\ on'[g] = rpc'[g].obj
            /\ pc'[g] = "done" /\ res'[g] = "ok" => state'[rpc'[g].obj] \in Over
    <3> TAKE g \in Handlers \ {h}
    <3>1. rpc[g].at = "delete" => rpc[g].obj \in Instances
      BY Zenon DEF LInv, TaskInv, WithTask, LocalLabels, Deleting
    <3>2. rpc'[g] = rpc[g] /\ pc'[g] = pc[g] /\ on'[g] = on[g] /\ res'[g] = res[g]
      BY Zenon DEF Same
    <3> QED BY <3>1, <3>2 DEF DeleterInv, SerialInv, Aging
  <2>2. \A d \in (Handlers \cup Instances) \ {h} :
          pc'[d] \in {"delete", "delete_run"} => d \in Handlers /\ rpc'[d].at = "delete"
    BY Zenon DEF DeleterInv, SerialInv, Same
  <2>3. /\ rpc'[h].at = "delete" =>
            /\ pc'[h] \in {"delete", "delete_run", "done"} /\ on'[h] = rpc'[h].obj
            /\ pc'[h] = "done" /\ res'[h] = "ok" => state'[rpc'[h].obj] \in Over
        /\ pc'[h] \in {"delete", "delete_run"} => rpc'[h].at = "delete"
    OBVIOUS
  <2> QED BY <2>1, <2>2, <2>3, Zenon DEF DeleterInv
<1> QED BY <1>3, <1>4, OrdinaryStep, Zenon

(* What a handler or a caller has is known. *)
LEMMA WhatIsKnown ==
  /\ \A id \in Ids : Known(instances[id])
  /\ \A h \in Handlers : rpc[h].at \in WithTask \ {"create_insert"} => Known(rpc[h].obj)
  /\ \A c \in Handlers \cup Instances : pc[c] # "idle" => Known(on[c])
BY Zenon DEF Known

LEMMA ReplySerial ==
  ASSUME LInv, LInv', SerialInv, Aging, NEW h \in Handlers,
         (\E a : Reply(h, a)) \/ rpc' = [rpc EXCEPT ![h] = Idle],
         I!Return(h) \/ (UNCHANGED inner /\ rpc[h].at # "delete"),
         rpc[h].at # "create_insert",
         UNCHANGED <<instances, container, events, shim>>
  PROVE  SerialInv'
<1>1. /\ rpc'[h].at \in {"replied", "idle"}
      /\ \A g \in Handlers \ {h} : rpc'[g] = rpc[g]
  <2>1. CASE \E a : Reply(h, a)
    BY <2>1, RpcStep, Zenon
  <2>2. CASE rpc' = [rpc EXCEPT ![h] = Idle]
    BY <2>2, Zenon DEF LInv, ServiceType, Idle
  <2> QED BY <2>1, <2>2, Zenon
<1>2. P!IInv /\ h \in Handlers \cup Instances
  BY Zenon DEF LInv
<1>3. \A d \in (Handlers \cup Instances) \ {h} : Same(d)
  BY <1>2, CallStep, Zenon
<1>4. \A i \in Instances : state[i] = "Unborn" => state'[i] = "Unborn"
  BY <1>2, UnbornStep, Zenon
<1>5. \A i \in Instances : Positions(i, "delete")' = Positions(i, "delete")
  BY Zenon DEF Positions
<1>6. pc'[h] # "idle" => pc'[h] = pc[h] /\ on'[h] = on[h] /\ rpc[h].at # "delete"
  BY <1>2, Zenon DEF I!Return, inner, P!IInv, P!TypeOK
<1>7. pc'[h] # "idle" => Known(on'[h]) /\ pc'[h] \notin {"delete", "delete_run"}
  BY <1>2, <1>6, WhatIsKnown, Zenon DEF DeleterInv, SerialInv
<1>8. /\ rpc'[h].at \notin Cycle \cup {"shutdown_exit", "delete"}
      /\ rpc'[h].at \notin WithTask
  BY <1>1, Zenon DEF Cycle, Creating, Deleting, WithTask
<1>9. pc'[h] \notin {"delete", "delete_run"}
  BY <1>7, Zenon
<1> QED BY <1>1, <1>3, <1>4, <1>5, <1>7, <1>8, <1>9, HandlerStep, Zenon

(* A request is accepted for a registered task, or moves on with its own.  *)
LEMMA AcceptSerial ==
  ASSUME LInv, LInv', SerialInv, Aging, NEW h \in Handlers, NEW id \in Ids, NEW label,
         rpc[h].at = "idle", Accept(h, id, label, instances[id]),
         label \in WithTask \ (Cycle \cup {"shutdown_exit"}),
         UNCHANGED inner \/ (I!Invoke(h, instances[id], label) /\ label \in I!Methods),
         UNCHANGED <<instances, container, events, shim>>
  PROVE  SerialInv'
<1>1. /\ rpc'[h].at = label /\ rpc'[h].obj = instances[id]
      /\ \A g \in Handlers \ {h} : rpc'[g] = rpc[g]
  BY Zenon DEF Accept, Idle, LInv, ServiceType
<1>2. P!IInv /\ h \in Handlers \cup Instances
  BY Zenon DEF LInv
<1>3. label # "delete" /\ label # "delete_run"
  BY DEF Cycle, Deleting, WithTask, LocalLabels, Creating
<1>4. \A d \in (Handlers \cup Instances) \ {h} : Same(d)
  BY <1>2, CallStep, Zenon
<1>5. \A i \in Instances : state[i] = "Unborn" => state'[i] = "Unborn"
  BY <1>2, UnbornStep, Zenon
<1>6. \A i \in Instances : Positions(i, "delete")' = Positions(i, "delete")
  BY Zenon DEF Positions
<1>7. Known(rpc'[h].obj)
  BY <1>1, WhatIsKnown, Zenon
<1>8. \/ pc'[h] = pc[h] /\ on'[h] = on[h]
      \/ pc'[h] = label /\ on'[h] = instances[id]
  BY <1>2, Zenon DEF I!Invoke, inner, P!IInv, P!TypeOK
<1>9. /\ pc'[h] # "idle" => Known(on'[h])
      /\ pc'[h] \notin {"delete", "delete_run"}
  BY <1>2, <1>3, <1>8, WhatIsKnown, Zenon DEF DeleterInv, SerialInv
<1> QED BY <1>1, <1>3, <1>4, <1>5, <1>6, <1>7, <1>9, HandlerStep, Zenon

LEMMA MoveSerial ==
  ASSUME LInv, LInv', SerialInv, Aging, NEW h \in Handlers, NEW label \in WithTask,
         rpc[h].at \in WithTask \ {"create_insert"}, label \notin {"create_insert", "delete"},
         rpc'[h].at = label, rpc'[h].obj = rpc[h].obj,
         \A g \in Handlers \ {h} : rpc'[g] = rpc[g],
         label \notin Cycle \/ MovesOn(h),
         \/ I!Return(h) \/ I!now_or_never(h, rpc[h].obj)
         \/ (UNCHANGED inner /\ rpc[h].at # "delete"),
         UNCHANGED <<instances, container, shim>>,
         \A i \in Instances : Positions(i, "delete")' = Positions(i, "delete")
  PROVE  SerialInv'
<1>1. P!IInv /\ h \in Handlers \cup Instances
  BY Zenon DEF LInv
<1>2. \A d \in (Handlers \cup Instances) \ {h} : Same(d)
  BY <1>1, CallStep, Zenon
<1>3. \A i \in Instances : state[i] = "Unborn" => state'[i] = "Unborn"
  BY <1>1, UnbornStep, Zenon
<1>4. Known(rpc[h].obj)
  BY WhatIsKnown, Zenon
<1>5. \/ pc'[h] = "idle"
      \/ pc'[h] = "done" /\ on'[h] = rpc[h].obj
      \/ pc'[h] = pc[h] /\ on'[h] = on[h] /\ rpc[h].at # "delete"
  BY <1>1, Zenon DEF I!Return, I!now_or_never, inner, P!IInv, P!TypeOK
<1>6. /\ pc'[h] # "idle" => Known(on'[h])
      /\ pc'[h] \notin {"delete", "delete_run"}
  BY <1>1, <1>4, <1>5, WhatIsKnown, Zenon DEF DeleterInv, SerialInv
<1>7. label # "shutdown_exit"
  BY Zenon DEF WithTask
<1> QED BY <1>2, <1>3, <1>4, <1>6, <1>7, HandlerStep, Zenon

(* A life cycle request is accepted only when it is alone. *)
LEMMA BeginSerial ==
  ASSUME SerialClient, LInv, LInv', SerialInv, Aging, NEW h \in Handlers, NEW id \in Ids,
         \/ Arrives(h, id, "create") /\ Accept(h, id, "create_new", NoInstance)
            /\ instances[id] = NoInstance /\ UNCHANGED inner
         \/ Arrives(h, id, "delete") /\ Accept(h, id, "delete", instances[id])
            /\ I!Invoke(h, instances[id], "delete"),
         UNCHANGED <<instances, container, events, shim>>
  PROVE  SerialInv'
<1>1. P!IInv /\ h \in Handlers \cup Instances /\ rpc \in [Handlers -> Request] /\ rpc[h].at = "idle"
  BY Zenon DEF LInv, ServiceType, Arrives, At
<1>2. \A d \in (Handlers \cup Instances) \ {h} : Same(d)
  BY <1>1, CallStep, Zenon DEF I!Methods
<1>3. \A i \in Instances : state[i] = "Unborn" => state'[i] = "Unborn"
  BY <1>1, UnbornStep, Zenon DEF I!Methods
<1>4. \A i \in Instances : Positions(i, "delete")' = Positions(i, "delete")
  BY Zenon DEF Positions
<1>5. \/ rpc'[h].at = "create_new" /\ instances[id] = NoInstance /\ UNCHANGED inner
      \/ rpc'[h].at = "delete" /\ rpc'[h].obj = instances[id] /\ I!Invoke(h, instances[id], "delete")
  BY <1>1, Zenon DEF Accept, Idle
<1>6. /\ rpc'[h].id = id
      /\ \A g \in Handlers \ {h} : rpc'[g] = rpc[g]
      /\ ~Lifecycle({id}) /\ ~Closing
  BY <1>1, Zenon DEF Arrives, Accept, Idle, Closing
<1>7. Begins(h)
  BY <1>1, <1>5, <1>6 DEF Begins
<1>8. \/ rpc'[h].at = "create_new" /\ pc'[h] = pc[h] /\ on'[h] = on[h]
      \/ rpc'[h].at = "delete" /\ rpc'[h].obj = instances[id] /\ pc'[h] = "delete" /\ on'[h] = instances[id]
  BY <1>1, <1>5, Zenon DEF I!Invoke, inner, P!IInv, P!TypeOK
<1>9. /\ rpc'[h].at \in WithTask \ {"create_insert"} => Known(rpc'[h].obj)
      /\ pc'[h] # "idle" => Known(on'[h])
  BY <1>1, <1>8, WhatIsKnown, Zenon DEF WithTask
<1>10. \/ rpc'[h].at # "delete" /\ pc'[h] \notin {"delete", "delete_run"}
       \/ rpc'[h].at = "delete" /\ pc'[h] = "delete" /\ on'[h] = rpc'[h].obj
  BY <1>1, <1>8 DEF DeleterInv, SerialInv
<1> QED BY <1>2, <1>3, <1>4, <1>6, <1>7, <1>9, <1>10, HandlerStep, Zenon

(* What a delete() call leaves when it returns Ok. *)
LEMMA DeleteMethod ==
  ASSUME P!IInv, NEW c \in Handlers \cup Instances, I!Enter(c) \/ I!Step(c)
  PROVE  /\ pc'[c] \in {"delete", "delete_run"} => pc[c] \in {"delete", "delete_run"}
         /\ pc[c] \in {"delete", "delete_run"} =>
              /\ pc'[c] \in {"delete_run", "done"}
              /\ pc'[c] = "done" /\ res'[c] = "ok" => state'[on[c]] \in Over
<1> USE DEF P!IInv, P!TypeOK
<1>1. CASE I!Enter(c)
  BY <1>1 DEF I!Enter, I!start_enter, I!kill_enter, I!delete_enter, I!wait_exited, I!Guarded,
     I!Goto, I!Finish
<1>2. CASE I!delete_return(c)
  BY <1>2 DEF I!delete_return, I!Finish, P!HeldInv, I!Ignoring, I!stop, Over
<1>3. CASE I!Step(c) /\ ~I!delete_return(c)
  BY <1>3, Zenon DEF I!Step, I!start_run, I!start_fail, I!start_set_pid, I!start_return,
     I!kill_return, I!wait_code, I!Goto, I!Finish
<1> QED BY <1>1, <1>2, <1>3, Zenon

(* The steps of callers and of watchers; h is a handler that they answer. *)
LEMMA CallerSerial ==
  ASSUME LInv, LInv', SerialInv, Aging, NEW c \in Handlers \cup Instances, NEW h,
         UNCHANGED <<instances, container, shim>>,
         \A i \in Instances : Positions(i, "delete")' = Positions(i, "delete"),
         \A i \in Instances : state[i] = "Unborn" => state'[i] = "Unborn",
         \A g \in Handlers \ {h} : rpc'[g] = rpc[g],
         h \in Handlers => rpc[h].at = "start_spawn" /\ rpc'[h].at = "replied",
         \A d \in (Handlers \cup Instances) \ {c} : Same(d),
         pc'[c] # "idle" => Known(on'[c]),
         pc'[c] \in {"delete", "delete_run"} => pc[c] \in {"delete", "delete_run"},
         c \in Handlers /\ rpc[c].at = "delete" =>
           /\ pc'[c] \in {"delete", "delete_run", "done"} /\ on'[c] = on[c]
           /\ pc'[c] = "done" /\ res'[c] = "ok" => state'[on[c]] \in Over
  PROVE  SerialInv'
<1>1. "replied" \notin WithTask /\ "replied" \notin Cycle /\ "replied" # "shutdown_exit"
      /\ "start_spawn" # "create_insert"
  BY Zenon DEF WithTask, Cycle, Creating, Deleting
<1>2. \A i \in Instances : Known(i)' => Known(i)
  BY <1>1, KnownStep, Zenon
<1>3. Closing' => Closing
  BY <1>1, Zenon DEF Closing
<1>4. Ordinary(h)
  BY <1>1, <1>2, <1>3, Zenon DEF Ordinary
<1>5. DeleterInv'
  <2>1. ASSUME NEW g \in Handlers, rpc'[g].at = "delete"
        PROVE  /\ pc'[g] \in {"delete", "delete_run", "done"} /\ on'[g] = rpc'[g].obj
               /\ pc'[g] = "done" /\ res'[g] = "ok" => state'[rpc'[g].obj] \in Over
    <3>1. rpc'[g] = rpc[g]
      BY <2>1
    <3>2. rpc[g].obj \in Instances
      BY <2>1, <3>1, Zenon DEF LInv, TaskInv, WithTask, LocalLabels, Deleting
    <3>3. CASE g = c
      BY <2>1, <3>1, <3>2, <3>3, Zenon DEF DeleterInv, SerialInv
    <3>4. CASE g # c
      <4>1. pc'[g] = pc[g] /\ on'[g] = on[g] /\ res'[g] = res[g]
        BY <3>4, Zenon DEF Same
      <4>2. /\ pc[g] \in {"delete", "delete_run", "done"} /\ on[g] = rpc[g].obj
            /\ pc[g] = "done" /\ res[g] = "ok" => state[rpc[g].obj] \in Over
        BY <2>1, <3>1, Zenon DEF DeleterInv, SerialInv
      <4>3. state[rpc[g].obj] \in Over => state'[rpc[g].obj] \in Over
        BY <3>2, Zenon DEF Aging
      <4> QED BY <3>1, <4>1, <4>2, <4>3, Zenon
    <3> QED BY <3>3, <3>4, Zenon
  <2>2. ASSUME NEW d \in Handlers \cup Instances, pc'[d] \in {"delete", "delete_run"}
        PROVE  d \in Handlers /\ rpc'[d].at = "delete"
    <3>1. pc[d] \in {"delete", "delete_run"}
      BY <2>2, Zenon DEF Same
    <3>2. d \in Handlers /\ rpc[d].at = "delete"
      BY <3>1, Zenon DEF DeleterInv, SerialInv
    <3> QED BY <3>2
  <2> QED BY <2>1, <2>2, Zenon DEF DeleterInv
<1> QED BY <1>4, <1>5, OrdinaryStep, Zenon

(* A create request makes a task that nobody knows. *)
LEMMA NewSerial ==
  ASSUME LInv, LInv', SerialInv, Aging, NEW h \in Handlers, rpc[h].at = "create_new",
         NEW i \in Instances, I!new(i),
         container' = [container EXCEPT ![i] = rpc[h].id],
         rpc' = [rpc EXCEPT ![h].at = "create_insert", ![h].obj = i],
         UNCHANGED <<instances, events, shim>>
  PROVE  SerialInv'
<1>1. /\ rpc \in [Handlers -> Request] /\ rpc[h].id \in Ids
      /\ container \in [Instances -> Ids \cup {NoId}] /\ P!IInv /\ TaskInv
  BY Zenon DEF LInv, ServiceType, TaskInv, WithId
<1>2. /\ rpc'[h].at = "create_insert" /\ rpc'[h].obj = i /\ rpc'[h].id = rpc[h].id
      /\ \A g \in Handlers \ {h} : rpc'[g] = rpc[g]
  BY <1>1, Zenon DEF Request
<1>3. /\ state[i] = "Unborn" /\ state'[i] = "Created"
      /\ \A j \in Instances \ {i} : state'[j] = state[j] /\ container'[j] = container[j]
      /\ container'[i] = rpc[h].id
      /\ pc' = pc /\ on' = on /\ res' = res
  BY <1>1, Zenon DEF I!new, P!IInv, P!TypeOK
<1>4. /\ \A j \in Instances : Positions(j, "delete")' = Positions(j, "delete")
      /\ \A j \in Instances : Gone(j)' <=> Gone(j)
  BY Zenon DEF Positions, Gone
<1>5. \A j \in Instances : Known(j)' => Known(j)
  <2>1. \A d \in Handlers \cup Instances : Same(d)
    BY <1>3, Zenon DEF Same
  <2>2. pc'[h] # "idle" => Known(on'[h])
    BY <1>3, WhatIsKnown, Zenon
  <2> QED BY <1>2, <2>1, <2>2, KnownStep, Zenon
<1>6. ~Known(i)
  BY <1>3, Zenon DEF KnownInv, SerialInv
<1>7. KnownInv'
  BY <1>5, Zenon DEF KnownInv, SerialInv, Aging
<1>8. InsertInv'
  <2> SUFFICES ASSUME NEW g \in Handlers, NEW j \in Instances,
                      rpc'[g].at = "create_insert", rpc'[g].obj = j
               PROVE  state'[j] = "Created" /\ container'[j] = rpc'[g].id /\ ~Known(j)'
    BY Zenon DEF InsertInv
  <2>1. CASE g = h
    BY <1>2, <1>3, <1>5, <1>6, <2>1
  <2>2. CASE g # h
    <3>1. /\ rpc'[g] = rpc[g] /\ state[j] = "Created" /\ container[j] = rpc[g].id /\ ~Known(j)
      BY <1>2, <2>2, Zenon DEF InsertInv, SerialInv
    <3> QED BY <1>3, <1>5, <3>1
  <2> QED BY <2>1, <2>2, Zenon
<1>9. AloneInv'
  <2>1. "create_new" \in Cycle
    BY Zenon DEF Cycle, Creating
  <2>2. \A g \in Handlers : rpc'[g].at \in Cycle => rpc[g].at \in Cycle /\ rpc'[g].id = rpc[g].id
    BY <1>2, <2>1, Zenon
  <2> QED BY <2>2, Zenon DEF AloneInv, SerialInv
<1>10. SlotInv'
  <2>1. \A id \in Ids, j \in Instances : instances'[id] = j => container'[j] = id /\ ~Gone(j)'
    BY <1>3, <1>4, <1>6 DEF SlotInv, SerialInv, Known
  <2>2. ASSUME NEW g \in Handlers
        PROVE  /\ rpc'[g].at \in {"create_new", "create_insert", "delete_event"}
                    => instances'[rpc'[g].id] = NoInstance
               /\ rpc'[g].at \in {"delete", "delete_poll", "delete_remove"}
                    => instances'[rpc'[g].id] = rpc'[g].obj
    <3>1. CASE g = h
      <4>1. instances[rpc[h].id] = NoInstance
        BY Zenon DEF SlotInv, SerialInv
      <4> QED BY <1>2, <3>1, <4>1
    <3>2. CASE g # h
      <4>1. rpc'[g] = rpc[g]
        BY <1>2, <3>2, Zenon
      <4> QED BY <4>1 DEF SlotInv, SerialInv
    <3> QED BY <3>1, <3>2, Zenon
  <2> QED BY <2>1, <2>2, Zenon DEF SlotInv
<1>11. DeleteInv'
  <2> SUFFICES ASSUME NEW g \in Handlers, NEW j \in Instances, rpc'[g].obj = j,
                      rpc'[g].at \in {"delete_poll", "delete_remove", "delete_event"}
               PROVE  /\ state'[j] \in Over
                      /\ rpc'[g].at = "delete_event" => container'[j] = rpc'[g].id /\ ~Gone(j)'
    BY Zenon DEF DeleteInv
  <2>1. rpc'[g] = rpc[g]
    BY <1>2, Zenon
  <2>2. state[j] \in Over /\ (rpc[g].at = "delete_event" => container[j] = rpc[g].id /\ ~Gone(j))
    BY <2>1, Zenon DEF DeleteInv, SerialInv
  <2>3. j # i
    BY <1>3, <2>2 DEF Over
  <2> QED BY <1>3, <1>4, <2>1, <2>2, <2>3, Zenon
<1>12. DeleterInv'
  <2>1. ASSUME NEW g \in Handlers, rpc'[g].at = "delete"
        PROVE  rpc'[g] = rpc[g] /\ (state[rpc[g].obj] \in Over => state'[rpc[g].obj] \in Over)
    <3>1. rpc'[g] = rpc[g]
      BY <1>2, <2>1, Zenon
    <3>2. rpc[g].obj \in Instances
      BY <1>1, <2>1, <3>1, Zenon DEF TaskInv, WithTask, LocalLabels, Deleting
    <3> QED BY <3>1, <3>2, Zenon DEF Aging
  <2>2. \A g \in Handlers : rpc[g].at = "delete" => rpc'[g].at = "delete"
    BY <1>2, Zenon
  <2> QED BY <1>3, <2>1, <2>2, Zenon DEF DeleterInv, SerialInv
<1>13. LiveInv'
  <2> SUFFICES ASSUME NEW j \in Instances, state'[j] \in {"Created", "Starting", "Started"}
               PROVE  /\ container'[j] \in Ids
                      /\ \/ instances'[container'[j]] = j
                         \/ \E g \in Handlers : rpc'[g].at = "create_insert" /\ rpc'[g].obj = j
    BY Zenon DEF LiveInv
  <2>1. CASE j = i
    BY <1>1, <1>2, <1>3, <2>1
  <2>2. CASE j # i
    <3>1. state[j] \in {"Created", "Starting", "Started"} /\ container'[j] = container[j]
      BY <1>3, <2>2
    <3>2. \A g \in Handlers : rpc[g].at = "create_insert" => rpc'[g] = rpc[g]
      BY <1>2, Zenon
    <3>3. /\ container[j] \in Ids
          /\ \/ instances[container[j]] = j
             \/ \E g \in Handlers : rpc[g].at = "create_insert" /\ rpc[g].obj = j
      BY <3>1, Zenon DEF LiveInv, SerialInv
    <3> QED BY <3>1, <3>2, <3>3, Zenon
  <2> QED BY <2>1, <2>2, Zenon
<1>14. GoneInv'
  <2>1. \A j \in Instances : Gone(j)' => state'[j] \in Over
    BY <1>4, Zenon DEF GoneInv, SerialInv, Aging
  <2>2. \A j \in Instances : \A m, n \in Positions(j, "delete")' : m = n
    BY <1>4, Zenon DEF GoneInv, SerialInv
  <2> QED BY <2>1, <2>2, Zenon DEF GoneInv
<1>15. ShutdownInv'
  <2>1. "create_new" \in Cycle
    BY Zenon DEF Cycle, Creating
  <2>2. ~Closing
    BY <2>1, Zenon DEF ShutdownInv, SerialInv, Closed
  <2> QED BY <1>2, <2>2, Zenon DEF ShutdownInv, Closing
<1> QED BY <1>7, <1>8, <1>9, <1>10, <1>11, <1>12, <1>13, <1>14, <1>15, Zenon DEF SerialInv

(* The task of a create request goes into the empty slot of its container. *)
LEMMA InsertSerial ==
  ASSUME LInv, LInv', SerialInv, Aging, NEW h \in Handlers, create_insert(h)
  PROVE  SerialInv'
<1> DEFINE id == rpc[h].id
           o == rpc[h].obj
<1>1. /\ rpc \in [Handlers -> Request] /\ instances \in [Ids -> Instances \cup {NoInstance}]
      /\ TaskInv /\ rpc[h].at = "create_insert" /\ id \in Ids /\ o \in Instances
  BY Zenon DEF create_insert, At, LInv, ServiceType, TaskInv, WithId, WithTask, LocalLabels, Creating
<1>2. /\ rpc'[h].at = "create_event" /\ rpc'[h].obj = o /\ rpc'[h].id = id
      /\ \A g \in Handlers \ {h} : rpc'[g] = rpc[g]
  BY <1>1, Zenon DEF create_insert, Goto, Request
<1>3. /\ instances'[id] = o
      /\ \A k \in Ids \ {id} : instances'[k] = instances[k]
      /\ container' = container /\ events' = events /\ shim' = shim
      /\ state' = state /\ pc' = pc /\ on' = on /\ res' = res
  BY <1>1, Zenon DEF create_insert, inner
<1>4. \A j \in Instances : Positions(j, "delete")' = Positions(j, "delete") /\ (Gone(j)' <=> Gone(j))
  BY <1>3, Zenon DEF Positions, Gone
<1>5. state[o] = "Created" /\ container[o] = id /\ ~Gone(o) /\ instances[id] = NoInstance
  BY <1>1 DEF InsertInv, SlotInv, GoneInv, SerialInv, Over
<1>6. \A j \in Instances \ {o} : Known(j)' => Known(j)
  BY <1>2, <1>3 DEF Known
<1>7. \A g \in Handlers \ {h} : rpc[g].at \in Cycle => rpc[g].id # id
  <2>1. "create_insert" \in Cycle
    BY Zenon DEF Cycle, Creating
  <2> QED BY <1>1, <2>1, Zenon DEF AloneInv, SerialInv
<1> HIDE DEF id, o
<1>8. KnownInv'
  BY <1>3, <1>5, <1>6 DEF KnownInv, SerialInv
<1>9. InsertInv'
  <2> SUFFICES ASSUME NEW g \in Handlers, NEW j \in Instances,
                      rpc'[g].at = "create_insert", rpc'[g].obj = j
               PROVE  state'[j] = "Created" /\ container'[j] = rpc'[g].id /\ ~Known(j)'
    BY Zenon DEF InsertInv
  <2>1. g # h
    BY <1>2
  <2>2. rpc'[g] = rpc[g] /\ rpc[g].id # id
    BY <1>2, <1>7, <2>1 DEF Cycle, Creating
  <2>3. state[j] = "Created" /\ container[j] = rpc[g].id /\ ~Known(j)
    BY <2>2, Zenon DEF InsertInv, SerialInv
  <2>4. j # o
    BY <1>5, <2>2, <2>3
  <2> QED BY <1>3, <1>6, <2>2, <2>3, <2>4, Zenon
<1>10. AloneInv'
  <2>1. "create_insert" \in Cycle
    BY Zenon DEF Cycle, Creating
  <2>2. \A g \in Handlers : rpc'[g].at \in Cycle => rpc[g].at \in Cycle /\ rpc'[g].id = rpc[g].id
    BY <1>1, <1>2, <2>1, Zenon DEF id
  <2> QED BY <2>2, Zenon DEF AloneInv, SerialInv
<1>11. SlotInv'
  <2>1. ASSUME NEW k \in Ids, NEW j \in Instances, instances'[k] = j
        PROVE  container'[j] = k /\ ~Gone(j)'
    <3>1. CASE k = id
      BY <1>3, <1>4, <1>5, <2>1, <3>1, Zenon
    <3>2. CASE k # id
      BY <1>3, <1>4, <2>1, <3>2, Zenon DEF SlotInv, SerialInv
    <3> QED BY <3>1, <3>2, Zenon
  <2>2. ASSUME NEW g \in Handlers
        PROVE  /\ rpc'[g].at \in {"create_new", "create_insert", "delete_event"}
                    => instances'[rpc'[g].id] = NoInstance
               /\ rpc'[g].at \in {"delete", "delete_poll", "delete_remove"}
                    => instances'[rpc'[g].id] = rpc'[g].obj
    <3>1. CASE g = h
      BY <1>2, <3>1
    <3>2. CASE g # h
      <4>1. rpc'[g] = rpc[g]
        BY <1>2, <3>2, Zenon
      <4>2. rpc[g].at \in Cycle => instances'[rpc[g].id] = instances[rpc[g].id]
        <5>1. rpc[g].at \in Cycle => rpc[g].id \in Ids
          BY <1>1, Zenon DEF TaskInv, WithId, WithTask, LocalLabels, Cycle, Creating, Deleting
        <5> QED BY <1>3, <1>7, <3>2, <5>1, Zenon
      <4> QED BY <4>1, <4>2 DEF SlotInv, SerialInv, Cycle, Creating, Deleting
    <3> QED BY <3>1, <3>2, Zenon
  <2> QED BY <2>1, <2>2, Zenon DEF SlotInv
<1>12. DeleteInv'
  <2> SUFFICES ASSUME NEW g \in Handlers, NEW j \in Instances, rpc'[g].obj = j,
                      rpc'[g].at \in {"delete_poll", "delete_remove", "delete_event"}
               PROVE  /\ state'[j] \in Over
                      /\ rpc'[g].at = "delete_event" => container'[j] = rpc'[g].id /\ ~Gone(j)'
    BY Zenon DEF DeleteInv
  <2>1. rpc'[g] = rpc[g]
    BY <1>2
  <2> QED BY <1>3, <1>4, <2>1, Zenon DEF DeleteInv, SerialInv
<1>13. DeleterInv'
  <2>1. \A g \in Handlers : rpc'[g].at = "delete" => rpc'[g] = rpc[g]
    BY <1>2
  <2>2. \A g \in Handlers : rpc[g].at = "delete" => rpc'[g].at = "delete"
    BY <1>1, <1>2
  <2> QED BY <1>3, <2>1, <2>2 DEF DeleterInv, SerialInv
<1>14. LiveInv'
  <2> SUFFICES ASSUME NEW j \in Instances, state[j] \in {"Created", "Starting", "Started"}
               PROVE  /\ container[j] \in Ids
                      /\ \/ instances'[container[j]] = j
                         \/ \E g \in Handlers : rpc'[g].at = "create_insert" /\ rpc'[g].obj = j
    BY <1>3, Zenon DEF LiveInv
  <2>1. CASE j = o
    BY <1>1, <1>3, <1>5, <2>1
  <2>2. CASE j # o
    <3>1. /\ container[j] \in Ids
          /\ \/ instances[container[j]] = j
             \/ \E g \in Handlers : rpc[g].at = "create_insert" /\ rpc[g].obj = j
      BY Zenon DEF LiveInv, SerialInv
    <3>2. CASE instances[container[j]] = j
      <4>1. container[j] # id
        BY <1>5, <3>2, Constants
      <4> QED BY <1>3, <3>1, <3>2, <4>1, Zenon
    <3>3. ASSUME NEW g \in Handlers, rpc[g].at = "create_insert", rpc[g].obj = j
          PROVE  rpc'[g].at = "create_insert" /\ rpc'[g].obj = j
      <4>1. g # h
        BY <2>2, <3>3 DEF o
      <4> QED BY <1>2, <3>3, <4>1, Zenon
    <3> QED BY <3>1, <3>2, <3>3, Zenon
  <2> QED BY <2>1, <2>2, Zenon
<1>15. GoneInv'
  <2>1. \A j \in Instances : Gone(j)' => state'[j] \in Over
    BY <1>3, <1>4, Zenon DEF GoneInv, SerialInv
  <2>2. \A j \in Instances : \A m, n \in Positions(j, "delete")' : m = n
    BY <1>4, Zenon DEF GoneInv, SerialInv
  <2> QED BY <2>1, <2>2, Zenon DEF GoneInv
<1>16. ShutdownInv'
  <2>1. "create_insert" \in Cycle
    BY Zenon DEF Cycle, Creating
  <2>2. ~Closing
    BY <1>1, <2>1, Zenon DEF ShutdownInv, SerialInv, Closed
  <2> QED BY <1>2, <1>3, <2>2 DEF ShutdownInv, Closing
<1> QED BY <1>8, <1>9, <1>10, <1>11, <1>12, <1>13, <1>14, <1>15, <1>16, Zenon DEF SerialInv

(* What a delete request removes is the task it has deleted. *)
LEMMA RemoveSerial ==
  ASSUME LInv, LInv', SerialInv, Aging, NEW h \in Handlers, delete_remove(h)
  PROVE  SerialInv'
<1> DEFINE id == rpc[h].id
           o == rpc[h].obj
<1>1. /\ rpc \in [Handlers -> Request] /\ instances \in [Ids -> Instances \cup {NoInstance}]
      /\ TaskInv /\ rpc[h].at = "delete_remove" /\ id \in Ids /\ o \in Instances /\ P!IInv
  BY Zenon DEF delete_remove, At, LInv, ServiceType, TaskInv, WithId, WithTask, LocalLabels, Deleting
<1>2. /\ rpc'[h].at = "delete_event" /\ rpc'[h].obj = o /\ rpc'[h].id = id
      /\ \A g \in Handlers \ {h} : rpc'[g] = rpc[g]
  BY <1>1, Zenon DEF delete_remove, Request
<1>3. /\ instances'[id] = NoInstance
      /\ \A k \in Ids \ {id} : instances'[k] = instances[k]
      /\ container' = container /\ events' = events /\ shim' = shim /\ state' = state
      /\ pc'[h] = "idle"
      /\ \A d \in (Handlers \cup Instances) \ {h} : Same(d)
  <2>1. I!Return(h) /\ h \in Handlers \cup Instances
    BY Zenon DEF delete_remove
  <2>2. \A d \in (Handlers \cup Instances) \ {h} : Same(d)
    BY <1>1, <2>1, CallStep, Zenon
  <2> QED BY <1>1, <2>1, <2>2, Zenon DEF delete_remove, I!Return, I!objects, P!IInv, P!TypeOK
<1>4. \A j \in Instances : Positions(j, "delete")' = Positions(j, "delete") /\ (Gone(j)' <=> Gone(j))
  BY <1>3, Zenon DEF Positions, Gone
<1>5. state[o] \in Over /\ container[o] = id /\ ~Gone(o) /\ instances[id] = o
  BY <1>1, Zenon DEF DeleteInv, SlotInv, SerialInv
<1>6. \A j \in Instances : Known(j)' => Known(j)
  <2>1. Known(o)
    BY <1>1, WhatIsKnown, Zenon DEF WithTask, LocalLabels, Deleting
  <2>2. \A k \in Ids : instances'[k] \in Instances => instances'[k] = instances[k]
    BY <1>3, Constants
  <2> HIDE DEF id, o
  <2> QED BY <1>2, <1>3, <2>1, <2>2, KnownStep, Zenon
<1>7. \A g \in Handlers \ {h} : rpc[g].at \in Cycle => rpc[g].id # id
  <2>1. "delete_remove" \in Cycle
    BY Zenon DEF Cycle, Deleting
  <2> QED BY <1>1, <2>1, Zenon DEF AloneInv, SerialInv
<1> HIDE DEF id, o
<1>8. KnownInv'
  BY <1>3, <1>6, Zenon DEF KnownInv, SerialInv
<1>9. InsertInv'
  <2> SUFFICES ASSUME NEW g \in Handlers, NEW j \in Instances,
                      rpc'[g].at = "create_insert", rpc'[g].obj = j
               PROVE  state'[j] = "Created" /\ container'[j] = rpc'[g].id /\ ~Known(j)'
    BY Zenon DEF InsertInv
  <2>1. rpc'[g] = rpc[g]
    BY <1>2
  <2> QED BY <1>3, <1>6, <2>1, Zenon DEF InsertInv, SerialInv
<1>10. AloneInv'
  <2>1. "delete_remove" \in Cycle
    BY Zenon DEF Cycle, Deleting
  <2>2. \A g \in Handlers : rpc'[g].at \in Cycle => rpc[g].at \in Cycle /\ rpc'[g].id = rpc[g].id
    BY <1>1, <1>2, <2>1, Zenon DEF id
  <2> QED BY <2>2, Zenon DEF AloneInv, SerialInv
<1>11. SlotInv'
  <2>1. ASSUME NEW k \in Ids, NEW j \in Instances, instances'[k] = j
        PROVE  container'[j] = k /\ ~Gone(j)'
    <3>1. k # id
      BY <1>3, <2>1, Constants
    <3> QED BY <1>3, <1>4, <2>1, <3>1, Zenon DEF SlotInv, SerialInv
  <2>2. ASSUME NEW g \in Handlers
        PROVE  /\ rpc'[g].at \in {"create_new", "create_insert", "delete_event"}
                    => instances'[rpc'[g].id] = NoInstance
               /\ rpc'[g].at \in {"delete", "delete_poll", "delete_remove"}
                    => instances'[rpc'[g].id] = rpc'[g].obj
    <3>1. CASE g = h
      BY <1>2, <1>3, <3>1
    <3>2. CASE g # h
      <4>1. rpc'[g] = rpc[g]
        BY <1>2, <3>2, Zenon
      <4>2. rpc[g].at \in Cycle => instances'[rpc[g].id] = instances[rpc[g].id]
        <5>1. rpc[g].at \in Cycle => rpc[g].id \in Ids
          BY <1>1, Zenon DEF TaskInv, WithId, WithTask, LocalLabels, Cycle, Creating, Deleting
        <5> QED BY <1>3, <1>7, <3>2, <5>1, Zenon
      <4> QED BY <4>1, <4>2 DEF SlotInv, SerialInv, Cycle, Creating, Deleting
    <3> QED BY <3>1, <3>2, Zenon
  <2> QED BY <2>1, <2>2, Zenon DEF SlotInv
<1>12. DeleteInv'
  <2> SUFFICES ASSUME NEW g \in Handlers, NEW j \in Instances, rpc'[g].obj = j,
                      rpc'[g].at \in {"delete_poll", "delete_remove", "delete_event"}
               PROVE  /\ state'[j] \in Over
                      /\ rpc'[g].at = "delete_event" => container'[j] = rpc'[g].id /\ ~Gone(j)'
    BY Zenon DEF DeleteInv
  <2>1. CASE g = h
    BY <1>2, <1>3, <1>4, <1>5, <2>1
  <2>2. CASE g # h
    <3>1. rpc'[g] = rpc[g]
      BY <1>2, <2>2, Zenon
    <3> QED BY <1>3, <1>4, <3>1, Zenon DEF DeleteInv, SerialInv
  <2> QED BY <2>1, <2>2, Zenon
<1>13. DeleterInv'
  <2>1. \A g \in Handlers : rpc'[g].at = "delete" => rpc'[g] = rpc[g] /\ Same(g)
    BY <1>2, <1>3
  <2>2. ASSUME NEW d \in Handlers \cup Instances, pc'[d] \in {"delete", "delete_run"}
        PROVE  d \in Handlers /\ rpc'[d].at = "delete"
    <3>1. d # h /\ pc[d] = pc'[d]
      BY <1>3, <2>2 DEF Same
    <3>2. d \in Handlers /\ rpc[d].at = "delete"
      BY <2>2, <3>1, Zenon DEF DeleterInv, SerialInv
    <3> QED BY <1>2, <3>1, <3>2, Zenon
  <2> QED BY <1>3, <2>1, <2>2, Zenon DEF DeleterInv, SerialInv, Same
<1>14. LiveInv'
  <2> SUFFICES ASSUME NEW j \in Instances, state[j] \in {"Created", "Starting", "Started"}
               PROVE  /\ container[j] \in Ids
                      /\ \/ instances'[container[j]] = j
                         \/ \E g \in Handlers : rpc'[g].at = "create_insert" /\ rpc'[g].obj = j
    BY <1>3, Zenon DEF LiveInv
  <2>1. /\ container[j] \in Ids
        /\ \/ instances[container[j]] = j
           \/ \E g \in Handlers : rpc[g].at = "create_insert" /\ rpc[g].obj = j
    BY Zenon DEF LiveInv, SerialInv
  <2>2. CASE instances[container[j]] = j
    <3>1. container[j] # id
      BY <1>5, <2>2 DEF Over
    <3> QED BY <1>3, <2>1, <2>2, <3>1, Zenon
  <2>3. ASSUME NEW g \in Handlers, rpc[g].at = "create_insert", rpc[g].obj = j
        PROVE  rpc'[g].at = "create_insert" /\ rpc'[g].obj = j
    BY <1>1, <1>2, <2>3
  <2> QED BY <2>1, <2>2, <2>3, Zenon
<1>15. GoneInv'
  <2>1. \A j \in Instances : Gone(j)' => state'[j] \in Over
    BY <1>3, <1>4, Zenon DEF GoneInv, SerialInv
  <2>2. \A j \in Instances : \A m, n \in Positions(j, "delete")' : m = n
    BY <1>4, Zenon DEF GoneInv, SerialInv
  <2> QED BY <2>1, <2>2, Zenon DEF GoneInv
<1>16. ShutdownInv'
  <2>1. "delete_remove" \in Cycle
    BY Zenon DEF Cycle, Deleting
  <2>2. ~Closing
    BY <1>1, <2>1, Zenon DEF ShutdownInv, SerialInv, Closed
  <2> QED BY <1>2, <1>3, <2>2 DEF ShutdownInv, Closing
<1> QED BY <1>8, <1>9, <1>10, <1>11, <1>12, <1>13, <1>14, <1>15, <1>16, Zenon DEF SerialInv

(* A deletion is published once, of a task that is not registered. *)
LEMMA EventSerial ==
  ASSUME LInv, LInv', SerialInv, Aging, NEW h \in Handlers, delete_event(h)
  PROVE  SerialInv'
<1>1. /\ rpc \in [Handlers -> Request] /\ TaskInv /\ rpc[h].at = "delete_event"
      /\ \E k \in Ids, j \in Instances : rpc[h].id = k /\ rpc[h].obj = j
  BY Zenon DEF delete_event, At, LInv, ServiceType, TaskInv, WithId, WithTask, LocalLabels, Deleting
<1> PICK id \in Ids, o \in Instances : rpc[h].id = id /\ rpc[h].obj = o
  BY <1>1
<1>2. /\ rpc'[h].at = "replied"
      /\ \A g \in Handlers \ {h} : rpc'[g] = rpc[g]
  BY RpcStep, Zenon DEF delete_event
<1>3. /\ instances' = instances /\ container' = container /\ shim' = shim
      /\ state' = state /\ pc' = pc /\ on' = on /\ res' = res
  BY Zenon DEF delete_event, inner
<1>4. /\ \A j \in Instances \ {o} : Positions(j, "delete")' = Positions(j, "delete")
      /\ Positions(o, "delete")' = Positions(o, "delete") \cup {Len(events[o]) + 1}
  <2>1. send(o, "delete") /\ "delete" \in EventKinds
    BY Zenon DEF delete_event, EventKinds
  <2> QED BY <1>1, <2>1, SendPositions
<1>5. state[o] \in Over /\ container[o] = id /\ Positions(o, "delete") = {} /\ instances[id] = NoInstance
  BY <1>1, Zenon DEF DeleteInv, SlotInv, SerialInv, Gone
<1>6. \A j \in Instances : Known(j)' => Known(j)
  <2>1. \A d \in Handlers \cup Instances : Same(d)
    BY <1>3, Zenon DEF Same
  <2>2. pc'[h] # "idle" => Known(on'[h])
    BY <1>3, WhatIsKnown, Zenon
  <2>3. rpc'[h].at \notin WithTask
    BY <1>2, Zenon DEF WithTask
  <2>4. instances' = instances
    BY <1>3
  <2> QED BY <1>2, <2>1, <2>2, <2>3, <2>4, KnownStep, Zenon
<1>7. \A g \in Handlers \ {h} : rpc[g].at \in Cycle => rpc[g].id # id
  <2>1. "delete_event" \in Cycle
    BY Zenon DEF Cycle, Deleting
  <2> QED BY <1>1, <2>1, Zenon DEF AloneInv, SerialInv
<1>8. \A j \in Instances \ {o} : Gone(j)' <=> Gone(j)
  BY <1>4, Zenon DEF Gone
<1>9. KnownInv'
  BY <1>3, <1>6, Zenon DEF KnownInv, SerialInv
<1>10. \A g \in Handlers : rpc'[g].at # "replied" => rpc'[g] = rpc[g] /\ g # h
  BY <1>2, Zenon
<1>11. InsertInv'
  <2> SUFFICES ASSUME NEW g \in Handlers, NEW j \in Instances,
                      rpc'[g].at = "create_insert", rpc'[g].obj = j
               PROVE  state'[j] = "Created" /\ container'[j] = rpc'[g].id /\ ~Known(j)'
    BY Zenon DEF InsertInv
  <2>1. rpc'[g] = rpc[g]
    BY <1>10
  <2> QED BY <1>3, <1>6, <2>1, Zenon DEF InsertInv, SerialInv
<1>12. AloneInv'
  <2>1. "replied" \notin Cycle
    BY Zenon DEF Cycle, Creating, Deleting
  <2>2. \A g \in Handlers : rpc'[g].at \in Cycle => rpc'[g] = rpc[g]
    BY <1>10, <2>1
  <2> QED BY <2>2, Zenon DEF AloneInv, SerialInv
<1>13. SlotInv'
  <2>1. ASSUME NEW k \in Ids, NEW j \in Instances, instances'[k] = j
        PROVE  container'[j] = k /\ ~Gone(j)'
    <3>1. instances[k] = j /\ container[j] = k /\ ~Gone(j)
      BY <1>3, <2>1, Zenon DEF SlotInv, SerialInv
    <3>2. j # o
      BY <1>1, <1>5, <3>1, Constants
    <3> QED BY <1>3, <1>8, <3>1, <3>2, Zenon
  <2>2. ASSUME NEW g \in Handlers
        PROVE  /\ rpc'[g].at \in {"create_new", "create_insert", "delete_event"}
                    => instances'[rpc'[g].id] = NoInstance
               /\ rpc'[g].at \in {"delete", "delete_poll", "delete_remove"}
                    => instances'[rpc'[g].id] = rpc'[g].obj
    BY <1>3, <1>10 DEF SlotInv, SerialInv
  <2> QED BY <2>1, <2>2, Zenon DEF SlotInv
<1>14. DeleteInv'
  <2> SUFFICES ASSUME NEW g \in Handlers, NEW j \in Instances, rpc'[g].obj = j,
                      rpc'[g].at \in {"delete_poll", "delete_remove", "delete_event"}
               PROVE  /\ state'[j] \in Over
                      /\ rpc'[g].at = "delete_event" => container'[j] = rpc'[g].id /\ ~Gone(j)'
    BY Zenon DEF DeleteInv
  <2>1. rpc'[g] = rpc[g] /\ g # h
    BY <1>10
  <2>2. /\ state[j] \in Over
        /\ rpc[g].at = "delete_event" => container[j] = rpc[g].id /\ ~Gone(j)
    BY <2>1, Zenon DEF DeleteInv, SerialInv
  <2>3. rpc[g].id # id
    BY <1>7, <2>1 DEF Cycle, Deleting
  <2> QED BY <1>3, <1>5, <1>8, <2>1, <2>2, <2>3
<1>15. DeleterInv'
  <2>1. \A g \in Handlers : rpc'[g].at = "delete" => rpc'[g] = rpc[g]
    BY <1>10
  <2>2. \A g \in Handlers : rpc[g].at = "delete" => rpc'[g].at = "delete"
    BY <1>1, <1>2
  <2> QED BY <1>3, <2>1, <2>2 DEF DeleterInv, SerialInv
<1>16. LiveInv'
  <2>1. \A g \in Handlers : rpc[g].at = "create_insert" => rpc'[g] = rpc[g]
    BY <1>1, <1>2
  <2>2. ASSUME NEW j \in Instances, state[j] \in {"Created", "Starting", "Started"}
        PROVE  /\ container[j] \in Ids
               /\ \/ instances[container[j]] = j
                  \/ \E g \in Handlers : rpc'[g].at = "create_insert" /\ rpc'[g].obj = j
    <3>1. /\ container[j] \in Ids
          /\ \/ instances[container[j]] = j
             \/ \E g \in Handlers : rpc[g].at = "create_insert" /\ rpc[g].obj = j
      BY <2>2, Zenon DEF LiveInv, SerialInv
    <3> QED BY <2>1, <3>1
  <2> QED BY <1>3, <2>2, Zenon DEF LiveInv
<1>17. GoneInv'
  <2>1. \A j \in Instances : Gone(j)' => state'[j] \in Over
    BY <1>3, <1>5, <1>8 DEF GoneInv, SerialInv
  <2>2. ASSUME NEW j \in Instances PROVE \A m, n \in Positions(j, "delete")' : m = n
    <3>1. CASE j = o
      <4>1. Positions(o, "delete")' = {Len(events[o]) + 1}
        BY <1>4, <1>5
      <4> QED BY <3>1, <4>1
    <3>2. CASE j # o
      BY <1>4, <3>2, Zenon DEF GoneInv, SerialInv
    <3> QED BY <3>1, <3>2, Zenon
  <2> QED BY <2>1, <2>2, Zenon DEF GoneInv
<1>18. ShutdownInv'
  <2>1. "delete_event" \in Cycle
    BY Zenon DEF Cycle, Deleting
  <2>2. ~Closing
    BY <1>1, <2>1, Zenon DEF ShutdownInv, SerialInv, Closed
  <2> QED BY <1>2, <1>3, <2>2 DEF ShutdownInv, Closing
<1> QED BY <1>9, <1>11, <1>12, <1>13, <1>14, <1>15, <1>16, <1>17, <1>18, Zenon DEF SerialInv

(* The other messages are no deletions. *)
LEMMA OtherEvents ==
  ASSUME LInv, NEW i \in Instances, NEW kind \in EventKinds \ {"delete"}, send(i, kind)
  PROVE  \A j \in Instances : Positions(j, "delete")' = Positions(j, "delete")
<1>1. "delete" \in EventKinds \ {kind} /\ kind \in EventKinds
  BY DEF EventKinds
<1> QED BY <1>1, SendPositions

(* Shutdown is taken up when the registry is empty and nobody is about to  *)
(* change it.                                                              *)
LEMMA ShutdownSerial ==
  ASSUME SerialClient, LInv, LInv', SerialInv, Aging, NEW h \in Handlers,
         shutdown(h) \/ shutdown_exit(h)
  PROVE  SerialInv'
<1>1. /\ UNCHANGED <<instances, container, events, inner>>
      /\ rpc[h].at \in {"idle", "shutdown_exit"}
  BY Zenon DEF shutdown, shutdown_exit, Arrives, At
<1>2. /\ rpc'[h].at \in {"replied", "shutdown_exit"}
      /\ \A g \in Handlers \ {h} : rpc'[g] = rpc[g]
  <2>1. (\E a : Reply(h, a)) \/ Accept(h, NoId, "shutdown_exit", NoInstance)
    BY Zenon DEF shutdown, shutdown_exit
  <2> QED BY <2>1, RpcStep, Zenon
<1>3. /\ state' = state /\ pc' = pc /\ on' = on /\ res' = res
      /\ instances' = instances /\ container' = container
  BY <1>1, Zenon DEF inner
<1>4. \A i \in Instances : Positions(i, "delete")' = Positions(i, "delete")
  BY <1>1, Zenon DEF Positions
<1>5. \A i \in Instances : Known(i)' => Known(i)
  <2>1. \A d \in Handlers \cup Instances : Same(d)
    BY <1>3, Zenon DEF Same
  <2>2. pc'[h] # "idle" => Known(on'[h])
    BY <1>3, WhatIsKnown, Zenon
  <2>3. rpc'[h].at \notin WithTask
    BY <1>2, Zenon DEF WithTask
  <2> QED BY <1>2, <1>3, <2>1, <2>2, <2>3, KnownStep, Zenon
<1>6. rpc[h].at \notin Cycle \cup {"delete"} /\ rpc'[h].at \notin Cycle \cup {"delete"}
  BY <1>1, <1>2, Zenon DEF Cycle, Creating, Deleting
<1>7. Closing' => Closing \/ Closed
  <2>1. CASE shutdown(h) /\ \A id \in Ids : instances[id] = NoInstance
    <3>1. ~Lifecycle(Ids)
      BY <2>1, Zenon DEF shutdown, Arrives
    <3>2. \A g \in Handlers : rpc[g].at \in Cycle => rpc[g].id \in Ids
      BY Zenon DEF LInv, TaskInv, WithId, WithTask, LocalLabels, Cycle, Creating, Deleting
    <3> QED BY <2>1, <3>1, <3>2, Zenon DEF Closed, Lifecycle, Cycle
  <2>2. CASE shutdown(h) /\ ~\A id \in Ids : instances[id] = NoInstance
    <3>1. rpc'[h].at = "replied" /\ shim' = shim
      BY <2>2, RpcStep, Zenon DEF shutdown
    <3> QED BY <1>2, <3>1 DEF Closing
  <2>3. CASE shutdown_exit(h)
    BY <2>3, Zenon DEF shutdown_exit, At, Closing
  <2> QED BY <2>1, <2>2, <2>3, Zenon
<1>8. Ordinary(h)
  <2>1. rpc[h].at # "create_insert" /\ rpc'[h].at \notin Cycle
    BY <1>6, Zenon DEF Cycle, Creating
  <2> QED BY <1>2, <1>3, <1>4, <1>5, <1>7, <2>1, Zenon DEF Ordinary
<1>9. DeleterInv'
  <2>1. \A g \in Handlers : rpc'[g].at = "delete" => rpc'[g] = rpc[g]
    BY <1>2, <1>6, Zenon
  <2>2. \A g \in Handlers : rpc[g].at = "delete" => rpc'[g] = rpc[g]
    BY <1>2, <1>6, Zenon
  <2> QED BY <1>3, <2>1, <2>2 DEF DeleterInv, SerialInv
<1> QED BY <1>8, <1>9, OrdinaryStep, Zenon

LEMMA ExitSerial ==
  ASSUME LInv, LInv', SerialInv, Aging, shim_exit \/ UNCHANGED vars
  PROVE  SerialInv'
<1>1. /\ state' = state /\ pc' = pc /\ on' = on /\ res' = res /\ rpc' = rpc
      /\ instances' = instances /\ container' = container /\ events' = events
      /\ Closing' => Closing
  BY Zenon DEF shim_exit, vars, inner, Closing
<1>2. \A i \in Instances : /\ Positions(i, "delete")' = Positions(i, "delete")
                           /\ Known(i)' => Known(i)
  BY <1>1, Zenon DEF Positions, Known
<1>3. Ordinary(NoInstance)
  BY <1>1, <1>2, Zenon DEF Ordinary
<1>4. DeleterInv'
  BY <1>1, Zenon DEF DeleterInv, SerialInv
<1> QED BY <1>3, <1>4, OrdinaryStep, Zenon

LEMMA SerialStep ==
  ASSUME SerialClient, LInv, SerialInv, [Next]_vars PROVE SerialInv'
<1>1. LInv' /\ P!IInv /\ Aging /\ rpc \in [Handlers -> Request]
      /\ instances \in [Ids -> Instances \cup {NoInstance}]
  BY StepLInv, RefinesStep, AgingStep, Zenon DEF LInv, ServiceType
<1>2. ASSUME NEW h \in Handlers,
             \/ \E a : Reply(h, a)
             \/ rpc' = [rpc EXCEPT ![h] = Idle],
             I!Return(h) \/ (UNCHANGED inner /\ rpc[h].at # "delete"),
             rpc[h].at # "create_insert",
             UNCHANGED <<instances, container, events, shim>>
      PROVE  SerialInv'
  BY <1>1, <1>2, ReplySerial, Zenon
<1>3. ASSUME NEW h \in Handlers, NEW id \in Ids, NEW m \in {"start", "kill", "wait", "delete"},
             get_instance(h, id, m)
      PROVE  SerialInv'
  <2>1. rpc[h].at = "idle" /\ UNCHANGED <<instances, container, events, shim>>
    BY <1>3, Zenon DEF get_instance, Arrives, At
  <2>2. CASE \E a : Reply(h, a) /\ UNCHANGED inner
    BY <1>2, <2>1, <2>2
  <2>3. CASE /\ instances[id] # NoInstance /\ I!Invoke(h, instances[id], m)
             /\ Accept(h, id, m, instances[id])
    <3>1. CASE m = "delete"
      BY <1>1, <1>3, <2>1, <2>3, <3>1, BeginSerial, Zenon DEF get_instance
    <3>2. CASE m # "delete"
      <4>1. m \in WithTask \ (Cycle \cup {"shutdown_exit"}) /\ m \in I!Methods
        BY <3>2 DEF WithTask, LocalLabels, Cycle, Creating, Deleting, I!Methods
      <4> QED BY <1>1, <2>1, <2>3, <4>1, AcceptSerial, Zenon
    <3> QED BY <3>1, <3>2, Zenon
  <2> QED BY <1>3, <2>2, <2>3, Zenon DEF get_instance
<1>4. ASSUME NEW h \in Handlers, NEW id \in Ids, NEW kind,
             NEW label \in {"state_pid", "stats_pid", "connect_pid"}, lookup(h, id, kind, label)
      PROVE  SerialInv'
  <2>1. rpc[h].at = "idle" /\ UNCHANGED <<inner, instances, container, events, shim>>
    BY <1>4, Zenon DEF lookup, Arrives, At
  <2>2. CASE \E a : Reply(h, a)
    BY <1>2, <2>1, <2>2
  <2>3. CASE Accept(h, id, label, instances[id])
    <3>1. label \in WithTask \ (Cycle \cup {"shutdown_exit"})
      BY DEF WithTask, LocalLabels, Cycle, Creating, Deleting
    <3> QED BY <1>1, <2>1, <2>3, <3>1, AcceptSerial, Zenon
  <2> QED BY <1>4, <2>2, <2>3, Zenon DEF lookup
<1>5. ASSUME NEW h \in Handlers, NEW id \in Ids, task_create(h, id) PROVE SerialInv'
  <2>1. rpc[h].at = "idle" /\ UNCHANGED <<inner, instances, container, events, shim>>
    BY <1>5, Zenon DEF task_create, Arrives, At
  <2>2. CASE \E a : Reply(h, a)
    BY <1>2, <2>1, <2>2
  <2>3. CASE instances[id] = NoInstance /\ Accept(h, id, "create_new", NoInstance)
    BY <1>1, <1>5, <2>1, <2>3, BeginSerial, Zenon DEF task_create
  <2> QED BY <1>5, <2>2, <2>3, Zenon DEF task_create
<1>6. ASSUME NEW h \in Handlers, Arrival(h) PROVE SerialInv'
  <2>1. CASE shutdown(h)
    BY <1>1, <2>1, ShutdownSerial, Zenon
  <2>2. ASSUME NEW id \in Ids,
               task_start(h, id) \/ task_kill(h, id) \/ task_delete(h, id) \/ task_wait(h, id)
        PROVE  SerialInv'
    BY <1>3, <2>2, Zenon DEF task_start, task_kill, task_delete, task_wait
  <2>3. ASSUME NEW id \in Ids, task_state(h, id) \/ task_stats(h, id) \/ connect(h, id)
        PROVE  SerialInv'
    BY <1>4, <2>3, Zenon DEF task_state, task_stats, connect
  <2> QED BY <1>5, <1>6, <2>1, <2>2, <2>3, Zenon DEF Arrival
<1>7. ASSUME NEW h \in Handlers, create_new(h) PROVE SerialInv'
  <2>1. rpc[h].at = "create_new" /\ UNCHANGED <<instances, events, shim>>
    BY <1>7, Zenon DEF create_new, At
  <2>2. CASE Reply(h, "err") /\ UNCHANGED <<inner, container>>
    <3>1. UNCHANGED <<instances, container, events, shim>>
      BY <2>1, <2>2, Zenon
    <3> QED BY <1>2, <2>1, <2>2, <3>1
  <2>3. ASSUME NEW i \in Instances, I!new(i),
               container' = [container EXCEPT ![i] = rpc[h].id],
               rpc' = [rpc EXCEPT ![h].at = "create_insert", ![h].obj = i]
        PROVE  SerialInv'
    BY <1>1, <2>1, <2>3, NewSerial, Zenon
  <2> QED BY <1>7, <2>2, <2>3, Zenon DEF create_new
<1>8. ASSUME NEW h \in Handlers,
             \/ create_hooks(h) \/ method_failed(h) \/ kill_reply(h) \/ wait_reply(h)
             \/ state_reply(h) \/ stats_reply(h) \/ connect_reply(h) \/ Done(h)
      PROVE  SerialInv'
  <2>1. /\ (\E a : Reply(h, a)) \/ rpc' = [rpc EXCEPT ![h] = Idle]
        /\ UNCHANGED <<instances, container, events, shim>>
    BY <1>8, Zenon DEF create_hooks, method_failed, kill_reply, wait_reply, state_reply,
       stats_reply, connect_reply, Done
  <2>2. rpc[h].at \in {"create_hooks", "start", "kill", "delete", "wait", "state_reply",
                       "stats_pid", "connect_pid", "replied"}
    BY <1>8, Zenon DEF create_hooks, method_failed, kill_reply, wait_reply, state_reply,
       stats_reply, connect_reply, Done, At
  <2>3. I!Return(h) \/ (UNCHANGED inner /\ rpc[h].at # "delete")
    BY <1>8, Zenon DEF create_hooks, method_failed, kill_reply, wait_reply, state_reply,
       stats_reply, connect_reply, Done, At
  <2>4. rpc[h].at # "create_insert"
    BY <2>2
  <2> QED BY <1>2, <2>1, <2>3, <2>4, Zenon
<1>9. ASSUME NEW h \in Handlers, NEW label \in WithTask, Goto(h, label)
      PROVE  /\ rpc'[h].at = label /\ rpc'[h].obj = rpc[h].obj /\ rpc'[h].id = rpc[h].id
             /\ \A g \in Handlers \ {h} : rpc'[g] = rpc[g]
  BY <1>1, <1>9, Zenon DEF Goto, Request
<1>10. ASSUME NEW h \in Handlers, create_event(h) PROVE SerialInv'
  <2>1. /\ rpc[h].at = "create_event" /\ rpc[h].at \in WithTask \ {"create_insert"}
        /\ "create_hooks" \in WithTask /\ rpc[h].obj \in Instances
        /\ "create" \in EventKinds \ {"delete"}
    BY <1>10 DEF create_event, At, WithTask, LocalLabels, Creating, EventKinds, LInv, TaskInv
  <2>2. \A j \in Instances : Positions(j, "delete")' = Positions(j, "delete")
    BY <1>10, <2>1, OtherEvents, Zenon DEF create_event
  <2>3. MovesOn(h)
    BY <1>9, <1>10, <2>1, Zenon DEF MovesOn, create_event
  <2> QED BY <1>1, <1>9, <1>10, <2>1, <2>2, <2>3, MoveSerial, Zenon DEF create_event
<1>11. ASSUME NEW h \in Handlers, start_event(h) PROVE SerialInv'
  <2>1. /\ rpc[h].at = "start" /\ rpc[h].at \in WithTask \ {"create_insert"}
        /\ "start_spawn" \in WithTask \ Cycle /\ rpc[h].obj \in Instances
        /\ "start" \in EventKinds \ {"delete"}
    BY <1>11 DEF start_event, At, WithTask, LocalLabels, EventKinds, LInv, TaskInv,
       Cycle, Creating, Deleting
  <2>2. \A j \in Instances : Positions(j, "delete")' = Positions(j, "delete")
    BY <1>11, <2>1, OtherEvents, Zenon DEF start_event
  <2> QED BY <1>1, <1>9, <1>11, <2>1, <2>2, MoveSerial, Zenon DEF start_event
<1>12. ASSUME NEW h \in Handlers, state_pid(h) \/ state_poll(h) PROVE SerialInv'
  <2>1. /\ rpc[h].at \in WithTask \ {"create_insert", "delete"}
        /\ "state_poll" \in WithTask \ Cycle /\ "state_reply" \in WithTask \ Cycle
    BY <1>12 DEF state_pid, state_poll, At, WithTask, LocalLabels, Cycle, Creating, Deleting
  <2>2. /\ rpc'[h].at \in {"state_poll", "state_reply"} /\ rpc'[h].obj = rpc[h].obj
        /\ \A g \in Handlers \ {h} : rpc'[g] = rpc[g]
    <3>1. CASE state_poll(h)
      BY <1>9, <2>1, <3>1, Zenon DEF state_poll
    <3>2. CASE state_pid(h)
      BY <1>1, <3>2, Zenon DEF state_pid, Request
    <3> QED BY <1>12, <3>1, <3>2, Zenon
  <2>3. \A j \in Instances : Positions(j, "delete")' = Positions(j, "delete")
    BY <1>12, Zenon DEF state_pid, state_poll, Positions
  <2>4. /\ I!now_or_never(h, rpc[h].obj) \/ UNCHANGED inner
        /\ UNCHANGED <<instances, container, shim>>
    BY <1>12, Zenon DEF state_pid, state_poll
  <2> QED BY <1>1, <2>1, <2>2, <2>3, <2>4, MoveSerial, Zenon
<1>13. ASSUME NEW h \in Handlers, delete_done(h) \/ delete_poll(h) PROVE SerialInv'
  <2>1. /\ rpc[h].at \in WithTask \ {"create_insert"} /\ rpc[h].obj \in Instances
        /\ "delete_poll" \in WithTask /\ "delete_remove" \in WithTask
    BY <1>13 DEF delete_done, delete_poll, At, WithTask, LocalLabels, Deleting, LInv, TaskInv
  <2>2. PICK label \in {"delete_poll", "delete_remove"} :
          Goto(h, label) /\ rpc[h].at = (IF label = "delete_poll" THEN "delete" ELSE "delete_poll")
    BY <1>13 DEF delete_done, delete_poll, At
  <2>3. state[rpc[h].obj] \in Over
    <3>1. CASE delete_poll(h)
      BY <2>1, <3>1, Zenon DEF delete_poll, At, DeleteInv, SerialInv
    <3>2. CASE delete_done(h)
      BY <3>2, Zenon DEF delete_done, At, DeleterInv, SerialInv, I!Return
    <3> QED BY <1>13, <3>1, <3>2, Zenon
  <2>4. rpc'[h].at = label /\ rpc'[h].obj = rpc[h].obj /\ rpc'[h].id = rpc[h].id
        /\ \A g \in Handlers \ {h} : rpc'[g] = rpc[g]
    BY <1>9, <2>1, <2>2
  <2>5. MovesOn(h)
    BY <2>2, <2>3, <2>4 DEF MovesOn
  <2>6. \A j \in Instances : Positions(j, "delete")' = Positions(j, "delete")
    BY <1>13, Zenon DEF delete_done, delete_poll, Positions
  <2>7. /\ I!Return(h) \/ I!now_or_never(h, rpc[h].obj)
        /\ UNCHANGED <<instances, container, shim>>
    BY <1>13, Zenon DEF delete_done, delete_poll
  <2>8. label \in WithTask /\ label \notin {"create_insert", "delete"}
    BY <2>1
  <2> QED BY <1>1, <2>1, <2>4, <2>5, <2>6, <2>7, <2>8, MoveSerial, Zenon
<1>14. ASSUME NEW h \in Handlers, start_spawn(h) PROVE SerialInv'
  <2> DEFINE c == rpc[h].obj
  <2>1. /\ rpc[h].at = "start_spawn" /\ c \in Instances /\ rpc[h].at \in WithTask \ {"create_insert"}
        /\ I!Invoke(c, c, "wait") /\ "wait" \in I!Methods
        /\ UNCHANGED <<instances, container, shim, events>>
    BY <1>14 DEF start_spawn, At, WithTask, LocalLabels, LInv, TaskInv, I!Methods
  <2>2. rpc'[h].at = "replied" /\ \A g \in Handlers \ {h} : rpc'[g] = rpc[g]
    BY <1>14, RpcStep, Zenon DEF start_spawn
  <2>3. Known(c)
    BY <2>1, WhatIsKnown, Zenon
  <2> HIDE DEF c
  <2>4. \A d \in (Handlers \cup Instances) \ {c} : Same(d)
    BY <1>1, <2>1, CallStep, Zenon
  <2>5. pc[c] = "idle" /\ pc'[c] = "wait" /\ on'[c] = c
    BY <1>1, <2>1, Zenon DEF I!Invoke, P!IInv, P!TypeOK
  <2>6. \A i \in Instances : state[i] = "Unborn" => state'[i] = "Unborn"
    BY <1>1, <2>1, UnbornStep, Zenon
  <2>7. \A i \in Instances : Positions(i, "delete")' = Positions(i, "delete")
    BY <2>1, Zenon DEF Positions
  <2>8. ~(c \in Handlers /\ rpc[c].at = "delete")
    BY <2>5, Zenon DEF DeleterInv, SerialInv
  <2> QED BY <1>1, <2>1, <2>2, <2>3, <2>4, <2>5, <2>6, <2>7, <2>8, CallerSerial, Zenon
<1>15. ASSUME NEW c \in Handlers \cup Instances, method_step(c) PROVE SerialInv'
  <2>1. /\ I!Enter(c) \/ I!Step(c)
        /\ UNCHANGED <<instances, container, events, rpc, shim>>
    BY <1>15, Zenon DEF method_step
  <2>2. /\ \A d \in (Handlers \cup Instances) \ {c} : Same(d)
        /\ on'[c] = on[c] /\ pc[c] # "idle"
    BY <1>1, <2>1, CallStep, MethodStep, Zenon
  <2>3. \A i \in Instances : state[i] = "Unborn" => state'[i] = "Unborn"
    BY <1>1, <2>1, UnbornStep, Zenon
  <2>4. \A i \in Instances : Positions(i, "delete")' = Positions(i, "delete")
    BY <2>1, Zenon DEF Positions
  <2>5. Known(on'[c])
    BY <2>2, WhatIsKnown, Zenon
  <2>6. c \in Handlers /\ rpc[c].at = "delete" =>
          /\ pc'[c] \in {"delete", "delete_run", "done"}
          /\ pc'[c] = "done" /\ res'[c] = "ok" => state'[on[c]] \in Over
    <3>1. c \in Handlers /\ rpc[c].at = "delete" => pc[c] \in {"delete", "delete_run"}
      BY <2>1, <2>2, Zenon DEF DeleterInv, SerialInv, I!Enter, I!Step, I!start_enter, I!kill_enter,
         I!delete_enter, I!wait_exited, I!Guarded, I!start_run, I!start_fail, I!start_set_pid,
         I!start_return, I!kill_return, I!delete_return, I!wait_code
    <3> QED BY <1>1, <2>1, <3>1, DeleteMethod, Zenon
  <2>7. pc'[c] \in {"delete", "delete_run"} => pc[c] \in {"delete", "delete_run"}
    BY <1>1, <2>1, DeleteMethod, Zenon
  <2>8. NoCaller \notin Handlers
    BY Constants, Zenon
  <2> QED BY <1>1, <2>1, <2>2, <2>3, <2>4, <2>5, <2>6, <2>7, <2>8, CallerSerial, Zenon
<1>16. ASSUME NEW i \in Instances, exit_event(i) PROVE SerialInv'
  <2>1. /\ I!Return(i) /\ send(i, "exit") /\ "exit" \in EventKinds \ {"delete"}
        /\ UNCHANGED <<instances, container, rpc, shim>>
    BY <1>16 DEF exit_event, EventKinds
  <2>2. /\ \A d \in (Handlers \cup Instances) \ {i} : Same(d)
        /\ pc'[i] = "idle"
    <3>1. i \in Handlers \cup Instances
      OBVIOUS
    <3>2. \A d \in (Handlers \cup Instances) \ {i} : Same(d)
      BY <1>1, <2>1, <3>1, CallStep, Zenon
    <3> QED BY <1>1, <2>1, <3>1, <3>2, Zenon DEF I!Return, P!IInv, P!TypeOK
  <2>3. \A j \in Instances : state[j] = "Unborn" => state'[j] = "Unborn"
    BY <1>1, <2>1, UnbornStep, Zenon
  <2>4. \A j \in Instances : Positions(j, "delete")' = Positions(j, "delete")
    BY <2>1, OtherEvents, Zenon
  <2>5. i \notin Handlers
    BY Constants
  <2>6. \A g \in Handlers \ {i} : rpc'[g] = rpc[g]
    BY <2>1, Zenon
  <2> QED BY <1>1, <2>1, <2>2, <2>3, <2>4, <2>5, <2>6, CallerSerial, Zenon
<1>17. ASSUME NEW i \in Instances, watcher_step(i) PROVE SerialInv'
  <2>1. /\ I!guest_exit(i) \/ I!report_exit(i) \/ I!watch_fail(i)
        /\ UNCHANGED <<instances, container, events, rpc, shim>>
    BY <1>17, Zenon DEF watcher_step
  <2>2. pc' = pc /\ on' = on /\ res' = res
    BY <2>1, Zenon DEF I!guest_exit, I!report_exit, I!watch_fail
  <2>3. \A j \in Instances : state[j] = "Unborn" => state'[j] = "Unborn"
    BY <1>1, <2>1, UnbornStep, Zenon
  <2>4. \A j \in Instances : Positions(j, "delete")' = Positions(j, "delete")
    BY <2>1, Zenon DEF Positions
  <2>5. \A d \in (Handlers \cup Instances) \ {i} : Same(d)
    BY <2>2, Zenon DEF Same
  <2>6. i \notin Handlers
    BY Constants
  <2>7. pc'[i] # "idle" => Known(on'[i])
    BY <2>2, WhatIsKnown, Zenon
  <2> QED BY <1>1, <2>1, <2>2, <2>3, <2>4, <2>5, <2>6, <2>7, CallerSerial, Zenon
<1>18. ASSUME NEW h \in Handlers, Progress(h) PROVE SerialInv'
  <2>1. ASSUME create_insert(h) \/ delete_remove(h) \/ delete_event(h) \/ shutdown_exit(h)
        PROVE  SerialInv'
    BY <1>1, <2>1, InsertSerial, RemoveSerial, EventSerial, ShutdownSerial, Zenon
  <2> QED BY <1>7, <1>8, <1>10, <1>11, <1>12, <1>13, <1>14, <1>18, <2>1, Zenon DEF Progress
<1>19. CASE shim_exit \/ UNCHANGED vars
  BY <1>1, <1>19, ExitSerial, Zenon
<1> QED BY <1>6, <1>8, <1>15, <1>16, <1>17, <1>18, <1>19, Zenon DEF Next

LEMMA InitSerial == Init => SerialInv
<1> SUFFICES ASSUME Init PROVE SerialInv
  OBVIOUS
<1>1. /\ \A id \in Ids : instances[id] = NoInstance
      /\ \A h \in Handlers : rpc[h].at = "idle"
      /\ \A i \in Instances : state[i] = "Unborn" /\ Positions(i, "delete") = {}
      /\ \A c \in Handlers \cup Instances : pc[c] = "idle"
      /\ shim = "up"
  BY DEF Init, I!Init, Idle, Positions
<1>2. \A h \in Handlers : rpc[h].at \notin Cycle
  BY <1>1, Zenon DEF Cycle, Creating, Deleting
<1>3. \A i \in Instances : ~Known(i) /\ ~Gone(i)
  <2>1. "idle" \notin WithTask
    BY Zenon DEF WithTask
  <2> QED BY <1>1, <2>1, Constants DEF Known, Gone
<1>4. KnownInv /\ AloneInv
  BY <1>2, <1>3, Zenon DEF KnownInv, AloneInv
<1>5. InsertInv /\ DeleteInv
  BY <1>1 DEF InsertInv, DeleteInv
<1>6. SlotInv
  BY <1>1, Constants DEF SlotInv
<1>7. DeleterInv
  BY <1>1 DEF DeleterInv
<1>8. LiveInv
  BY <1>1 DEF LiveInv
<1>9. GoneInv
  BY <1>1, <1>3, Zenon DEF GoneInv
<1>10. ShutdownInv
  BY <1>1 DEF ShutdownInv, Closing
<1> QED BY <1>4, <1>5, <1>6, <1>7, <1>8, <1>9, <1>10, Zenon DEF SerialInv

LEMMA SerialInvariance == SerialClient => (Spec => [](LInv /\ SerialInv))
<1> SUFFICES ASSUME SerialClient PROVE Spec => [](LInv /\ SerialInv)
  OBVIOUS
<1>1. Init => LInv /\ SerialInv
  BY InitLInv, InitSerial, Zenon
<1>2. LInv /\ SerialInv /\ [Next]_vars => (LInv /\ SerialInv)'
  BY StepLInv, SerialStep, Zenon
<1> QED BY <1>1, <1>2, PTL DEF Spec

(***************************************************************************)
(* A running guest is registered under the id of its container             *)
(* (local.rs:201, 298), for any number of tasks and requests, as long as   *)
(* clients do not overlap creates and deletes of a container and the       *)
(* watchers do not fail.                                                   *)
(***************************************************************************)
THEOREM RunningStaysRegistered ==
  SerialClient /\ ~WatcherFails => (Spec => []RunningIsRegistered)
<1> SUFFICES ASSUME SerialClient, ~WatcherFails PROVE Spec => []RunningIsRegistered
  OBVIOUS
<1>1. LInv /\ SerialInv => RunningIsRegistered
  <2> SUFFICES ASSUME LInv, SerialInv, NEW i \in Instances, guest[i] = "running"
               PROVE  instances[container[i]] = i
    BY Zenon DEF RunningIsRegistered
  <2>1. state[i] \in {"Starting", "Started"}
    BY DEF LInv, P!IInv, P!GuestInv, P!TypeOK, P!TaskStates
  <2>2. \A h \in Handlers : ~(rpc[h].at = "create_insert" /\ rpc[h].obj = i)
    BY <2>1 DEF InsertInv, SerialInv
  <2> QED BY <2>1, <2>2 DEF LiveInv, SerialInv
<1> QED BY <1>1, SerialInvariance, PTL

(***************************************************************************)
(* A task whose deletion was published is deleted once, is not registered, *)
(* and its engine is never called again (local.rs:285-314), as long as     *)
(* clients do not overlap creates and deletes of a container.              *)
(***************************************************************************)
THEOREM DeletionIsFinal == SerialClient => (Spec => []DeletedForGood)
<1> SUFFICES ASSUME SerialClient PROVE Spec => []DeletedForGood
  OBVIOUS
<1>1. LInv /\ SerialInv => DeletedForGood
  <2> SUFFICES ASSUME LInv, SerialInv PROVE DeletedForGood
    OBVIOUS
  <2>1. \A i \in Instances : \A m, n \in Positions(i, "delete") : m = n
    BY Zenon DEF GoneInv, SerialInv
  <2>2. ASSUME NEW i \in Instances, Gone(i) PROVE \A id \in Ids : instances[id] # i
    BY <2>2, Zenon DEF SlotInv, SerialInv
  <2>3. ASSUME NEW i \in Instances, Gone(i), NEW c \in Handlers \cup Instances, on[c] = i
        PROVE  pc[c] \notin {"start_run", "kill_run", "delete_run"}
    <3>1. state[i] \in Over
      BY <2>3, Zenon DEF GoneInv, SerialInv
    <3>2. pc[c] # "delete_run"
      <4> SUFFICES ASSUME pc[c] = "delete_run" PROVE FALSE
        OBVIOUS
      <4>1. c \in Handlers /\ rpc[c].at = "delete" /\ rpc[c].obj = i
        BY <2>3 DEF DeleterInv, SerialInv
      <4>2. instances[rpc[c].id] = i /\ rpc[c].id \in Ids
        BY <4>1 DEF SlotInv, SerialInv, LInv, TaskInv, WithId, WithTask, LocalLabels, Deleting
      <4> QED BY <2>2, <2>3, <4>2, Zenon
    <3>3. /\ pc[c] = "start_run" => state[i] = "Starting"
          /\ pc[c] = "kill_run" => state[i] = "Started"
      BY <2>3, Zenon DEF LInv, P!IInv, P!HeldInv, P!Starting
    <3> QED BY <3>1, <3>2, <3>3 DEF Over
  <2> QED BY <2>1, <2>2, <2>3, Zenon DEF DeletedForGood, Gone
<1> QED BY <1>1, SerialInvariance, PTL

(***************************************************************************)
(* The shim exits with no task registered and no guest running             *)
(* (local.rs:494-504), as long as clients send shutdown on its own and     *)
(* nothing after it, and the watchers do not fail.                         *)
(***************************************************************************)
THEOREM ShutdownIsClean ==
  SerialClient /\ ~WatcherFails => (Spec => []ShutdownLosesNothing)
<1> SUFFICES ASSUME SerialClient, ~WatcherFails PROVE Spec => []ShutdownLosesNothing
  OBVIOUS
<1>1. LInv /\ SerialInv => ShutdownLosesNothing
  <2> SUFFICES ASSUME LInv, SerialInv, shim = "gone"
               PROVE  /\ \A id \in Ids : instances[id] = NoInstance
                      /\ \A i \in Instances : guest[i] # "running"
    BY Zenon DEF ShutdownLosesNothing
  <2>1. Closed
    BY DEF ShutdownInv, Closing, SerialInv
  <2>2. ASSUME NEW i \in Instances, guest[i] = "running" PROVE FALSE
    <3>1. state[i] \in {"Starting", "Started"}
      BY <2>2 DEF LInv, P!IInv, P!GuestInv, P!TypeOK, P!TaskStates
    <3>2. \A h \in Handlers : rpc[h].at # "create_insert"
      BY <2>1, Zenon DEF Closed, Cycle, Creating
    <3> QED BY <2>1, <3>1, <3>2, Constants DEF LiveInv, SerialInv, Closed
  <2> QED BY <2>1, <2>2, Zenon DEF Closed
<1> QED BY <1>1, SerialInvariance, PTL

=============================================================================
