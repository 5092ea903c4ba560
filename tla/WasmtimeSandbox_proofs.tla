----------------------- MODULE WasmtimeSandbox_proofs -----------------------
(***************************************************************************)
(* Proofs about the HTTP server of the wasmtime shim, for any number of    *)
(* connections and requests: its shutdown waits for everything, and no two *)
(* requests share an instance.  Then about the process it runs in, for any *)
(* binaries and signals: the server runs there as it runs alone, and the   *)
(* exit code tells how a run ended.                                        *)
(***************************************************************************)
EXTENDS WasmtimeSandbox, SequenceTheorems, TLAPS

(* The accept queue holds a connection once. *)
NoDuplicates == \A i, j \in 1 .. Len(queue) : queue[i] = queue[j] => i = j

(* The tracker counts every connection that is served and every guest that *)
(* runs, and it is empty once the server is done.                          *)
Tracked ==
  /\ \A c \in Conns : conn[c] \in Serving => c \in tracker
  /\ \A r \in Ids : task[r] = "running" => r \in tracker
  /\ server = "done" => tracker = {}

(* The id of a request that is handled has been given out. *)
Numbered ==
  \A c \in Conns : conn[c] \in Handling => req[c] \in Ids /\ req[c] < next_id

IInv == TypeOK /\ NoDuplicates /\ Tracked /\ Numbered /\ OneRequestPerInstance

LEMMA InitIInv == Init => IInv
<1> SUFFICES ASSUME Init PROVE IInv
  OBVIOUS
<1> USE BoundsAssumption DEF Init
<1>1. queue \in Seq(Conns) /\ Len(queue) = 0
  BY EmptySeq
<1>2. TypeOK
  <2>1. /\ queue \in Seq(Conns)
        /\ \A i \in 1 .. Len(queue) : conn[queue[i]] = "queued"
    BY <1>1
  <2>2. tracker \subseteq Conns \cup Ids /\ next_id \in 0 .. MaxRequests
    OBVIOUS
  <2>3. /\ conn \in [Conns -> {"new", "queued", "closed", "panicked"} \cup Serving]
        /\ req \in [Conns -> Ids \cup {None}]
        /\ task \in [Ids -> {"none", "running", "ok", "err"}]
        /\ sender \in [Ids -> {"held", "response", "error", "dropped"}]
    OBVIOUS
  <2> QED BY <2>1, <2>2, <2>3 DEF TypeOK
<1>3. NoDuplicates
  BY <1>1 DEF NoDuplicates
<1>4. Tracked
  BY DEF Tracked, Serving, Handling
<1>5. Numbered
  BY DEF Numbered, Handling
<1>6. OneRequestPerInstance
  BY DEF OneRequestPerInstance, Handling
<1> QED BY <1>2, <1>3, <1>4, <1>5, <1>6 DEF IInv

(***************************************************************************)
(* A step that moves one connection which is not queued, and leaves the    *)
(* queue alone.                                                            *)
(***************************************************************************)
LEMMA QueueKept ==
  ASSUME IInv, NEW c \in Conns, conn[c] # "queued", NEW v,
         conn' = [conn EXCEPT ![c] = v], queue' = queue
  PROVE  /\ queue' \in Seq(Conns) /\ \A i \in 1 .. Len(queue') : conn'[queue'[i]] = "queued"
         /\ NoDuplicates'
<1>1. \A i \in 1 .. Len(queue) : queue[i] \in Conns
  BY ElementOfSeq DEF IInv, TypeOK
<1> QED BY <1>1 DEF IInv, TypeOK, NoDuplicates

(* A connection's task ends. *)
LEMMA EndConnStep ==
  ASSUME IInv, NEW c \in Conns, conn[c] \in Serving, NEW how \in {"closed", "panicked"},
         EndConn(c, how),
         UNCHANGED <<server, cancelled, queue, next_id, task>>,
         sender' \in [Ids -> {"held", "response", "error", "dropped"}]
  PROVE  IInv'
<1> USE DEF EndConn
<1>1. TypeOK'
  BY QueueKept DEF IInv, TypeOK, Serving, Handling
<1>2. NoDuplicates'
  BY QueueKept DEF Serving, Handling
<1>3. Tracked'
  BY ConnsAssumption DEF IInv, TypeOK, Tracked, Serving, Handling, Ids
<1>4. Numbered'
  BY DEF IInv, TypeOK, Numbered, Handling
<1>5. OneRequestPerInstance'
  BY DEF IInv, TypeOK, OneRequestPerInstance, Handling
<1> QED BY <1>1, <1>2, <1>3, <1>4, <1>5 DEF IInv

(* A connection that is being handled moves on with its request. *)
LEMMA HandleStep ==
  ASSUME IInv, NEW c \in Conns, conn[c] \in Handling, NEW v \in Handling,
         conn' = [conn EXCEPT ![c] = v],
         UNCHANGED <<server, cancelled, queue, req, next_id, sender>>,
         \/ UNCHANGED <<task, tracker>>
         \/ /\ task' = [task EXCEPT ![req[c]] = "running"]
            /\ tracker' = tracker \cup {req[c]}
  PROVE  IInv'
<1>0. req[c] \in Ids
  BY DEF IInv, Numbered
<1>1. TypeOK'
  BY <1>0, QueueKept DEF IInv, TypeOK, Serving, Handling
<1>2. NoDuplicates'
  BY QueueKept DEF Handling
<1>3. Tracked'
  BY <1>0 DEF IInv, TypeOK, Tracked, Serving
<1>4. Numbered'
  BY DEF IInv, TypeOK, Numbered
<1>5. OneRequestPerInstance'
  BY DEF IInv, TypeOK, OneRequestPerInstance
<1> QED BY <1>1, <1>2, <1>3, <1>4, <1>5 DEF IInv

(* The steps of the server that move no connection. *)
LEMMA ServerStep ==
  ASSUME IInv,
         server' = server \/ server' \in {"accept", "sleep", "closing", "failed"},
         cancelled' \in BOOLEAN,
         UNCHANGED <<queue, tracker, conn, req, next_id, task, sender>>
  PROVE  IInv'
<1>1. TypeOK'
  BY DEF IInv, TypeOK
<1>2. Tracked'
  BY DEF IInv, Tracked
<1> QED
  BY <1>1, <1>2 DEF IInv, NoDuplicates, Numbered, OneRequestPerInstance

(* The head of the queue leaves it. *)
LEMMA DequeueStep ==
  ASSUME IInv, queue # <<>>, queue' = Tail(queue), NEW v \in {"idle", "closed"},
         conn' = [conn EXCEPT ![Head(queue)] = v],
         server = "accept",
         tracker' = IF v = "idle" THEN tracker \cup {Head(queue)} ELSE tracker,
         UNCHANGED <<server, cancelled, req, next_id, task, sender>>
  PROVE  IInv'
<1>1. /\ Head(queue) = queue[1] /\ Head(queue) \in Conns
      /\ Tail(queue) \in Seq(Conns) /\ Len(Tail(queue)) = Len(queue) - 1
      /\ Len(queue) \in Nat /\ Len(queue) > 0
      /\ \A i \in 1 .. Len(Tail(queue)) : Tail(queue)[i] = queue[i + 1]
  BY HeadTailProperties, EmptySeq, LenProperties DEF IInv, TypeOK
<1>2. \A i \in 1 .. Len(queue) : queue[i] \in Conns
  BY ElementOfSeq DEF IInv, TypeOK
<1>3. \A i \in 1 .. Len(queue') : queue'[i] \in Conns /\ queue'[i] # Head(queue)
  BY <1>1, <1>2 DEF IInv, NoDuplicates
<1>4. TypeOK'
  <2>1. \A i \in 1 .. Len(queue') : conn'[queue'[i]] = "queued"
    BY <1>1, <1>3 DEF IInv, TypeOK
  <2> QED BY <1>1, <2>1 DEF IInv, TypeOK, Serving
<1>5. NoDuplicates'
  BY <1>1 DEF IInv, NoDuplicates
<1>6. Tracked'
  BY <1>1 DEF IInv, TypeOK, Tracked, Serving, Handling
<1>7. Numbered' /\ OneRequestPerInstance'
  BY <1>1 DEF IInv, TypeOK, Numbered, OneRequestPerInstance, Handling
<1> QED BY <1>4, <1>5, <1>6, <1>7 DEF IInv

LEMMA NextIInv == IInv /\ [Next]_vars => IInv'
<1> SUFFICES ASSUME IInv, [Next]_vars PROVE IInv'
  OBVIOUS
<1>1. CASE serve_conn
  BY <1>1, ServerStep DEF serve_conn, IInv, TypeOK
<1>2. CASE accept
  BY <1>2, DequeueStep DEF accept
<1>3. CASE accept_error
  <2>1. CASE Cardinality(Open) < MaxFiles /\ queue' = Tail(queue)
    BY <1>3, <2>1, DequeueStep DEF accept_error
  <2>2. CASE server' = "sleep" /\ UNCHANGED <<conn, queue>>
    BY <1>3, <2>2, ServerStep DEF accept_error, IInv, TypeOK
  <2> QED BY <1>3, <2>1, <2>2 DEF accept_error
<1>4. CASE wake
  BY <1>4, ServerStep DEF wake, IInv, TypeOK
<1>5. CASE stop_accepting
  BY <1>5, ServerStep DEF stop_accepting, IInv, TypeOK
<1>6. CASE tracker_wait
  <2> USE <1>6 DEF tracker_wait, DropListener
  <2>1. queue' \in Seq(Conns) /\ Len(queue') = 0
    BY EmptySeq
  <2>2. TypeOK'
    BY <2>1 DEF IInv, TypeOK, Serving
  <2>3. NoDuplicates'
    BY <2>1 DEF NoDuplicates
  <2>4. Tracked'
    BY DEF IInv, TypeOK, Tracked, Serving, Handling
  <2>5. Numbered' /\ OneRequestPerInstance'
    BY DEF IInv, TypeOK, Numbered, OneRequestPerInstance, Handling
  <2> QED BY <2>2, <2>3, <2>4, <2>5 DEF IInv
<1>7. ASSUME NEW c \in Conns, connect(c) PROVE IInv'
  <2> USE <1>7 DEF connect
  <2>1. /\ queue' \in Seq(Conns) /\ Len(queue') = Len(queue) + 1 /\ Len(queue) \in Nat
        /\ \A i \in 1 .. Len(queue) : queue'[i] = queue[i]
        /\ queue'[Len(queue) + 1] = c
    BY AppendProperties, LenProperties DEF IInv, TypeOK
  <2>2. \A i \in 1 .. Len(queue) : queue[i] \in Conns /\ queue[i] # c
    BY ElementOfSeq DEF IInv, TypeOK
  <2>3. TypeOK'
    <3>1. \A i \in 1 .. Len(queue') : conn'[queue'[i]] = "queued"
      BY <2>1, <2>2 DEF IInv, TypeOK
    <3> QED BY <2>1, <3>1 DEF IInv, TypeOK
  <2>4. NoDuplicates'
    BY <2>1, <2>2 DEF IInv, NoDuplicates
  <2>5. Tracked'
    BY DEF IInv, TypeOK, Tracked, Serving, Handling
  <2>6. Numbered' /\ OneRequestPerInstance'
    BY DEF IInv, TypeOK, Numbered, OneRequestPerInstance, Handling
  <2> QED BY <2>3, <2>4, <2>5, <2>6 DEF IInv
<1>8. ASSUME NEW c \in Conns, handle_request(c) PROVE IInv'
  <2> USE <1>8 DEF handle_request
  <2>1. next_id \in Ids /\ next_id' \in 0 .. MaxRequests
    BY BoundsAssumption DEF IInv, TypeOK, Ids
  <2>2. TypeOK'
    BY <2>1, QueueKept DEF IInv, TypeOK, Serving, Handling
  <2>3. NoDuplicates'
    BY QueueKept
  <2>4. Tracked'
    BY DEF IInv, TypeOK, Tracked, Serving, Handling
  <2>5. Numbered'
    BY <2>1 DEF IInv, TypeOK, Numbered, Ids
  <2>6. OneRequestPerInstance'
    BY <2>1 DEF IInv, TypeOK, Numbered, OneRequestPerInstance, Ids
  <2> QED BY <2>2, <2>3, <2>4, <2>5, <2>6 DEF IInv
<1>9. ASSUME NEW c \in Conns, instantiate_async(c) PROVE IInv'
  <2>1. CASE EndConn(c, "closed") /\ UNCHANGED task
    BY <1>9, <2>1, EndConnStep DEF instantiate_async, Serving, Handling, IInv, TypeOK
  <2>2. CASE ~(EndConn(c, "closed") /\ UNCHANGED task)
    BY <1>9, <2>2, HandleStep DEF instantiate_async, Handling
  <2> QED BY <2>1, <2>2
<1>10. ASSUME NEW c \in Conns, receive(c) PROVE IInv'
  <2>1. CASE EndConn(c, "closed")
    BY <1>10, <2>1, EndConnStep DEF receive, Serving, Handling, IInv, TypeOK
  <2>2. CASE ~EndConn(c, "closed")
    BY <1>10, <2>2, HandleStep DEF receive, Handling
  <2> QED BY <2>1, <2>2
<1>11. ASSUME NEW c \in Conns, join(c) PROVE IInv'
  BY <1>11, EndConnStep DEF join, Serving, Handling, IInv, TypeOK
<1>12. ASSUME NEW c \in Conns, send_body(c) PROVE IInv'
  <2>1. CASE EndConn(c, "closed")
    BY <1>12, <2>1, EndConnStep DEF send_body, Serving, Handling, IInv, TypeOK
  <2>2. CASE conn' = [conn EXCEPT ![c] = "idle"] /\ req' = [req EXCEPT ![c] = None]
             /\ UNCHANGED tracker
    <3> USE <1>12, <2>2 DEF send_body
    <3>1. TypeOK'
      BY QueueKept DEF IInv, TypeOK, Serving, Handling
    <3>2. NoDuplicates'
      BY QueueKept
    <3>3. Tracked'
      BY DEF IInv, TypeOK, Tracked, Serving, Handling
    <3>4. Numbered' /\ OneRequestPerInstance'
      BY DEF IInv, TypeOK, Numbered, OneRequestPerInstance, Handling
    <3> QED BY <3>1, <3>2, <3>3, <3>4 DEF IInv
  <2> QED BY <1>12, <2>1, <2>2 DEF send_body
<1>13. ASSUME NEW c \in Conns, disconnect(c) PROVE IInv'
  BY <1>13, EndConnStep DEF disconnect, IInv, TypeOK
<1>14. ASSUME NEW r \in Ids, guest_set(r) PROVE IInv'
  <2>1. TypeOK'
    BY <1>14 DEF guest_set, IInv, TypeOK
  <2> QED BY <1>14, <2>1 DEF guest_set, IInv, NoDuplicates, Tracked, Numbered,
                             OneRequestPerInstance
<1>15. ASSUME NEW r \in Ids, guest_end(r) PROVE IInv'
  <2> USE <1>15 DEF guest_end
  <2>1. TypeOK'
    BY DEF IInv, TypeOK
  <2>2. Tracked'
    BY ConnsAssumption DEF IInv, TypeOK, Tracked, Ids
  <2> QED BY <2>1, <2>2 DEF IInv, NoDuplicates, Numbered, OneRequestPerInstance
<1>16. CASE cancel
  BY <1>16, ServerStep DEF cancel, IInv, TypeOK
<1>17. CASE UNCHANGED vars
  BY <1>17 DEF vars, IInv, TypeOK, NoDuplicates, Tracked, Numbered, OneRequestPerInstance
<1> QED
  BY <1>1, <1>2, <1>3, <1>4, <1>5, <1>6, <1>7, <1>8, <1>9, <1>10, <1>11, <1>12, <1>13,
     <1>14, <1>15, <1>16, <1>17
  DEF Next, proxy, serve, handle

LEMMA Invariance == Spec => []IInv
  BY InitIInv, NextIInv, PTL DEF Spec

(* The server never returns while a connection is served or a guest runs:  *)
(* serve_conn's graceful shutdown is complete.                             *)
THEOREM ShutdownDrains == Spec => []Drained
<1>1. IInv => Drained
  BY DEF IInv, Tracked, Drained
<1> QED BY <1>1, Invariance, PTL

(* Requests handled at once have ids, instances and channels of their own. *)
THEOREM RequestsAreSeparate == Spec => []OneRequestPerInstance
<1>1. IInv => OneRequestPerInstance
  BY DEF IInv
<1> QED BY <1>1, Invariance, PTL

(* The model is type correct: in particular a queued connection has no     *)
(* task yet, so the accept queue never outlives the listener.              *)
THEOREM TypeCorrect == Spec => []TypeOK
<1>1. IInv => TypeOK
  BY DEF IInv
<1> QED BY <1>1, Invariance, PTL

-----------------------------------------------------------------------------
(***************************************************************************)
(* The process around the server.  The server is untouched until a         *)
(* component of its world is executed, it stops only when it is told to,   *)
(* and only the first SIGINT tells it.                                     *)
(***************************************************************************)
ServerInv ==
  /\ phase \notin {"http", "exited"} => server = "init"
  /\ server \in {"closing", "done"} => cancelled

(* The listeners and what they saw. *)
ListenersInv ==
  /\ delivered \in Seq(Signals)
  /\ cancelled <=> listeners = "second"
  /\ phase = "execute" => listeners = "none"
  /\ listeners = "none" => pending = {}
  /\ listeners = "first" => \A sig \in pending : \E i \in 1 .. Len(delivered) : sig = delivered[i]
  /\ listeners = "second" =>
       /\ Len(delivered) > 0
       /\ \A sig \in pending : \E i \in 1 .. Len(delivered) : i > 1 /\ sig = delivered[i]

(* A component of the server's world is executed in no other way. *)
TargetInv ==
  /\ binary \in Binaries
  /\ IsHttp => phase \in {"execute", "http", "exited"}
  /\ phase = "http" => IsHttp

SandboxInv ==
  IInv /\ SandboxTypeOK /\ ServerInv /\ ListenersInv /\ TargetInv /\ ExitExplained

LEMMA SandboxInitInv == SandboxInit => SandboxInv
<1> SUFFICES ASSUME SandboxInit PROVE SandboxInv
  OBVIOUS
<1>1. IInv
  BY InitIInv DEF SandboxInit
<1>2. SandboxTypeOK
  BY ExitsAssumption DEF SandboxInit, SandboxTypeOK
<1>3. ServerInv
  BY DEF SandboxInit, Init, ServerInv
<1>4. ListenersInv
  BY EmptySeq DEF SandboxInit, Init, ListenersInv
<1>5. TargetInv
  BY DEF SandboxInit, TargetInv
<1>6. ExitExplained
  BY ConnsAssumption DEF SandboxInit, ExitExplained
<1> QED BY <1>1, <1>2, <1>3, <1>4, <1>5, <1>6 DEF SandboxInv

(* The server in the process makes the steps that it makes alone. *)
LEMMA ServerSteps == SandboxInv /\ [SandboxNext]_allVars => [Next]_vars
<1> SUFFICES ASSUME SandboxInv, SandboxNext \/ UNCHANGED allVars PROVE Next \/ UNCHANGED vars
  OBVIOUS
<1>1. CASE handle_signals
  <2>1. UNCHANGED cancelled \/ (cancelled' = TRUE /\ ~cancelled)
    BY <1>1 DEF handle_signals, SandboxInv, ListenersInv
  <2> QED BY <1>1, <2>1 DEF handle_signals, Next, cancel, vars
<1>2. CASE execute \/ setup_error \/ call_async \/ serve_returned
           \/ (\E sig \in Signals : deliver(sig)) \/ UNCHANGED allVars
  BY <1>2, Zenon DEF execute, setup_error, call_async, serve_returned, deliver, allVars
<1>3. CASE run_proxy
  BY <1>3, Zenon DEF run_proxy, Next
<1> QED BY <1>1, <1>2, <1>3, Zenon DEF SandboxNext

(* The server is told to stop by nobody else. *)
LEMMA ProxySteps ==
  ASSUME IInv, ServerInv, proxy
  PROVE  /\ cancelled' = cancelled
         /\ server' \in {"closing", "done"} => cancelled
<1> USE DEF ServerInv
<1>1. CASE serve
  BY <1>1 DEF serve, serve_conn, accept, accept_error, wake, stop_accepting, tracker_wait
<1>2. ASSUME NEW c \in Conns, connect(c) \/ handle_request(c) \/ handle(c) \/ disconnect(c)
      PROVE  cancelled' = cancelled /\ server' = server
  BY <1>2, Zenon DEF connect, handle_request, handle, instantiate_async, receive, join, send_body, disconnect
<1>3. ASSUME NEW r \in Ids, guest_set(r) \/ guest_end(r)
      PROVE  cancelled' = cancelled /\ server' = server
  BY <1>3, Zenon DEF guest_set, guest_end
<1> QED BY <1>1, <1>2, <1>3, Zenon DEF proxy

(* What into_error_code gives. *)
LEMMA ErrorCode ==
  ASSUME NEW res \in Results
  PROVE  /\ into_error_code(res) \in (0 .. 255) \cup {Error}
         /\ into_error_code(res) = 0 => res \in {Result("ok", 0), Result("exit", 0)}
BY ExitsAssumption, ErrorAssumption DEF Results, Result, into_error_code

(* A run that ended stays as it ended. *)
LEMMA ExitStays ==
  ASSUME SandboxInv, phase = "exited", SandboxNext PROVE FALSE
<1>1. outcome # None
  BY DEF SandboxInv, SandboxTypeOK
<1>2. ~deliver(SIGINT) /\ ~handle_signals /\ \A sig : ~deliver(sig)
  BY <1>1 DEF deliver, handle_signals
<1>3. ~execute /\ ~setup_error /\ ~call_async /\ ~serve_returned /\ ~run_proxy
  BY DEF execute, setup_error, call_async, serve_returned, run_proxy
<1> QED BY <1>2, <1>3, Zenon DEF SandboxNext

LEMMA SandboxStep == SandboxInv /\ [SandboxNext]_allVars => SandboxInv'
<1> SUFFICES ASSUME SandboxInv, SandboxNext \/ UNCHANGED allVars PROVE SandboxInv'
  OBVIOUS
<1>1. IInv'
  BY ServerSteps, NextIInv DEF SandboxInv
<1> DEFINE Kept == (SandboxTypeOK /\ ServerInv /\ ListenersInv /\ TargetInv /\ ExitExplained)'
<1> SUFFICES Kept
  BY <1>1, Zenon DEF SandboxInv
<1>2. CASE UNCHANGED allVars
  <2>1. /\ UNCHANGED <<server, cancelled, conn, task, binary, phase>>
        /\ UNCHANGED <<listeners, pending, delivered, result, outcome>>
    BY <1>2 DEF allVars, vars, signals, process
  <2>2. (SandboxTypeOK /\ ServerInv /\ ListenersInv)'
    BY <2>1 DEF SandboxInv, SandboxTypeOK, ServerInv, ListenersInv
  <2>3. (TargetInv /\ ExitExplained)'
    BY <2>1 DEF SandboxInv, TargetInv, IsHttp, ExitExplained, Quiet
  <2> QED BY <2>2, <2>3
<1>3. ASSUME SandboxNext PROVE phase # "exited" /\ outcome = None
  BY <1>3, ExitStays DEF SandboxInv, SandboxTypeOK
<1>4. ASSUME phase' # "exited", outcome' = None PROVE ExitExplained'
  BY <1>4, ConnsAssumption DEF ExitExplained
<1> USE DEF SandboxInv
<1>5. CASE execute
  <2>1. /\ phase = "execute" /\ listeners = "none" /\ pending = {} /\ ~cancelled /\ server = "init"
        /\ delivered \in Seq(Signals) /\ outcome = None
        /\ UNCHANGED <<server, cancelled, conn, task, binary, pending, delivered, result>>
    BY <1>3, <1>5 DEF execute, ListenersInv, ServerInv, vars, SandboxNext
  <2>2. /\ phase' \in {"module", "exited"} \cup Targets /\ listeners' \in {"none", "first"}
        /\ phase' = "exited" => outcome' = Error
        /\ phase' # "exited" => outcome' = None
        /\ IsHttp => phase' \in {"http", "exited"}
        /\ phase' = "http" => IsHttp
    BY <1>5, <2>1 DEF execute, Return, ComponentTarget, Targets, IsHttp
  <2>3. SandboxTypeOK'
    BY <2>1, <2>2, ErrorAssumption DEF SandboxTypeOK, Targets
  <2>4. ServerInv'
    BY <2>1 DEF ServerInv
  <2>5. ListenersInv'
    BY <2>1, <2>2 DEF ListenersInv, Targets
  <2>6. TargetInv'
    BY <2>1, <2>2 DEF TargetInv, IsHttp
  <2>7. ExitExplained'
    BY <2>2, ErrorAssumption, <1>4 DEF ExitExplained
  <2> QED BY <2>3, <2>4, <2>5, <2>6, <2>7
<1>6. CASE setup_error \/ call_async
  <2>1. /\ phase \in Targets \cup {"module"} /\ outcome = None
        /\ UNCHANGED <<server, cancelled, conn, task, binary, listeners, pending, delivered>>
        /\ phase' = "exited"
    BY <1>3, <1>6 DEF setup_error, call_async, Targets, ServerInv, IInv, Return, vars, signals, SandboxNext
  <2>2. \/ outcome' = Error /\ result' \in Results \cup {None}
        \/ /\ result' \in Results /\ outcome' = into_error_code(result')
           /\ phase \in {"module", "command", "core"}
    BY <1>6 DEF setup_error, call_async, Return, SandboxTypeOK
  <2>3. /\ result' \in Results \cup {None} /\ outcome' \in (0 .. 255) \cup {Error}
        /\ outcome' = 0 => result' \in {Result("ok", 0), Result("exit", 0)}
        /\ IsHttp => outcome' = Error
    <3>1. CASE outcome' = Error /\ result' \in Results \cup {None}
      BY <3>1, ErrorAssumption
    <3>2. CASE /\ result' \in Results /\ outcome' = into_error_code(result')
               /\ phase \in {"module", "command", "core"}
      BY <3>2, ErrorCode DEF TargetInv
    <3> QED BY <2>2, <3>1, <3>2, Zenon
  <2>4. SandboxTypeOK'
    BY <2>1, <2>3, ErrorAssumption, ConnsAssumption DEF SandboxTypeOK
  <2>5. ServerInv'
    BY <2>1 DEF ServerInv
  <2>6. ListenersInv'
    BY <2>1 DEF ListenersInv
  <2>7. TargetInv'
    BY <2>1 DEF TargetInv, IsHttp
  <2>8. ExitExplained'
    BY <2>1, <2>3, ErrorAssumption DEF ExitExplained, IsHttp
  <2> QED BY <2>4, <2>5, <2>6, <2>7, <2>8
<1>7. CASE serve_returned
  <2>1. /\ phase = "http" /\ IsHttp /\ phase' = "exited"
        /\ UNCHANGED <<server, cancelled, conn, task, binary, listeners, pending, delivered, result>>
        /\ \/ server = "done" /\ outcome' = 0 /\ cancelled
           \/ outcome' = Error
    BY <1>7 DEF serve_returned, Return, vars, signals, TargetInv, ServerInv
  <2>2. server = "done" => Quiet'
    BY <2>1 DEF Quiet, IInv, Tracked
  <2>3. SandboxTypeOK'
    BY <2>1, ErrorAssumption, ConnsAssumption DEF SandboxTypeOK
  <2>4. ServerInv'
    BY <2>1 DEF ServerInv
  <2>5. ListenersInv'
    BY <2>1 DEF ListenersInv
  <2>6. TargetInv'
    BY <2>1 DEF TargetInv, IsHttp
  <2>7. ExitExplained'
    BY <2>1, <2>2, ErrorAssumption DEF ExitExplained
  <2> QED BY <2>3, <2>4, <2>5, <2>6, <2>7
<1>8. CASE run_proxy
  <2>1. /\ phase = "http" /\ proxy /\ outcome = None
        /\ UNCHANGED <<binary, phase, listeners, pending, delivered, result, outcome>>
    BY <1>3, <1>8 DEF run_proxy, signals, process, SandboxNext
  <2>2. cancelled' = cancelled /\ (server' \in {"closing", "done"} => cancelled)
    BY <2>1, ProxySteps
  <2>3. SandboxTypeOK'
    BY <2>1 DEF SandboxTypeOK
  <2>4. ServerInv'
    BY <2>1, <2>2 DEF ServerInv
  <2>5. ListenersInv'
    BY <2>1, <2>2 DEF ListenersInv
  <2>6. TargetInv'
    BY <2>1 DEF TargetInv, IsHttp
  <2> QED BY <1>4, <2>1, <2>3, <2>4, <2>5, <2>6
<1>9. ASSUME NEW sig \in Signals, deliver(sig) PROVE Kept
  <2>1. /\ listeners # "none" /\ outcome = None /\ Len(delivered) < MaxSignals
        /\ pending' = pending \cup {sig} /\ delivered' = Append(delivered, sig)
        /\ delivered \in Seq(Signals) /\ phase # "exited"
        /\ UNCHANGED <<server, cancelled, binary, phase, listeners, result, outcome>>
    BY <1>9, <1>3 DEF deliver, ListenersInv, vars, process, SandboxNext
  <2>2. /\ delivered' \in Seq(Signals) /\ Len(delivered') = Len(delivered) + 1
        /\ Len(delivered) \in Nat
        /\ DOMAIN delivered' = 1 .. Len(delivered')
        /\ \A i \in 1 .. Len(delivered) : delivered'[i] = delivered[i]
        /\ delivered'[Len(delivered')] = sig
    BY <2>1
  <2>3. SandboxTypeOK'
    BY <2>1, <2>2, ExitsAssumption DEF SandboxTypeOK
  <2>4. ServerInv'
    BY <2>1 DEF ServerInv
  <2>5. ListenersInv'
    <3>1. ASSUME listeners = "first", NEW s \in pending'
          PROVE  \E i \in 1 .. Len(delivered') : s = delivered'[i]
      BY <2>1, <2>2, <3>1 DEF ListenersInv
    <3>2. ASSUME listeners = "second", NEW s \in pending'
          PROVE  \E i \in 1 .. Len(delivered') : i > 1 /\ s = delivered'[i]
      BY <2>1, <2>2, <3>2 DEF ListenersInv
    <3>3. listeners = "second" => Len(delivered') > 0
      BY <2>2
    <3> QED BY <2>1, <2>2, <3>1, <3>2, <3>3 DEF ListenersInv
  <2>6. TargetInv'
    BY <2>1 DEF TargetInv, IsHttp
  <2> QED BY <1>4, <2>1, <2>3, <2>4, <2>5, <2>6
<1>10. CASE handle_signals
  <2>1. PICK sig \in pending :
          \/ /\ listeners = "first" /\ sig = SIGINT
             /\ cancelled' = TRUE
             /\ listeners' = "second" /\ pending' = {}
             /\ UNCHANGED <<phase, outcome>>
          \/ /\ listeners = "first" /\ sig # SIGINT
             /\ Return(128 + sig)
             /\ UNCHANGED <<cancelled, listeners, pending>>
          \/ /\ listeners = "second"
             /\ Return(sig)
             /\ UNCHANGED <<cancelled, listeners, pending>>
    BY <1>10 DEF handle_signals
  <2>2. /\ outcome = None /\ phase # "exited" /\ delivered \in Seq(Signals)
        /\ UNCHANGED <<server, conn, task, delivered, binary, result>>
        /\ DOMAIN delivered = 1 .. Len(delivered) /\ Len(delivered) \in Nat
    <3>1. /\ phase # "exited" /\ delivered \in Seq(Signals)
      BY <1>3, <1>10, Zenon DEF SandboxNext, ListenersInv
    <3>2. /\ outcome = None /\ UNCHANGED <<server, conn, task, delivered, binary, result>>
      BY <1>10, Zenon DEF handle_signals
    <3> QED BY <3>1, <3>2
  <2>3. sig \in Signals /\ sig \in 1 .. 15 /\ 128 + sig \in 129 .. 143
    BY DEF SandboxTypeOK, Signals, SIGINT, SIGQUIT, SIGTERM
  <2>4. CASE listeners = "first" /\ listeners' = "second"
    <3>1. /\ cancelled' = TRUE /\ pending' = {} /\ UNCHANGED <<phase, outcome>>
      BY <2>1, <2>4
    <3>2. Len(delivered) > 0 /\ phase # "execute"
      <4>1. \E i \in 1 .. Len(delivered) : sig = delivered[i]
        BY <2>4, Zenon DEF ListenersInv
      <4>2. phase # "execute"
        BY <2>4 DEF ListenersInv
      <4> QED BY <2>2, <4>1, <4>2
    <3>3. SandboxTypeOK'
      BY <2>2, <2>4, <3>1 DEF SandboxTypeOK
    <3>4. ServerInv'
      BY <2>2, <3>1 DEF ServerInv
    <3>5. ListenersInv'
      BY <2>2, <2>4, <3>1, <3>2 DEF ListenersInv
    <3>6. TargetInv'
      BY <2>2, <3>1 DEF TargetInv, IsHttp
    <3> QED BY <1>4, <2>2, <3>1, <3>3, <3>4, <3>5, <3>6
  <2>5. ASSUME NEW code \in (0 .. 255) \ {0}, Return(code),
               UNCHANGED <<cancelled, listeners, pending>>,
               \/ ~cancelled /\ \E i \in DOMAIN delivered : code = 128 + delivered[i]
               \/ cancelled /\ \E i \in DOMAIN delivered : i > 1 /\ code = delivered[i],
               delivered # <<SIGINT>>
        PROVE  Kept
    <3>1. phase' = "exited" /\ outcome' = code /\ outcome' # None
      BY <2>5, ConnsAssumption DEF Return
    <3>2. SandboxTypeOK'
      BY <2>2, <2>5, <3>1 DEF SandboxTypeOK
    <3>3. ServerInv'
      BY <2>2, <2>5, <3>1 DEF ServerInv
    <3>4. ListenersInv'
      BY <2>2, <2>5, <3>1 DEF ListenersInv
    <3>5. TargetInv'
      BY <2>2, <2>5, <3>1 DEF TargetInv, IsHttp
    <3>6. ExitExplained'
      BY <2>2, <2>5, <3>1 DEF ExitExplained
    <3> QED BY <3>2, <3>3, <3>4, <3>5, <3>6
  <2>6. CASE listeners = "first" /\ sig # SIGINT
    <3>1. ~cancelled /\ \E i \in DOMAIN delivered : sig = delivered[i]
      BY <2>2, <2>6 DEF ListenersInv
    <3>2. delivered # <<SIGINT>>
      BY <2>6, <3>1
    <3> QED BY <2>1, <2>3, <2>5, <2>6, <3>1, <3>2
  <2>7. CASE listeners = "second"
    <3>1. cancelled /\ \E i \in DOMAIN delivered : i > 1 /\ sig = delivered[i]
      BY <2>2, <2>7 DEF ListenersInv
    <3>2. delivered # <<SIGINT>>
      BY <3>1
    <3> QED BY <2>1, <2>3, <2>5, <2>7, <3>1, <3>2
  <2> QED BY <2>1, <2>4, <2>6, <2>7
<1> QED BY <1>2, <1>5, <1>6, <1>7, <1>8, <1>9, <1>10 DEF SandboxNext
(* The server runs in the process as it runs alone: every behaviour of the *)
(* sandbox is one of HttpProxy (execute_component, handle_signals).        *)
THEOREM SandboxRunsTheServer == SandboxSpec => Spec
<1>1. SandboxInit => Init
  BY DEF SandboxInit
<1> QED BY <1>1, SandboxInitInv, SandboxStep, ServerSteps, PTL DEF SandboxSpec, Spec

(* The sandbox's variables keep their types; a process has an outcome when *)
(* it has exited, and then only (instance.rs:141-180).                     *)
THEOREM SandboxTypeCorrect == SandboxSpec => []SandboxTypeOK
<1>1. SandboxInv => SandboxTypeOK
  BY DEF SandboxInv
<1> QED BY <1>1, SandboxInitInv, SandboxStep, PTL DEF SandboxSpec

(***************************************************************************)
(* The exit code tells how a run ended, and one SIGINT never cuts a        *)
(* request short (handle_signals, execute_component, serve_conn), for any  *)
(* binaries, connections, requests and signals.                            *)
(***************************************************************************)
THEOREM ExitIsExplained == SandboxSpec => []ExitExplained
<1>1. SandboxInv => ExitExplained
  BY DEF SandboxInv
<1> QED BY <1>1, SandboxInitInv, SandboxStep, PTL DEF SandboxSpec

=============================================================================
