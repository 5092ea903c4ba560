----------------------------- MODULE HttpProxy -----------------------------
(***************************************************************************)
(* The HTTP server of the wasmtime shim (http_proxy.rs): serve_conn's      *)
(* accept loop, one tracked task for each connection, one tracked guest    *)
(* task for each request, and the graceful shutdown that waits for them.   *)
(*                                                                         *)
(* The clients, the kernel's accept queue, hyper's keep-alive loop and the *)
(* guest are external.  A guest answers through the one-shot channel whose *)
(* sender it holds: it may set a response, drop the sender, return or trap *)
(* in any order that it likes.                                             *)
(***************************************************************************)
EXTENDS Naturals, Sequences, FiniteSets

CONSTANTS
  Conns,           \* connections that clients open
  Holding,         \* the ones whose client never closes them by itself
  Env,             \* the container's environment: name -> value
  DefaultBacklog,  \* DEFAULT_BACKLOG
  MaxFiles,        \* connections the open file limit leaves room for
  MaxRequests,     \* bound on the requests
  None

ASSUME HoldingAssumption == Holding \subseteq Conns
ASSUME BoundsAssumption == MaxFiles \in Nat \ {0} /\ MaxRequests \in Nat
ASSUME ConnsAssumption == Conns \cap Nat = {} /\ None \notin Conns \cup Nat

VARIABLES
  server,     \* where serve_conn is
  cancelled,  \* the cancellation token
  queue,      \* the listener's accept queue
  tracker,    \* TaskTracker: the connections and the requests it counts
  conn,       \* conn[c]: where the task of connection c is
  req,        \* req[c]: the request that c handles
  next_id,
  task,       \* task[r]: the guest task of request r
  sender      \* sender[r]: the sending end of r's channel

Ids == 0 .. MaxRequests - 1
vars == <<server, cancelled, queue, tracker, conn, req, next_id, task, sender>>

Handling == {"instantiate", "waiting", "join", "body"}
Serving == {"idle"} \cup Handling
Listening == {"accept", "sleep", "closing"}

(* One type invariant for the module. *)
TypeOK ==
  /\ server \in {"init", "accept", "sleep", "closing", "done", "failed"}
  /\ cancelled \in BOOLEAN
  /\ queue \in Seq(Conns) /\ \A i \in 1 .. Len(queue) : conn[queue[i]] = "queued"
  /\ tracker \subseteq Conns \cup Ids
  /\ conn \in [Conns -> {"new", "queued", "closed", "panicked"} \cup Serving]
  /\ req \in [Conns -> Ids \cup {None}]
  /\ next_id \in 0 .. MaxRequests
  /\ task \in [Ids -> {"none", "running", "ok", "err"}]
  /\ sender \in [Ids -> {"held", "response", "error", "dropped"}]

Init ==
  /\ server = "init" /\ cancelled = FALSE
  /\ queue = <<>> /\ tracker = {}
  /\ conn = [c \in Conns |-> "new"]
  /\ req = [c \in Conns |-> None]
  /\ next_id = 0
  /\ task = [r \in Ids |-> "none"]
  /\ sender = [r \in Ids |-> "held"]

-----------------------------------------------------------------------------
(* The name that serve_conn takes out of the environment. *)
backlog ==
  IF "WASMTIME_HTTP_BACKLOG" \in DOMAIN Env
    THEN Env["WASMTIME_HTTP_BACKLOG"] ELSE DefaultBacklog

(* The socket, the bind and the listen: each one may fail. *)
serve_conn ==
  /\ server = "init"
  /\ server' \in {"accept", "failed"}
  /\ UNCHANGED <<cancelled, queue, tracker, conn, req, next_id, task, sender>>

(* A client connects: the kernel completes the connection as long as the   *)
(* listener exists, which is until serve_conn returns.                     *)
connect(c) ==
  /\ server \in Listening
  /\ conn[c] = "new"
  /\ Len(queue) < backlog
  /\ queue' = Append(queue, c)
  /\ conn' = [conn EXCEPT ![c] = "queued"]
  /\ UNCHANGED <<server, cancelled, tracker, req, next_id, task, sender>>

Open == {c \in Conns : conn[c] \in Serving}

(* tcp_accept gives a stream, and the loop spawns its task. *)
accept ==
  /\ server = "accept"
  /\ queue # <<>>
  /\ Cardinality(Open) < MaxFiles
  /\ conn' = [conn EXCEPT ![Head(queue)] = "idle"]
  /\ queue' = Tail(queue)
  /\ tracker' = tracker \cup {Head(queue)}
  /\ UNCHANGED <<server, cancelled, req, next_id, task, sender>>

(* tcp_accept fails.  On a connection error the loop goes on at once; at   *)
(* the limit of open files it sleeps first, and the connection stays.      *)
accept_error ==
  /\ server = "accept"
  /\ queue # <<>>
  /\ \/ /\ Cardinality(Open) < MaxFiles
        /\ conn' = [conn EXCEPT ![Head(queue)] = "closed"]
        /\ queue' = Tail(queue)
        /\ UNCHANGED server
     \/ /\ Cardinality(Open) >= MaxFiles
        /\ server' = "sleep"
        /\ UNCHANGED <<conn, queue>>
  /\ UNCHANGED <<cancelled, tracker, req, next_id, task, sender>>

wake ==
  /\ server = "sleep"
  /\ server' = "accept"
  /\ UNCHANGED <<cancelled, queue, tracker, conn, req, next_id, task, sender>>

(* The other branch of the select: also taken while tcp_accept sleeps. *)
stop_accepting ==
  /\ server \in {"accept", "sleep"}
  /\ cancelled
  /\ server' = "closing"
  /\ UNCHANGED <<cancelled, queue, tracker, conn, req, next_id, task, sender>>

(* The connections that were never accepted are only told when serve_conn  *)
(* returns and drops the listener.                                         *)
DropListener ==
  /\ queue' = <<>>
  /\ conn' = [c \in Conns |-> IF conn[c] = "queued" THEN "closed" ELSE conn[c]]

(* tracker.close() and tracker.wait(). *)
tracker_wait ==
  /\ server = "closing"
  /\ tracker = {}
  /\ server' = "done"
  /\ DropListener
  /\ UNCHANGED <<cancelled, tracker, req, next_id, task, sender>>

-----------------------------------------------------------------------------
(* The id is read before it is incremented, by two connections alike. *)
Mut_handle_request(c) ==
  /\ conn[c] = "idle"
  /\ next_id < MaxRequests
  /\ req' = [req EXCEPT ![c] = next_id]
  /\ next_id' \in {next_id, next_id + 1}
  /\ conn' = [conn EXCEPT ![c] = "instantiate"]
  /\ UNCHANGED <<server, cancelled, queue, tracker, task, sender>>

(* A request arrives: handle_request takes an id and makes the channel. *)
handle_request(c) ==
  /\ conn[c] = "idle"
  /\ next_id < MaxRequests
  /\ req' = [req EXCEPT ![c] = next_id]
  /\ next_id' = next_id + 1
  /\ conn' = [conn EXCEPT ![c] = "instantiate"]
  /\ UNCHANGED <<server, cancelled, queue, tracker, task, sender>>

(* The end of a connection's task: hyper returns on an error of the        *)
(* service, and a panic ends the task.                                     *)
EndConn(c, how) ==
  /\ conn' = [conn EXCEPT ![c] = how]
  /\ req' = [req EXCEPT ![c] = None]
  /\ tracker' = tracker \ {c}

(* The guest task is spawned beside the tracker. *)
Mut_instantiate_async(c) ==
  /\ conn[c] = "instantiate"
  /\ conn' = [conn EXCEPT ![c] = "waiting"]
  /\ task' = [task EXCEPT ![req[c]] = "running"]
  /\ UNCHANGED <<server, cancelled, queue, tracker, req, next_id, sender>>

(* The instance, and the guest task on the tracker. *)
instantiate_async(c) ==
  /\ conn[c] = "instantiate"
  /\ \/ /\ conn' = [conn EXCEPT ![c] = "waiting"]
        /\ task' = [task EXCEPT ![req[c]] = "running"]
        /\ tracker' = tracker \cup {req[c]}
        /\ UNCHANGED req
     \/ EndConn(c, "closed") /\ UNCHANGED task
  /\ UNCHANGED <<server, cancelled, queue, next_id, sender>>

(* The guest sets the response (or an error code), or drops the outparam. *)
guest_set(r) ==
  /\ task[r] = "running"
  /\ sender[r] = "held"
  /\ \E s \in {"response", "error", "dropped"} : sender' = [sender EXCEPT ![r] = s]
  /\ UNCHANGED <<server, cancelled, queue, tracker, conn, req, next_id, task>>

(* call_handle returns or traps; its store goes, and the sender with it. *)
guest_end(r) ==
  /\ task[r] = "running"
  /\ \E how \in {"ok", "err"} : task' = [task EXCEPT ![r] = how]
  /\ sender' = [sender EXCEPT ![r] = IF @ = "held" THEN "dropped" ELSE @]
  /\ tracker' = tracker \ {r}
  /\ UNCHANGED <<server, cancelled, queue, conn, req, next_id>>

(* receiver.await *)
receive(c) ==
  /\ conn[c] = "waiting"
  /\ \/ /\ sender[req[c]] = "response"
        /\ conn' = [conn EXCEPT ![c] = "body"]
        /\ UNCHANGED <<req, tracker>>
     \/ /\ sender[req[c]] = "error"
        /\ EndConn(c, "closed")
     \/ /\ sender[req[c]] = "dropped"
        /\ conn' = [conn EXCEPT ![c] = "join"]
        /\ UNCHANGED <<req, tracker>>
  /\ UNCHANGED <<server, cancelled, queue, next_id, task, sender>>

(* An error of the guest task is not awaited. *)
Mut_join(c) ==
  /\ conn[c] = "join"
  /\ task[req[c]] = "ok"
  /\ EndConn(c, "panicked")
  /\ UNCHANGED <<server, cancelled, queue, next_id, task, sender>>

(* task.await, then expect_err: it panics on a guest that returned. *)
join(c) ==
  /\ conn[c] = "join"
  /\ \/ task[req[c]] = "err" /\ EndConn(c, "closed")
     \/ task[req[c]] = "ok" /\ EndConn(c, "panicked")
  /\ UNCHANGED <<server, cancelled, queue, next_id, task, sender>>

(* hyper writes the body that the guest produces; keep_alive(true) then    *)
(* waits for the next request.  A broken body closes the connection.       *)
send_body(c) ==
  /\ conn[c] = "body"
  /\ \/ /\ conn' = [conn EXCEPT ![c] = "idle"]
        /\ req' = [req EXCEPT ![c] = None]
        /\ UNCHANGED tracker
     \/ EndConn(c, "closed")
  /\ UNCHANGED <<server, cancelled, queue, next_id, task, sender>>

(* A client goes away: hyper drops the service's future, not the guest's. *)
disconnect(c) ==
  /\ c \notin Holding
  /\ conn[c] \in Serving
  /\ EndConn(c, "closed")
  /\ UNCHANGED <<server, cancelled, queue, next_id, task, sender>>

(* Whoever runs the server cancels the token. *)
cancel ==
  /\ ~cancelled
  /\ cancelled' = TRUE
  /\ UNCHANGED <<server, queue, tracker, conn, req, next_id, task, sender>>

serve == serve_conn \/ accept \/ accept_error \/ wake \/ stop_accepting \/ tracker_wait
handle(c) == instantiate_async(c) \/ receive(c) \/ join(c) \/ send_body(c)
proxy ==
  \/ serve
  \/ \E c \in Conns : connect(c) \/ handle_request(c) \/ handle(c) \/ disconnect(c)
  \/ \E r \in Ids : guest_set(r) \/ guest_end(r)

Next == proxy \/ cancel

Spec == Init /\ [][Next]_vars

(* The runtime polls what is ready.  That guests end, and that clients     *)
(* leave (all but the Holding ones), is an assumption about them.          *)
ProxyFairness ==
  /\ WF_vars(serve) /\ WF_vars(stop_accepting)
  /\ \A c \in Conns : WF_vars(handle(c)) /\ WF_vars(disconnect(c))
  /\ \A r \in Ids : WF_vars(guest_end(r))
FairSpec == Spec /\ ProxyFairness

-----------------------------------------------------------------------------
(* serve_conn returns only when no connection task and no guest task is    *)
(* left, though connections that are still served spawn guest tasks on a   *)
(* closed tracker, and a guest may outlive its connection (serve_conn).    *)
Drained ==
  server = "done" =>
    /\ \A c \in Conns : conn[c] \notin Serving
    /\ \A r \in Ids : task[r] # "running"

(* Two requests that are handled at once never share an instance, a store  *)
(* or a channel: next_req_id gives each of them its own id.                *)
OneRequestPerInstance ==
  \A c, d \in Conns :
    c # d /\ {conn[c], conn[d]} \subseteq Handling => req[c] # req[d]

(* A connection task that waits for a guest always gets an end of it: a    *)
(* response, an error or the guest's own end, whatever order the guest     *)
(* chose to set, drop, return and trap in (handle_request).                *)
RequestSettled ==
  \A c \in Conns : conn[c] \in {"waiting", "join"} ~> conn[c] \notin {"waiting", "join"}

(* A client that connected is served or turned away: neither the limit of  *)
(* open files nor a shutdown leaves it in the accept queue for ever.       *)
QueueMoves ==
  \A c \in Conns : conn[c] = "queued" ~> conn[c] # "queued"

(* Once the token is cancelled the server ends.                            *)
ShutdownEnds == cancelled /\ server # "init" ~> server \in {"done", "failed"}

=============================================================================
