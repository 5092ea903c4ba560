------------------------- MODULE MCWasmtimeSandbox -------------------------
(***************************************************************************)
(* TLC instances of WasmtimeSandbox and of the HttpProxy in it.  The .cfg  *)
(* file has the constants of the first one, with binaries of every kind.   *)
(* The others have variables of their own and fair scheduling; in two of   *)
(* them the server runs without the sandbox, and anyone may cancel it.  A  *)
(* behaviour is of the instance that `part` names.                         *)
(***************************************************************************)
EXTENDS WasmtimeSandbox, TLC

CONSTANTS c1, c2

VARIABLES
  part,
  f_server, f_cancelled, f_queue, f_tracker, f_conn, f_req, f_next_id, f_task, f_sender,
  f_binary, f_phase, f_listeners, f_pending, f_delivered, f_result, f_outcome

f_proxy ==
  <<f_server, f_cancelled, f_queue, f_tracker, f_conn, f_req, f_next_id, f_task, f_sender>>
f_process ==
  <<f_binary, f_phase, f_listeners, f_pending, f_delivered, f_result, f_outcome>>
all == <<part, allVars, f_proxy, f_process>>

Bin(k, v, e) == [kind |-> k, valid |-> v, exports |-> e]
AllBinaries ==
  {Bin(k, v, e) : k \in Kinds, v \in BOOLEAN, e \in {<<>>, <<"command", "http">>}}
    \cup {Bin("component", TRUE, <<"other", "http">>)}
SmallBacklog == "WASMTIME_HTTP_BACKLOG" :> 1

Fair(k) ==
  INSTANCE WasmtimeSandbox WITH
    Conns <- {c1, c2}, Holding <- k.holding, MaxFiles <- k.files, MaxRequests <- k.requests,
    Binaries <- k.binaries, MaxSignals <- k.signals,
    server <- f_server, cancelled <- f_cancelled, queue <- f_queue, tracker <- f_tracker,
    conn <- f_conn, req <- f_req, next_id <- f_next_id, task <- f_task, sender <- f_sender,
    binary <- f_binary, phase <- f_phase, listeners <- f_listeners, pending <- f_pending,
    delivered <- f_delivered, result <- f_result, outcome <- f_outcome

(* Clients that leave in the end. *)
leave ==
  [holding |-> {}, files |-> 2, requests |-> 1, signals |-> 2,
   binaries |-> {Bin("component", TRUE, <<"other", "http">>)}]

(* A client that holds its connection, and commands that run for ever. *)
hold ==
  [holding |-> {c1}, files |-> 2, requests |-> 1, signals |-> 3,
   binaries |-> {Bin("component", TRUE, e) : e \in {<<>>, <<"http">>, <<"command">>}}]

(* The server alone: one connection at a time can be open. *)
one ==
  [holding |-> {}, files |-> 1, requests |-> 2, signals |-> 0,
   binaries |-> {Bin("component", TRUE, <<"http">>)}]

(* The server alone: two clients hold their connections. *)
held == [one EXCEPT !.holding = {c1, c2}, !.files = 2]

Setting == [leave |-> leave, hold |-> hold, one |-> one, held |-> held]
Sandboxed == {"leave", "hold"}
Alone == {"one", "held"}

AllInit ==
  /\ part \in {"all"} \cup Sandboxed \cup Alone
  /\ SandboxInit /\ (part # "all" => binary = Bin("unknown", FALSE, <<>>))
  /\ \/ part = "all" /\ Fair(one)!SandboxInit
     \/ \E p \in DOMAIN Setting : part = p /\ Fair(Setting[p])!SandboxInit

AllNext ==
  /\ UNCHANGED part
  /\ \/ part = "all" /\ SandboxNext /\ UNCHANGED <<f_proxy, f_process>>
     \/ /\ \E p \in Sandboxed : part = p /\ Fair(Setting[p])!SandboxNext
        /\ UNCHANGED allVars
     \/ /\ \E p \in Alone : part = p /\ Fair(Setting[p])!Next
        /\ UNCHANGED <<f_process, allVars>>

(***************************************************************************)
(* The fairness of WasmtimeSandbox for the sandboxed ones, and that of     *)
(* HttpProxy for the others.                                               *)
(***************************************************************************)
sandboxed(A) == part \in Sandboxed /\ A /\ UNCHANGED <<part, allVars>>
Serves(p) == part = p /\ (p \in Alone \/ f_phase = "http")
InServer == UNCHANGED <<part, f_process, allVars>>

serve_fair == \E p \in DOMAIN Setting : Serves(p) /\ Fair(Setting[p])!serve /\ InServer
stop_fair == \E p \in DOMAIN Setting : Serves(p) /\ Fair(Setting[p])!stop_accepting /\ InServer
handle_fair(c) ==
  \E p \in DOMAIN Setting :
    Serves(p) /\ Fair(Setting[p])!handle(c) /\ InServer
disconnect_fair(c) ==
  \E p \in DOMAIN Setting :
    Serves(p) /\ Fair(Setting[p])!disconnect(c) /\ InServer
guest_end_fair(r) ==
  \E p \in DOMAIN Setting :
    Serves(p) /\ r < Setting[p].requests /\ Fair(Setting[p])!guest_end(r) /\ InServer

AllSpec ==
  /\ AllInit /\ [][AllNext]_all
  /\ WF_all(sandboxed(Fair(hold)!execute))
  /\ WF_all(sandboxed(Fair(hold)!serve_returned))
  /\ WF_all(sandboxed(Fair(hold)!handle_signals))
  /\ WF_all(serve_fair) /\ WF_all(stop_fair)
  /\ \A c \in {c1, c2} : WF_all(handle_fair(c)) /\ WF_all(disconnect_fair(c))
  /\ \A r \in {0, 1} : WF_all(guest_end_fair(r))

-----------------------------------------------------------------------------
(* The properties of the modules, each for the instances it is about; they *)
(* are explained there.                                                    *)

(***************************************************************************)
(* A second signal ends the process, even if a client holds its connection *)
(* or a guest runs for ever (handle_signals); the first one ends a server  *)
(* whose clients leave, and a cancelled server ends (serve_conn).          *)
(***************************************************************************)
FairEnds ==
  /\ Fair(hold)!SecondSignalEnds
  /\ part = "leave" => Fair(leave)!InterruptEnds
  /\ part = "one" => Fair(one)!ShutdownEnds

(* A client that connected is served or turned away (serve_conn), and a    *)
(* connection that waits for a guest gets its end (handle_request).        *)
FairServed ==
  /\ part = "one" => Fair(one)!QueueMoves
  /\ part = "held" => Fair(held)!RequestSettled

=============================================================================
