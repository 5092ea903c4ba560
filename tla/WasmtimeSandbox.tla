-------------------------- MODULE WasmtimeSandbox --------------------------
(***************************************************************************)
(* WasmtimeSandbox (wasmtime shim, instance.rs) in the container's         *)
(* process: which way a binary is executed, and the race of a component    *)
(* with the signals that are sent to the container.  A component of the    *)
(* HTTP proxy world runs the server of HttpProxy, whose token the first    *)
(* SIGINT cancels.                                                         *)
(*                                                                         *)
(* A listener of tokio sees the signals that come after it was made, those *)
(* of one kind as one, and forgets them when it is dropped.                *)
(***************************************************************************)
EXTENDS HttpProxy

CONSTANTS
  Binaries,    \* records of kind, valid and exports
  Exits,       \* codes that guests exit with
  MaxSignals,  \* bound on the signals
  Error        \* the outcome of a run that failed

SIGINT == 2
SIGQUIT == 3
SIGTERM == 15
Signals == {SIGINT, SIGQUIT, SIGTERM}

Kinds == {"module", "component", "precompiled module", "precompiled component", "unknown"}
Targets == {"http", "command", "core"}

ASSUME BinariesAssumption ==
  \A b \in Binaries : b.kind \in Kinds /\ b.valid \in BOOLEAN
ASSUME ExitsAssumption == Exits \subseteq 0 .. 255 /\ MaxSignals \in Nat
ASSUME ErrorAssumption == Error \notin Nat /\ Error # None

VARIABLES
  binary,     \* the bytes of the entrypoint
  phase,      \* what the process executes
  listeners,  \* the wait_for_signal that handle_signals is in
  pending,    \* the signals that its listeners saw
  delivered,  \* all the signals that were sent, in order
  result,     \* what the guest's call gave
  outcome     \* what run_wasi returned

signals == <<listeners, pending, delivered>>
process == <<binary, phase, result, outcome>>
allVars == <<vars, signals, process>>

Result(how, code) == [how |-> how, code |-> code]
Results == {Result("ok", 0), Result("trap", 0)} \cup {Result("exit", n) : n \in Exits}

(* One type invariant for the module. *)
SandboxTypeOK ==
  /\ phase \in {"execute", "module", "exited"} \cup Targets
  /\ listeners \in {"none", "first", "second"}
  /\ pending \subseteq Signals
  /\ DOMAIN delivered \subseteq 1 .. MaxSignals
  /\ result \in Results \cup {None}
  /\ outcome \in (0 .. 255) \cup {Error, None}
  /\ phase = "exited" <=> outcome # None

SandboxInit ==
  /\ Init
  /\ binary \in Binaries
  /\ phase = "execute"
  /\ listeners = "none" /\ pending = {} /\ delivered = <<>>
  /\ result = None /\ outcome = None

-----------------------------------------------------------------------------
(* A trap is taken for an exit. *)
Mut_into_error_code(res) ==
  res.code

(* An I32Exit is the guest's exit code; any other error stays one. *)
into_error_code(res) == IF res.how = "trap" THEN Error ELSE res.code

(* The first export decides, whatever it is. *)
Mut_ComponentTarget(exports) == IF exports = <<>> THEN "core" ELSE Head(exports)

(* The first export of a known world decides. *)
FirstKnown(exports, world) ==
  \E i \in DOMAIN exports :
    exports[i] = world /\ \A j \in 1 .. i - 1 : exports[j] \notin {"http", "command"}

ComponentTarget(exports) ==
  IF FirstKnown(exports, "http") THEN "http"
  ELSE IF FirstKnown(exports, "command") THEN "command" ELSE "core"

Return(code) == phase' = "exited" /\ outcome' = code

(* execute: by the binary's type, then by what precompiled code it is.     *)
(* Only a component is raced with handle_signals, whose listeners are made *)
(* when the select is first polled (which may fail).                       *)
execute ==
  /\ phase = "execute"
  /\ \/ /\ ~binary.valid \/ binary.kind = "unknown"
        /\ Return(Error)
        /\ UNCHANGED listeners
     \/ /\ binary.valid /\ binary.kind \in {"module", "precompiled module"}
        /\ phase' = "module"
        /\ UNCHANGED <<listeners, outcome>>
     \/ /\ binary.valid /\ binary.kind \in {"component", "precompiled component"}
        /\ \/ phase' = ComponentTarget(binary.exports) /\ UNCHANGED outcome
           \/ Return(Error)
        /\ listeners' = "first"
  /\ UNCHANGED <<vars, binary, pending, delivered, result>>

(* The linker, the context, the instance or the function is missing. *)
setup_error ==
  /\ phase \in {"module", "command", "core"} \/ (phase = "http" /\ server = "init")
  /\ Return(Error)
  /\ UNCHANGED <<vars, signals, binary, result>>

(* The call of a module, a command or a function of a component ends. *)
call_async ==
  /\ phase \in {"module", "command", "core"}
  /\ \E res \in Results :
       /\ result' = res
       /\ Return(into_error_code(res))
  /\ UNCHANGED <<vars, signals, binary>>

(* serve_conn returned. *)
serve_returned ==
  /\ phase = "http"
  /\ \/ server = "done" /\ Return(0)
     \/ server = "failed" /\ Return(Error)
  /\ UNCHANGED <<vars, signals, binary, result>>

-----------------------------------------------------------------------------
(* A signal is sent to the container. *)
deliver(sig) ==
  /\ listeners # "none"
  /\ outcome = None
  /\ Len(delivered) < MaxSignals
  /\ pending' = pending \cup {sig}
  /\ delivered' = Append(delivered, sig)
  /\ UNCHANGED <<vars, process, listeners>>

(* The second wait is forgotten. *)
Mut_handle_signals_once ==
  /\ outcome = None
  /\ listeners = "first"
  /\ \E sig \in pending :
       \/ /\ sig = SIGINT
          /\ cancelled' = TRUE
          /\ listeners' = "second" /\ pending' = {}
          /\ UNCHANGED <<phase, outcome>>
       \/ /\ sig # SIGINT
          /\ Return(128 + sig)
          /\ UNCHANGED <<cancelled, listeners, pending>>
  /\ UNCHANGED <<server, queue, tracker, conn, req, next_id, task, sender>>
  /\ UNCHANGED <<delivered, binary, result>>

(* wait_for_signal takes any one of the signals that its listeners saw,    *)
(* and drops the listeners; the second wait makes new ones.                *)
handle_signals ==
  /\ outcome = None
  /\ \E sig \in pending :
       \/ /\ listeners = "first" /\ sig = SIGINT
          /\ cancelled' = TRUE
          /\ listeners' = "second" /\ pending' = {}
          /\ UNCHANGED <<phase, outcome>>
       \/ /\ listeners = "first" /\ sig # SIGINT
          /\ Return(128 + sig)
          /\ UNCHANGED <<cancelled, listeners, pending>>
       \/ /\ listeners = "second"
          /\ Return(sig)
          /\ UNCHANGED <<cancelled, listeners, pending>>
  /\ UNCHANGED <<server, queue, tracker, conn, req, next_id, task, sender>>
  /\ UNCHANGED <<delivered, binary, result>>

(* The server's tasks run in the process as long as it does. *)
run_proxy == phase = "http" /\ proxy /\ UNCHANGED <<signals, process>>

SandboxNext ==
  \/ execute \/ setup_error \/ call_async \/ serve_returned \/ run_proxy
  \/ \E sig \in Signals : deliver(sig)
  \/ handle_signals

SandboxSpec == SandboxInit /\ [][SandboxNext]_allVars

(* What is ready is polled; call_async has no fairness, because a guest    *)
(* may run for ever.                                                       *)
InProcess(A) == phase = "http" /\ A /\ UNCHANGED <<signals, process>>
SandboxFairness ==
  /\ WF_allVars(execute) /\ WF_allVars(serve_returned) /\ WF_allVars(handle_signals)
  /\ WF_allVars(InProcess(serve)) /\ WF_allVars(InProcess(stop_accepting))
  /\ \A c \in Conns :
       WF_allVars(InProcess(handle(c))) /\ WF_allVars(InProcess(disconnect(c)))
  /\ \A r \in Ids : WF_allVars(InProcess(guest_end(r)))
FairSandboxSpec == SandboxSpec /\ SandboxFairness

-----------------------------------------------------------------------------
Quiet ==
  /\ \A c \in Conns : conn[c] \notin Serving
  /\ \A r \in Ids : task[r] # "running"
IsHttp == binary.kind \in {"component", "precompiled component"}
          /\ ComponentTarget(binary.exports) = "http"

(***************************************************************************)
(* The exit code tells how a run ended: 0 for a guest that returned or a   *)
(* server that was asked to stop and drained, 128 plus the signal for the  *)
(* signal that came first, the bare number for one after a SIGINT.  One    *)
(* SIGINT, and nothing else, never cuts a request short: a server that got *)
(* it either failed to start or returned 0 with every connection and every *)
(* guest finished (handle_signals, execute_component, serve_conn).         *)
(***************************************************************************)
ExitExplained ==
  /\ outcome = 0 => \/ result \in {Result("ok", 0), Result("exit", 0)}
                    \/ cancelled /\ Quiet
  /\ IsHttp /\ outcome \in Nat \ {0} =>
       \/ ~cancelled /\ \E i \in DOMAIN delivered : outcome = 128 + delivered[i]
       \/ cancelled /\ \E i \in DOMAIN delivered : i > 1 /\ outcome = delivered[i]
  /\ IsHttp /\ delivered = <<SIGINT>> /\ phase = "exited" /\ outcome # Error =>
       outcome = 0 /\ Quiet

(* "On a second SIGINT, terminate the process as well": once the first one *)
(* was taken, any signal ends the process, even if clients hold their      *)
(* connections or a guest never returns (handle_signals).                  *)
SecondSignalEnds ==
  listeners = "second" /\ pending # {} ~> phase = "exited"

(* "The server task is terminated upon receiving a terminate or interrupt  *)
(* signal in the container."                                               *)
InterruptEnds == IsHttp /\ delivered # <<>> ~> phase = "exited"

=============================================================================
