----------------------------- MODULE ShimStart -----------------------------
(***************************************************************************)
(* How a shim comes up: shim_main (containerd-shimkit sandbox/cli.rs), the *)
(* tracing set up from the environment (sandbox/shim/otel.rs), and     *)
(* Shim::start_shim (sandbox/shim/shim.rs).                                *)
(*                                                                         *)
(* containerd runs the binary with `start` for every container.  The       *)
(* process that is started spawns the shim proper, a second process of the *)
(* same binary that inherits its environment, unless one serves the group  *)
(* of the container already, and prints the address.  spawn and the        *)
(* service itself (containerd-shim) are external.                          *)
(***************************************************************************)
EXTENDS Integers, Sequences

CONSTANTS
  Procs,          \* the ids of processes, numbers
  Containers,
  Groups,         \* the sandbox ids that annotations name
  Annotation,     \* Annotation[c]: the group of c, or None
  Envs,           \* the settings of the tracing variables containerd may have
  Broken,         \* the containers whose config.json cannot be loaded
  None

(* The sandbox that an annotation names may be a container itself, which   *)
(* is then annotated with its own id.                                      *)
ASSUME AnnotationAssumption ==
  /\ Annotation \in [Containers -> Groups \cup {None}]
  /\ {None, "failed"} \cap (Groups \cup Containers) = {}
  /\ \A c, d \in Containers : Annotation[c] = d => Annotation[d] = d
ASSUME ProcsAssumption == Procs \subseteq Nat /\ None \notin Procs

VARIABLES
  env,       \* the environment of containerd
  pc,        \* pc[p]
  role,      \* role[p]: the container of a `start`, or the group of a shim
  context,   \* context[p]: TRACECONTEXT, by the process that it comes from
  parent,    \* parent[p]: the span that p's spans belong to
  threads,   \* threads[p]: whether p has started threads
  zygote,    \* zygote[p]: "none", "forked" from one thread, or "unsafe"
  traced,    \* traced[p]: whether p's tracer is up, and "flushed" at the end
  socket,    \* socket[g]: the shim that listens for g
  address    \* address[c]: what `start` printed, or "failed"

vars == <<env, pc, role, context, parent, threads, zygote, traced, socket, address>>

Addresses == Groups \cup Containers

Roles == [what : {"start"}, of : Containers] \cup [what : {"shim"}, of : Addresses]

(* One type invariant for the module. *)
TypeOK ==
  /\ pc \in [Procs -> {"unborn", "main", "otel", "context", "run", "serve", "guard", "exit",
                       "panic"}]
  /\ role \in [Procs -> Roles \cup {[what |-> "none", of |-> None]}]
  /\ \A p \in Procs : pc[p] # "unborn" => role[p] \in Roles
  /\ context \in [Procs -> Procs \cup {None}] /\ parent \in [Procs -> Procs \cup {None}]
  /\ threads \in [Procs -> BOOLEAN]
  /\ zygote \in [Procs -> {"none", "forked", "unsafe"}]
  /\ traced \in [Procs -> {"off", "on", "flushed"}]
  /\ socket \in [Addresses -> Procs \cup {None}]
  /\ address \in [Containers -> Addresses \cup {None, "failed"}]

Init ==
  /\ env \in Envs
  /\ pc = [p \in Procs |-> "unborn"]
  /\ role = [p \in Procs |-> [what |-> "none", of |-> None]]
  /\ context = [p \in Procs |-> None] /\ parent = [p \in Procs |-> None]
  /\ threads = [p \in Procs |-> FALSE] /\ zygote = [p \in Procs |-> "none"]
  /\ traced = [p \in Procs |-> "off"]
  /\ socket = [g \in Addresses |-> None]
  /\ address = [c \in Containers |-> None]

Goto(p, label) == pc' = [pc EXCEPT ![p] = label]
At(p, label) == pc[p] = label
(* An expect or an unwrap fails, or containerd-shim exits with an error:   *)
(* containerd sees a `start` that failed.                                  *)
Panic(p) ==
  /\ Goto(p, "panic")
  /\ address' = IF role[p].what = "start"
                THEN [address EXCEPT ![role[p].of] = "failed"] ELSE address
  /\ UNCHANGED <<env, role, context, parent, threads, zygote, traced, socket>>

-----------------------------------------------------------------------------
(* The environment.  A variable is None when it is not set. *)
Given(var) == env[var] \notin {None, ""}
traces_enabled ==
  (Given("TRACES_ENDPOINT") \/ Given("ENDPOINT")) /\ env["SDK_DISABLED"] # "true"

(* The more specific variable wins, even if it is empty. *)
traces_endpoint_from_env ==
  IF env["TRACES_ENDPOINT"] # None THEN env["TRACES_ENDPOINT"] ELSE env["ENDPOINT"]

traces_protocol_from_env ==
  IF env["TRACES_PROTOCOL"] # None THEN env["TRACES_PROTOCOL"]
  ELSE IF env["PROTOCOL"] # None THEN env["PROTOCOL"] ELSE "http/protobuf"

build_from_env ==
  /\ traces_endpoint_from_env # None
  /\ traces_protocol_from_env \in {"http/protobuf", "grpc", "http/json"}

-----------------------------------------------------------------------------
(* The threads of the tracer come first. *)
Mut_init_zygote(p) ==
  /\ At(p, "main")
  /\ Goto(p, IF traces_enabled THEN "otel" ELSE "context")
  /\ threads' = [threads EXCEPT ![p] = traces_enabled]
  /\ zygote' = [zygote EXCEPT ![p] = IF threads'[p] THEN "unsafe" ELSE "forked"]
  /\ UNCHANGED <<env, role, context, parent, traced, socket, address>>

(* shim_main: the zygote is forked while there is one thread ... *)
init_zygote_and_logger(p) ==
  /\ At(p, "main")
  /\ Goto(p, IF traces_enabled THEN "otel" ELSE "context")
  /\ zygote' = [zygote EXCEPT ![p] = IF threads[p] THEN "unsafe" ELSE "forked"]
  /\ UNCHANGED <<env, role, context, parent, threads, traced, socket, address>>

(* ... then the tracer starts its own ... *)
otel_init(p) ==
  /\ At(p, "otel")
  /\ \/ /\ build_from_env
        /\ Goto(p, "context")
        /\ threads' = [threads EXCEPT ![p] = TRUE]
        /\ traced' = [traced EXCEPT ![p] = "on"]
        /\ UNCHANGED <<env, role, context, parent, zygote, socket, address>>
     \/ ~build_from_env /\ Panic(p)

(* ... and shim_main_inner takes the trace context that its parent set, or *)
(* sets its own for its children.                                          *)
set_context(p) ==
  /\ At(p, "context")
  /\ Goto(p, "run")
  /\ \/ /\ context[p] # None
        /\ parent' = [parent EXCEPT ![p] = context[p]]
        /\ UNCHANGED context
     \/ /\ context[p] = None
        /\ context' = [context EXCEPT ![p] = p]
        /\ UNCHANGED parent
  /\ UNCHANGED <<env, role, threads, zygote, traced, socket, address>>

(* A group is the container's own id, whatever its annotations. *)
Mut_grouping(c) == c
(* Shim::start_shim: the containers of a sandbox share a shim. *)
grouping(c) == IF Annotation[c] # None THEN Annotation[c] ELSE c

(* p is the id of the next process. *)
Unborn(p) == pc[p] = "unborn" /\ \A q \in Procs : q < p => pc[q] # "unborn"

(* The new process is not told for which group it is. *)
Mut_spawn(p, g) ==
  /\ socket[g] = None
  /\ \E q \in Procs :
       /\ Unborn(q)
       /\ pc' = [pc EXCEPT ![p] = "guard", ![q] = "main"]
       /\ context' = [context EXCEPT ![q] = context[p]]
       /\ socket' = [socket EXCEPT ![g] = q]
  /\ UNCHANGED role

(* spawn binds the address of the group, or finds that a shim answers.     *)
(* The shim inherits the environment of the process that starts it.        *)
spawn(p, g) ==
  \/ /\ socket[g] # None
     /\ UNCHANGED <<role, context, socket>>
     /\ Goto(p, "guard")
  \/ /\ socket[g] = None
     /\ \E q \in Procs :
          /\ Unborn(q)
          /\ pc' = [pc EXCEPT ![p] = "guard", ![q] = "main"]
          /\ role' = [role EXCEPT ![q] = [what |-> "shim", of |-> g]]
          /\ context' = [context EXCEPT ![q] = context[p]]
          /\ socket' = [socket EXCEPT ![g] = q]

(* The address is printed, or the error. *)
start_shim(p) ==
  /\ At(p, "run") /\ role[p].what = "start"
  /\ \/ LET g == grouping(role[p].of) IN
        /\ role[p].of \notin Broken
        /\ spawn(p, g)
        /\ address' = [address EXCEPT ![role[p].of] = g]
        /\ UNCHANGED <<env, parent, threads, zygote, traced>>
     \/ role[p].of \in Broken /\ Panic(p)

(* The shim proper serves until it is shut down (Shim::wait). *)
serve(p) ==
  /\ At(p, "run") /\ role[p].what = "shim"
  /\ Goto(p, "serve")
  /\ threads' = [threads EXCEPT ![p] = TRUE]
  /\ UNCHANGED <<env, role, context, parent, zygote, traced, socket, address>>

shutdown(p) ==
  /\ At(p, "serve")
  /\ Goto(p, "guard")
  /\ socket' = [socket EXCEPT ![role[p].of] = None]
  /\ UNCHANGED <<env, role, context, parent, threads, zygote, traced, address>>

(* ShutdownGuard flushes the spans that are pending. *)
drop_guard(p) ==
  /\ At(p, "guard")
  /\ Goto(p, "exit")
  /\ traced' = [traced EXCEPT ![p] = IF @ = "on" THEN "flushed" ELSE @]
  /\ UNCHANGED <<env, role, context, parent, threads, zygote, socket, address>>

(* containerd runs the binary for a container. *)
start(c, p) ==
  /\ Unborn(p)
  /\ address[c] = None
  /\ \A q \in Procs : role[q] # [what |-> "start", of |-> c]
  /\ Goto(p, "main")
  /\ role' = [role EXCEPT ![p] = [what |-> "start", of |-> c]]
  /\ UNCHANGED <<env, context, parent, threads, zygote, traced, socket, address>>

step(p) ==
  \/ init_zygote_and_logger(p) \/ otel_init(p) \/ set_context(p) \/ start_shim(p) \/ serve(p)
  \/ drop_guard(p)

Next == \E p \in Procs : step(p) \/ shutdown(p) \/ \E c \in Containers : start(c, p)

Spec == Init /\ [][Next]_vars

-----------------------------------------------------------------------------
Served(c) == address[c] \notin {None, "failed"}

(* The containers of a sandbox, and only they, share an address, and never *)
(* do two shims serve one (start_shim, while several `start`s race).       *)
OneShimPerGroup ==
  /\ \A c, d \in Containers :
       Served(c) /\ Served(d) /\ c # d =>
         (address[c] = address[d] <=> Annotation[c] = Annotation[d] /\ Annotation[c] # None)
  /\ \A p, q \in Procs : At(p, "serve") /\ At(q, "serve") /\ role[p] = role[q] => p = q

(* "read TRACECONTEXT env var that's set by the parent process": the spans *)
(* of a shim belong to the process that started it, and every process that *)
(* runs has a context to hand on (shim_main_inner).                        *)
TraceFollowsStart ==
  \A p \in Procs :
    At(p, "serve") =>
      /\ parent[p] \in Procs /\ role[parent[p]].what = "start"
      /\ grouping(role[parent[p]].of) = role[p].of

(* The zygote is forked before there are other threads: it and the guests  *)
(* that it forks start from a state no thread was changing (shim_main).    *)
ZygoteIsClean == \A p \in Procs : zygote[p] # "unsafe"

(* A process that ends by itself has flushed its spans (ShutdownGuard).    *)
SpansFlushed == \A p \in Procs : At(p, "exit") => traced[p] # "on"

(* A shim comes up clean: its zygote was forked from one thread, its spans *)
(* belong to the process that started it, and no span is lost at the end   *)
(* (shim_main, shim_main_inner, ShutdownGuard).                            *)
CleanStart == ZygoteIsClean /\ TraceFollowsStart /\ SpansFlushed

=============================================================================
