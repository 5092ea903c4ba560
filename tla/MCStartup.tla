----------------------------- MODULE MCStartup -----------------------------
(***************************************************************************)
(* TLC instances of what happens around one container as it comes up: the  *)
(* shim starts, the prestart hooks run, the executor decides what to run   *)
(* and runs it.  The three share no state, so a behaviour is of one of     *)
(* them in one setting, the one that `part` names, and the others have not *)
(* begun.  The .cfg file has the constants of ShimStart.                   *)
(***************************************************************************)
EXTENDS ShimStart, TLC

CONSTANTS c1, c2, c3, c4, g1

VARIABLES part

VARIABLES hooks, hooks_pc, idx, stdin, child, code, broken, hooks_result
prestart == <<hooks, hooks_pc, idx, stdin, child, code, broken, hooks_result>>

VARIABLES
  oci_client, connecting, exec_pc, engine, spec, files, image, layers, ty, checked,
  ran, result, status
executor ==
  <<oci_client, connecting, exec_pc, engine, spec, files, image, layers, ty, checked,
    ran, result, status>>

all == <<part, vars, prestart, executor>>

(* Two containers of a pod, one alone, and one without a spec are started  *)
(* at once, with several settings of the tracing variables.                *)
OnePod == c1 :> g1 @@ c2 :> g1 @@ c3 :> None @@ c4 :> None
Env(traces, endpoint, disabled, tprotocol, protocol) ==
  "TRACES_ENDPOINT" :> traces @@ "ENDPOINT" :> endpoint @@ "SDK_DISABLED" :> disabled
    @@ "TRACES_PROTOCOL" :> tprotocol @@ "PROTOCOL" :> protocol
Off == Env(None, None, None, None, None)
SomeEnvs ==
  { Off, Env("url", None, None, None, None),
    Env(None, "url", "t", "grpc", "other"), Env("url", "", "true", None, None),
    Env(None, "url", None, None, "other") }

(* Hooks of every behaviour, with the reaper or without. *)
Prestart(Reaper) ==
  INSTANCE Hooks WITH
    MaxHooks <- 3, Codes <- {0, 1}, Behaviours <- {"ignores", "reads", "reads_to_end"},
    CallsFail <- TRUE, pc <- hooks_pc, result <- hooks_result

(* One container: every argument, placement of files, image and engine;    *)
(* one whose files change; and three that are created at once.             *)
File(m, e) == [magic |-> m, exec |-> e]
Arg(sep, hash) == [arg |-> TRUE, sep |-> sep, hash |-> hash]
AllSpecs ==
  {[arg |-> FALSE, sep |-> FALSE, hash |-> FALSE]} \cup {Arg(s, h) : s, h \in BOOLEAN}
Exec ==
  INSTANCE Executor WITH
    Containers <- {c1}, Engines <- {"wasmtime", "wasmedge", "wasmer", "wamr"},
    PATH <- <<"bin">>, Cwd <- "cwd", Specs <- AllSpecs, Exits <- {0, 3}, FilesChange <- FALSE,
    Contents <- {File("elf", TRUE), File("script", FALSE), File("wasm", TRUE)},
    ImageLayers <- {<<>>, <<"precompiled">>, <<"wasm", "wasm">>}, pc <- exec_pc
Changed ==
  INSTANCE Executor WITH
    Containers <- {c1}, Engines <- {"wasmedge"},
    PATH <- <<"bin">>, Cwd <- "cwd", Specs <- {Arg(FALSE, FALSE)}, Exits <- {3},
    FilesChange <- TRUE, Contents <- {File("elf", TRUE), File("wasm", TRUE)},
    ImageLayers <- {<<>>, <<"wasm">>}, pc <- exec_pc
Creates ==
  INSTANCE Executor WITH
    Containers <- {c1, c2, c3}, Engines <- {"wamr"},
    PATH <- <<"bin">>, Cwd <- "cwd", Specs <- {Arg(TRUE, FALSE)}, Exits <- {},
    FilesChange <- FALSE, Contents <- {}, ImageLayers <- {<<>>, <<"wasm">>}, pc <- exec_pc

-----------------------------------------------------------------------------
(* What has not begun has one initial state. *)
AllInit ==
  /\ part \in {"start", "hooks", "alone", "exec", "changed", "creates"}
  /\ Init /\ (part # "start" => env = Off)
  /\ Prestart(TRUE)!Init /\ (part \notin {"hooks", "alone"} => hooks = None)
  /\ \/ part = "exec" /\ Exec!Init
     \/ part = "changed" /\ Changed!Init
     \/ /\ part \notin {"exec", "changed"} /\ Creates!Init
        /\ part # "creates" => image = [c \in {c1, c2, c3} |-> <<>>]

AllNext ==
  /\ UNCHANGED part
  /\ \/ part = "start" /\ Next /\ UNCHANGED <<prestart, executor>>
     \/ part = "hooks" /\ Prestart(TRUE)!Next /\ UNCHANGED <<vars, executor>>
     \/ part = "alone" /\ Prestart(FALSE)!Next /\ UNCHANGED <<vars, executor>>
     \/ part = "exec" /\ Exec!Next /\ UNCHANGED <<vars, prestart>>
     \/ part = "changed" /\ Changed!Next /\ UNCHANGED <<vars, prestart>>
     \/ part = "creates" /\ Creates!Next /\ UNCHANGED <<vars, prestart>>

(* The fairness of the parts, each while it is the one that runs. *)
setup_prestart_hooks ==
  /\ part = "hooks" /\ Prestart(TRUE)!setup_prestart_hooks
  /\ UNCHANGED <<part, vars, executor>>
hook_exit(i) ==
  /\ part = "hooks" /\ Prestart(TRUE)!hook_exit(i)
  /\ UNCHANGED <<part, vars, executor>>
create(c) ==
  /\ part = "creates" /\ Creates!step(c)
  /\ UNCHANGED <<part, vars, prestart>>

AllSpec ==
  /\ AllInit /\ [][AllNext]_all
  /\ WF_all(setup_prestart_hooks) /\ \A i \in 1 .. 3 : WF_all(hook_exit(i))
  /\ \A c \in {c1, c2, c3} : WF_all(create(c))

-----------------------------------------------------------------------------
(* The properties of the parts, each for the settings it is about; they    *)
(* are explained in the modules of the parts.                              *)

(* The variables of the part at hand have their types. *)
PartTypeOK ==
  /\ TypeOK
  /\ part \in {"hooks", "alone"} => Prestart(TRUE)!TypeOK
  /\ part \in {"exec", "changed"} => Exec!TypeOK
  /\ part = "creates" => Creates!TypeOK

(* Hooks: one runs at a time and none is left, and without the reaper an   *)
(* error has a cause (setup_prestart_hooks).                               *)
HooksCorrect ==
  /\ part \in {"hooks", "alone"} => Prestart(TRUE)!OneHookAtATime
  /\ part = "alone" => Prestart(FALSE)!SuccessfulHooksPass

(* Executor: what validate accepted is what exec runs, although files      *)
(* change; with a path that names one file the bytes that are run are the  *)
(* ones that were checked; and a guest that failed is not reported as a    *)
(* success (Executor::ty, can_handle, as_bytes, exec).                     *)
RunsWhatItChecked ==
  /\ part = "exec" => Exec!ChecksWhatItRuns
  /\ part \in {"exec", "changed"} => Changed!DecidedOnce /\ Exec!FailureIsReported

(* A hook that reads to the end of its input does not hang create          *)
(* (Child::wait), and every create ends, also after a connection that      *)
(* failed (OCI_CLIENT).                                                    *)
StartupEnds ==
  /\ part = "hooks" => Prestart(TRUE)!HooksEnd
  /\ \A c \in {c1, c2, c3} : <>(part = "creates" => Creates!CreateEnded(c))

=============================================================================
