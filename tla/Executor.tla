------------------------------ MODULE Executor ------------------------------
(***************************************************************************)
(* From a container's image and arguments to the code that its process     *)
(* runs (containerd-shim-wasm): Instance::new connects to containerd and   *)
(* loads the wasm layers, the container is built in a zygote of its own,   *)
(* Executor::validate decides in the container's process what the          *)
(* container is, and Executor::exec, after the start, runs it: as a Linux  *)
(* executable or with the engine's run_wasi.                               *)
(*                                                                         *)
(* The files of the container's root are a name's contents in each         *)
(* directory.  libcontainer, the engines and the guest are external.       *)
(***************************************************************************)
EXTENDS Integers, Sequences

CONSTANTS
  Containers,
  Engines,      \* of "wasmtime", "wasmedge", "wasmer" and "wamr"
  PATH, Cwd,    \* the directories of PATH, in order, and the current one
  Specs,        \* records of arg: is there an argument, sep: has it a separator,
                \* hash: has it a "#func"
  Contents,     \* what files may hold: records of magic and of exec, the executable bit
  ImageLayers,  \* the wasm layers that images may have
  Exits,        \* codes that guests exit with
  FilesChange,  \* whether files may change between create and start
  None

Dirs == {PATH[i] : i \in DOMAIN PATH} \cup {Cwd}
Names == {"path", "path#func"}
VARIABLES
  oci_client,  \* OCI_CLIENT: who connected it
  connecting,  \* who is initializing it
  pc,
  engine, spec, files, image,  \* files[c][name][dir]: a content or None
  layers,      \* layers[c]: the wasm layers that were loaded
  ty,          \* ty[c]: the executor's once-cell
  checked,     \* checked[c]: the content that can_handle looked at
  ran,         \* ran[c]: what exec ran, and as what
  result,      \* result[c]: what the guest did
  status       \* status[c]: the exit status of the process

inputs == <<engine, spec, files, image>>
once == <<oci_client, connecting>>
vars == <<once, pc, inputs, layers, ty, checked, ran, result, status>>

Result(how, code) == [how |-> how, code |-> code]
Results == {Result("ok", 0), Result("trap", 0)} \cup {Result("exit", n) : n \in Exits}
Panic == -1
Error == -3
ErrorStatus == 137
Linux == -2

(* One type invariant for the module. *)
TypeOK ==
  /\ oci_client \in Containers \cup {None}
  /\ connecting \in Containers \cup {None}
  /\ pc \in [Containers -> {"new", "connect", "load", "build", "failed",
                            "created", "running", "exited"}]
  /\ ty \in [Containers -> {"Wasm", "Linux", "CantHandle", None}]
  /\ \A c \in Containers : status[c] # None <=> pc[c] = "exited"

Init ==
  /\ oci_client = None /\ connecting = None
  /\ pc = [c \in Containers |-> "new"]
  /\ engine \in [Containers -> Engines]
  /\ spec \in [Containers -> Specs]
  /\ files \in [Containers -> [Names -> [Dirs -> Contents \cup {None}]]]
  /\ image \in [Containers -> ImageLayers]
  /\ layers = [c \in Containers |-> <<>>]
  /\ ty = [c \in Containers |-> None]
  /\ checked = [c \in Containers |-> None]
  /\ ran = [c \in Containers |-> None]
  /\ result = [c \in Containers |-> None]
  /\ status = [c \in Containers |-> None]

-----------------------------------------------------------------------------
(* entrypoint(): the loaded layers, if there are any, or a file.  An       *)
(* argument is split at the "#"; the raw one keeps it.                     *)
IsFile(c) == layers[c] = <<>>
Raw(c) == IF spec[c].hash THEN "path#func" ELSE "path"

(* resolve_in_dirs: a name with a separator is only looked for in cwd, the *)
(* others in the directories, and files that exist are candidates, here by *)
(* the positions of their directories.                                     *)
resolve_in_dirs(c, name, dirs) ==
  LET searched == IF spec[c].sep THEN <<Cwd>> ELSE dirs
  IN  [i \in {j \in DOMAIN searched : spec[c].arg /\ files[c][name][searched[j]] # None} |->
         files[c][name][searched[i]]]
First(positions) == CHOOSE i \in positions : \A j \in positions : i <= j
resolve_in_path(c, name) == resolve_in_dirs(c, name, PATH)
resolve_in_path_or_cwd(c, name) == resolve_in_dirs(c, name, Append(PATH, Cwd))

(* The first executable that PATH has for the raw argument. *)
is_linux_container(c) ==
  LET found == resolve_in_path(c, Raw(c))
      executable == {i \in DOMAIN found : found[i].exec}
  IN  /\ IsFile(c)
      /\ executable # {}
      /\ found[First(executable)].magic \in {"elf", "script"}

(* can_handle: some file is found, and the one that is opened is the path  *)
(* itself, which the current directory resolves.                           *)
opened(c) == files[c]["path"][Cwd]
can_handle(c) ==
  \/ ~IsFile(c)
  \/ /\ DOMAIN resolve_in_path_or_cwd(c, "path") # {}
     /\ opened(c) # None
     /\ opened(c).magic \in {"wasm", "wat"}

Kind(c) ==
  IF is_linux_container(c) THEN "Linux"
  ELSE IF can_handle(c) THEN "Wasm" ELSE "CantHandle"

(* The type is looked up again each time. *)
Mut_ty_of(c) == Kind(c)

(* get_or_init *)
ty_of(c) == IF ty[c] = None THEN Kind(c) ELSE ty[c]

(* Source::as_bytes: the magic of what is run, or None for an error. *)
as_bytes(c) ==
  LET found == resolve_in_path_or_cwd(c, "path")
  IN  CASE IsFile(c) /\ DOMAIN found # {} -> found[First(DOMAIN found)].magic
        [] Len(layers[c]) = 1 -> Head(layers[c])
        [] OTHER -> None

-----------------------------------------------------------------------------
Goto(c, label) == pc' = [pc EXCEPT ![c] = label]

(* OCI_CLIENT.get_or_try_init: one caller at a time connects, the others   *)
(* wait for it.                                                            *)
new(c) ==
  /\ pc[c] = "new"
  /\ \/ oci_client # None /\ Goto(c, "load") /\ UNCHANGED connecting
     \/ /\ oci_client = None /\ connecting = None
        /\ connecting' = c
        /\ Goto(c, "connect")
  /\ UNCHANGED <<oci_client, inputs, layers, ty, checked, ran, result, status>>

(* Client::connect: an error fails this create and leaves the cell empty. *)
connect(c) ==
  /\ pc[c] = "connect"
  /\ connecting' = None
  /\ \/ oci_client' = c /\ Goto(c, "load")
     \/ Goto(c, "failed") /\ UNCHANGED oci_client
  /\ UNCHANGED <<inputs, layers, ty, checked, ran, result, status>>

(* An error of load_modules is taken for an image without wasm layers. *)
load_modules(c) ==
  /\ pc[c] = "load"
  /\ \E ls \in {image[c], <<>>} : layers' = [layers EXCEPT ![c] = ls]
  /\ Goto(c, "build")
  /\ UNCHANGED <<once, inputs, ty, checked, ran, result, status>>

(* Container::build: the spec, the root directory and libcontainer's       *)
(* build may fail; validate is a part of it.  A container that was not     *)
(* built is not kept in its zygote, and no handle to it is returned.       *)
build(c) ==
  /\ pc[c] = "build"
  /\ \/ /\ ty' = [ty EXCEPT ![c] = ty_of(c)]
        /\ checked' = [checked EXCEPT ![c] = IF IsFile(c) THEN opened(c) ELSE None]
        /\ Goto(c, IF ty'[c] = "CantHandle" THEN "failed" ELSE "created")
     \/ Goto(c, "failed") /\ UNCHANGED <<ty, checked>>
  /\ UNCHANGED <<once, inputs, layers, ran, result, status>>

(* Something else changes a file of the created container. *)
change_file(c) ==
  /\ FilesChange
  /\ pc[c] = "created"
  /\ \E n \in Names, d \in Dirs, f \in Contents \cup {None} :
       files' = [files EXCEPT ![c][n][d] = f]
  /\ UNCHANGED <<once, pc, engine, spec, image, layers, ty, checked, ran, result, status>>

(* Container::start and Executor::exec, up to what it runs. *)
exec(c) ==
  /\ pc[c] = "created"
  /\ ty' = [ty EXCEPT ![c] = ty_of(c)]
  /\ ran' = [ran EXCEPT ![c] =
       [as |-> ty'[c], bytes |-> IF ty'[c] = "Wasm" THEN as_bytes(c) ELSE None]]
  /\ Goto(c, "running")
  /\ UNCHANGED <<once, inputs, layers, checked, result, status>>

(* What the engine makes of the bytes: wasmtime also runs what it has      *)
(* precompiled.                                                            *)
Runnable(c) == {"wasm"} \cup (IF engine[c] = "wasmtime" THEN {"precompiled"} ELSE {})

(* The engines: a trap is an error, an exit gives the guest's code. *)
run_wasmtime(c, res) == IF res.how = "trap" THEN Error ELSE res.code
run_wasmedge(c, res) == IF res.how = "trap" THEN Error ELSE res.code

(* wasmer slices the arguments after the first one. *)
run_wasmer(c, res) ==
  CASE ~spec[c].arg -> Panic
    [] spec[c].arg /\ res.how = "trap" -> Error
    [] OTHER -> res.code

(* WAMR does not tell the code of a guest that exits. *)
run_wamr(c, res) == IF res.how = "trap" THEN Error ELSE 0

run_wasi(c, res) ==
  IF ran[c].bytes \notin Runnable(c) THEN Error
  ELSE CASE engine[c] = "wasmtime" -> run_wasmtime(c, res)
         [] engine[c] = "wasmedge" -> run_wasmedge(c, res)
         [] engine[c] = "wasmer" -> run_wasmer(c, res)
         [] engine[c] = "wamr" -> run_wamr(c, res)

(* process::exit, with the code or for an error. *)
ExitStatus(code) == IF code = Error THEN ErrorStatus ELSE code

(* The process ends. *)
exit(c) ==
  /\ pc[c] = "running"
  /\ \E res \in Results :
       /\ result' = [result EXCEPT ![c] = res]
       /\ status' = [status EXCEPT ![c] =
            IF ran[c].as = "Linux" THEN Linux ELSE ExitStatus(run_wasi(c, res))]
  /\ Goto(c, "exited")
  /\ UNCHANGED <<once, inputs, layers, ty, checked, ran>>

step(c) ==
  \/ new(c) \/ connect(c) \/ load_modules(c) \/ build(c) \/ change_file(c)
  \/ exec(c) \/ exit(c)

Next == \E c \in Containers : step(c)

Spec == Init /\ [][Next]_vars
Fairness == \A c \in Containers : WF_vars(step(c))

-----------------------------------------------------------------------------
(* What validate accepted at create is what exec runs after the start,     *)
(* whatever happens to the files in between: exec never meets a container  *)
(* that it cannot handle, and layers are never run as a Linux executable   *)
(* (Executor::ty, entrypoint).                                             *)
DecidedOnce ==
  \A c \in Containers :
    ran[c] # None =>
      /\ ran[c].as \in {"Wasm", "Linux"}
      /\ ran[c].as = "Linux" => layers[c] = <<>>
      /\ layers[c] # <<>> => ran[c].bytes \in {layers[c][i] : i \in DOMAIN layers[c]} \cup {None}

(* A guest that fails is never reported as a success: the status is 0 only *)
(* for a guest that returned or exited with 0 from code that the engine    *)
(* can run; wamr has no exit codes (exec, run_wasi).                       *)
FailureIsReported ==
  \A c \in Containers :
    status[c] = 0 =>
      /\ ran[c].bytes \in Runnable(c)
      /\ result[c].how # "trap"
      /\ engine[c] # "wamr" => result[c].code = 0

(* With a separator in the argument, and files that stay as they are, the  *)
(* file that can_handle looked at is the one whose bytes are run.          *)
ChecksWhatItRuns ==
  \A c \in Containers :
    ran[c] # None /\ ran[c].as = "Wasm" /\ layers[c] = <<>> /\ spec[c].sep /\ ~FilesChange =>
      checked[c] # None /\ ran[c].bytes = checked[c].magic

(* One failed connection does not keep other containers from being         *)
(* created: every create comes to this end (OCI_CLIENT).                   *)
CreateEnded(c) == pc[c] \in {"failed", "exited"}

=============================================================================
