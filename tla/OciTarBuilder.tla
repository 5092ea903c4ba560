--------------------------- MODULE OciTarBuilder ---------------------------
(***************************************************************************)
(* The oci-tar-builder program (crates/oci-tar-builder): packs modules,    *)
(* components and other layers from files into one tar with an OCI image   *)
(* or a wasm artifact.  It is run several times; meanwhile other programs  *)
(* (a compiler) may rewrite the files.                                     *)
(*                                                                         *)
(* A content stands for its digest.  A blob of the tar is named by the     *)
(* digest that was computed when it was added.                             *)
(***************************************************************************)
EXTENDS Integers, Sequences, Functions

CONSTANTS
  Paths,
  Contents,       \* what a file may hold
  ArgSets,        \* the command lines
  OtherType,      \* a media type that is not one of a wasm module
  FilesChange,    \* whether files are rewritten while the program runs
  IoFails,        \* whether file operations may fail
  MaxRuns

(* A command line is [as_artifact, module, layer, components]: a flag, two *)
(* sequences of paths, and the files of the directory of components, if    *)
(* one was given, with whether their extension is "wasm".                  *)

VARIABLES
  file,         \* file[p]: the content of p
  args, pc, runs,
  todo,         \* the components that read_dir has not given yet
  layers,       \* Builder::layers: [path, type]
  unique,       \* the digests that make the config unique
  idx, dgst,    \* build: the layer at hand and its digest
  layer_digests, \* IndexMap, as a sequence of [digest, type]
  tar,          \* the names of the tar's entries
  out,          \* the output file: "absent", "partial", "complete"
  failed,       \* whether a file operation failed in this run
  images        \* the images that were made

run_vars == <<todo, layers, unique, idx, dgst, layer_digests, tar, failed>>
vars == <<file, args, pc, runs, run_vars, out, images>>

(* The media types that the shim takes for wasm. *)
WASM_LAYER_MEDIA_TYPE == "component.layer.v0+wasm"
is_wasm_layer(type) == type \in {WASM_LAYER_MEDIA_TYPE, "application/wasm"}

(* One type invariant for the module. *)
TypeOK ==
  /\ file \in [Paths -> Contents]
  /\ args \in ArgSets
  /\ pc \in {"main", "artifact", "image", "create", "digest", "metadata", "append",
             "finish", "remove", "exit", "panic"}
  /\ runs \in 1 .. MaxRuns
  /\ \A l \in Range(layers) : l.path \in Paths
  /\ idx \in 1 .. Len(layers) + 1
  /\ dgst \in Contents
  /\ out \in {"absent", "partial", "complete"}

Clear ==
  /\ pc' = "main" /\ out' = "absent" /\ failed' = FALSE
  /\ todo' = args'.components
  /\ layers' = <<>> /\ unique' = <<>> /\ idx' = 1 /\ layer_digests' = <<>> /\ tar' = {}
  /\ UNCHANGED dgst

Init ==
  /\ file \in [Paths -> Contents]
  /\ args \in ArgSets
  /\ pc = "main" /\ runs = 1 /\ out = "absent" /\ failed = FALSE
  /\ todo = args.components
  /\ layers = <<>> /\ unique = <<>> /\ idx = 1 /\ layer_digests = <<>> /\ tar = {}
  /\ dgst = CHOOSE c \in Contents : TRUE
  /\ images = {}

(* An operation fails: where the program goes then. *)
Fails(label) ==
  /\ IoFails
  /\ pc' = label /\ failed' = TRUE
  /\ UNCHANGED <<file, args, runs, todo, layers, unique, idx, dgst, layer_digests, tar,
                 out, images>>

-----------------------------------------------------------------------------
(* main: modules or components, and not both.  Errors before the tar is    *)
(* created are unwrapped.                                                  *)
main ==
  /\ pc = "main"
  /\ pc' = IF (args.module = <<>>) = (args.components = {}) THEN "exit"
           ELSE IF args.as_artifact THEN "artifact" ELSE "image"
  /\ UNCHANGED <<file, args, runs, run_vars, out, images>>

(* The components are a directory, whose digest cannot be taken; only the  *)
(* first of the modules is packed.                                         *)
generate_wasm_artifact ==
  /\ pc = "artifact"
  /\ \/ /\ args.components # {}
        /\ pc' = "panic"
        /\ UNCHANGED <<file, args, runs, run_vars, out, images>>
     \/ /\ args.components = {}
        /\ layers' = <<[path |-> args.module[1], type |-> "application/wasm"]>>
        /\ unique' = <<file[args.module[1]]>>
        /\ pc' = "create"
        /\ UNCHANGED <<file, args, runs, todo, idx, dgst, layer_digests, tar, failed, out,
                       images>>
     \/ args.components = {} /\ Fails("panic")

Push(path, type) ==
  /\ layers' = Append(layers, [path |-> path, type |-> type])
  /\ unique' = Append(unique, file[path])
  /\ UNCHANGED <<file, args, pc, runs, idx, dgst, layer_digests, tar, failed, out, images>>

(* generate_wasi_image: the modules, then the other layers, ... *)
add_module ==
  /\ pc = "image"
  /\ Len(layers) < Len(args.module)
  /\ \/ Push(args.module[Len(layers) + 1], WASM_LAYER_MEDIA_TYPE) /\ UNCHANGED todo
     \/ Fails("panic")

add_layer ==
  /\ pc = "image"
  /\ LET k == Len(layers) - Len(args.module) + 1 IN
     /\ k \in 1 .. Len(args.layer)
     /\ \/ Push(args.layer[k], OtherType) /\ UNCHANGED todo
        \/ Fails("panic")

(* ... then the components, in the order of read_dir, which is any.  Files *)
(* with another extension are skipped.                                     *)
add_component ==
  /\ pc = "image"
  /\ Len(layers) >= Len(args.module) + Len(args.layer)
  /\ \E c \in todo :
       \/ /\ c.wasm
          /\ Push(c.path, WASM_LAYER_MEDIA_TYPE)
          /\ todo' = todo \ {c}
       \/ c.wasm /\ Fails("panic")
       \/ /\ ~c.wasm
          /\ todo' = todo \ {c}
          /\ UNCHANGED <<file, args, pc, runs, layers, unique, idx, dgst, layer_digests,
                         tar, failed, out, images>>

add_config ==
  /\ pc = "image"
  /\ Len(layers) >= Len(args.module) + Len(args.layer) /\ todo = {}
  /\ pc' = "create"
  /\ UNCHANGED <<file, args, runs, run_vars, out, images>>

create ==
  /\ pc = "create"
  /\ \/ /\ out' = "partial"
        /\ pc' = "digest"
        /\ UNCHANGED <<file, args, runs, run_vars, images>>
     \/ Fails("panic")

-----------------------------------------------------------------------------
(* Builder::build.  An error anywhere makes the caller remove the file. *)
build(label, next) == pc = label /\ idx <= Len(layers) /\ pc' = next

try_digest ==
  \/ /\ build("digest", "metadata")
     /\ dgst' = file[layers[idx].path]
     /\ UNCHANGED <<file, args, runs, todo, layers, unique, idx, layer_digests, tar, failed,
                    out, images>>
  \/ pc = "digest" /\ idx <= Len(layers) /\ Fails("remove")

(* A map that keeps its keys in an order of its own. *)
Mut_insert(map, d, type) ==
  <<[digest |-> d, type |-> type]>> \o SelectSeq(map, LAMBDA e : e.digest # d)

(* IndexMap::insert keeps the place of a key that is there. *)
insert(map, d, type) ==
  IF \E k \in DOMAIN map : map[k].digest = d
  THEN [k \in DOMAIN map |-> IF map[k].digest = d THEN [digest |-> d, type |-> type] ELSE map[k]]
  ELSE Append(map, [digest |-> d, type |-> type])

metadata ==
  \/ /\ build("metadata", "append")
     /\ layer_digests' = insert(layer_digests, dgst, layers[idx].type)
     /\ UNCHANGED <<file, args, runs, todo, layers, unique, idx, dgst, tar, failed, out, images>>
  \/ pc = "metadata" /\ Fails("remove")

append ==
  \/ /\ build("append", "digest")
     /\ tar' = tar \cup {dgst}
     /\ idx' = idx + 1
     /\ UNCHANGED <<file, args, runs, todo, layers, unique, dgst, layer_digests, failed, out,
                    images>>
  \/ pc = "append" /\ Fails("remove")

(* The config and the manifest with all the layers ... *)
manifest ==
  /\ pc = "digest" /\ idx > Len(layers)
  /\ \/ /\ pc' = "finish"
        /\ tar' = tar \cup {"config", "manifest"}
        /\ UNCHANGED <<file, args, runs, todo, layers, unique, idx, dgst, layer_digests,
                       failed, out, images>>
     \/ Fails("remove")

config == [as_artifact |-> args.as_artifact, layers |-> unique]

(* ... and the index, the layout and Docker's manifest. *)
finish ==
  /\ pc = "finish"
  /\ \/ /\ pc' = "exit"
        /\ tar' = tar \cup {"index.json", "oci-layout", "manifest.json"}
        /\ out' = "complete"
        /\ images' = images \cup {[config |-> config, layers |-> layer_digests]}
        /\ UNCHANGED <<file, args, runs, todo, layers, unique, idx, dgst, layer_digests,
                       failed>>
     \/ Fails("remove")

(* The error is printed, and the exit status is that of success. *)
remove_file ==
  /\ pc = "remove"
  /\ \/ /\ pc' = "exit"
        /\ out' = "absent"
        /\ UNCHANGED <<file, args, runs, run_vars, images>>
     \/ Fails("panic")

-----------------------------------------------------------------------------
(* The next run, perhaps of another image; between runs, files may change. *)
again ==
  /\ pc \in {"exit", "panic"}
  /\ runs < MaxRuns
  /\ runs' = runs + 1
  /\ args' \in ArgSets
  /\ file' \in [Paths -> Contents]
  /\ Clear
  /\ UNCHANGED images

(* Another program rewrites a file. *)
change_file ==
  /\ FilesChange
  /\ pc \notin {"exit", "panic"}
  /\ \E p \in Paths, c \in Contents : file' = [file EXCEPT ![p] = c]
  /\ UNCHANGED <<args, pc, runs, run_vars, out, images>>

step ==
  \/ main \/ generate_wasm_artifact \/ add_module \/ add_layer \/ add_component \/ add_config
  \/ create \/ try_digest \/ metadata \/ append \/ manifest \/ finish \/ remove_file

Next == step \/ again \/ change_file

Spec == Init /\ [][Next]_vars

-----------------------------------------------------------------------------
(* Every blob that the manifest names is in the tar, with the files that   *)
(* make it an image, even if files were rewritten meanwhile                *)
(* (Builder::build).                                                       *)
ReferencesResolve ==
  out = "complete" =>
    /\ {l.digest : l \in Range(layer_digests)} \cup
         {"config", "manifest", "index.json", "oci-layout", "manifest.json"} \subseteq tar
    /\ idx = Len(layers) + 1

(* A run that ends by itself leaves a whole tar or none, whatever fails    *)
(* (the remove_file of both generate functions).                           *)
NoPartialTar == pc = "exit" => out # "partial"

(* What was given as a module is a wasm layer for the shim, and the layers *)
(* are "in the order they were added", at the first place of each content  *)
(* (build, read with the shim's is_wasm_layer).  A content that is also    *)
(* given as another layer takes the last type.                             *)
ModulesReachShim ==
  out = "complete" /\ ~args.as_artifact =>
    LET first(c) == CHOOSE k \in DOMAIN unique :
                      unique[k] = c /\ \A j \in 1 .. k - 1 : unique[j] # c
        last(c) == CHOOSE k \in DOMAIN unique :
                     unique[k] = c /\ \A j \in k + 1 .. Len(unique) : unique[j] # c
    IN /\ {l.digest : l \in Range(layer_digests)} = Range(unique)
       /\ \A j, k \in DOMAIN layer_digests :
            j < k => first(layer_digests[j].digest) < first(layer_digests[k].digest)
       /\ \A l \in Range(layer_digests) :
            is_wasm_layer(l.type) <=> last(l.digest) \notin
              Len(args.module) + 1 .. Len(args.module) + Len(args.layer)

(* "Need each config to be unique since we don't have layers to make them  *)
(* unique in the rootfs": images with the same config have the same layers *)
(* (generate_wasi_image).                                                  *)
ConfigIsUnique ==
  \A i, j \in images :
    i.config = j.config /\ ~i.config.as_artifact =>
      [k \in DOMAIN i.layers |-> i.layers[k].digest] = [k \in DOMAIN j.layers |-> j.layers[k].digest]

(* Without a failed operation, modules or components become an image.      *)
ArgsHonoured ==
  pc \in {"exit", "panic"} /\ ~failed =>
    (out = "complete" <=> (args.module = <<>>) # (args.components = {}))

=============================================================================
