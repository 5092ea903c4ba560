----------------------------- MODULE Precompile -----------------------------
(***************************************************************************)
(* Client::load_modules (containerd-shim-wasm containerd/client.rs): how   *)
(* the modules of an OCI image are read, and how their precompiled form is *)
(* cached in containerd's content store, where labels say which content is *)
(* the compiled form of which layer, and leases and gc.ref labels keep it  *)
(* from being collected.  Compiler::compile is the one of the wasmtime     *)
(* engine (containerd-shim-wasmtime instance.rs).                          *)
(*                                                                         *)
(* Every shim is a process of its own; the steps of load_modules           *)
(* interleave at every request to containerd.  The content store, its      *)
(* garbage collector and the removal and the pull of images are external.  *)
(* save_content is its lease and its write here; SaveContent has the       *)
(* messages of the write.  Bytes are identified with their digest: an      *)
(* image is its manifest, <<l, e>> is layer l compiled by engine e.        *)
(***************************************************************************)
EXTENDS Integers, Sequences

CONSTANTS
  Shims, Images, Layers,
  Engines,       \* engine names with their cache keys
  EngineOf,      \* EngineOf[s]: the engine of shim s
  LayersOf,      \* LayersOf[i]: the layers of image i, in order
  WasmImages,    \* the images whose architecture is wasm
  WasmLayers,    \* the layers of a media type that the engines support
  Binary,        \* Binary[l]: what the bytes of layer l are
  Precompilers,  \* the engines that have a compiler
  MaxLayers,     \* the bound on the layers of an image
  Faults,        \* what may happen: "crash", "rpc", "collect", "churn"
  Flag,          \* the value "true" of the label of an image
  None

ASSUME LayersAssumption ==
  /\ LayersOf \in [Images -> Seq(Layers)]
  /\ WasmImages \subseteq Images /\ WasmLayers \subseteq Layers
  /\ Binary \in [Layers -> {"wasm", "compiled", "broken", "unknown"}]
ASSUME EnginesAssumption ==
  EngineOf \in [Shims -> Engines] /\ Precompilers \subseteq Engines
ASSUME DigestAssumption ==
  /\ Images \cap Layers = {}
  /\ {Flag, None} \cap (Images \cup Layers \cup Shims \cup (Layers \X Engines)) = {}
  /\ Layers \cap (Layers \X Engines) = {}
ASSUME LeaseAssumption ==
  \A s \in Shims, h \in SUBSET (Layers \X Engines), b \in BOOLEAN :
    [owner |-> s, holds |-> h, stale |-> b] # None

VARIABLES
  images,    \* the images that containerd has
  content,   \* the digests in the content store
  cache,     \* cache[d][e]: the label precompile_label(e) of content d
  ref,       \* ref[d][n]: the label gc.ref.content.precompile.n of content d
  leases,    \* leases[e]: the lease precompile-<label>, with what it holds
  pc, img, idx,
  needs,     \* needs[s]: needs_precompile
  layers,    \* layers[s]: the layers read so far
  compiled,  \* compiled[s]: the answer of the compiler
  info,      \* info[s]: the labels that get_info returned
  out        \* out[s]: layers_for_runtime, and the result of a load

store == <<images, content, cache, ref, leases>>
local == <<img, idx, needs, layers, compiled, info, out>>
vars == <<images, content, cache, ref, leases, pc, img, idx, needs, layers,
          compiled, info, out>>

is_wasm_layer(l) == l \in WasmLayers

(* The layers that load_modules is about. *)
configs(i) == SelectSeq(LayersOf[i], is_wasm_layer)

ASSUME ConfigsAssumption ==
  /\ MaxLayers \in Nat
  /\ \A i \in Images :
       /\ configs(i) \in Seq(Layers) /\ Len(configs(i)) <= MaxLayers
       /\ \A n \in 1 .. Len(configs(i)) :
            \E k \in 1 .. Len(LayersOf[i]) : configs(i)[n] = LayersOf[i][k]

(* The position of a layer in an image, which names its gc.ref label. *)
Indices == 1 .. MaxLayers

NoLabels == [cache |-> [e \in Engines |-> None], ref |-> [n \in Indices |-> None]]

(* Where the guard of the lease is alive. *)
Guarded == {"write", "layer_get", "layer_update", "image_get", "image_update",
            "release", "drop"}
Saved == Guarded \ {"write", "drop"}
Reading == {"manifest", "image_info", "layer_info", "cached", "original"}

Codes == Layers \cup (Layers \X Engines)

(* One type invariant for the module. *)
TypeOK ==
  /\ images \subseteq Images
  /\ content \subseteq Images \cup Codes
  /\ cache \in [Images \cup Layers -> [Engines -> (Layers \X Engines) \cup {Flag, None}]]
  /\ ref \in [Images \cup Layers -> [Indices -> (Layers \X Engines) \cup {None}]]
  /\ leases \in [Engines -> [owner : Shims, holds : SUBSET (Layers \X Engines),
                             stale : BOOLEAN] \cup {None}]
  /\ pc \in [Shims -> Reading \cup Guarded \cup
                      {"idle", "compile", "next", "lease", "ok", "err", "dead"}]
  /\ img \in [Shims -> Images \cup {None}]
  /\ idx \in [Shims -> 0 .. MaxLayers + 1]
  /\ needs \in [Shims -> BOOLEAN]
  /\ layers \in [Shims -> Seq(Codes)] /\ out \in [Shims -> Seq(Codes)]
  /\ compiled \in [Shims -> Seq(Codes \cup {None})]
  /\ info \in [Shims -> [cache : [Engines -> (Layers \X Engines) \cup {Flag, None}],
                         ref : [Indices -> (Layers \X Engines) \cup {None}]]]

Init ==
  /\ images = Images
  /\ content = Images \cup Layers
  /\ cache = [d \in Images \cup Layers |-> NoLabels.cache]
  /\ ref = [d \in Images \cup Layers |-> NoLabels.ref]
  /\ leases = [e \in Engines |-> None]
  /\ pc = [s \in Shims |-> "idle"]
  /\ img = [s \in Shims |-> None]
  /\ idx = [s \in Shims |-> 0]
  /\ needs = [s \in Shims |-> FALSE]
  /\ layers = [s \in Shims |-> <<>>]
  /\ compiled = [s \in Shims |-> <<>>]
  /\ info = [s \in Shims |-> NoLabels]
  /\ out = [s \in Shims |-> <<>>]

-----------------------------------------------------------------------------
(* All the engines share one label. *)
Mut_precompile_label(e) == CHOOSE f \in Engines : TRUE

(* The label is unique for the engine and its cache key. *)
precompile_label(e) == e

Label(s) == precompile_label(EngineOf[s])
Layer(s) == configs(img[s])[idx[s]]
Code(s) == compiled[s][idx[s]]

Goto(s, label) == pc' = [pc EXCEPT ![s] = label]

(* load_modules returns, or the shim dies: its locals are gone. *)
Forget(s, label, result) ==
  /\ Goto(s, label)
  /\ out' = [out EXCEPT ![s] = result]
  /\ idx' = [idx EXCEPT ![s] = 0]
  /\ needs' = [needs EXCEPT ![s] = FALSE]
  /\ layers' = [layers EXCEPT ![s] = <<>>]
  /\ compiled' = [compiled EXCEPT ![s] = <<>>]
  /\ info' = [info EXCEPT ![s] = NoLabels]
  /\ UNCHANGED <<images, content, cache, ref, img>>

Return(s, result) == Forget(s, "ok", result) /\ UNCHANGED leases

Fail(s) == Forget(s, "err", <<>>) /\ UNCHANGED leases

(* A layer without a usable compiled form is marked for compilation. *)
NotCached(s) ==
  /\ Goto(s, "original")
  /\ needs' = [needs EXCEPT ![s] = TRUE]
  /\ UNCHANGED <<store, img, idx, layers, compiled, info, out>>

(* Any request to containerd may be answered with an error, which drops    *)
(* the guard of the lease if there is one.                                 *)
rpc_error(s) ==
  /\ "rpc" \in Faults
  /\ pc[s] \in Reading \cup {"lease", "write"} \cup (Saved \ {"release"})
  /\ \/ /\ pc[s] \in Guarded
        /\ Goto(s, "drop")
        /\ UNCHANGED <<store, local>>
     \/ /\ pc[s] \in {"layer_info", "cached"}
        /\ NotCached(s)
     \/ /\ pc[s] \notin Guarded \cup {"layer_info", "cached"}
        /\ Fail(s)

(* Instance::new, or a new shim after a crash, loads the modules of i. *)
load_modules(s, i) ==
  /\ pc[s] \in {"idle", "ok", "err", "dead"}
  /\ Goto(s, "manifest")
  /\ img' = [img EXCEPT ![s] = i]
  /\ idx' = [idx EXCEPT ![s] = 1]
  /\ out' = [out EXCEPT ![s] = <<>>]
  /\ UNCHANGED <<store, needs, layers, compiled, info>>

(* The container, the image, its manifest and its platform. *)
read_manifest(s) ==
  /\ pc[s] = "manifest"
  /\ \/ /\ img[s] \notin images \cap content
        /\ Fail(s)
     \/ /\ img[s] \in images \cap content
        /\ \/ /\ img[s] \notin WasmImages \/ configs(img[s]) = <<>>
              /\ Return(s, <<>>)
           \/ /\ img[s] \in WasmImages /\ configs(img[s]) # <<>>
              /\ Goto(s, IF EngineOf[s] \in Precompilers THEN "image_info" ELSE "original")
              /\ UNCHANGED <<store, local>>

image_info(s) ==
  /\ pc[s] = "image_info"
  /\ \/ img[s] \notin content /\ Fail(s)
     \/ /\ img[s] \in content
        /\ needs' = [needs EXCEPT ![s] = cache[img[s]][Label(s)] = None]
        /\ Goto(s, "layer_info")
        /\ UNCHANGED <<store, img, idx, layers, compiled, info, out>>

-----------------------------------------------------------------------------
(* A layer has been read: the next one, or what comes after the last.      *)
Push(s, code) ==
  LET read == Append(layers[s], code)
      last == Len(read) = Len(configs(img[s])) IN
  \/ /\ last /\ ~needs[s]
     /\ Return(s, read)
  \/ /\ ~last \/ needs[s]
     /\ layers' = [layers EXCEPT ![s] = read]
     /\ idx' = [idx EXCEPT ![s] = IF last THEN 1 ELSE @ + 1]
     /\ Goto(s, IF last THEN "compile"
                ELSE IF EngineOf[s] \in Precompilers THEN "layer_info" ELSE "original")
     /\ UNCHANGED <<store, img, needs, compiled, info, out>>

(* read_precompiled_layer: the label, and the content that it names. *)
layer_info(s) ==
  /\ pc[s] = "layer_info"
  /\ LET labelled == Layer(s) \in content /\ cache[Layer(s)][Label(s)] # None IN
     \/ ~labelled /\ NotCached(s)
     \/ /\ labelled
        /\ info' = [info EXCEPT ![s].cache = cache[Layer(s)]]
        /\ Goto(s, "cached")
        /\ UNCHANGED <<store, img, idx, needs, layers, compiled, out>>

read_cached(s) ==
  /\ pc[s] = "cached"
  /\ LET digest == info[s].cache[Label(s)] IN
     \/ digest \in content /\ Push(s, digest)
     \/ digest \notin content /\ NotCached(s)

read_original_layer(s) ==
  /\ pc[s] = "original"
  /\ \/ Layer(s) \in content /\ Push(s, Layer(s))
     \/ Layer(s) \notin content /\ Fail(s)

-----------------------------------------------------------------------------
(* What wasmtime recognises in the bytes that were read. *)
Kind(code) == IF code \in Layers THEN Binary[code] ELSE "compiled"

(* compile looks at a layer: it fails, or it adds an answer to the list,   *)
(* or it goes on without one.                                              *)
compile_layer(s) ==
  LET code == layers[s][idx[s]] IN
  \/ Kind(code) = "broken" /\ Return(s, layers[s])
  \/ /\ Kind(code) # "broken"
     /\ compiled' = [compiled EXCEPT ![s] =
          CASE Kind(code) = "wasm" -> Append(@, <<code, EngineOf[s]>>)
            [] Kind(code) = "compiled" -> Append(@, None)
            [] Kind(code) = "unknown" -> @]
     /\ idx' = [idx EXCEPT ![s] = @ + 1]
     /\ UNCHANGED <<store, pc, img, needs, layers, info, out>>

(* All the layers have been looked at. *)
Answered(s) == pc[s] = "compile" /\ idx[s] > Len(layers[s])

StartSaving(s) ==
  /\ idx' = [idx EXCEPT ![s] = 1]
  /\ Goto(s, "next")
  /\ UNCHANGED <<store, img, needs, layers, compiled, info, out>>

(* The number of layers is not compared. *)
Mut_compile(s) ==
  /\ pc[s] = "compile"
  /\ \/ idx[s] <= Len(layers[s]) /\ compile_layer(s)
     \/ Answered(s) /\ StartSaving(s)

compile(s) ==
  /\ pc[s] = "compile"
  /\ \/ idx[s] <= Len(layers[s]) /\ compile_layer(s)
     \/ Answered(s) /\ Len(compiled[s]) # Len(layers[s]) /\ Fail(s)
     \/ Answered(s) /\ Len(compiled[s]) = Len(layers[s]) /\ StartSaving(s)

(* The loop over the compiled layers: one without a compiled form is used  *)
(* as it was read.                                                         *)
next_layer(s) ==
  /\ pc[s] = "next"
  /\ \/ idx[s] > Len(compiled[s]) /\ Return(s, out[s])
     \/ /\ idx[s] <= Len(compiled[s])
        /\ \/ /\ Code(s) = None
              /\ out' = [out EXCEPT ![s] = Append(@, layers[s][idx[s]])]
              /\ idx' = [idx EXCEPT ![s] = @ + 1]
              /\ UNCHANGED pc
           \/ /\ Code(s) # None
              /\ Goto(s, "lease")
              /\ UNCHANGED <<out, idx>>
        /\ UNCHANGED <<store, img, needs, layers, compiled, info>>

(* A lease is created by its id, which a living lease already has. *)
lease(s) ==
  /\ pc[s] = "lease"
  /\ \/ leases[Label(s)] # None /\ Fail(s)
     \/ /\ leases[Label(s)] = None
        /\ leases' = [leases EXCEPT ![Label(s)] =
                        [owner |-> s, holds |-> {}, stale |-> FALSE]]
        /\ Goto(s, "write")
        /\ UNCHANGED <<images, content, cache, ref, local>>

(* The write is sent without the lease. *)
Mut_write(s) ==
  /\ pc[s] = "write"
  /\ content' = content \cup {Code(s)}
  /\ Goto(s, "layer_get")
  /\ UNCHANGED <<images, cache, ref, leases, local>>

(* The content is written, or found to exist: the lease holds it. *)
write(s) ==
  /\ pc[s] = "write"
  /\ content' = content \cup {Code(s)}
  /\ leases' = [leases EXCEPT ![Label(s)].holds = @ \cup {Code(s)}]
  /\ Goto(s, "layer_get")
  /\ UNCHANGED <<images, cache, ref, local>>

(* get_info, for a read-modify-write of all the labels of d. *)
Get(s, d, then) ==
  /\ d \in content
  /\ info' = [info EXCEPT ![s] = [cache |-> cache[d], ref |-> ref[d]]]
  /\ Goto(s, then)
  /\ UNCHANGED <<store, img, idx, needs, layers, compiled, out>>

Update(s, d, value, then) ==
  /\ d \in content
  /\ cache' = [cache EXCEPT ![d] = [info[s].cache EXCEPT ![Label(s)] = value]]
  /\ ref' = [ref EXCEPT ![d] = [info[s].ref EXCEPT ![idx[s]] = Code(s)]]
  /\ Goto(s, then)
  /\ UNCHANGED <<images, content, leases, img, idx, needs, layers, compiled, info>>

(* The content is gone: an error, which drops the guard. *)
Gone(s, d) == d \notin content /\ Goto(s, "drop") /\ UNCHANGED <<store, local>>

layer_get(s) ==
  /\ pc[s] = "layer_get"
  /\ Get(s, Layer(s), "layer_update") \/ Gone(s, Layer(s))

(* The label without the reference for the collector. *)
Mut_layer_update(s) ==
  /\ pc[s] = "layer_update"
  /\ Layer(s) \in content
  /\ cache' = [cache EXCEPT ![Layer(s)] = [info[s].cache EXCEPT ![Label(s)] = Code(s)]]
  /\ Goto(s, "image_get")
  /\ UNCHANGED <<images, content, ref, leases, local>>

layer_update(s) ==
  /\ pc[s] = "layer_update"
  /\ \/ Update(s, Layer(s), Code(s), "image_get") /\ UNCHANGED out
     \/ Gone(s, Layer(s))

image_get(s) ==
  /\ pc[s] = "image_get"
  /\ Get(s, img[s], "image_update") \/ Gone(s, img[s])

image_update(s) ==
  /\ pc[s] = "image_update"
  /\ \/ /\ Update(s, img[s], Flag, "release")
        /\ out' = [out EXCEPT ![s] = Append(@, Code(s))]
     \/ Gone(s, img[s])

(* The guard deletes the lease, or the request fails and the lease stays.  *)
Delete(s) ==
  \/ leases' = [leases EXCEPT ![Label(s)] = None]
  \/ "rpc" \in Faults /\ leases' = [leases EXCEPT ![Label(s)].stale = TRUE]

release(s) ==
  /\ pc[s] = "release"
  /\ Delete(s)
  /\ idx' = [idx EXCEPT ![s] = @ + 1]
  /\ Goto(s, "next")
  /\ UNCHANGED <<images, content, cache, ref, img, needs, layers, compiled, info, out>>

(* An error forgets the lease. *)
Mut_drop(s) == pc[s] = "drop" /\ Fail(s)

drop(s) ==
  /\ pc[s] = "drop"
  /\ Delete(s)
  /\ Forget(s, "err", <<>>)

-----------------------------------------------------------------------------
(* The shim is killed: what it did in containerd stays. *)
crash(s) ==
  /\ "crash" \in Faults
  /\ pc[s] \notin {"idle", "ok", "err", "dead"}
  /\ Forget(s, "dead", <<>>)
  /\ leases' = [e \in Engines |->
                  IF leases[e] # None /\ leases[e].owner = s
                  THEN [leases[e] EXCEPT !.stale = TRUE] ELSE leases[e]]

(* 24 hours pass.  A load does not take that long. *)
expire(e) ==
  /\ leases[e] # None /\ leases[e].stale
  /\ leases' = [leases EXCEPT ![e] = None]
  /\ UNCHANGED <<images, content, cache, ref, pc, local>>

(* What the collector finds from the images and from the leases. *)
ImageContent == images \cup UNION {{LayersOf[i][k] : k \in 1 .. Len(LayersOf[i])} : i \in images}
Reachable ==
  ImageContent
    \cup {ref[d][n] : d \in ImageContent \cap content, n \in Indices}
    \cup UNION {leases[e].holds : e \in {f \in Engines : leases[f] # None}}

collect ==
  /\ "collect" \in Faults
  /\ ~ content \subseteq Reachable
  /\ content' = content \cap Reachable
  /\ cache' = [d \in Images \cup Layers |->
                 IF d \in Reachable THEN cache[d] ELSE NoLabels.cache]
  /\ ref' = [d \in Images \cup Layers |-> IF d \in Reachable THEN ref[d] ELSE NoLabels.ref]
  /\ UNCHANGED <<images, leases, pc, local>>

remove_image(i) ==
  /\ "churn" \in Faults /\ i \in images
  /\ images' = images \ {i}
  /\ UNCHANGED <<content, cache, ref, leases, pc, local>>

pull(i) ==
  /\ "churn" \in Faults /\ i \notin images
  /\ images' = images \cup {i}
  /\ content' = content \cup {i} \cup {LayersOf[i][k] : k \in 1 .. Len(LayersOf[i])}
  /\ UNCHANGED <<cache, ref, leases, pc, local>>

step(s) ==
  \/ read_manifest(s) \/ image_info(s) \/ layer_info(s) \/ read_cached(s)
  \/ read_original_layer(s) \/ compile(s) \/ next_layer(s) \/ lease(s) \/ write(s)
  \/ layer_get(s) \/ layer_update(s) \/ image_get(s) \/ image_update(s)
  \/ release(s) \/ drop(s)

Next ==
  \/ \E s \in Shims : step(s) \/ rpc_error(s) \/ crash(s) \/ \E i \in Images : load_modules(s, i)
  \/ \E e \in Engines : expire(e)
  \/ \E i \in Images : remove_image(i) \/ pull(i)
  \/ collect

Spec == Init /\ [][Next]_vars

-----------------------------------------------------------------------------
(***************************************************************************)
(* "a precompiled component/module will not work across different runtimes *)
(* or versions" (client.rs:414): a load that succeeds yields one code per  *)
(* wasm layer, in order, each the layer itself or what the engine of this  *)
(* shim compiled from it, whatever other shims, crashes and the collector  *)
(* do to the labels in between.                                            *)
(***************************************************************************)
RightCode ==
  \A s \in Shims :
    pc[s] = "ok" /\ img[s] \in WasmImages =>
      /\ Len(out[s]) = Len(configs(img[s]))
      /\ \A k \in 1 .. Len(out[s]) :
           out[s][k] \in {configs(img[s])[k], <<configs(img[s])[k], EngineOf[s]>>}

(***************************************************************************)
(* The lease keeps compiled content from the moment it is written until    *)
(* the labels of the layer and of the image refer to it (client.rs:513).   *)
(***************************************************************************)
SavedIsKept == \A s \in Shims : pc[s] \in Saved => Code(s) \in content

(***************************************************************************)
(* "a guard that will delete the lease when dropped" (client.rs:123): no   *)
(* lease outlives the load that made it, unless that load was killed or    *)
(* containerd refused to delete the lease.                                 *)
(***************************************************************************)
LeaseReleased ==
  \A e \in Engines :
    leases[e] # None /\ ~leases[e].stale =>
      pc[leases[e].owner] \in Guarded /\ Label(leases[e].owner) = e

(***************************************************************************)
(* "so it doesn't get cleaned up as long as the original layer exists"     *)
(* (client.rs:502): the label of a layer names content that is there.      *)
(***************************************************************************)
LabelledIsKept ==
  \A l \in Layers, e \in Engines :
    l \in content /\ cache[l][e] # None => cache[l][e] \in content

(***************************************************************************)
(* "precompile --> storecache --> startcontainer" (oci-decision-flow.md):  *)
(* while nothing fails, a load of a wasm image does not end in an error.   *)
(***************************************************************************)
LoadSucceeds == \A s \in Shims : pc[s] # "err"

=============================================================================
