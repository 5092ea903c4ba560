------------------------ MODULE OciTarBuilder_proofs ------------------------
(***************************************************************************)
(* The images of oci-tar-builder, for any command lines, files and number  *)
(* of runs: what is left is a whole image or nothing, it has what was      *)
(* asked for, its config tells it from the others, and its modules get to  *)
(* the shim.                                                               *)
(***************************************************************************)
EXTENDS OciTarBuilder, FiniteSetTheorems, SequenceTheorems, TLAPS

(* The command lines that the parser of the program makes. *)
LinesAssumption ==
  /\ \A a \in ArgSets :
       /\ a.as_artifact \in BOOLEAN
       /\ a.module \in Seq(Paths) /\ a.layer \in Seq(Paths)
       /\ \A c \in a.components : c.path \in Paths /\ c.wasm \in BOOLEAN
  /\ Contents # {} /\ MaxRuns \in Nat \ {0}

(* Components are a directory, of which no artifact can be made. *)
ArtifactAssumption == \A a \in ArgSets : a.as_artifact => a.components = {}

(* The type of the other layers is not one that the shim runs. *)
TypeAssumption == ~is_wasm_layer(OtherType)

Collecting == {"main", "artifact", "image", "create"}
Packing == {"digest", "metadata", "append", "finish"}
MediaTypes == {WASM_LAYER_MEDIA_TYPE, "application/wasm", OtherType}
OneInput == (args.module = <<>>) # (args.components = {})

BuildTypes ==
  /\ file \in [Paths -> Contents]
  /\ args \in ArgSets /\ todo \subseteq args.components
  /\ pc \in Collecting \cup Packing \cup {"remove", "exit", "panic"}
  /\ runs \in 1 .. MaxRuns
  /\ layers \in Seq([path : Paths, type : MediaTypes])
  /\ unique \in Seq(Contents) /\ Len(unique) = Len(layers)
  /\ idx \in 1 .. Len(layers) + 1
  /\ dgst \in Contents
  /\ layer_digests \in Seq([digest : Contents, type : MediaTypes])
  /\ out \in {"absent", "partial", "complete"}

(* Where the program is, and what it has of the output. *)
OutInv ==
  /\ pc \in Collecting =>
       out = "absent" /\ idx = 1 /\ layer_digests = <<>>
  /\ pc = "main" => layers = <<>> /\ unique = <<>>
  /\ pc = "artifact" => args.as_artifact
  /\ pc = "image" => ~args.as_artifact
  /\ pc \in Packing \cup {"remove"} => out = "partial"
  /\ out = "complete" => pc = "exit" /\ idx = Len(layers) + 1
  /\ pc = "exit" => out # "partial"
  /\ pc \in {"metadata", "append"} => idx <= Len(layers)
  /\ pc = "finish" => idx = Len(layers) + 1
  /\ pc \notin {"main", "exit", "panic"} \/ out = "complete" => OneInput

(* What the manifest names, or will name, is in the tar. *)
Named == {layer_digests[k].digest : k \in DOMAIN layer_digests}
TarInv ==
  /\ pc \in {"digest", "metadata"} => Named \subseteq tar
  /\ pc = "append" => Named \subseteq tar \cup {dgst}
  /\ pc = "finish" => Named \cup {"config", "manifest"} \subseteq tar
  /\ out = "complete" =>
       Named \cup {"config", "manifest", "index.json", "oci-layout", "manifest.json"}
         \subseteq tar

(* A run without a failed operation ends with an image if it had input. *)
HonourInv ==
  /\ pc = "remove" => failed
  /\ pc = "panic" => failed
  /\ pc = "exit" /\ ~failed /\ OneInput => out = "complete"

(* The first n contents of u, without repetition and in the order of their *)
(* first places: the k-th has k - 1 different contents before it.          *)
Values(u, n) == {u[j] : j \in 1 .. n}
FirstAt(u, p, c) == u[p] = c /\ \A j \in 1 .. p - 1 : u[j] # c
Listed(digests, u, n) ==
  /\ n \in Nat /\ DOMAIN digests \subseteq Nat
  /\ \A k \in DOMAIN digests : \E p \in 1 .. n :
       FirstAt(u, p, digests[k].digest) /\ Cardinality(Values(u, p - 1)) = k - 1
  /\ \A p \in 1 .. n : \E k \in DOMAIN digests : digests[k].digest = u[p]

(* Each with the type of its last place. *)
LastAt(u, n, p, c) == u[p] = c /\ \A j \in p + 1 .. n : u[j] # c
Typed(digests, u, ls, n) ==
  \A k \in DOMAIN digests : \E p \in 1 .. n :
    LastAt(u, n, p, digests[k].digest) /\ digests[k].type = ls[p].type

(* The layers that are in layer_digests. *)
Packed == IF pc = "append" THEN idx ELSE idx - 1
HasLayers == pc \in Packing \/ out = "complete"

(* As long as no file is rewritten, the digests are those of the config. *)
DigestInv ==
  /\ \A k \in 1 .. Len(unique) : unique[k] = file[layers[k].path]
  /\ pc \in {"metadata", "append"} => dgst = unique[idx]
  /\ HasLayers =>
       /\ Listed(layer_digests, unique, Packed)
       /\ Cardinality(Values(unique, Packed)) = Len(layer_digests)
       /\ Typed(layer_digests, unique, layers, Packed)
  /\ \A i \in images : Listed(i.layers, i.config.layers, Len(i.config.layers))

(* An image has the modules, then the other layers, then the components. *)
OtherPlaces == Len(args.module) + 1 .. Len(args.module) + Len(args.layer)
PlaceInv ==
  ~args.as_artifact =>
    \A p \in 1 .. Len(layers) :
      layers[p].type = IF p \in OtherPlaces THEN OtherType ELSE WASM_LAYER_MEDIA_TYPE
-----------------------------------------------------------------------------
(* OciTarBuilder: its operators.                                           *)

Layer == [path : Paths, type : MediaTypes]
Digested == [digest : Contents, type : MediaTypes]

(* The fields of a layer. *)
LEMMA LayerFacts ==
  ASSUME BuildTypes
  PROVE  /\ DOMAIN layers = 1 .. Len(layers) /\ Len(layers) \in Nat
         /\ \A k \in 1 .. Len(layers) : layers[k].path \in Paths /\ layers[k].type \in MediaTypes
<1>1. layers \in Seq(Layer)
  BY DEF BuildTypes, Layer
<1>2. DOMAIN layers = 1 .. Len(layers) /\ Len(layers) \in Nat
  BY <1>1
<1>3. ASSUME NEW k \in 1 .. Len(layers)
      PROVE  layers[k].path \in Paths /\ layers[k].type \in MediaTypes
  <2>1. layers[k] \in Layer
    BY <1>1, <1>3, ElementOfSeq
  <2> QED
    BY <2>1 DEF Layer
<1> QED
  BY <1>2, <1>3

(* The entries of a map, after an insert: the new value at the place of    *)
(* its key or at the end, and the other entries as they were.              *)
Inserted(m, map, d, type) ==
  /\ m \in Seq(Digested) /\ DOMAIN m = 1 .. Len(m)
  /\ DOMAIN map = 1 .. Len(map) /\ Len(map) \in Nat
  /\ {m[k].digest : k \in 1 .. Len(m)} = {map[k].digest : k \in 1 .. Len(map)} \cup {d}
  /\ \/ /\ \E k \in 1 .. Len(map) : map[k].digest = d
        /\ Len(m) = Len(map)
        /\ \A k \in 1 .. Len(map) :
             /\ m[k].digest = map[k].digest
             /\ m[k].type = IF map[k].digest = d THEN type ELSE map[k].type
     \/ /\ \A k \in 1 .. Len(map) : map[k].digest # d /\ m[k] = map[k]
        /\ Len(m) = Len(map) + 1
        /\ m[Len(map) + 1].digest = d /\ m[Len(map) + 1].type = type

(* IndexMap::insert does that. *)
LEMMA InsertFacts ==
  ASSUME NEW map \in Seq(Digested), NEW d \in Contents, NEW type \in MediaTypes
  PROVE  Inserted(insert(map, d, type), map, d, type)
<1> DEFINE e == [digest |-> d, type |-> type]
           r == [k \in 1 .. Len(map) |-> IF map[k].digest = d THEN e ELSE map[k]]
           m == insert(map, d, type)
<1>1. DOMAIN map = 1 .. Len(map) /\ Len(map) \in Nat /\ e \in Digested
  BY DEF Digested
<1>2. m = IF \E k \in 1 .. Len(map) : map[k].digest = d THEN r ELSE Append(map, e)
  BY <1>1 DEF insert
<1> HIDE DEF m
<1>3. CASE \E k \in 1 .. Len(map) : map[k].digest = d
  <2>1. r \in [1 .. Len(map) -> Digested]
    BY <1>1
  <2>2. r \in Seq(Digested) /\ Len(r) = Len(map) /\ DOMAIN r = 1 .. Len(map)
    BY <1>1, <2>1
  <2>3. \A k \in 1 .. Len(map) :
          r[k].digest = map[k].digest /\ r[k].type = IF map[k].digest = d THEN type ELSE map[k].type
    OBVIOUS
  <2> HIDE DEF r
  <2>4. m = r
    BY <1>2, <1>3
  <2>5. {r[k].digest : k \in 1 .. Len(map)} = {map[k].digest : k \in 1 .. Len(map)} \cup {d}
    BY <1>3, <2>3
  <2>6. Inserted(r, map, d, type)
    BY <1>1, <1>3, <2>2, <2>3, <2>5 DEF Inserted
  <2> QED
    BY <2>4, <2>6 DEF m
<1>4. CASE ~(\E k \in 1 .. Len(map) : map[k].digest = d)
  <2>1. m = Append(map, e)
    BY <1>2, <1>4
  <2>2. e.digest = d /\ e.type = type
    OBVIOUS
  <2> HIDE DEF e
  <2>3. /\ m \in Seq(Digested) /\ Len(m) = Len(map) + 1
        /\ \A k \in 1 .. Len(map) : m[k] = map[k]
        /\ m[Len(map) + 1] = e
    BY <1>1, <2>1, AppendProperties
  <2>4. DOMAIN m = 1 .. Len(m) /\ 1 .. Len(m) = 1 .. Len(map) \cup {Len(map) + 1}
    BY <1>1, <2>3
  <2>5. {m[k].digest : k \in 1 .. Len(m)} = {map[k].digest : k \in 1 .. Len(map)} \cup {d}
    BY <2>2, <2>3, <2>4
  <2>6. Inserted(m, map, d, type)
    BY <1>1, <1>4, <2>2, <2>3, <2>4, <2>5 DEF Inserted
  <2> QED
    BY <2>6 DEF m
<1> QED
  BY <1>3, <1>4

(* A push adds a layer, and the content that its file has now. *)
LEMMA PushFacts ==
  ASSUME BuildTypes, NEW path \in Paths, NEW type \in MediaTypes, Push(path, type)
  PROVE  /\ layers' \in Seq(Layer) /\ Len(layers') = Len(layers) + 1
         /\ \A k \in 1 .. Len(layers) : layers'[k] = layers[k]
         /\ layers'[Len(layers) + 1] = [path |-> path, type |-> type]
         /\ unique' \in Seq(Contents) /\ Len(unique') = Len(unique) + 1
         /\ \A k \in 1 .. Len(unique) : unique'[k] = unique[k]
         /\ unique'[Len(unique) + 1] = file[path]
         /\ UNCHANGED <<file, args, pc, runs, idx, dgst, layer_digests, tar,
                        failed, out, images>>
<1>1. layers \in Seq(Layer) /\ [path |-> path, type |-> type] \in Layer
  BY DEF BuildTypes, Layer
<1>2. unique \in Seq(Contents) /\ file[path] \in Contents
  BY DEF BuildTypes
<1>3. /\ layers' = Append(layers, [path |-> path, type |-> type])
      /\ unique' = Append(unique, file[path])
      /\ UNCHANGED <<file, args, pc, runs, idx, dgst, layer_digests, tar, failed,
                     out, images>>
  BY DEF Push
<1>4. /\ layers' \in Seq(Layer) /\ Len(layers') = Len(layers) + 1
      /\ \A k \in 1 .. Len(layers) : layers'[k] = layers[k]
      /\ layers'[Len(layers) + 1] = [path |-> path, type |-> type]
  BY <1>1, <1>3
<1>5. /\ unique' \in Seq(Contents) /\ Len(unique') = Len(unique) + 1
      /\ \A k \in 1 .. Len(unique) : unique'[k] = unique[k]
      /\ unique'[Len(unique) + 1] = file[path]
  BY <1>2, <1>3
<1> QED
  BY <1>3, <1>4, <1>5

(* What a step that collects layers may push: the next module, the next    *)
(* other layer, or a component, each at its place.                         *)
LEMMA PushedFacts ==
  ASSUME LinesAssumption, BuildTypes,
         add_module \/ add_layer \/ add_component
  PROVE  \/ Fails("panic")
         \/ /\ \E c \in todo : todo' = todo \ {c}
            /\ UNCHANGED <<file, args, pc, runs, layers, unique, idx, dgst,
                           layer_digests, tar, failed, out, images>>
         \/ /\ \E path \in Paths, type \in {WASM_LAYER_MEDIA_TYPE, OtherType} :
                 /\ Push(path, type)
                 /\ type = IF Len(layers) + 1 \in OtherPlaces THEN OtherType
                           ELSE WASM_LAYER_MEDIA_TYPE
            /\ todo' \subseteq todo
<1>1. /\ args.module \in Seq(Paths) /\ args.layer \in Seq(Paths)
      /\ Len(args.module) \in Nat /\ Len(args.layer) \in Nat
      /\ \A c \in todo : c.path \in Paths /\ c.wasm \in BOOLEAN
  BY LenProperties DEF LinesAssumption, BuildTypes
<1>2. PICK M \in Nat, L \in Nat, n \in Nat :
        Len(args.module) = M /\ Len(args.layer) = L /\ Len(layers) = n
  BY <1>1 DEF BuildTypes
<1>3. \A k \in 1 .. M : args.module[k] \in Paths
  BY <1>1, <1>2, ElementOfSeq
<1>4. \A k \in 1 .. L : args.layer[k] \in Paths
  BY <1>1, <1>2, ElementOfSeq
<1>5. OtherPlaces = M + 1 .. M + L
  BY <1>2 DEF OtherPlaces
<1>6. CASE add_module
  <2>1. /\ n < M
        /\ \/ Push(args.module[n + 1], WASM_LAYER_MEDIA_TYPE) /\ todo' = todo
           \/ Fails("panic")
    BY <1>2, <1>6 DEF add_module
  <2>2. n + 1 \in 1 .. M /\ n + 1 \notin OtherPlaces
    BY <1>5, <2>1
  <2> QED
    BY <1>2, <1>3, <2>1, <2>2
<1>7. CASE add_layer
  <2> DEFINE k == n - M + 1
  <2>1. /\ k \in 1 .. L
        /\ \/ Push(args.layer[k], OtherType) /\ todo' = todo
           \/ Fails("panic")
    BY <1>2, <1>7 DEF add_layer
  <2>2. n + 1 \in OtherPlaces
    BY <1>5, <2>1
  <2> QED
    BY <1>2, <1>4, <2>1, <2>2
<1>8. CASE add_component
  <2>1. n >= M + L
    BY <1>2, <1>8 DEF add_component
  <2>2. n + 1 \notin OtherPlaces
    BY <1>5, <2>1
  <2>3. PICK c \in todo :
          \/ Push(c.path, WASM_LAYER_MEDIA_TYPE) /\ todo' = todo \ {c}
          \/ Fails("panic")
          \/ /\ todo' = todo \ {c}
             /\ UNCHANGED <<file, args, pc, runs, layers, unique, idx, dgst,
                            layer_digests, tar, failed, out, images>>
    BY <1>8 DEF add_component
  <2>4. c.path \in Paths
    BY <1>1
  <2> QED
    BY <1>2, <2>2, <2>3, <2>4
<1> QED
  BY <1>6, <1>7, <1>8
-----------------------------------------------------------------------------
(* OciTarBuilder: where a run is, and what is in the tar.                  *)

BuildInv == BuildTypes /\ OutInv /\ TarInv

(* A failed operation leaves the state, and goes to its error path. *)
LEMMA FailsKeeps ==
  ASSUME BuildInv, NEW l \in {"panic", "remove"}, Fails(l),
         pc \in Collecting \cup Packing \cup {"remove"},
         l = "remove" => pc \in Packing
  PROVE  BuildInv'
<1>1. /\ pc' = l
      /\ UNCHANGED <<file, args, runs, todo, layers, unique, idx, dgst, layer_digests,
                     tar, out, images, Named, OneInput>>
  BY DEF Fails, Named, OneInput
<1> USE DEF Collecting, Packing
<1>2. BuildTypes'
  BY <1>1 DEF BuildInv, BuildTypes
<1>3. OutInv' /\ TarInv'
  BY <1>1 DEF BuildInv, OutInv, TarInv
<1> QED
  BY <1>2, <1>3 DEF BuildInv

(* A step that only moves on. *)
LEMMA MoveKeeps ==
  ASSUME BuildInv,
         \/ main \/ add_config
         \/ create /\ ~Fails("panic")
         \/ manifest /\ ~Fails("remove")
         \/ finish /\ ~Fails("remove")
         \/ remove_file /\ ~Fails("panic")
         \/ change_file
  PROVE  BuildInv'
<1>1. UNCHANGED <<args, runs, todo, layers, unique, idx, dgst, layer_digests, Named, OneInput>>
  <2>1. UNCHANGED <<args, runs, todo, layers, unique, idx, dgst, layer_digests>>
    BY DEF main, add_config, create, manifest, finish,
           remove_file, change_file, run_vars
  <2> QED
    BY <2>1 DEF Named, OneInput
<1> USE DEF Collecting, Packing
<1>2. CASE main
  <2>1. /\ pc = "main" /\ UNCHANGED <<file, tar, out>>
        /\ \/ pc' = "exit"
           \/ pc' = "artifact" /\ args.as_artifact /\ OneInput
           \/ pc' = "image" /\ ~args.as_artifact /\ OneInput
    BY <1>2 DEF main, run_vars, OneInput
  <2>2. BuildTypes'
    BY <1>1, <2>1 DEF BuildInv, BuildTypes
  <2>3. OutInv' /\ TarInv'
    BY <1>1, <2>1 DEF BuildInv, OutInv, TarInv
  <2> QED
    BY <2>2, <2>3 DEF BuildInv
<1>3. CASE add_config \/ (create /\ ~Fails("panic"))
  <2>1. /\ UNCHANGED <<file, tar>>
        /\ \/ pc = "image" /\ pc' = "create" /\ out' = out
           \/ pc = "create" /\ pc' = "digest" /\ out' = "partial"
    BY <1>3 DEF add_config, create, run_vars
  <2>2. BuildTypes'
    BY <1>1, <2>1 DEF BuildInv, BuildTypes
  <2>3. OutInv'
    BY <1>1, <2>1 DEF BuildInv, OutInv
  <2>4. TarInv'
    <3>1. Named = {}
      BY <2>1 DEF BuildInv, OutInv, Named
    <3> QED
      BY <1>1, <2>1, <2>3, <3>1 DEF TarInv, OutInv
  <2> QED
    BY <2>2, <2>3, <2>4 DEF BuildInv
<1>4. CASE manifest /\ ~Fails("remove")
  <2>1. /\ pc = "digest" /\ idx > Len(layers) /\ pc' = "finish"
        /\ tar' = tar \cup {"config", "manifest"} /\ UNCHANGED <<file, out>>
    BY <1>4 DEF manifest
  <2>2. BuildTypes'
    BY <1>1, <2>1 DEF BuildInv, BuildTypes
  <2>3. idx = Len(layers) + 1
    BY <2>1 DEF BuildInv, BuildTypes
  <2>4. OutInv' /\ TarInv'
    BY <1>1, <2>1, <2>3 DEF BuildInv, OutInv, TarInv
  <2> QED
    BY <2>2, <2>4 DEF BuildInv
<1>5. CASE finish /\ ~Fails("remove")
  <2>1. /\ pc = "finish" /\ pc' = "exit" /\ out' = "complete" /\ file' = file
        /\ tar' = tar \cup {"index.json", "oci-layout", "manifest.json"}
    BY <1>5 DEF finish
  <2>2. BuildTypes'
    BY <1>1, <2>1 DEF BuildInv, BuildTypes
  <2>3. OutInv' /\ TarInv'
    BY <1>1, <2>1 DEF BuildInv, OutInv, TarInv
  <2> QED
    BY <2>2, <2>3 DEF BuildInv
<1>6. CASE remove_file /\ ~Fails("panic")
  <2>1. pc = "remove" /\ pc' = "exit" /\ out' = "absent" /\ UNCHANGED <<file, tar>>
    BY <1>6 DEF remove_file, run_vars
  <2>2. BuildTypes'
    BY <1>1, <2>1 DEF BuildInv, BuildTypes
  <2>3. OutInv' /\ TarInv'
    BY <1>1, <2>1 DEF BuildInv, OutInv, TarInv
  <2> QED
    BY <2>2, <2>3 DEF BuildInv
<1>7. CASE change_file
  <2>1. UNCHANGED <<pc, tar, out>> /\ file' \in [Paths -> Contents]
    BY <1>7 DEF change_file, run_vars, BuildInv, BuildTypes
  <2>2. BuildTypes'
    BY <1>1, <2>1 DEF BuildInv, BuildTypes
  <2>3. OutInv' /\ TarInv'
    BY <1>1, <2>1 DEF BuildInv, OutInv, TarInv
  <2> QED
    BY <2>2, <2>3 DEF BuildInv
<1> QED
  BY <1>2, <1>3, <1>4, <1>5, <1>6, <1>7

(* The artifact has the first module as its only layer. *)
LEMMA ArtifactFacts ==
  ASSUME LinesAssumption, BuildInv, generate_wasm_artifact,
         ~Fails("panic"), args.components = {}
  PROVE  /\ pc = "artifact" /\ pc' = "create" /\ args.as_artifact
         /\ UNCHANGED <<file, args, runs, todo, idx, dgst, layer_digests, tar, failed,
                        out, images>>
         /\ layers' \in Seq(Layer) /\ unique' \in Seq(Contents)
         /\ Len(layers') = 1 /\ Len(unique') = 1 /\ unique'[1] = file[layers'[1].path]
<1>1. /\ pc = "artifact" /\ pc' = "create"
      /\ layers' = <<[path |-> args.module[1], type |-> "application/wasm"]>>
      /\ unique' = <<file[args.module[1]]>>
      /\ UNCHANGED <<file, args, runs, todo, idx, dgst, layer_digests, tar, failed,
                     out, images>>
  BY DEF generate_wasm_artifact
<1>2. args.as_artifact /\ args.module # <<>>
  BY <1>1 DEF BuildInv, OutInv, OneInput
<1>3. args.module \in Seq(Paths)
  BY DEF LinesAssumption, BuildInv, BuildTypes
<1>4. args.module[1] \in Paths
  <2>1. Len(args.module) \in Nat \ {0}
    BY <1>2, <1>3, EmptySeq
  <2>2. 1 \in 1 .. Len(args.module)
    BY <2>1
  <2> QED
    BY <1>3, <2>2, ElementOfSeq
<1>5. [path |-> args.module[1], type |-> "application/wasm"] \in Layer
  BY <1>4 DEF Layer, MediaTypes
<1>6. file[args.module[1]] \in Contents
  BY <1>4 DEF BuildInv, BuildTypes
<1> QED
  BY <1>1, <1>2, <1>5, <1>6

(* The start of a run, and what it collects. *)
LEMMA CollectKeeps ==
  ASSUME LinesAssumption, BuildInv,
         \/ generate_wasm_artifact
         \/ add_module \/ add_layer \/ add_component
  PROVE  BuildInv'
<1> USE DEF Collecting, Packing
<1>1. pc \in {"artifact", "image"}
  BY DEF generate_wasm_artifact, add_module, add_layer,
         add_component
<1>2. CASE Fails("panic")
  BY <1>1, <1>2, FailsKeeps
<1>3. CASE generate_wasm_artifact /\ args.components # {}
  <2>1. /\ pc = "artifact" /\ pc' = "panic"
        /\ UNCHANGED <<file, args, runs, todo, layers, unique, idx, dgst, layer_digests,
                       tar, out, images, Named, OneInput>>
    BY <1>3 DEF generate_wasm_artifact, run_vars, Named, OneInput
  <2>2. BuildTypes'
    BY <2>1 DEF BuildInv, BuildTypes
  <2>3. OutInv' /\ TarInv'
    BY <2>1 DEF BuildInv, OutInv, TarInv
  <2> QED
    BY <2>2, <2>3 DEF BuildInv
<1>4. CASE generate_wasm_artifact /\ args.components = {} /\ ~Fails("panic")
  <2>1. /\ pc = "artifact" /\ pc' = "create" /\ args.as_artifact
        /\ UNCHANGED <<file, args, runs, todo, idx, dgst, layer_digests, tar, out, images>>
        /\ layers' \in Seq(Layer) /\ unique' \in Seq(Contents)
        /\ Len(layers') = 1 /\ Len(unique') = 1
    BY <1>4, ArtifactFacts
  <2>2. UNCHANGED <<Named, OneInput>>
    BY <2>1 DEF Named, OneInput
  <2>3. idx = 1
    BY <2>1 DEF BuildInv, OutInv
  <2>4. BuildTypes'
    BY <2>1, <2>3 DEF BuildInv, BuildTypes, Layer
  <2>5. OutInv' /\ TarInv'
    BY <2>1, <2>2 DEF BuildInv, OutInv, TarInv
  <2> QED
    BY <2>4, <2>5 DEF BuildInv
<1>5. CASE /\ add_module \/ add_layer \/ add_component
           /\ ~Fails("panic")
  <2>1. pc = "image" /\ BuildTypes
    BY <1>5 DEF add_module, add_layer, add_component, BuildInv
  <2>2. CASE /\ \E c \in todo : todo' = todo \ {c}
             /\ UNCHANGED <<file, args, pc, runs, layers, unique, idx, dgst,
                            layer_digests, tar, failed, out, images>>
    <3>1. BuildTypes'
      BY <2>1, <2>2 DEF BuildTypes
    <3>2. UNCHANGED <<Named, OneInput>>
      BY <2>2 DEF Named, OneInput
    <3>3. OutInv' /\ TarInv'
      BY <2>2, <3>2 DEF BuildInv, OutInv, TarInv
    <3> QED
      BY <3>1, <3>3 DEF BuildInv
  <2>3. ASSUME NEW path \in Paths, NEW type \in {WASM_LAYER_MEDIA_TYPE, OtherType},
               Push(path, type), todo' \subseteq todo
        PROVE  BuildInv'
    <3>1. type \in MediaTypes
      BY <2>3 DEF MediaTypes
    <3>2. /\ layers' \in Seq(Layer) /\ Len(layers') = Len(layers) + 1
          /\ unique' \in Seq(Contents) /\ Len(unique') = Len(unique) + 1
          /\ UNCHANGED <<file, args, pc, runs, idx, dgst, layer_digests, tar, out, images>>
      BY <2>1, <2>3, <3>1, PushFacts
    <3>3. Len(layers) \in Nat
      BY <2>1 DEF BuildTypes
    <3>4. BuildTypes'
      BY <2>1, <2>3, <3>2, <3>3 DEF BuildTypes, Layer
    <3>5. UNCHANGED <<Named, OneInput>>
      BY <3>2 DEF Named, OneInput
    <3>6. OutInv' /\ TarInv'
      BY <2>1, <3>2, <3>5 DEF BuildInv, OutInv, TarInv
    <3> QED
      BY <3>4, <3>6 DEF BuildInv
  <2> QED
    BY <1>5, <2>1, <2>2, <2>3, PushedFacts
<1> QED
  BY <1>2, <1>3, <1>4, <1>5

(* What a layer's metadata adds to the manifest. *)
LEMMA MetadataFacts ==
  ASSUME BuildInv, metadata, ~Fails("remove")
  PROVE  /\ pc = "metadata" /\ pc' = "append" /\ idx \in 1 .. Len(layers)
         /\ Inserted(layer_digests', layer_digests, dgst, layers[idx].type)
         /\ layer_digests' \in Seq(Digested) /\ Named' = Named \cup {dgst}
         /\ UNCHANGED <<file, args, runs, todo, layers, unique, idx, dgst, tar, failed,
                        out, images>>
<1>1. /\ pc = "metadata" /\ pc' = "append" /\ idx <= Len(layers)
      /\ layer_digests' = insert(layer_digests, dgst, layers[idx].type)
      /\ UNCHANGED <<file, args, runs, todo, layers, unique, idx, dgst, tar, failed,
                     out, images>>
  BY DEF metadata, build
<1>2. idx \in 1 .. Len(layers)
  BY <1>1 DEF BuildInv, BuildTypes
<1>3. layers[idx].type \in MediaTypes /\ dgst \in Contents /\ layer_digests \in Seq(Digested)
  BY <1>2, LayerFacts DEF BuildInv, BuildTypes, Digested
<1>4. Inserted(layer_digests', layer_digests, dgst, layers[idx].type)
  BY <1>1, <1>3, InsertFacts
<1>5. layer_digests' \in Seq(Digested) /\ Named' = Named \cup {dgst}
  BY <1>4 DEF Inserted, Named
<1> QED
  BY <1>1, <1>2, <1>4, <1>5

(* Builder::build keeps the invariant. *)
LEMMA PackKeeps ==
  ASSUME BuildInv,
         \/ try_digest \/ metadata \/ append
  PROVE  BuildInv'
<1> USE DEF Collecting, Packing
<1>1. pc \in Packing
  BY DEF try_digest, metadata, append, build
<1>2. CASE Fails("remove")
  BY <1>1, <1>2, FailsKeeps
<1>3. CASE try_digest /\ ~Fails("remove")
  <2>1. /\ pc = "digest" /\ pc' = "metadata" /\ idx <= Len(layers)
        /\ dgst' = file[layers[idx].path]
        /\ UNCHANGED <<file, args, runs, todo, layers, unique, idx, layer_digests, tar, out,
                       images, Named, OneInput>>
    BY <1>3 DEF try_digest, build, Named, OneInput
  <2>2. idx \in 1 .. Len(layers)
    BY <2>1 DEF BuildInv, BuildTypes
  <2>3. dgst' \in Contents
    BY <2>1, <2>2, LayerFacts DEF BuildInv, BuildTypes
  <2>4. BuildTypes'
    BY <2>1, <2>3 DEF BuildInv, BuildTypes
  <2>5. OutInv' /\ TarInv'
    BY <2>1 DEF BuildInv, OutInv, TarInv
  <2> QED
    BY <2>4, <2>5 DEF BuildInv
<1>4. CASE metadata /\ ~Fails("remove")
  <2>1. /\ pc = "metadata" /\ pc' = "append" /\ idx \in 1 .. Len(layers)
        /\ layer_digests' \in Seq(Digested) /\ Named' = Named \cup {dgst}
        /\ UNCHANGED <<file, args, runs, todo, layers, unique, idx, dgst, tar, out, images>>
    BY <1>4, MetadataFacts
  <2>2. BuildTypes'
    BY <2>1 DEF BuildInv, BuildTypes, Digested
  <2>3. OneInput' = OneInput
    BY <2>1 DEF OneInput
  <2>4. OutInv' /\ TarInv'
    BY <2>1, <2>3 DEF BuildInv, OutInv, TarInv
  <2> QED
    BY <2>2, <2>4 DEF BuildInv
<1>5. CASE append /\ ~Fails("remove")
  <2>1. /\ pc = "append" /\ pc' = "digest" /\ idx <= Len(layers)
        /\ tar' = tar \cup {dgst} /\ idx' = idx + 1
        /\ UNCHANGED <<file, args, runs, todo, layers, unique, dgst, layer_digests, out,
                       images, Named, OneInput>>
    BY <1>5 DEF append, build, Named, OneInput
  <2>2. idx' \in 1 .. Len(layers) + 1
    BY <2>1 DEF BuildInv, BuildTypes
  <2>3. BuildTypes'
    BY <2>1, <2>2 DEF BuildInv, BuildTypes
  <2>4. OutInv' /\ TarInv'
    BY <2>1 DEF BuildInv, OutInv, TarInv
  <2> QED
    BY <2>3, <2>4 DEF BuildInv
<1> QED
  BY <1>2, <1>3, <1>4, <1>5

(* The next run begins as the first one. *)
LEMMA AgainKeeps ==
  ASSUME LinesAssumption, BuildInv, again
  PROVE  BuildInv'
<1>1. /\ pc' = "main" /\ out' = "absent" /\ todo' = args'.components
      /\ layers' = <<>> /\ unique' = <<>> /\ idx' = 1 /\ layer_digests' = <<>>
      /\ runs < MaxRuns /\ runs' = runs + 1 /\ args' \in ArgSets
      /\ file' \in [Paths -> Contents] /\ dgst' = dgst
  BY DEF again, Clear
<1>2. runs' \in 1 .. MaxRuns
  BY <1>1 DEF LinesAssumption, BuildInv, BuildTypes
<1>3. BuildTypes'
  BY <1>1, <1>2 DEF BuildInv, BuildTypes, Collecting
<1>4. OutInv' /\ TarInv'
  BY <1>1 DEF OutInv, TarInv, Collecting, Packing
<1> QED
  BY <1>3, <1>4 DEF BuildInv

(* The first run. *)
LEMMA BuildInit == LinesAssumption /\ Init => BuildInv
<1> SUFFICES ASSUME LinesAssumption, Init PROVE BuildInv
  OBVIOUS
<1>1. dgst \in Contents /\ 1 \in 1 .. MaxRuns
  BY DEF LinesAssumption, Init
<1>2. BuildTypes
  BY <1>1 DEF Init, BuildTypes, Collecting
<1>3. OutInv /\ TarInv
  BY DEF Init, OutInv, TarInv, Collecting, Packing
<1> QED
  BY <1>2, <1>3 DEF BuildInv

(* Every step keeps the invariant. *)
LEMMA BuildNext == LinesAssumption /\ BuildInv /\ [Next]_vars => BuildInv'
<1> SUFFICES ASSUME LinesAssumption, BuildInv, [Next]_vars PROVE BuildInv'
  OBVIOUS
<1>1. CASE UNCHANGED vars
  <2>1. UNCHANGED <<file, args, pc, runs, todo, layers, unique, idx, dgst,
                    layer_digests, tar, out, images, Named, OneInput>>
    BY <1>1 DEF vars, run_vars, Named, OneInput
  <2> QED
    BY <2>1 DEF BuildInv, BuildTypes, OutInv, TarInv
<1>2. CASE \/ main \/ add_config \/ change_file
  BY <1>2, MoveKeeps
<1>3. CASE create \/ remove_file
  <2>1. pc \in Collecting \cup Packing \cup {"remove"}
    BY <1>3 DEF create, remove_file, Collecting
  <2> QED
    BY <1>3, <2>1, MoveKeeps, FailsKeeps
<1>4. CASE manifest \/ finish
  <2>1. pc \in Packing
    BY <1>4 DEF manifest, finish, Packing
  <2> QED
    BY <1>4, <2>1, MoveKeeps, FailsKeeps
<1>5. CASE \/ generate_wasm_artifact
           \/ add_module \/ add_layer \/ add_component
  BY <1>5, CollectKeeps
<1>6. CASE \/ try_digest \/ metadata \/ append
  BY <1>6, PackKeeps
<1>7. CASE again
  BY <1>7, AgainKeeps
<1> QED
  BY <1>1, <1>2, <1>3, <1>4, <1>5, <1>6, <1>7 DEF Next, step

(* The invariant holds in every run. *)
LEMMA BuildInvariance == LinesAssumption => (Spec => []BuildInv)
<1> SUFFICES ASSUME LinesAssumption PROVE Spec => []BuildInv
  OBVIOUS
<1>1. Init => BuildInv
  BY BuildInit
<1>2. BuildInv /\ [Next]_vars => BuildInv'
  BY BuildNext
<1> QED
  BY <1>1, <1>2, PTL DEF Spec

(* The state of the builder has its type. *)
THEOREM BuilderTypeOK == LinesAssumption => (Spec => []TypeOK)
<1> SUFFICES ASSUME LinesAssumption PROVE Spec => []TypeOK
  OBVIOUS
<1>1. Spec => []BuildInv
  BY BuildInvariance
<1>2. BuildInv => TypeOK
  <2> SUFFICES ASSUME BuildInv PROVE TypeOK
    OBVIOUS
  <2>1. \A l \in Range(layers) : l.path \in Paths
    BY LayerFacts DEF BuildInv, Range
  <2> QED
    BY <2>1 DEF BuildInv, BuildTypes, TypeOK, Collecting, Packing
<1> QED
  BY <1>1, <1>2, PTL

(* A run that ends by itself leaves a whole tar or none, and the manifest  *)
(* of a whole one names only what is in it, for every command line, even   *)
(* if files are rewritten while they are packed (Builder::build, and the   *)
(* remove_file of both generate functions).                                *)
THEOREM BuilderTarIsWhole ==
  LinesAssumption =>
    (Spec => []NoPartialTar /\ []ReferencesResolve)
<1> SUFFICES ASSUME LinesAssumption
             PROVE  Spec => []NoPartialTar /\ []ReferencesResolve
  OBVIOUS
<1>1. Spec => []BuildInv
  BY BuildInvariance
<1>2. BuildInv => NoPartialTar
  BY DEF BuildInv, OutInv, NoPartialTar
<1>3. BuildInv => ReferencesResolve
  <2>1. {l.digest : l \in Range(layer_digests)} = Named
    BY DEF Range, Named
  <2> QED
    BY <2>1 DEF BuildInv, OutInv, TarInv, ReferencesResolve
<1> QED
  BY <1>1, <1>2, <1>3, PTL
-----------------------------------------------------------------------------
(* OciTarBuilder: a run without a failed operation.                        *)

(* Only a failed operation, or an artifact of components, ends a run that  *)
(* has input without an image.                                             *)
LEMMA HonourNext ==
  LinesAssumption /\ ArtifactAssumption /\ BuildInv /\ HonourInv /\ [Next]_vars
    => HonourInv'
<1> SUFFICES ASSUME LinesAssumption, ArtifactAssumption, BuildInv, HonourInv,
                    [Next]_vars
             PROVE  HonourInv'
  OBVIOUS
<1>1. ASSUME NEW l \in {"panic", "remove"}, Fails(l) PROVE HonourInv'
  BY <1>1 DEF Fails, HonourInv
<1>2. CASE UNCHANGED vars
  <2>1. UNCHANGED <<pc, failed, OneInput, out>>
    BY <1>2 DEF vars, run_vars, OneInput
  <2> QED
    BY <2>1 DEF HonourInv
<1>3. CASE main
  <2>1. /\ \/ pc' = "exit" /\ ~OneInput
           \/ pc' \in {"artifact", "image"}
        /\ UNCHANGED <<failed, OneInput>>
    BY <1>3 DEF main, run_vars, OneInput
  <2> QED
    BY <2>1 DEF HonourInv
<1>4. CASE generate_wasm_artifact
  <2>1. args.components = {}
    BY <1>4 DEF generate_wasm_artifact, BuildInv, BuildTypes, OutInv, ArtifactAssumption
  <2>2. CASE Fails("panic")
    BY <1>1, <2>2
  <2>3. CASE ~Fails("panic")
    <3>1. pc' = "create"
      BY <1>4, <2>1, <2>3 DEF generate_wasm_artifact
    <3> QED
      BY <3>1 DEF HonourInv
  <2> QED
    BY <2>2, <2>3
<1>5. CASE add_module \/ add_layer \/ add_component
  <2>1. pc = "image" /\ (Fails("panic") \/ pc' = pc)
    BY <1>5 DEF add_module, add_layer, add_component, Push
  <2> QED
    BY <1>1, <2>1 DEF HonourInv
<1>6. CASE add_config \/ create \/ manifest
  <2>1. Fails("panic") \/ Fails("remove")
        \/ pc' \in {"create", "digest", "finish"}
    BY <1>6 DEF add_config, create, manifest
  <2> QED
    BY <1>1, <2>1 DEF HonourInv
<1>7. CASE try_digest \/ metadata \/ append
  <2>1. Fails("remove") \/ pc' \in {"metadata", "append", "digest"}
    BY <1>7 DEF try_digest, metadata, append, build
  <2> QED
    BY <1>1, <2>1 DEF HonourInv
<1>8. CASE finish
  <2>1. Fails("remove") \/ (pc' = "exit" /\ out' = "complete")
    BY <1>8 DEF finish
  <2> QED
    BY <1>1, <2>1 DEF HonourInv
<1>9. CASE remove_file
  <2>1. \/ Fails("panic")
        \/ pc = "remove" /\ pc' = "exit" /\ failed' = failed
    BY <1>9 DEF remove_file, run_vars
  <2> QED
    BY <1>1, <2>1 DEF HonourInv
<1>10. CASE again
  <2>1. pc' = "main"
    BY <1>10 DEF again, Clear
  <2> QED
    BY <2>1 DEF HonourInv
<1>11. CASE change_file
  <2>1. UNCHANGED <<pc, failed, OneInput, out>>
    BY <1>11 DEF change_file, run_vars, OneInput
  <2> QED
    BY <2>1 DEF HonourInv
<1> QED
  BY <1>2, <1>3, <1>4, <1>5, <1>6, <1>7, <1>8, <1>9, <1>10, <1>11
     DEF Next, step

(* Without a failed operation a run with modules or with components, but   *)
(* not both, makes an image, and no other run does, for every set of       *)
(* command lines that asks for no artifact of components (main).           *)
THEOREM BuilderArgsHonoured ==
  LinesAssumption /\ ArtifactAssumption => (Spec => []ArgsHonoured)
<1> SUFFICES ASSUME LinesAssumption, ArtifactAssumption
             PROVE  Spec => []ArgsHonoured
  OBVIOUS
<1>1. Init => BuildInv /\ HonourInv
  BY BuildInit DEF Init, HonourInv
<1>2. BuildInv /\ HonourInv /\ [Next]_vars => (BuildInv /\ HonourInv)'
  BY BuildNext, HonourNext
<1>3. BuildInv /\ HonourInv => ArgsHonoured
  BY DEF BuildInv, OutInv, HonourInv, OneInput, ArgsHonoured
<1> QED
  BY <1>1, <1>2, <1>3, PTL DEF Spec
-----------------------------------------------------------------------------
(* OciTarBuilder: the types of the layers.                                 *)

(* The modules come first, then the other layers, then the components. *)
LEMMA PlaceNext ==
  LinesAssumption /\ BuildInv /\ PlaceInv /\ [Next]_vars => PlaceInv'
<1> SUFFICES ASSUME LinesAssumption, BuildInv, PlaceInv, [Next]_vars
             PROVE  PlaceInv'
  OBVIOUS
<1>1. ASSUME UNCHANGED <<args, layers>> PROVE PlaceInv'
  BY <1>1 DEF PlaceInv, OtherPlaces
<1>2. CASE generate_wasm_artifact
  <2>1. args' = args /\ args.as_artifact
    BY <1>2 DEF generate_wasm_artifact, Fails, BuildInv, OutInv
  <2> QED
    BY <2>1 DEF PlaceInv
<1>3. CASE add_module \/ add_layer \/ add_component
  <2>1. CASE UNCHANGED <<args, layers>>
    BY <1>1, <2>1
  <2>2. ASSUME NEW path \in Paths, NEW type \in {WASM_LAYER_MEDIA_TYPE, OtherType},
               Push(path, type),
               type = IF Len(layers) + 1 \in OtherPlaces THEN OtherType
                      ELSE WASM_LAYER_MEDIA_TYPE
        PROVE  PlaceInv'
    <3>1. /\ Len(layers') = Len(layers) + 1
          /\ \A k \in 1 .. Len(layers) : layers'[k] = layers[k]
          /\ layers'[Len(layers) + 1] = [path |-> path, type |-> type]
          /\ args' = args
      BY <2>2, PushFacts DEF BuildInv, MediaTypes
    <3>2. Len(layers) \in Nat
      BY LayerFacts DEF BuildInv
    <3>3. 1 .. Len(layers') = 1 .. Len(layers) \cup {Len(layers) + 1}
      BY <3>1, <3>2
    <3>4. layers'[Len(layers) + 1].type = type
      BY <3>1
    <3>5. OtherPlaces' = OtherPlaces
      BY <3>1 DEF OtherPlaces
    <3> QED
      BY <2>2, <3>1, <3>3, <3>4, <3>5 DEF PlaceInv
  <2>3. Fails("panic") => UNCHANGED <<args, layers>>
    BY DEF Fails
  <2> QED
    BY <1>3, <2>1, <2>2, <2>3, PushedFacts DEF BuildInv
<1>4. CASE again
  <2>1. layers' = <<>>
    BY <1>4 DEF again, Clear
  <2> QED
    BY <2>1 DEF PlaceInv
<1>5. CASE \/ main \/ add_config \/ create \/ try_digest
           \/ metadata \/ append \/ manifest \/ finish
           \/ remove_file \/ change_file \/ UNCHANGED vars
  <2>1. UNCHANGED <<args, layers>>
    BY <1>5 DEF main, add_config, create, try_digest,
                metadata, append, manifest, finish,
                remove_file, change_file, Fails, run_vars,
                vars
  <2> QED
    BY <1>1, <2>1
<1> QED
  BY <1>2, <1>3, <1>4, <1>5 DEF Next, step
-----------------------------------------------------------------------------
(* OciTarBuilder: the digests and the config.                              *)

(* Fewer places have no more contents. *)
LEMMA ValuesFacts ==
  ASSUME NEW u, NEW n \in Nat
  PROVE  /\ IsFiniteSet(Values(u, n)) /\ Cardinality(Values(u, n)) \in Nat
         /\ Values(u, n + 1) = Values(u, n) \cup {u[n + 1]}
         /\ \A m \in 0 .. n : Cardinality(Values(u, m)) <= Cardinality(Values(u, n))
<1> DEFINE f == [j \in 1 .. n |-> u[j]]
<1>1. IsFiniteSet(1 .. n)
  BY FS_Interval
<1>2. f \in Surjection(1 .. n, Values(u, n))
  BY DEF Surjection, Values
<1>3. IsFiniteSet(Values(u, n))
  BY <1>1, <1>2, FS_Surjection
<1>4. Cardinality(Values(u, n)) \in Nat
  BY <1>3, FS_CardinalityType
<1>5. 1 .. n + 1 = 1 .. n \cup {n + 1}
  OBVIOUS
<1>6. Values(u, n + 1) = Values(u, n) \cup {u[n + 1]}
  BY <1>5 DEF Values
<1>7. ASSUME NEW m \in 0 .. n PROVE Cardinality(Values(u, m)) <= Cardinality(Values(u, n))
  <2>1. Values(u, m) \subseteq Values(u, n)
    BY DEF Values
  <2> QED
    BY <1>3, <2>1, FS_Subset
<1> QED
  BY <1>3, <1>4, <1>6, <1>7

(* An insert of the next content keeps a list without repetition in the    *)
(* order of first places.                                                  *)
LEMMA ListedInsert ==
  ASSUME NEW u, NEW n \in Nat, NEW map, NEW m, NEW type, Listed(map, u, n),
         Cardinality(Values(u, n)) = Len(map), Inserted(m, map, u[n + 1], type)
  PROVE  Listed(m, u, n + 1) /\ Cardinality(Values(u, n + 1)) = Len(m)
<1> DEFINE d == u[n + 1]
<1>0. n + 1 \in Nat /\ 1 .. n + 1 = 1 .. n \cup {n + 1}
  OBVIOUS
<1>1. DOMAIN m = 1 .. Len(m) /\ DOMAIN map = 1 .. Len(map) /\ Len(map) \in Nat
  BY DEF Inserted
<1>2. CASE \E k \in 1 .. Len(map) : map[k].digest = d
  <2>1. Len(m) = Len(map) /\ \A k \in 1 .. Len(map) : m[k].digest = map[k].digest
    BY <1>2 DEF Inserted
  <2>2. d \in Values(u, n)
    <3>1. PICK k \in DOMAIN map : map[k].digest = d
      BY <1>1, <1>2
    <3>2. PICK p \in 1 .. n : FirstAt(u, p, map[k].digest)
      BY DEF Listed
    <3>3. u[p] = d
      BY <3>1, <3>2 DEF FirstAt
    <3> QED
      BY <3>3 DEF Values
  <2>3. Values(u, n + 1) = Values(u, n)
    <3>1. Values(u, n + 1) = Values(u, n) \cup {d}
      BY ValuesFacts
    <3> QED
      BY <2>2, <3>1
  <2>4. Listed(m, u, n + 1)
    BY <1>0, <1>1, <1>2, <2>1 DEF Listed
  <2> QED
    BY <2>1, <2>3, <2>4
<1>3. CASE ~(\E k \in 1 .. Len(map) : map[k].digest = d)
  <2>1. /\ Len(m) = Len(map) + 1 /\ m[Len(map) + 1].digest = d
        /\ \A k \in 1 .. Len(map) : m[k] = map[k]
    BY <1>3 DEF Inserted
  <2>2. \A p \in 1 .. n : u[p] # d
    BY <1>1, <1>3 DEF Listed
  <2>3. d \notin Values(u, n)
    BY <2>2 DEF Values
  <2>4. Cardinality(Values(u, n + 1)) = Len(map) + 1
    <3>1. IsFiniteSet(Values(u, n)) /\ Values(u, n + 1) = Values(u, n) \cup {d}
      BY ValuesFacts
    <3> QED
      BY <2>3, <3>1, FS_AddElement
  <2>5. DOMAIN m = DOMAIN map \cup {Len(map) + 1} /\ DOMAIN m \subseteq Nat
    BY <1>1, <2>1
  <2>6. FirstAt(u, n + 1, d) /\ Cardinality(Values(u, (n + 1) - 1)) = (Len(map) + 1) - 1
    <3>1. (n + 1) - 1 = n /\ (Len(map) + 1) - 1 = Len(map)
      BY <1>1
    <3> QED
      BY <2>2, <3>1 DEF FirstAt
  <2>7. ASSUME NEW k \in DOMAIN m
        PROVE  \E p \in 1 .. n + 1 :
                 FirstAt(u, p, m[k].digest) /\ Cardinality(Values(u, p - 1)) = k - 1
    <3>1. CASE k \in DOMAIN map
      BY <1>0, <1>1, <2>1, <3>1 DEF Listed
    <3>2. CASE k = Len(map) + 1
      BY <1>0, <2>1, <2>6, <3>2
    <3> QED
      BY <2>5, <3>1, <3>2
  <2>8. ASSUME NEW p \in 1 .. n + 1 PROVE \E k \in DOMAIN m : m[k].digest = u[p]
    <3>1. CASE p \in 1 .. n
      BY <1>1, <2>1, <2>5, <3>1 DEF Listed
    <3>2. CASE p = n + 1
      BY <2>1, <2>5, <3>2
    <3> QED
      BY <1>0, <3>1, <3>2
  <2> QED
    BY <1>0, <2>1, <2>4, <2>5, <2>7, <2>8 DEF Listed
<1> QED
  BY <1>2, <1>3

(* ... and gives the content the type of this place. *)
LEMMA TypedInsert ==
  ASSUME NEW u, NEW ls, NEW n \in Nat, NEW map, NEW m,
         Typed(map, u, ls, n), Inserted(m, map, u[n + 1], ls[n + 1].type)
  PROVE  Typed(m, u, ls, n + 1)
<1> DEFINE d == u[n + 1]
<1>0. 1 .. n + 1 = 1 .. n \cup {n + 1}
  OBVIOUS
<1>1. DOMAIN m = 1 .. Len(m) /\ DOMAIN map = 1 .. Len(map) /\ Len(map) \in Nat
  BY DEF Inserted
<1>2. LastAt(u, n + 1, n + 1, d)
  BY DEF LastAt
<1>3. ASSUME NEW k \in DOMAIN m
      PROVE  \/ m[k].digest = d /\ m[k].type = ls[n + 1].type
             \/ /\ m[k].digest # d /\ k \in DOMAIN map
                /\ m[k].digest = map[k].digest /\ m[k].type = map[k].type
  <2>1. CASE /\ Len(m) = Len(map)
             /\ \A i \in 1 .. Len(map) :
                  /\ m[i].digest = map[i].digest
                  /\ m[i].type = IF map[i].digest = d THEN ls[n + 1].type ELSE map[i].type
    BY <1>1, <2>1
  <2>2. CASE /\ \A i \in 1 .. Len(map) : map[i].digest # d /\ m[i] = map[i]
             /\ Len(m) = Len(map) + 1
             /\ m[Len(map) + 1].digest = d /\ m[Len(map) + 1].type = ls[n + 1].type
    <3>1. k \in DOMAIN map \/ k = Len(map) + 1
      BY <1>1, <2>2
    <3>2. CASE k \in DOMAIN map
      BY <1>1, <2>2, <3>2
    <3>3. CASE k = Len(map) + 1
      BY <2>2, <3>3
    <3> QED
      BY <3>1, <3>2, <3>3
  <2> QED
    BY <2>1, <2>2 DEF Inserted
<1>4. ASSUME NEW k \in DOMAIN m
      PROVE  \E p \in 1 .. n + 1 :
               LastAt(u, n + 1, p, m[k].digest) /\ m[k].type = ls[p].type
  <2>1. CASE m[k].digest = d /\ m[k].type = ls[n + 1].type
    BY <1>0, <1>2, <2>1
  <2>2. CASE /\ m[k].digest # d /\ k \in DOMAIN map
             /\ m[k].digest = map[k].digest /\ m[k].type = map[k].type
    <3>1. PICK p \in 1 .. n : LastAt(u, n, p, map[k].digest) /\ map[k].type = ls[p].type
      BY <2>2 DEF Typed
    <3>2. p + 1 .. n + 1 = (p + 1 .. n) \cup {n + 1}
      OBVIOUS
    <3>3. LastAt(u, n + 1, p, m[k].digest)
      BY <2>2, <3>1, <3>2 DEF LastAt
    <3> QED
      BY <1>0, <2>2, <3>1, <3>3
  <2> QED
    BY <1>3, <2>1, <2>2
<1> QED
  BY <1>4 DEF Typed

(* A content has one first place and one last place. *)
LEMMA PlacesFacts ==
  ASSUME NEW u, NEW n \in Nat, NEW c, NEW p \in 1 .. n, NEW q \in 1 .. n
  PROVE  /\ FirstAt(u, p, c) /\ FirstAt(u, q, c) => p = q
         /\ LastAt(u, n, p, c) /\ LastAt(u, n, q, c) => p = q
<1>1. FirstAt(u, p, c) /\ FirstAt(u, q, c) => p = q
  BY DEF FirstAt
<1>2. LastAt(u, n, p, c) /\ LastAt(u, n, q, c) => p = q
  BY DEF LastAt
<1> QED
  BY <1>1, <1>2

(* There is one such list of the same contents. *)
LEMMA ListedOnce ==
  ASSUME NEW u, NEW n, NEW a, NEW b, Listed(a, u, n), Listed(b, u, n)
  PROVE  \A k \in DOMAIN a : k \in DOMAIN b /\ a[k].digest = b[k].digest
<1> SUFFICES ASSUME NEW k \in DOMAIN a PROVE k \in DOMAIN b /\ a[k].digest = b[k].digest
  OBVIOUS
<1>1. n \in Nat /\ DOMAIN a \subseteq Nat /\ DOMAIN b \subseteq Nat
  BY DEF Listed
<1>2. PICK p \in 1 .. n : FirstAt(u, p, a[k].digest) /\ Cardinality(Values(u, p - 1)) = k - 1
  BY DEF Listed
<1>3. PICK l \in DOMAIN b : b[l].digest = a[k].digest
  BY <1>2 DEF Listed, FirstAt
<1>4. PICK q \in 1 .. n : FirstAt(u, q, a[k].digest) /\ Cardinality(Values(u, q - 1)) = l - 1
  BY <1>3 DEF Listed
<1>5. p = q
  BY <1>1, <1>2, <1>4, PlacesFacts
<1>6. k = l
  BY <1>1, <1>2, <1>4, <1>5
<1> QED
  BY <1>3, <1>6

(* What comes later in the list has a later first place. *)
LEMMA ListedInOrder ==
  ASSUME NEW u, NEW n, NEW a, Listed(a, u, n), NEW j \in DOMAIN a, NEW k \in DOMAIN a, j < k,
         NEW p \in 1 .. n, FirstAt(u, p, a[j].digest),
         NEW q \in 1 .. n, FirstAt(u, q, a[k].digest)
  PROVE  p < q
<1>1. n \in Nat /\ j \in Nat /\ k \in Nat
  BY DEF Listed
<1>2. PICK r \in 1 .. n : FirstAt(u, r, a[j].digest) /\ Cardinality(Values(u, r - 1)) = j - 1
  BY DEF Listed
<1>3. PICK s \in 1 .. n : FirstAt(u, s, a[k].digest) /\ Cardinality(Values(u, s - 1)) = k - 1
  BY DEF Listed
<1>4. r = p /\ s = q
  BY <1>1, <1>2, <1>3, PlacesFacts
<1>5. SUFFICES ASSUME q <= p PROVE FALSE
  BY <1>1
<1>6. p - 1 \in Nat /\ q - 1 \in 0 .. p - 1
  BY <1>1, <1>5
<1>7. Cardinality(Values(u, q - 1)) <= Cardinality(Values(u, p - 1))
  BY <1>6, ValuesFacts
<1> QED
  BY <1>1, <1>2, <1>3, <1>4, <1>7
-----------------------------------------------------------------------------
(* OciTarBuilder: the images that were made.                               *)

(* A step that leaves the layers, their digests and the images. *)
LEMMA DigestSame ==
  ASSUME BuildInv, DigestInv,
         UNCHANGED <<file, layers, unique, layer_digests, images>>,
         pc' \in {"metadata", "append"} => dgst' = unique[idx'],
         HasLayers' => HasLayers /\ Packed' = Packed
  PROVE  DigestInv'
<1>1. \A k \in 1 .. Len(unique') : unique'[k] = file'[layers'[k].path]
  BY DEF DigestInv
<1>2. ASSUME HasLayers'
      PROVE  /\ Listed(layer_digests', unique', Packed')
             /\ Cardinality(Values(unique', Packed')) = Len(layer_digests')
             /\ Typed(layer_digests', unique', layers', Packed')
  <2>1. /\ Listed(layer_digests, unique, Packed)
        /\ Cardinality(Values(unique, Packed)) = Len(layer_digests)
        /\ Typed(layer_digests, unique, layers, Packed)
    BY <1>2 DEF DigestInv
  <2>2. Packed' = Packed
    BY <1>2
  <2> QED
    BY <2>1, <2>2
<1>3. \A i \in images' : Listed(i.layers, i.config.layers, Len(i.config.layers))
  BY DEF DigestInv
<1> QED
  BY <1>1, <1>2, <1>3 DEF DigestInv

(* A failed operation gives no layers. *)
LEMMA DigestFails ==
  ASSUME BuildInv, BuildInv', DigestInv, NEW l \in {"panic", "remove"}, Fails(l)
  PROVE  DigestInv'
<1>1. UNCHANGED <<file, layers, unique, layer_digests, images>> /\ pc' = l
  BY DEF Fails
<1>2. ~HasLayers'
  BY <1>1 DEF HasLayers, BuildInv, OutInv, Packing
<1> QED
  BY <1>1, <1>2, DigestSame

(* The collected layers have the contents of their files. *)
LEMMA DigestCollect ==
  ASSUME LinesAssumption, BuildInv, BuildInv', DigestInv,
         \/ generate_wasm_artifact
         \/ add_module \/ add_layer \/ add_component
  PROVE  DigestInv'
<1>0. BuildTypes
  BY DEF BuildInv
<1>1. CASE Fails("panic")
  BY <1>1, DigestFails
<1>2. CASE /\ UNCHANGED <<file, layers, unique, layer_digests, images>>
           /\ pc' \in {"panic", "image"}
  <2>1. ~HasLayers'
    BY <1>2 DEF HasLayers, BuildInv, OutInv, Packing, Collecting
  <2> QED
    BY <1>2, <2>1, DigestSame
<1>3. ASSUME pc' \in {"create", "image"}, images' = images,
             \A k \in 1 .. Len(unique') : unique'[k] = file'[layers'[k].path]
      PROVE  DigestInv'
  <2>1. ~HasLayers'
    BY <1>3 DEF HasLayers, BuildInv, OutInv, Packing, Collecting
  <2>2. \A i \in images' : Listed(i.layers, i.config.layers, Len(i.config.layers))
    BY <1>3 DEF DigestInv
  <2> QED
    BY <1>3, <2>1, <2>2 DEF DigestInv
<1>4. CASE generate_wasm_artifact /\ ~Fails("panic")
  <2>1. CASE args.components # {}
    BY <1>2, <1>4, <2>1 DEF generate_wasm_artifact, run_vars
  <2>2. CASE args.components = {}
    <3>1. /\ pc' = "create" /\ UNCHANGED <<file, images>>
          /\ Len(unique') = 1 /\ unique'[1] = file[layers'[1].path]
      BY <1>4, <2>2, ArtifactFacts
    <3>2. \A k \in 1 .. Len(unique') : unique'[k] = file'[layers'[k].path]
      BY <3>1
    <3> QED
      BY <1>3, <3>1, <3>2
  <2> QED
    BY <2>1, <2>2
<1>5. ASSUME NEW path \in Paths, NEW type \in {WASM_LAYER_MEDIA_TYPE, OtherType},
             Push(path, type), pc = "image"
      PROVE  DigestInv'
  <2>1. /\ Len(layers') = Len(layers) + 1
        /\ \A k \in 1 .. Len(layers) : layers'[k] = layers[k]
        /\ layers'[Len(layers) + 1] = [path |-> path, type |-> type]
        /\ Len(unique') = Len(unique) + 1
        /\ \A k \in 1 .. Len(unique) : unique'[k] = unique[k]
        /\ unique'[Len(unique) + 1] = file[path]
        /\ UNCHANGED <<file, pc, images>>
    BY <1>0, <1>5, PushFacts DEF MediaTypes
  <2>2. Len(unique) \in Nat /\ Len(unique) = Len(layers)
    BY <1>0 DEF BuildTypes
  <2>3. layers'[Len(layers) + 1].path = path
    BY <2>1
  <2>4. 1 .. Len(unique') = 1 .. Len(unique) \cup {Len(unique) + 1}
    BY <2>1, <2>2
  <2>5. \A k \in 1 .. Len(unique') : unique'[k] = file'[layers'[k].path]
    BY <2>1, <2>2, <2>3, <2>4 DEF DigestInv
  <2> QED
    BY <1>3, <1>5, <2>1, <2>5
<1>6. CASE add_module \/ add_layer \/ add_component
  <2>1. pc = "image"
    BY <1>6 DEF add_module, add_layer, add_component
  <2> QED
    BY <1>0, <1>1, <1>2, <1>5, <1>6, <2>1, PushedFacts
<1> QED
  BY <1>1, <1>4, <1>6

(* Builder::build lists them once each. *)
LEMMA DigestPack ==
  ASSUME BuildInv, BuildInv', DigestInv,
         \/ create \/ try_digest \/ metadata \/ append
  PROVE  DigestInv'
<1>0. idx \in Nat /\ idx - 1 \in Nat /\ Len(layers) \in Nat /\ Len(unique) = Len(layers)
  BY DEF BuildInv, BuildTypes
<1>1. CASE Fails("panic") \/ Fails("remove")
  BY <1>1, DigestFails
<1>2. CASE create /\ ~Fails("panic")
  <2>1. /\ pc = "create" /\ pc' = "digest"
        /\ UNCHANGED <<file, layers, unique, idx, layer_digests, images>>
    BY <1>2 DEF create, run_vars
  <2>2. Packed' = 0 /\ layer_digests' = <<>>
    BY <2>1 DEF Packed, BuildInv, OutInv, Collecting
  <2>3. Values(unique', 0) = {} /\ Cardinality({}) = 0
    BY FS_EmptySet DEF Values
  <2>4. Listed(<<>>, unique', 0) /\ Typed(<<>>, unique', layers', 0)
    BY DEF Listed, Typed
  <2>5. /\ \A k \in 1 .. Len(unique') : unique'[k] = file'[layers'[k].path]
        /\ \A i \in images' : Listed(i.layers, i.config.layers, Len(i.config.layers))
    BY <2>1 DEF DigestInv
  <2>6. Len(<<>>) = 0
    OBVIOUS
  <2>7. pc' \notin {"metadata", "append"}
    BY <2>1
  <2> QED
    BY <2>2, <2>3, <2>4, <2>5, <2>6, <2>7 DEF DigestInv
<1>3. CASE try_digest /\ ~Fails("remove")
  <2>1. /\ pc = "digest" /\ pc' = "metadata" /\ idx <= Len(layers)
        /\ dgst' = file[layers[idx].path]
        /\ UNCHANGED <<file, layers, unique, idx, layer_digests, images>>
    BY <1>3 DEF try_digest, build
  <2>2. idx \in 1 .. Len(unique)
    BY <1>0, <2>1 DEF BuildInv, BuildTypes
  <2>3. dgst' = unique[idx']
    BY <2>1, <2>2 DEF DigestInv
  <2>4. HasLayers /\ Packed' = Packed
    BY <2>1 DEF HasLayers, Packed, Packing
  <2> QED
    BY <2>1, <2>3, <2>4, DigestSame
<1>4. CASE metadata /\ ~Fails("remove")
  <2>1. /\ pc = "metadata" /\ pc' = "append" /\ idx \in 1 .. Len(layers)
        /\ Inserted(layer_digests', layer_digests, dgst, layers[idx].type)
        /\ UNCHANGED <<file, layers, unique, idx, dgst, images>>
    BY <1>4, MetadataFacts
  <2>2. HasLayers /\ Packed = idx - 1 /\ Packed' = idx /\ dgst = unique[idx]
    BY <2>1 DEF HasLayers, Packed, Packing, DigestInv
  <2>3. PICK n \in Nat : n = Packed /\ idx = n + 1
    BY <1>0, <2>2
  <2>4. /\ Listed(layer_digests, unique, n)
        /\ Cardinality(Values(unique, n)) = Len(layer_digests)
        /\ Typed(layer_digests, unique, layers, n)
    BY <2>2, <2>3 DEF DigestInv
  <2>5. Inserted(layer_digests', layer_digests, unique[n + 1], layers[n + 1].type)
    BY <2>1, <2>2, <2>3
  <2>6. Listed(layer_digests', unique, n + 1)
        /\ Cardinality(Values(unique, n + 1)) = Len(layer_digests')
    BY <2>4, <2>5, ListedInsert
  <2>7. Typed(layer_digests', unique, layers, n + 1)
    BY <2>4, <2>5, TypedInsert
  <2>8. /\ \A k \in 1 .. Len(unique') : unique'[k] = file'[layers'[k].path]
        /\ \A i \in images' : Listed(i.layers, i.config.layers, Len(i.config.layers))
    BY <2>1 DEF DigestInv
  <2>9. dgst' = unique'[idx']
    BY <2>1, <2>2
  <2>10. Packed' = n + 1 /\ unique' = unique /\ layers' = layers
    BY <2>1, <2>2, <2>3
  <2> QED
    BY <2>6, <2>7, <2>8, <2>9, <2>10 DEF DigestInv
<1>5. CASE append /\ ~Fails("remove")
  <2>1. /\ pc = "append" /\ pc' = "digest" /\ idx' = idx + 1
        /\ UNCHANGED <<file, layers, unique, layer_digests, images>>
    BY <1>5 DEF append, build
  <2>2. HasLayers /\ Packed' = Packed
    BY <1>0, <2>1 DEF HasLayers, Packed, Packing
  <2> QED
    BY <2>1, <2>2, DigestSame
<1> QED
  BY <1>1, <1>2, <1>3, <1>4, <1>5

(* The image that is made has them. *)
LEMMA DigestFinish ==
  ASSUME BuildInv, BuildInv', DigestInv, manifest \/ finish
  PROVE  DigestInv'
<1>1. CASE Fails("remove")
  BY <1>1, DigestFails
<1>2. CASE manifest /\ ~Fails("remove")
  <2>1. /\ pc = "digest" /\ pc' = "finish"
        /\ UNCHANGED <<file, layers, unique, idx, layer_digests, images>>
    BY <1>2 DEF manifest
  <2>2. HasLayers /\ Packed' = Packed
    BY <2>1 DEF HasLayers, Packed, Packing
  <2> QED
    BY <2>1, <2>2, DigestSame
<1>3. CASE finish /\ ~Fails("remove")
  <2> DEFINE new == [config |-> config, layers |-> layer_digests]
  <2>1. /\ pc = "finish" /\ pc' = "exit" /\ images' = images \cup {new}
        /\ UNCHANGED <<file, layers, unique, idx, layer_digests>>
    BY <1>3 DEF finish
  <2>2. HasLayers /\ Packed' = Packed /\ Packed = Len(unique)
    <3>1. idx = Len(unique) + 1 /\ Len(unique) \in Nat
      BY <2>1 DEF BuildInv, BuildTypes, OutInv
    <3> QED
      BY <2>1, <3>1 DEF HasLayers, Packed, Packing
  <2>3. /\ Listed(layer_digests, unique, Packed)
        /\ Cardinality(Values(unique, Packed)) = Len(layer_digests)
        /\ Typed(layer_digests, unique, layers, Packed)
    BY <2>2 DEF DigestInv
  <2>4. new.layers = layer_digests /\ new.config.layers = unique
    BY DEF config
  <2>5. Listed(new.layers, new.config.layers, Len(new.config.layers))
    BY <2>2, <2>3, <2>4
  <2> HIDE DEF new
  <2>6. \A i \in images' : Listed(i.layers, i.config.layers, Len(i.config.layers))
    BY <2>1, <2>5 DEF DigestInv
  <2>7. \A k \in 1 .. Len(unique') : unique'[k] = file'[layers'[k].path]
    BY <2>1 DEF DigestInv
  <2>8. pc' \notin {"metadata", "append"}
    BY <2>1
  <2>9. /\ Listed(layer_digests', unique', Packed')
        /\ Cardinality(Values(unique', Packed')) = Len(layer_digests')
        /\ Typed(layer_digests', unique', layers', Packed')
    BY <2>1, <2>2, <2>3
  <2> QED
    BY <2>6, <2>7, <2>8, <2>9 DEF DigestInv
<1> QED
  BY <1>1, <1>2, <1>3

(* Every step keeps the digests, if no file is rewritten during a run. *)
LEMMA DigestNext ==
  LinesAssumption /\ ~FilesChange /\ BuildInv /\ DigestInv /\ [Next]_vars
    => DigestInv'
<1> SUFFICES ASSUME LinesAssumption, ~FilesChange, BuildInv, DigestInv,
                    [Next]_vars
             PROVE  DigestInv'
  OBVIOUS
<1>0. BuildInv'
  BY BuildNext
<1>1. CASE UNCHANGED vars
  <2>1. /\ UNCHANGED <<file, pc, layers, unique, idx, dgst, layer_digests, out, images>>
        /\ Packed' = Packed /\ HasLayers' = HasLayers
    BY <1>1 DEF vars, run_vars, Packed, HasLayers
  <2>2. pc' \in {"metadata", "append"} => dgst' = unique[idx']
    BY <2>1 DEF DigestInv
  <2> QED
    BY <2>1, <2>2, DigestSame
<1>2. CASE main \/ add_config \/ remove_file
  <2>1. CASE Fails("panic")
    BY <1>0, <2>1, DigestFails
  <2>2. CASE ~Fails("panic")
    <3>1. /\ UNCHANGED <<file, layers, unique, layer_digests, images>>
          /\ pc' \in {"artifact", "image", "create", "exit"}
          /\ out' = out \/ out' = "absent"
          /\ pc \in {"main", "image", "remove"}
      BY <1>2, <2>2 DEF main, add_config, remove_file, run_vars
    <3>2. ~HasLayers'
      BY <3>1 DEF HasLayers, BuildInv, OutInv, Packing, Collecting
    <3> QED
      BY <3>1, <3>2, DigestSame
  <2> QED
    BY <2>1, <2>2
<1>3. CASE \/ generate_wasm_artifact
           \/ add_module \/ add_layer \/ add_component
  BY <1>0, <1>3, DigestCollect
<1>4. CASE \/ create \/ try_digest \/ metadata \/ append
  BY <1>0, <1>4, DigestPack
<1>5. CASE manifest \/ finish
  BY <1>0, <1>5, DigestFinish
<1>6. CASE again
  <2>1. pc' = "main" /\ out' = "absent" /\ unique' = <<>> /\ images' = images
    BY <1>6 DEF again, Clear
  <2>2. \A i \in images' : Listed(i.layers, i.config.layers, Len(i.config.layers))
    BY <2>1 DEF DigestInv
  <2>3. \A k \in 1 .. Len(unique') : unique'[k] = file'[layers'[k].path]
    BY <2>1
  <2>4. ~HasLayers'
    BY <2>1 DEF HasLayers, Packing
  <2> QED
    BY <2>1, <2>2, <2>3, <2>4 DEF DigestInv
<1>7. ~change_file
  BY DEF change_file
<1> QED
  BY <1>1, <1>2, <1>3, <1>4, <1>5, <1>6, <1>7 DEF Next, step

(* The digests are those of the config in every run. *)
LEMMA DigestInvariance ==
  LinesAssumption /\ ~FilesChange => (Spec => []BuildInv /\ []DigestInv)
<1> SUFFICES ASSUME LinesAssumption, ~FilesChange
             PROVE  Spec => []BuildInv /\ []DigestInv
  OBVIOUS
<1>1. Init => BuildInv /\ DigestInv
  <2> SUFFICES ASSUME Init PROVE BuildInv /\ DigestInv
    OBVIOUS
  <2>1. BuildInv
    BY BuildInit
  <2>2. pc = "main" /\ out = "absent" /\ unique = <<>> /\ images = {}
    BY DEF Init
  <2> QED
    BY <2>1, <2>2 DEF DigestInv, HasLayers, Packing
<1>2. BuildInv /\ DigestInv /\ [Next]_vars => (BuildInv /\ DigestInv)'
  BY BuildNext, DigestNext
<1> QED
  BY <1>1, <1>2, PTL DEF Spec

(* Images with the same config have the same layers in the same order, for *)
(* any number of runs, command lines and files, if no file is rewritten    *)
(* during a run (generate_wasi_image).                                     *)
THEOREM BuilderConfigIsUnique ==
  LinesAssumption /\ ~FilesChange => (Spec => []ConfigIsUnique)
<1> SUFFICES ASSUME LinesAssumption, ~FilesChange
             PROVE  Spec => []ConfigIsUnique
  OBVIOUS
<1>1. Spec => []DigestInv
  BY DigestInvariance
<1>2. DigestInv => ConfigIsUnique
  <2> SUFFICES ASSUME DigestInv, NEW i \in images, NEW j \in images, i.config = j.config
               PROVE  [k \in DOMAIN i.layers |-> i.layers[k].digest]
                        = [k \in DOMAIN j.layers |-> j.layers[k].digest]
    BY DEF ConfigIsUnique
  <2> DEFINE u == i.config.layers
             a == i.layers
             b == j.layers
  <2>1. Listed(a, u, Len(u)) /\ Listed(b, u, Len(u))
    BY DEF DigestInv
  <2> HIDE DEF u, a, b
  <2>2. \A k \in DOMAIN a : k \in DOMAIN b /\ a[k].digest = b[k].digest
    BY <2>1, ListedOnce
  <2>3. \A k \in DOMAIN b : k \in DOMAIN a /\ b[k].digest = a[k].digest
    BY <2>1, ListedOnce
  <2>4. DOMAIN a = DOMAIN b
    BY <2>2, <2>3
  <2>5. [k \in DOMAIN a |-> a[k].digest] = [k \in DOMAIN b |-> b[k].digest]
    BY <2>2, <2>4
  <2> QED
    BY <2>5 DEF a, b
<1> QED
  BY <1>1, <1>2, PTL

(* The layers of an image are the contents of the modules, the other       *)
(* layers and the components, each once, in the order in which they were   *)
(* added, and the shim takes for a module what it should, for every        *)
(* command line, if no file is rewritten during the run (build, and        *)
(* is_wasm_layer of the shim).                                             *)
THEOREM BuilderModulesReachShim ==
  LinesAssumption /\ TypeAssumption /\ ~FilesChange
    => (Spec => []ModulesReachShim)
<1> SUFFICES ASSUME LinesAssumption, TypeAssumption, ~FilesChange
             PROVE  Spec => []ModulesReachShim
  OBVIOUS
<1>1. Spec => []BuildInv /\ []DigestInv
  BY DigestInvariance
<1>2. Spec => []PlaceInv
  <2>1. Init => PlaceInv
    BY DEF Init, PlaceInv
  <2>2. BuildInv /\ PlaceInv /\ [Next]_vars => PlaceInv'
    BY PlaceNext
  <2> QED
    BY <1>1, <2>1, <2>2, PTL DEF Spec
<1>3. BuildInv /\ DigestInv /\ PlaceInv => ModulesReachShim
  <2> SUFFICES ASSUME BuildInv, DigestInv, PlaceInv, out = "complete", ~args.as_artifact
               PROVE  ModulesReachShim
    BY DEF ModulesReachShim
  <2> DEFINE n == Len(unique)
             first(c) == CHOOSE k \in DOMAIN unique :
                           unique[k] = c /\ \A j \in 1 .. k - 1 : unique[j] # c
             last(c) == CHOOSE k \in DOMAIN unique :
                          unique[k] = c /\ \A j \in k + 1 .. Len(unique) : unique[j] # c
  <2>1. n \in Nat /\ n = Len(layers) /\ DOMAIN unique = 1 .. n /\ unique \in Seq(Contents)
    BY DEF BuildInv, BuildTypes
  <2>2. HasLayers /\ Packed = n
    <3>1. pc = "exit" /\ idx = n + 1
      BY <2>1 DEF BuildInv, OutInv
    <3> QED
      BY <2>1, <3>1 DEF HasLayers, Packed
  <2>3. Listed(layer_digests, unique, n) /\ Typed(layer_digests, unique, layers, n)
    BY <2>2 DEF DigestInv
  <2>4. ASSUME NEW c, NEW p \in 1 .. n, FirstAt(unique, p, c)
        PROVE  first(c) = p
    <3>1. p \in DOMAIN unique /\ unique[p] = c /\ \A j \in 1 .. p - 1 : unique[j] # c
      BY <2>1, <2>4 DEF FirstAt
    <3>2. first(c) \in 1 .. n /\ FirstAt(unique, first(c), c)
      BY <2>1, <3>1 DEF FirstAt
    <3> QED
      BY <2>1, <2>4, <3>2, PlacesFacts
  <2>5. ASSUME NEW c, NEW p \in 1 .. n, LastAt(unique, n, p, c)
        PROVE  last(c) = p
    <3>1. p \in DOMAIN unique /\ unique[p] = c /\ \A j \in p + 1 .. n : unique[j] # c
      BY <2>1, <2>5 DEF LastAt
    <3>2. last(c) \in 1 .. n /\ LastAt(unique, n, last(c), c)
      BY <2>1, <3>1 DEF LastAt
    <3> QED
      BY <2>1, <2>5, <3>2, PlacesFacts
  <2> HIDE DEF n, first, last
  <2>6. {l.digest : l \in Range(layer_digests)} = Range(unique)
    <3>1. \A k \in DOMAIN layer_digests : \E p \in 1 .. n : layer_digests[k].digest = unique[p]
      BY <2>3 DEF Listed, FirstAt
    <3>2. \A p \in 1 .. n : \E k \in DOMAIN layer_digests : layer_digests[k].digest = unique[p]
      BY <2>3 DEF Listed
    <3>3. {layer_digests[k].digest : k \in DOMAIN layer_digests} = {unique[p] : p \in 1 .. n}
      BY <3>1, <3>2
    <3>4. {l.digest : l \in Range(layer_digests)}
            = {layer_digests[k].digest : k \in DOMAIN layer_digests}
      BY DEF Range
    <3>5. Range(unique) = {unique[p] : p \in 1 .. n}
      BY <2>1 DEF Range
    <3> QED
      BY <3>3, <3>4, <3>5
  <2>7. ASSUME NEW j \in DOMAIN layer_digests, NEW k \in DOMAIN layer_digests, j < k
        PROVE  first(layer_digests[j].digest) < first(layer_digests[k].digest)
    <3>1. PICK p \in 1 .. n : FirstAt(unique, p, layer_digests[j].digest)
      BY <2>3 DEF Listed
    <3>2. PICK q \in 1 .. n : FirstAt(unique, q, layer_digests[k].digest)
      BY <2>3 DEF Listed
    <3>3. p < q
      BY <2>3, <2>7, <3>1, <3>2, ListedInOrder
    <3> QED
      BY <2>4, <3>1, <3>2, <3>3
  <2>8. ASSUME NEW l \in Range(layer_digests)
        PROVE  is_wasm_layer(l.type) <=> last(l.digest) \notin OtherPlaces
    <3>1. PICK k \in DOMAIN layer_digests : l = layer_digests[k]
      BY <2>8 DEF Range
    <3>2. PICK p \in 1 .. n : LastAt(unique, n, p, l.digest) /\ l.type = layers[p].type
      BY <2>3, <3>1 DEF Typed
    <3>3. last(l.digest) = p
      BY <2>5, <3>2
    <3>4. l.type = IF p \in OtherPlaces THEN OtherType ELSE WASM_LAYER_MEDIA_TYPE
      BY <2>1, <3>2 DEF PlaceInv
    <3> QED
      BY <3>3, <3>4 DEF TypeAssumption, is_wasm_layer
  <2> QED
    BY <2>6, <2>7, <2>8 DEF ModulesReachShim, OtherPlaces, first, last
<1> QED
  BY <1>1, <1>2, <1>3, PTL

=============================================================================
