---------------------------- MODULE MCPrecompile ----------------------------
(***************************************************************************)
(* TLC instances of Precompile and of SaveContent.  The .cfg file has the  *)
(* constants of the first one, in which shims of two engines load the same *)
(* image while requests fail, shims crash and content is collected.  The   *)
(* others work on variables of their own; a behaviour is of the instance   *)
(* that `part` names, and the others do not begin.                         *)
(***************************************************************************)
EXTENDS Precompile, TLC

CONSTANTS i1, i2, i3, l1, l2, l3, l4, s1, s2, e1, e2

OneLayer == [i \in Images |-> <<l1>>]
AllWasm == [l \in Layers |-> "wasm"]
TwoEngines == s1 :> e1 @@ s2 :> e2

VARIABLES part

VARIABLES
  o_images, o_content, o_cache, o_ref, o_leases, o_pc, o_img, o_idx, o_needs,
  o_layers, o_compiled, o_info, o_out
others ==
  <<o_images, o_content, o_cache, o_ref, o_leases, o_pc, o_img, o_idx, o_needs,
    o_layers, o_compiled, o_info, o_out>>

VARIABLES w_holder, w_ingest, w_blobs, w_pc, w_offset, w_excuse, w_faults
saving == <<w_holder, w_ingest, w_blobs, w_pc, w_offset, w_excuse, w_faults>>

Load(c) ==
  INSTANCE Precompile WITH
    Shims <- {s1, s2}, Engines <- {e1, e2}, EngineOf <- c.engine, Precompilers <- c.compilers,
    Images <- DOMAIN c.layers, LayersOf <- c.layers, WasmImages <- DOMAIN c.layers \ {i3},
    Layers <- DOMAIN c.binary, Binary <- c.binary, WasmLayers <- DOMAIN c.binary \ {l4},
    Faults <- c.faults,
    images <- o_images, content <- o_content, cache <- o_cache, ref <- o_ref,
    leases <- o_leases, pc <- o_pc, img <- o_img, idx <- o_idx, needs <- o_needs,
    layers <- o_layers, compiled <- o_compiled, info <- o_info, out <- o_out

(* Two engines at the same time, the collector, and nothing that fails. *)
apart ==
  [engine |-> TwoEngines, compilers |-> {e1, e2}, faults |-> {"collect"},
   layers |-> i1 :> <<l1, l2>>, binary |-> l1 :> "wasm" @@ l2 :> "wasm"]

(* Images and layers of every kind, for an engine with and one without a   *)
(* compiler; i3 is not for wasm, and l4 is of a type that no engine has.   *)
kinds ==
  [engine |-> TwoEngines, compilers |-> {e1}, faults |-> {"collect"},
   layers |-> i1 :> <<l2, l4, l1>> @@ i2 :> <<l3, l1>> @@ i3 :> <<l4>>,
   binary |-> l1 :> "wasm" @@ l2 :> "unknown" @@ l3 :> "broken" @@ l4 :> "compiled"]

(* One engine; images that share a layer come and go, shims crash. *)
shared ==
  [engine |-> s1 :> e1 @@ s2 :> e1, compilers |-> {e1},
   faults |-> {"crash", "collect", "churn"}, layers |-> i1 :> <<l1>> @@ i2 :> <<l1>>, binary |-> l1 :> "wasm"]

(* Contents of one engine are saved in chunks of two bytes: no bytes, a    *)
(* part of a chunk more than one, two chunks exactly, and one byte; the    *)
(* second and the third begin alike.                                       *)
Save ==
  INSTANCE SaveContent WITH
    Writers <- 1 .. 4, MaxChunk <- 2, MaxFaults <- 2,
    Data <- << <<>>, <<"a", "b", "c">>, <<"a", "b", "d", "e">>, <<"f">> >>,
    holder <- w_holder, ingest <- w_ingest, blobs <- w_blobs, pc <- w_pc,
    offset <- w_offset, excuse <- w_excuse, faults <- w_faults

-----------------------------------------------------------------------------
AllInit ==
  /\ part \in {"main", "apart", "kinds", "shared", "save"}
  /\ Init /\ Save!Init
  /\ \/ part = "kinds" /\ Load(kinds)!Init
     \/ part = "shared" /\ Load(shared)!Init
     \/ part \notin {"kinds", "shared"} /\ Load(apart)!Init

AllNext ==
  /\ UNCHANGED part
  /\ \/ part = "main" /\ Next /\ UNCHANGED <<others, saving>>
     \/ part = "apart" /\ Load(apart)!Next /\ UNCHANGED <<vars, saving>>
     \/ part = "kinds" /\ Load(kinds)!Next /\ UNCHANGED <<vars, saving>>
     \/ part = "shared" /\ Load(shared)!Next /\ UNCHANGED <<vars, saving>>
     \/ part = "save" /\ Save!Next /\ UNCHANGED <<vars, others>>

AllSpec == AllInit /\ [][AllNext]_<<part, vars, others, saving>>

-----------------------------------------------------------------------------
(* The properties of the parts, each for the instances it is about; they   *)
(* are explained in the modules of the parts.                              *)

(***************************************************************************)
(* Layers of every kind give the right code (client.rs:414).  While        *)
(* nothing fails and no two shims of an engine load at once, no load ends  *)
(* in an error (client.rs:460): in particular a label whose content was    *)
(* collected leads to the original layer.                                  *)
(***************************************************************************)
LoadsCorrect ==
  /\ part = "kinds" => Load(kinds)!RightCode
  /\ part = "apart" => Load(apart)!RightCode /\ Load(apart)!LoadSucceeds

(* With one engine, labels name content that is there (client.rs:502).     *)
SharedIsKept == part = "shared" => Load(shared)!LabelledIsKept

(* What was saved is complete in the store, and a save fails only for a    *)
(* reason (client.rs:213-256).                                             *)
SavesCorrect ==
  part = "save" => Save!TypeOK /\ Save!SavedIsWhole /\ Save!FailureHasCause

=============================================================================
