------------------------- MODULE MCPrecompileEvict -------------------------
(* Two engines run the same image, and the collector runs. *)
EXTENDS Precompile, TLC

CONSTANTS i1, l1, s1, s2, e1, e2

OneLayer == i1 :> <<l1>>
AllWasm == l1 :> "wasm"
TwoEngines == s1 :> e1 @@ s2 :> e2

=============================================================================
