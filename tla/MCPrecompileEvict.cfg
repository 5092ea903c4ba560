\* Two engines run the same image, one after the other.
SPECIFICATION Spec
CONSTANTS
  s1 = s1 s2 = s2 i1 = i1 l1 = l1 e1 = e1 e2 = e2
  Shims = {s1, s2}
  Images = {i1}
  Layers = {l1}
  Engines = {e1, e2}
  EngineOf <- TwoEngines
  LayersOf <- OneLayer
  WasmImages = {i1}
  WasmLayers = {l1}
  Binary <- AllWasm
  Precompilers = {e1, e2}
  MaxLayers = 2
  Faults = {"collect"}
  Flag = Flag
  None = None
INVARIANT LabelledIsKept
CHECK_DEADLOCK FALSE
