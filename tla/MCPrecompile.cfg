\* Two engines, crashes, refused requests, collection; and the other instances.
SPECIFICATION AllSpec
CONSTANTS
  s1 = s1 s2 = s2 i1 = i1 i2 = i2 i3 = i3 l1 = l1 l2 = l2 l3 = l3 l4 = l4 e1 = e1 e2 = e2
  Shims = {s1, s2}
  Images = {i1}
  Layers = {l1}
  Engines = {e1, e2}
  EngineOf <- TwoEngines
  LayersOf <- OneLayer
  WasmImages = {i1}
  WasmLayers = {l1}
  Binary <- AllWasm
  Precompilers = {e1, e2}
  MaxLayers = 2
  Faults = {"crash", "rpc", "collect"}
  Flag = Flag
  None = None
INVARIANTS
  RightCode SavedIsKept LeaseReleased LoadsCorrect SharedIsKept SavesCorrect
CHECK_DEADLOCK FALSE
