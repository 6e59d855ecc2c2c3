SPECIFICATION Spec
CONSTANTS
  Programs <- All
  Compiled <- Loaded
  MaxCallDepth = 20
INVARIANTS HandlersNest SlotsStand CacheSound Parity
PROPERTY Halts
