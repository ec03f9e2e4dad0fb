SPECIFICATION Spec
CONSTANTS
  Types <- MCTypes
  Adts <- MCAdts
  AdtOf <- MCAdtOf
  Local <- MCLocal
  Name <- MCName
  Reasons <- MCReasons
  MaxDepth = 2
  MaxEdges = 3
  Crates <- MCCrates
INVARIANTS
  SearchIsSound
  NearestIsNamed
  NothingMissed
CHECK_DEADLOCK FALSE
