SPECIFICATION Spec
CONSTANTS
  f = f
  g = g
  h = h
  Local <- MCLocal
  LocalPaths <- MCLocalPaths
  Crates <- MCCrates
INVARIANTS
  SearchIsSound
  FirstWaitIsReported
PROPERTIES
  SearchEnds
CHECK_DEADLOCK FALSE
