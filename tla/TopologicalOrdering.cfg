CONSTANTS
  NoDef = NoDef
  None = NoDef
  CrateIds <- MCCrateIds
  Crate <- MCCrate
SPECIFICATION Spec
INVARIANTS
  TarjanIsExact
  OrderExact
  Satisfiable
PROPERTIES
  Terminates
CHECK_DEADLOCK FALSE
