CONSTANTS
  Modules <- MCModules
  CrateIds <- MCCrateIds
  Crate <- MCCrate
SPECIFICATION Spec
INVARIANTS
  TypeOK
  NothingSlips
  OnlyDue
  UnlistedOnce
  DeadEdgesExact
CHECK_DEADLOCK FALSE
