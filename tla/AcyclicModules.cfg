CONSTANTS
  Modules <- MCModules
  CrateIds <- MCCrateIds
  Crate <- MCCrate
SPECIFICATION Spec
INVARIANTS
  TypeOK
  GrayIsOnPath
  ReportedIffCyclic
  EveryTangleReported
  DiagnosticsExact
PROPERTIES
  KeepsPromise
CHECK_DEADLOCK FALSE
