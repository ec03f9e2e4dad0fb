SPECIFICATION Spec
CONSTANTS
  Families <- MCFamilies
  DEFAULT_PATHS <- MCDefaults
  SPAWN_BLOCKING_PATHS <- MCSpawn
  Config <- MCConfig
  CHECK_NEW_VARIANTS = TRUE
  Generics = {"<T>"}
INVARIANTS
  TypeOK
  DropFindsDoublePanics
  NewFindsPanics
  PathCallsAreFound
CHECK_DEADLOCK FALSE
