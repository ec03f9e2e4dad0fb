SPECIFICATION BuilderSpec
CONSTANTS
  BuilderCrates <- MCCrates
  DerivePaths <- MCPaths
  SkipDerives <- MCSkipDerives
  SuggestFrom = 2
  NeedlessTo = 2
INVARIANTS
  VerdictsAgree
  OwnNameOwnVerdict
  WrappersOnlyForward
CHECK_DEADLOCK FALSE
