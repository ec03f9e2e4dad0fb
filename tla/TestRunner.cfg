SPECIFICATION Spec
CONSTANTS
  t1 = t1
  t2 = t2
  t3 = t3
  Unset = Unset
  Tests <- MCTests
  Toml <- MCToml
  Default = "user"
  Workers = 3
INVARIANTS
  SharedIsSafe
  FlagsAreFound
PROPERTIES
  EveryTestEnds
  OneAtATime
CHECK_DEADLOCK FALSE
