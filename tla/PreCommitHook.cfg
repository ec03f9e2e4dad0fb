CONSTANTS
  Files <- MCFiles
  Rust <- MCRust
  Manifests = {"Cargo.toml"}
  Generated = {"Cargo.lock"}
  MaxRounds = 2
  MaxRuns = 2
  Starts <- MCStarts
SPECIFICATION Spec
INVARIANTS
  StashIsOwn
  NothingLost
  CommitsCheckedStaged
  RestoresTheRest
CHECK_DEADLOCK FALSE
