CONSTANTS
  Files <- MCFiles
  Rust <- MCRust
  Manifests = {"Cargo.toml"}
  Generated = {"Cargo.lock"}
  MaxRounds = 2
  MaxRuns = 2
  Starts <- MCTrackedStarts
SPECIFICATION Spec
INVARIANT RestoresEverything
CHECK_DEADLOCK FALSE
