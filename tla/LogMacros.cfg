SPECIFICATION LogSpec
CONSTANTS
  LogCrates <- MCCrates
  Literals <- MCLiterals
INVARIANTS
  WarningsAreDue
  NoneSlips
CHECK_DEADLOCK FALSE
