SPECIFICATION ErrorSpec
CONSTANTS
  Plain = Plain
  Generic = Generic
  ErrorCrates <- MCCrates
INVARIANTS
  PairsAreNamed
  RepetitionIsReal
CHECK_DEADLOCK FALSE
