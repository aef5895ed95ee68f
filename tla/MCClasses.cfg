SPECIFICATION Spec
CONSTANTS
  Transactions <- AllWorlds
  Modes <- ShowModes
CHECK_DEADLOCK FALSE
INVARIANTS
  ShownRight
  ClassCountsMatch
