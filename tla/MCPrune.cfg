SPECIFICATION FairSpec
CONSTANTS
  NSolvables = 3
  Inputs <- PruneInputs
INVARIANTS
  UpdatesNotPruned
