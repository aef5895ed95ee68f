SPECIFICATION FairSpec
CONSTANTS
  NSolvables = 3
  Inputs <- WeakEraseInputs
INVARIANTS
  SolutionSatisfies
