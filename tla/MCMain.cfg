SPECIFICATION FairSpec
CONSTANTS
  NSolvables = 8
  Inputs <- MainInputs
INVARIANTS
  DecidedInOrder
  ProblemProofsHold
  RpmRulesKept
  ExtrasSound
PROPERTIES
  PromiseKept
  Termination
