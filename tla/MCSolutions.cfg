SPECIFICATION FairSolutions
CONSTANTS
  NSolvables = 5
  MaxAsks = 2
  Inputs <- SolutionInputs
INVARIANTS
  OffersSound
  ProblemsAnswered
PROPERTIES
  OffersStay
  CreationEnds
