SPECIFICATION FairSpec
CONSTANTS
  NSolvables = 8
  Inputs <- ChoiceInputs
INVARIANTS
  TrailSound
  PropagationSound
  ProofsEntail
PROPERTIES
  GivesUpOnlyWhenNeeded
