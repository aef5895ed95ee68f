SPECIFICATION Spec
CONSTANT Calls_ <- MainCalls
INVARIANTS
  ListsExact
  FiltersKeepChoice
  RpmRulesRight
  HandedOver
  PolicyRight
  CleanDepsJustified
PROPERTIES
  GenerationEnds
