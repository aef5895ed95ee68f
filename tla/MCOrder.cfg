SPECIFICATION Spec
CONSTANTS
  Transactions <- OrderWorlds
  MaxEarly = 1
INVARIANTS
  AssertionsHold
  BreaksTheWeakest
  OrderSound
  CyclesStayTogether
PROPERTIES
  NoNeedlessChange
  KeepsPromise
  EventuallyOrdered
