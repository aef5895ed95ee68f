SPECIFICATION Spec
CONSTANTS
  Runs = {"a", "b"}
  MaxVersion = 2
  MaxStarts = 3
  Kinds = {"rpmmd", "susetags", "system"}
  Signed = {"rpmmd"}
  Faults = {"index", "signature", "primary", "filelists", "extspace", "rename", "power"}
CHECK_DEADLOCK FALSE
INVARIANTS
  CookiesSound
PROPERTIES
  KeepsSnapshots
  ReadingEnds
