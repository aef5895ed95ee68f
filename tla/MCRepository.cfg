SPECIFICATION PropertySpec
CONSTANTS
  Vertical = {"summary", "files"}
  Menus <- MCMenus
  Pools <- MCPools
  Packages <- MCPackages
  Spelling <- MCSpelling
  Cuts = {"no", "header", "early"}
  MaxCalls = 5
  MaxLater = 2
CHECK_DEADLOCK FALSE
INVARIANTS
  RepositorySound
PROPERTIES
  KeepsAttributes
