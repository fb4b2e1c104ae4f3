SPECIFICATION FairSpec
CONSTANTS
  MaxCalls = 3
  MaxCallbacks = 2
  Worlds <- ManyWorlds
INVARIANTS ServedInOrder
PROPERTIES ImplementsCalls CallsReturn ChildEnds
CHECK_DEADLOCK FALSE
