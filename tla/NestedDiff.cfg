SPECIFICATION FairSpec
CONSTANTS
  Keys = {"x", "y", "z", "a", "b"}
  XRs = {"x", "y", "z"}
  MaxNestedDepth = 10
  Worlds <- MCWorlds
INVARIANTS
  GroupsAreExact
  ExitCodeIsWorst
PROPERTY
  Finishes
CHECK_DEADLOCK FALSE
