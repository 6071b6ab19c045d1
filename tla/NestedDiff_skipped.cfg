SPECIFICATION Spec
CONSTANTS
  Keys = {"x", "y", "a", "b"}
  XRs = {"x", "y"}
  MaxNestedDepth = 10
  Worlds <- TreeWorlds
INVARIANTS
  NestedResourcesAreKept
CHECK_DEADLOCK FALSE
