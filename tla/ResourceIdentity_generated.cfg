SPECIFICATION Spec
CONSTANTS
  Nobody = Nobody
  Objects <- MCObjects
  Worlds <- MCWorlds
  ResourceNames = {"a", "b"}
  MaxChanges = 0
INVARIANTS EveryNewResourceIsShown
