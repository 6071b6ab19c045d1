SPECIFICATION Spec
CONSTANTS
  Nobody = Nobody
  Objects <- MCObjects
  Worlds <- MCWorlds
  ResourceNames = {"a", "b"}
  MaxChanges = 1
INVARIANTS ChangedNotReplaced RemovalsAreComplete LabelKept RefsAreAdmissible
