SPECIFICATION Spec
CONSTANTS
  m = m
  n = n
  Names = {m, n}
  Contents <- MCContents
  Composites <- MCComposites
  MaxChanges = 2
  None = None
INVARIANTS OneAnswer SameRevision AnswersFit
