SPECIFICATION ImpactSpec
CONSTANTS
  m = m
  n = n
  Names = {m, n}
  Contents <- MCContents
  Documents <- MCDocuments
  Inputs <- MCInputs
  Composites <- MCComposites
  AnalyzeOn = "any-change"
  IncludeManual = FALSE
  MaxRepoints = 1
  MaxNumber = 2
  None = None
INVARIANTS Accounted RefsResolved PartitionIsRight SkippedOnlyIfInert OutcomesReachExit
CHECK_DEADLOCK FALSE
