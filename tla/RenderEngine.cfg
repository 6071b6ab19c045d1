SPECIFICATION FairSpec
CONSTANTS
  f1 = f1
  f2 = f2
  f3 = f3
  Free = Free
  Threads = {t1, t2, t3}
  Functions <- MCFunctions
  Pipelines <- MCPipelines
  Orphaned <- MCOrphaned
  CreatesNetwork = TRUE
INVARIANTS Served NetworkOwned NotRestarted
PROPERTIES NothingLeft Returns
