SPECIFICATION RunSpec
CONSTANTS
  a = a
  b = b
  xr1 = xr1
  xr2 = xr2
  xr3 = xr3
  f1 = f1
  f2 = f2
  f3 = f3
  f4 = f4
  host = host
  org = org
  other = other
  max = max
  foo = foo
  Free = Free
  Main = main
  NoFunctions = NoFunctions
  Pipelines <- MCPipelines
  CreatesNetwork = TRUE
  Compositions <- MCCompositions
  Package <- MCPackage
  Hosts <- MCHosts
  Registry <- MCRegistry
  EnvPairs <- MCEnvPairs
  MaxRecv <- MCMaxRecv
INVARIANTS EveryContainerRemoved PreparedOnce NeededFunctions
PROPERTY NetworkReleasedLast
