SPECIFICATION ProviderSpec
CONSTANTS
  Kinds = {"ConfigMap", "EnvironmentConfig"}
  NamespacedKinds = {"ConfigMap"}
  PrefetchedKind = "EnvironmentConfig"
  Namespaces = {"a", "b"}
  Names = {"n"}
  Versions = {v1}
  Absent = Absent
  XRNamespaces = {"", "a"}
  SelectorLists <- MCSelectorLists
  MaxUpdates = 2
INVARIANTS
  ResolvedWasAskedFor
  ResolvedIsComplete
  ResolvedStaysCached
PROPERTY
  FailedCallLeavesCache
