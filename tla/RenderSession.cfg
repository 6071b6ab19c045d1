SPECIFICATION SessionFairSpec
CONSTANTS
  Kinds = {"ConfigMap", "EnvironmentConfig"}
  NamespacedKinds = {"ConfigMap"}
  PrefetchedKind = "EnvironmentConfig"
  Namespaces = {"a"}
  Names = {"n"}
  Versions = {v1, v2}
  Absent = Absent
  XRNamespaces = {"a"}
  SelectorLists <- MCSelectorLists
  MaxUpdates = 1
  Composed = {c}
  MaxRenderIterations = 4
PROPERTIES
  SessionSettles
  SuppliedStays
  ImplementsRenderLoop
