CONSTANTS
  Kinds <- MCKinds
  BuiltIn = {"B"}
  XRKinds = {"XN", "XC"}
  XRKindOf <- MCXRKindOf
  CRDsOf <- MCCRDsOf
  Absent = Absent
  MaxCRDChanges = 1
  Namespaces = {"n1", "n2"}
  Inputs <- MCInputs
  Objects <- MCObjects
  Backings <- MCBackings
  UserFields = {"size", "old"}
  NoUID = "none"
  NewUID = "new"
  MaxObjectChanges = 1
  Compositions <- MCCompositions
  MaxInputs = 2
SPECIFICATION Spec
INVARIANTS
  OneSchema
  ValidatedIsLegal
  OutcomeExplained
  RenderedAsInCluster
  ObservedIsControlled
  SpecAsSynced
