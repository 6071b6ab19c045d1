------------------------ MODULE MCRequirementsProvider ------------------------
(***************************************************************************)
(* TLC instance of RequirementsProvider: one namespaced and one            *)
(* cluster-scoped kind, two namespaces, one name.                          *)
(***************************************************************************)
EXTENDS RequirementsProvider

Sel(match, kind, ns) == [match |-> match, kind |-> kind, ns |-> ns, names |-> Names]

(* By name with and without a namespace, by label likewise, on either kind *)
(* (a namespace on a cluster-scoped kind must be ignored), unsupported.    *)
MCSelectors ==
  {Sel("name", "ConfigMap", ""), Sel("name", "ConfigMap", "b"),
   Sel("labels", "ConfigMap", ""), Sel("labels", "ConfigMap", "b"),
   Sel("name", "EnvironmentConfig", "b"), Sel("labels", "EnvironmentConfig", "b"),
   Sel("none", "ConfigMap", "")}

MCSelectorLists == {<<s>> : s \in MCSelectors} \cup {<<s, t>> : s, t \in MCSelectors}
=============================================================================
