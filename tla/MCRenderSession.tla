---------------------------- MODULE MCRenderSession ----------------------------
(***************************************************************************)
(* TLC instance of RenderSession.                                          *)
(***************************************************************************)
EXTENDS RenderSession, TLC

(* Contents are only compared for equality.                                *)
Symmetry == Permutations(Versions)

Sel(match, kind, ns) == [match |-> match, kind |-> kind, ns |-> ns, names |-> Names]

(* A list that reads a key by name, from the cache or the cluster, and     *)
(* then by label, always from the cluster; and one that lists what was     *)
(* prefetched.                                                             *)
MCSelectorLists ==
  {<<Sel("name", "ConfigMap", ""), Sel("labels", "ConfigMap", "")>>,
   <<Sel("labels", "EnvironmentConfig", "")>>}
=============================================================================
