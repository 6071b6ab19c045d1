----------------------------- MODULE SchemaClient -----------------------------
(***************************************************************************)
(* The schema client (client/kubernetes/schema_client.go), the type        *)
(* converter it asks for names (type_converter.go) and the definition      *)
(* client (client/crossplane/definition_client.go): one CRD per kind,      *)
(* fetched when it is first needed and kept for the run, while the ones of *)
(* the cluster may change. A CRD is kept twice, by name and in the list    *)
(* the validation library is given.                                        *)
(*                                                                         *)
(* The XRDs are loaded once, when the run begins, and do not change for    *)
(* it; the CRD of an XRD has the XRD's name.                               *)
(***************************************************************************)
EXTENDS Naturals, Sequences

CONSTANTS
  Kinds,        \* GVKs of XRs, claims and composed resources
  BuiltIn,      \* of the core API, a standard group or any other *.k8s.io group
  XRKinds,      \* those an XRD defines as an XR
  XRKindOf,     \* claim kind -> kind of the XR that backs it, per XRD
  CRDsOf,       \* the CRDs a kind may have in the cluster: [scope, strict]
  Absent,       \* no CRD in the cluster
  MaxCRDChanges \* bound on the changes made to the CRDs of the cluster

ClaimKinds == DOMAIN XRKindOf
CRDContent == [scope : {"Namespaced", "Cluster"}, strict : BOOLEAN]

ASSUME SchemaClientAssumption ==
  /\ BuiltIn \cup XRKinds \cup ClaimKinds \subseteq Kinds
  /\ XRKinds \cap ClaimKinds = {}
  /\ \A k \in ClaimKinds : XRKindOf[k] \in XRKinds
  /\ Absent \notin CRDContent
  /\ CRDsOf \in [Kinds -> SUBSET (CRDContent \cup {Absent})]
  /\ MaxCRDChanges \in Nat

VARIABLES
  clusterCRD,   \* the CRD the cluster has for every kind, or Absent
  crdChanges,   \* how often one changed
  crdByName,    \* c.crdByName, a function from some kinds to CRDs
  crds,         \* c.crds, the cached CRDs in the order they were fetched
  toLoad,       \* XR kinds whose CRD LoadCRDsFromXRDs has not fetched
  loading       \* "loading", "loaded" or "aborted"

clientVars == <<clusterCRD, crdChanges, crdByName, crds, toLoad, loading>>

-----------------------------------------------------------------------------
(* IsClaimResource, GetXRDForClaim and GetXRDForXR: the kind of the XR of  *)
(* the XRD that defines this kind.                                         *)
IsClaimKind(k) == k \in ClaimKinds
IsDefined(k) == k \in XRKinds \cup ClaimKinds
DefinedKind(k) == IF IsClaimKind(k) THEN XRKindOf[k] ELSE k

(* IsCRDRequired, which goes by the group alone: some *.k8s.io groups have *)
(* CRDs all the same, and GetCRD finds and caches them like any other.     *)
CRDRequired(k) == k \notin BuiltIn

(* GetCRD finds a CRD if discovery knows the kind and answers, and the CRD *)
(* is cached or can be fetched (`ok': every call to the cluster succeeds). *)
Found(k, ok) == ok /\ (k \in DOMAIN crdByName \/ clusterCRD[k] # Absent)

(* A slip in GetCRD: the cache is not looked at first.                     *)
FetchedCRD(k) == clusterCRD[k]

(* What GetCRD then returns.                                               *)
CRDFor(k) == IF k \in DOMAIN crdByName THEN crdByName[k] ELSE clusterCRD[k]

(* addCRD, which keeps the one it has.                                     *)
AddCRD(k) ==
  IF k \in DOMAIN crdByName
  THEN UNCHANGED <<crdByName, crds>>
  ELSE /\ crdByName' = [j \in DOMAIN crdByName \cup {k} |->
                          IF j = k THEN clusterCRD[k] ELSE crdByName[j]]
       /\ crds' = Append(crds, [kind |-> k, crd |-> clusterCRD[k]])

(* GetCRD, as far as the caches are concerned.                             *)
GetCRD(k, ok) ==
  /\ IF Found(k, ok) THEN AddCRD(k) ELSE UNCHANGED <<crdByName, crds>>
  /\ UNCHANGED <<clusterCRD, crdChanges, toLoad, loading>>

-----------------------------------------------------------------------------
ClientInit ==
  /\ clusterCRD \in [Kinds -> CRDContent \cup {Absent}]
  /\ \A k \in Kinds : clusterCRD[k] \in CRDsOf[k]
  /\ crdChanges = 0
  /\ crdByName = [k \in {} |-> Absent]
  /\ crds = << >>
  /\ toLoad = XRKinds
  /\ loading = "loading"

(* The next CRD of LoadCRDsFromXRDs; the first that is missing ends it,    *)
(* and the run with it. What was fetched stays cached.                     *)
LoadCRD(k, ok) ==
  /\ loading = "loading"
  /\ k \in toLoad
  /\ IF Found(k, ok)
     THEN AddCRD(k) /\ UNCHANGED loading
     ELSE loading' = "aborted" /\ UNCHANGED <<crdByName, crds>>
  /\ toLoad' = toLoad \ {k}
  /\ UNCHANGED <<clusterCRD, crdChanges>>

(* Only then are the XRDs' names mapped to their CRDs.                     *)
FinishLoading ==
  /\ loading = "loading"
  /\ toLoad = {}
  /\ loading' = "loaded"
  /\ UNCHANGED <<clusterCRD, crdChanges, crdByName, crds, toLoad>>

(* The XRDs cannot be listed: "cannot get XRDs".                           *)
LoadingFails ==
  /\ loading = "loading"
  /\ toLoad = XRKinds
  /\ loading' = "aborted"
  /\ UNCHANGED <<clusterCRD, crdChanges, crdByName, crds, toLoad>>

(* GetCRDByName with the name of an XRD.                                   *)
KnownByXRDName(k) == loading = "loaded" /\ DefinedKind(k) \in DOMAIN crdByName

(* Somebody installs, upgrades or removes a CRD.                           *)
CRDChanges(k, crd) ==
  /\ crdChanges < MaxCRDChanges
  /\ crd \in CRDsOf[k]
  /\ crd # clusterCRD[k]
  /\ clusterCRD' = [clusterCRD EXCEPT ![k] = crd]
  /\ crdChanges' = crdChanges + 1
  /\ UNCHANGED <<crdByName, crds, toLoad, loading>>
=============================================================================
