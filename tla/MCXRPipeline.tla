----------------------------- MODULE MCXRPipeline -----------------------------
(* A namespaced XR (XN), a cluster-scoped XR (XC) with its claim (C), a    *)
(* composed kind whose CRD is upgraded between two scopes or missing (A),  *)
(* and a kind of a *.k8s.io group that has a CRD (B); where it cannot be   *)
(* looked up it is as good as one of the core API.                         *)
EXTENDS XRPipeline

MCKinds == {"XN", "XC", "C", "A", "B"}
MCXRKindOf == [k \in {"C"} |-> "XC"]

CRD(scope, strict) == [scope |-> scope, strict |-> strict]
MCCRDsOf == [k \in MCKinds |->
  CASE k = "A" -> {CRD("Namespaced", TRUE), CRD("Cluster", FALSE), Absent}
    [] k = "B" -> {CRD("Namespaced", TRUE)}
    [] k = "C" -> {CRD("Namespaced", FALSE), Absent}
    [] k = "XN" -> {CRD("Namespaced", FALSE)}
    [] k = "XC" -> {CRD("Cluster", TRUE), CRD("Cluster", FALSE)}]

Input(kind, ns, odd, has, manual, bare) ==
  [kind |-> kind, ns |-> ns, odd |-> odd, has |-> has, manual |-> manual, bare |-> bare]
MCInputs ==
  { Input("XN", "n1", FALSE, {}, FALSE, FALSE),
    Input("XC", "", TRUE, {}, FALSE, FALSE),
    Input("C", "n1", FALSE, {"size", "compositionRef"}, FALSE, FALSE),
    Input("C", "n1", FALSE, {"size", "compositionUpdatePolicy"}, TRUE, FALSE),
    Input("C", "", FALSE, {}, FALSE, TRUE),
    Input("A", "n1", FALSE, {}, FALSE, FALSE) }

MCObjects == {[uid |-> "o1", ref |-> r] : r \in {"none", "partial", "full"}}
MCBackings ==
  { [uid |-> "b1", manual |-> FALSE, bare |-> FALSE,
     has |-> {"old", "claimRef", "compositionRef", "compositionRevisionRef"}],
    [uid |-> "b2", manual |-> TRUE, bare |-> FALSE,
     has |-> {"size", "resourceRefs", "compositionSelector", "compositionRevisionRef",
              "compositionUpdatePolicy"}] }

Made(kind, ns, odd) == [kind |-> kind, ns |-> ns, odd |-> odd]
MCCompositions ==
  { << >>,
    << Made("A", "n1", TRUE) >>,
    << Made("XN", "n1", FALSE), Made("A", "n2", FALSE) >>,
    << Made("A", "", FALSE), Made("B", "", FALSE) >> }
=============================================================================
