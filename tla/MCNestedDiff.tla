----------------------------- MODULE MCNestedDiff -----------------------------
(***************************************************************************)
(* TLC instances of NestedDiff. The root x may compose the XR y and the    *)
(* resources a and b, y may compose a and b (so that a resource can move   *)
(* from one to the other), and the cluster may have any of them below x or *)
(* below y.                                                                *)
(***************************************************************************)
EXTENDS NestedDiff

TreeWorlds ==
  {[roots       |-> <<"x">>,
    renders     |-> [k \in XRs |-> IF k = "x" THEN rx ELSE IF k = "y" THEN ry ELSE {}],
    composition |-> [k \in XRs |-> k # "y" \/ found],
    inCluster   |-> root \cup {k \in {"y", "a", "b"} : owner[k] # "none"},
    children    |-> [k \in Keys |-> {c \in {"y", "a", "b"} : owner[c] = k}],
    unannotated |-> un,
    changed     |-> ch] :
     rx \in SUBSET {"y", "a", "b"}, ry \in SUBSET {"a", "b"}, found \in BOOLEAN,
     root \in {{}, {"x"}}, un \in {{}, {"b"}}, ch \in SUBSET {"x", "a"},
     owner \in {o \in [{"y", "a", "b"} -> {"x", "y", "none"}] :
                  /\ o["y"] # "y"
                  /\ o["y"] = "none" => o["a"] # "y" /\ o["b"] # "y"}}

(* Two inputs, x composing y, and z which composes nothing.                *)
RunWorlds ==
  {[roots       |-> <<"x", "z">>,
    renders     |-> [k \in XRs |-> IF k = "x" THEN {"y"} ELSE {}],
    composition |-> [k \in XRs |-> k # "y" \/ found],
    inCluster   |-> {"x", "y", "z"},
    children    |-> [k \in Keys |-> IF k = "x" THEN {"y"} ELSE {}],
    unannotated |-> {},
    changed     |-> ch] : found \in BOOLEAN, ch \in SUBSET {"x", "y", "z"}}

MCWorlds == TreeWorlds \cup RunWorlds
=============================================================================
