------------------------ MODULE MCCompositionSelection ------------------------
(* Two compositions of one type and one content of another; composites     *)
(* that name a composition, pinned or not, select one by label, or say     *)
(* nothing.                                                                *)
EXTENDS CompositionSelection

CONSTANTS m, n

Content(type, labels, spec) == [type |-> type, labels |-> labels, spec |-> spec]
old == Content("T", {}, 1)
new == Content("T", {"prod"}, 2)
other == Content("U", {"prod"}, 1)

MCContents == {old, new, other}

XR(ref, selector, policy, revisionRef, revisionSelector) ==
  [type |-> "T", ref |-> ref, selector |-> selector, policy |-> policy,
   revisionRef |-> revisionRef, revisionSelector |-> revisionSelector]

MCComposites ==
  {XR(m, {}, "Automatic", None, {}),
   XR(m, {}, "Manual", None, {"prod"}),
   XR(m, {}, "Automatic", <<m, old>>, {"prod"}),
   XR(m, {}, "Manual", <<m, old>>, {}),
   XR(m, {}, "Manual", <<n, old>>, {}),
   XR(None, {"prod"}, "Automatic", None, {}),
   XR(None, {}, "Automatic", None, {})}
=============================================================================
