------------------------- MODULE MCResourceIdentity -------------------------
(* Two composed resources of a root composite, of a nested one whose        *)
(* sibling composes a resource of the same name, and of a claim.            *)
EXTENDS ResourceIdentity

Object(prefix, suffix, rname, owner) ==
    [name |-> <<prefix, suffix>>, rname |-> rname, owner |-> owner]

MCObjects == {
    Object("xr-", "a", "a", "self"),        \* named as it would be rendered
    Object("xr-", "old", "a", "self"),      \* named by an earlier version
    Object("old-", "b", "b", "self"),       \* its prefix has changed since
    Object("b", "", "b", "self"),
    Object("b", "sibling", "b", "sibling"),
    Object("b", "", "b", "stranger")}

Ref(owner, uid, controller) == [owner |-> owner, uid |-> uid, controller |-> controller]

Rendered(rname, name, gen, label, refs) ==
    [rname |-> rname, name |-> name, gen |-> gen, label |-> label, refs |-> refs]

World(kind, exists, generated, desired) ==
    [kind |-> kind, exists |-> exists, generated |-> generated, desired |-> desired]

\* The references the render engine gives, in a root, nested and claimed composite.
bare == <<Ref("xr", "", TRUE)>>
doubled == <<Ref("nested", "hash", TRUE), Ref("nested", "uid", TRUE)>>
claimed == <<Ref("claim", "", TRUE), Ref("xr", "", TRUE)>>

generatedA == <<"xr-", "a">>
generatedB == <<"xr-", "b">>
fixedB == <<"b", "">>

\* What is rendered for a and b, each with a generated or a fixed name, or
\* with only a prefix; a resource with neither is skipped.
Pairs(label, refs) == {
    <<Rendered("a", generatedA, "xr-", label, refs), Rendered("b", fixedB, Nobody, label, refs)>>,
    <<Rendered("a", Nobody, "xr-", label, refs), Rendered("b", generatedB, "xr-", label, refs)>>,
    <<Rendered("b", Nobody, Nobody, label, refs), Rendered(Nobody, fixedB, Nobody, label, refs),
      Rendered("a", <<"a", "">>, Nobody, label, refs)>>}

MCWorlds ==
    {World("root", exists, FALSE, desired) : exists \in BOOLEAN,
        desired \in Pairs(Root, bare) \cup Pairs(Nobody, bare)}
    \cup {World("root", FALSE, TRUE, desired) : desired \in Pairs(Root, bare)}
    \cup {World("nested", exists, FALSE, desired) : exists \in BOOLEAN, desired \in Pairs(Root, doubled)}
    \cup {World("claim", exists, FALSE, desired) : exists \in BOOLEAN, desired \in Pairs(Root, claimed)}
=============================================================================
