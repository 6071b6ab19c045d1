----------------------------- MODULE MCCompImpact -----------------------------
(* Up to two compositions among other documents, with and without refs,    *)
(* and composites of every kind that is treated differently, among them an *)
(* XR and a claim of one name.                                             *)
EXTENDS CompImpact

CONSTANTS m, n

plain == [labels |-> {}]
prod == [labels |-> {"prod"}]
MCContents == {plain, prod}

Document(kind, name, content, scope, masked, fails) ==
  [kind |-> kind, name |-> name, content |-> content, scope |-> scope,
   masked |-> masked, fails |-> fails]

edited == Document("Composition", m, prod, "spec", FALSE, FALSE)
relabelled == Document("Composition", m, plain, "metadata", TRUE, FALSE)
identical == Document("Composition", n, plain, "none", FALSE, FALSE)
broken == Document("Composition", n, plain, "spec", FALSE, TRUE)
template == Document("GoTemplate", n, plain, "spec", FALSE, FALSE)

MCDocuments == {edited, relabelled, identical, broken, template}

Composite(kind, name, deleting, malformed, policy, revisionSelector) ==
  [kind |-> kind, name |-> name, deleting |-> deleting, malformed |-> malformed,
   policy |-> policy, revisionSelector |-> revisionSelector]

selecting == Composite("XR", "selecting", FALSE, "nothing", "Automatic", {"prod", m})
following == Composite("claim", "shared", FALSE, "nothing", "Automatic", {})
pinned == Composite("XR", "pinned", FALSE, "selector", "Manual", {"prod"})
deleted == Composite("claim", "deleted", TRUE, "policy", "Automatic", {})
unreadable == Composite("XR", "shared", FALSE, "policy", "Automatic", {})

MCComposites == {selecting, following, pinned, deleted, unreadable}

MCInputs ==
  [documents : {<< >>, <<edited>>, <<relabelled>>, <<template, edited, identical>>, <<broken, edited>>},
   refs : {<< >>, <<"shared", "selecting">>, <<"pinned", "deleted", "shared">>}]
=============================================================================
