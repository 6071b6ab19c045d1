------------------------- MODULE ResourceIdentity -------------------------
(***************************************************************************)
(* Which object of the cluster each resource rendered for one composite is *)
(* compared with, what identity, owner references and labels it is given,  *)
(* under which key its diff is kept, and which objects are then reported   *)
(* as removed: DefaultDiffCalculator and DefaultResourceManager.           *)
(*                                                                         *)
(* All resources here have one kind and one namespace, so a diff key is a  *)
(* name, and a name is a prefix with a suffix. The suffix of a name that   *)
(* was generated is a hash, here the composition resource name it is       *)
(* computed from. The composite's own diff, whose key has another kind,    *)
(* is left out. Other clients of the cluster create and delete objects     *)
(* between the calls.                                                      *)
(***************************************************************************)
EXTENDS Naturals, Sequences, FiniteSets

CONSTANTS
    Objects,      \* objects that may exist: [name, rname, owner]
    Worlds,       \* what is diffed: [kind, exists, generated, desired]
    ResourceNames,\* values of the composition-resource-name annotation
    MaxChanges,   \* bound on what other clients create and delete
    Nobody        \* no object, no name, no prefix or no label

\* The name of the root composite, which all objects of a tree are labelled with.
Root == "xr"

Refs == [owner : STRING, uid : STRING, controller : BOOLEAN]

ASSUME ObjectsAssumption ==
    \A o \in Objects : o.owner \in {"self", "sibling", "stranger"} /\ o.rname \in ResourceNames
ASSUME NobodyAssumption ==
    Nobody \notin Objects /\ Nobody \notin ResourceNames /\ Nobody \notin {Root, "stranger"}
ASSUME ChangesAssumption == MaxChanges \in Nat

\* What the render engine returns for a composite of this kind: below a nested one
\* all is labelled with the root. The references to controllers all are to one
\* owner, the composite, but for one to the claim.
AsRendered(kind, label, refs) ==
    /\ label = Root \/ kind = "claim" \/ (kind = "root" /\ label = Nobody)
    /\ refs \in Seq(Refs)
    /\ \A j, k \in DOMAIN refs :
          refs[j].controller /\ refs[k].controller =>
              IF kind = "claim" THEN j = k \/ "claim" \in {refs[j].owner, refs[k].owner}
              ELSE refs[j].owner = refs[k].owner

ASSUME WorldsAssumption ==
    \A w \in Worlds :
        /\ w.kind \in {"root", "nested", "claim"} /\ w.exists \in BOOLEAN /\ w.generated \in BOOLEAN
        /\ w.desired \in Seq({w.desired[i] : i \in DOMAIN w.desired})
        /\ \A i \in DOMAIN w.desired : AsRendered(w.kind, w.desired[i].label, w.desired[i].refs)

VARIABLES
    world,    \* the composite and the resources rendered for it
    cluster,  \* the objects that exist
    next,     \* the index of the rendered resource under way
    pc,       \* the call that comes next: "get", "list", "apply"; then "done"
    look,     \* [current, matches, blind]: what the look-ups found so far
    results,  \* a record per resource that was diffed
    diffs,    \* a function from keys to [type, of]
    rendered, \* renderedResources
    failed,   \* some resource could not be diffed
    removed,  \* the objects reported as removed
    changes   \* how many times other clients changed the cluster

vars == <<world, cluster, next, pc, look, results, diffs, rendered, failed, removed, changes>>

-----------------------------------------------------------------------------
\* Labels and composites

ParentName == CASE world.kind = "root" -> Root [] OTHER -> world.kind

LabelOf(o) == IF o.owner = "stranger" THEN "stranger" ELSE Root

\* A new composite without a name of its own is nobody's parent.
HasComposite == world.exists \/ ~world.generated

ParentUID == IF world.exists THEN "uid" ELSE ""

-----------------------------------------------------------------------------
\* The look-up of the current object

\* (A slip: the label the resource was rendered with is not looked at.)
LabelledWithParent(d) ==
    {o \in cluster : IF world.kind = "claim" THEN o.owner = "self" ELSE LabelOf(o) = ParentName}

\* The objects the label selector for d returns.
Labelled(d) ==
    CASE world.kind = "claim" -> {o \in cluster : o.owner = "self"}
      [] world.kind # "claim" /\ d.label \notin {Nobody, ParentName} ->
            {o \in cluster : LabelOf(o) = d.label}
      [] OTHER -> {o \in cluster : LabelOf(o) = ParentName}

HasPrefix(name, gen) == name[1] = gen

\* Those findMatchingResource may return: it takes the first of the list.
Matching(d) ==
    {o \in Labelled(d) : o.rname = d.rname /\ (d.gen # Nobody => HasPrefix(o.name, d.gen))}

\* The look-up by labels is tried for annotated resources of a known composite.
LooksByLabel(d) == HasComposite /\ d.rname # Nobody

-----------------------------------------------------------------------------
\* What a rendered resource becomes

\* (A slip: two references to the parent stay two.)
RefsNotCollapsed(refs) ==
    [k \in DOMAIN refs |->
        [refs[k] EXCEPT !.uid = IF refs[k].owner = ParentName /\ ParentUID # "" THEN ParentUID
                                ELSE IF @ = "" THEN "random" ELSE @]]

\* References to the parent take the UID the cluster knows; of those to one
\* owner the first stays, here in its place.
RefsForXR(refs) ==
    LET first == {k \in DOMAIN refs : \A j \in 1 .. k - 1 : refs[j].owner # refs[k].owner}
    IN  [k \in first |->
            [refs[k] EXCEPT !.uid = IF refs[k].owner = ParentName /\ ParentUID # "" THEN ParentUID
                                    ELSE IF @ = "" THEN "random" ELSE @]]

\* A claim owns nothing as a controller, and lends no UID.
RefsForClaim(refs) ==
    [k \in DOMAIN refs |->
        [refs[k] EXCEPT !.uid = IF @ = "" THEN "random" ELSE @,
                        !.controller = @ /\ refs[k].owner # ParentName]]

OwnerRefs(refs) ==
    IF ~HasComposite THEN refs
    ELSE IF world.kind = "claim" THEN RefsForClaim(refs) ELSE RefsForXR(refs)

\* The composite label after that of an existing object is preserved.
PreservedLabel(d, current) == IF current = Nobody THEN d.label ELSE LabelOf(current)

\* (A slip: the label is the parent's, whatever it was.)
OwnerLabelSet(label) == IF HasComposite THEN ParentName ELSE label

\* The composite label in the end: one that is there stays.
OwnerLabel(label) == IF HasComposite /\ label = Nobody THEN ParentName ELSE label

\* The name a diff shows, which is its key. A generated name is not shown.
DisplayName(d, current) ==
    CASE current # Nobody -> current.name
      [] current = Nobody /\ d.gen # Nobody /\ (d.name = Nobody \/ d.name = <<d.gen, d.rname>>) ->
            <<d.gen, "(generated)">>
      [] OTHER -> d.name

-----------------------------------------------------------------------------
\* States

Desired == world.desired

\* Resources with neither a name nor a prefix are skipped.
Nameless(d) == d.name = Nobody /\ d.gen = Nobody

Unseen == [current |-> Nobody, matches |-> {}, blind |-> FALSE]

Init ==
    /\ world \in Worlds
    /\ cluster \in SUBSET Objects
    /\ \A o, p \in cluster :
          o.name = p.name \/ (o.owner = "self" /\ p.owner = "self" /\ o.rname = p.rname) => o = p
    /\ ~world.exists => \A o \in cluster : o.owner # "self"
    /\ world.kind # "nested" => \A o \in cluster : o.owner # "sibling"
    /\ next = 1
    /\ pc = "get"
    /\ look = Unseen
    /\ results = <<>>
    /\ diffs = [k \in {} |-> Nobody]
    \* a sibling was processed before
    /\ rendered = {o.name : o \in {p \in cluster : p.owner = "sibling"}}
    /\ failed = FALSE
    /\ removed = {}
    /\ changes = 0

Current == Desired[next]

Working(step) == pc = step /\ next <= Len(Desired) /\ ~Nameless(Current)

NextResource ==
    /\ next' = next + 1
    /\ pc' = "get"
    /\ look' = Unseen
    /\ UNCHANGED <<world, cluster, removed, changes>>

Skip ==
    /\ pc = "get" /\ next <= Len(Desired) /\ Nameless(Current)
    /\ NextResource
    /\ UNCHANGED <<results, diffs, rendered, failed>>

\* (A slip: the resource is left out and its error dropped.)
SkipFailed == NextResource /\ UNCHANGED <<results, diffs, rendered, failed>>

\* The resource under way cannot be diffed: the error is collected, the next
\* resource is diffed all the same.
Fail ==
    /\ failed' = TRUE
    /\ NextResource
    /\ UNCHANGED <<results, diffs, rendered>>

\* The current object is settled; it is compared next.
Settle(current, matches, blind) ==
    /\ look' = [current |-> current, matches |-> matches, blind |-> blind]
    /\ pc' = "apply"
    /\ UNCHANGED <<world, cluster, next, results, diffs, rendered, failed, removed, changes>>

Named == {o \in cluster : o.name = Current.name}

\* The object of the rendered name, whoever owns it.
GetFound == Working("get") /\ \E o \in Named : Settle(o, {}, FALSE)

\* There is none, or there is no name to ask for.
GetNotFound ==
    /\ Working("get")
    /\ Named = {}
    /\ IF LooksByLabel(Current)
       THEN /\ pc' = "list"
            /\ UNCHANGED <<world, cluster, next, look, results, diffs, rendered, failed, removed,
                           changes>>
       ELSE Settle(Nobody, {}, FALSE)

GetFails == Working("get") /\ Current.name # Nobody /\ Fail

List ==
    /\ Working("list")
    /\ LET matches == Matching(Current)
       IN  \/ \E o \in matches : Settle(o, matches, FALSE)
           \/ matches = {} /\ Settle(Nobody, {}, FALSE)

\* A list that fails makes a resource with a prefix a new one.
ListFails ==
    /\ Working("list")
    /\ IF Current.gen # Nobody THEN Settle(Nobody, {}, TRUE) ELSE Fail

\* The dry-run apply of a resource that exists says whether it changes.
Compare ==
    /\ Working("apply")
    /\ \E type \in IF look.current = Nobody THEN {"added"} ELSE {"modified", "equal"} :
          LET key == DisplayName(Current, look.current)
          IN  /\ diffs' = IF type = "equal" THEN diffs
                          ELSE [k \in DOMAIN diffs \cup {key} |->
                                  IF k = key THEN [type |-> type, of |-> next] ELSE diffs[k]]
              /\ rendered' = rendered \cup {key}
              /\ results' = Append(results,
                    [of |-> next, look |-> look, refs |-> OwnerRefs(Current.refs),
                     label |-> OwnerLabel(PreservedLabel(Current, look.current))])
    /\ NextResource
    /\ UNCHANGED failed

ApplyFails == Working("apply") /\ look.current # Nobody /\ Fail

\* The objects of the composite's tree that were not rendered.
NotRendered == {o \in cluster : o.owner # "stranger" /\ o.name \notin rendered}

\* The removal phase, which a failure forestalls and a new composite has no use for.
Finish ==
    /\ pc = "get" /\ next > Len(Desired)
    /\ pc' = "done"
    /\ removed' = IF failed \/ ~world.exists THEN {} ELSE NotRendered
    /\ UNCHANGED <<world, cluster, next, look, results, diffs, rendered, failed, changes>>

\* The tree cannot be read.
TreeFails ==
    /\ pc = "get" /\ next > Len(Desired)
    /\ ~failed /\ world.exists
    /\ pc' = "done"
    /\ failed' = TRUE
    /\ UNCHANGED <<world, cluster, next, look, results, diffs, rendered, removed, changes>>

\* Another client deletes an object, or the composite's controller creates one.
Change ==
    /\ pc # "done"
    /\ changes < MaxChanges
    /\ changes' = changes + 1
    /\ \/ \E o \in cluster : cluster' = cluster \ {o}
       \/ /\ world.exists
          /\ \E o \in Objects :
                /\ o.owner = "self"
                /\ \A p \in cluster : p.name # o.name /\ ~(p.owner = "self" /\ p.rname = o.rname)
                /\ cluster' = cluster \cup {o}
    /\ UNCHANGED <<world, next, pc, look, results, diffs, rendered, failed, removed>>

Done == pc = "done" /\ UNCHANGED vars

Next ==
    \/ Skip
    \/ GetFound \/ GetNotFound \/ GetFails
    \/ List \/ ListFails
    \/ Compare \/ ApplyFails
    \/ Finish \/ TreeFails
    \/ Change
    \/ Done

Spec == Init /\ [][Next]_vars

-----------------------------------------------------------------------------
\* Properties

TypeOK ==
    /\ world \in Worlds
    /\ cluster \subseteq Objects
    /\ next \in 1 .. Len(Desired) + 1
    /\ pc \in {"get", "list", "apply", "done"}
    /\ look.current \in Objects \cup {Nobody} /\ look.matches \subseteq Objects
    /\ \A i \in DOMAIN results : results[i].of < next
    /\ DOMAIN diffs \subseteq rendered
    /\ \A o \in removed : o.owner # "stranger"
    /\ changes \in 0 .. MaxChanges

Result(i) == Desired[results[i].of]

(* A change to a composed resource is not shown as the removal of one      *)
(* object and the addition of another: the only object a look-up by label  *)
(* matched is not reported as removed, and no resource is new whose object *)
(* is, whatever the resource is named now and whatever kind of composite   *)
(* it is of -- unless the list failed, the object's name has another       *)
(* prefix, or other clients changed the cluster.                           *)
ChangedNotReplaced ==
    \A i \in DOMAIN results : \A o \in removed :
        LET d == Result(i)
            found == results[i].look
        IN  /\ found.matches # {o}
            /\ o.owner = "self" /\ o.rname = d.rname /\ found.current = Nobody =>
                 found.blind \/ (d.gen # Nobody /\ ~HasPrefix(o.name, d.gen)) \/ changes > 0

(* No object is reported as removed when the comparison of any rendered    *)
(* resource failed: its object would look as if it was not rendered.       *)
RemovalsAreComplete ==
    removed # {} => {results[i].of : i \in DOMAIN results} = {k \in DOMAIN Desired : ~Nameless(Desired[k])}

(* "We must never change this label": an existing resource keeps the       *)
(* composite it is labelled with, its root's, whoever its parent is.       *)
LabelKept ==
    \A i \in DOMAIN results :
        results[i].look.current # Nobody => results[i].label = LabelOf(results[i].look.current)

(* The owner references of a resource with a known parent are ones the API *)
(* server admits: each has a UID, the parent's where it is known, and at   *)
(* most one is the controller, which is never a claim.                     *)
RefsAreAdmissible ==
    HasComposite => \A i \in DOMAIN results :
        LET refs == results[i].refs
            controllers == {k \in DOMAIN refs : refs[k].controller}
        IN  /\ Cardinality(controllers) <= 1
            /\ \A k \in DOMAIN refs :
                  /\ refs[k].uid # ""
                  /\ refs[k].owner = ParentName =>
                       IF world.kind = "claim" THEN k \notin controllers
                       ELSE ParentUID \in {"", refs[k].uid}

(* "MakeDiffKey creates a unique key for a resource diff": every rendered  *)
(* resource that has no object yet is in the output, as an addition of its *)
(* own.                                                                    *)
EveryNewResourceIsShown ==
    pc = "done" /\ ~failed =>
        \A i \in DOMAIN results : results[i].look.current = Nobody =>
            \E key \in DOMAIN diffs : diffs[key] = [type |-> "added", of |-> results[i].of]
=============================================================================
