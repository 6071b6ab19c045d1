------------------------- MODULE CompositionSelection -------------------------
(***************************************************************************)
(* FindMatchingComposition of client/crossplane/composition_client.go: the *)
(* composition a composite is rendered with, by its compositionRef (then   *)
(* through CompositionRevisions, see composition_revision_client.go), its  *)
(* compositionSelector or its type. Compositions and revisions are read    *)
(* once and cached, while other clients of the cluster apply and delete    *)
(* compositions and Crossplane numbers revisions.                          *)
(*                                                                         *)
(* Malformed fields are not modelled.                                      *)
(***************************************************************************)
EXTENDS CompositionRevisions

CONSTANT
  MaxChanges      \* bound on what other clients do to compositions

(* A composite has a target type (a claim: the XR type its XRD names), a   *)
(* compositionRef, selector labels, an update policy, a revision reference *)
(* and revision selector labels.                                           *)
ASSUME CompositionSelectionAssumption ==
  /\ \A x \in Composites : /\ x.ref \in Names \cup {None}
                           /\ x.policy \in {"Automatic", "Manual"}
                           /\ x.revisionRef \in Revisions \cup {None}
  /\ MaxChanges \in Nat
  /\ None \notin Contents \cup Composites \cup Revisions

VARIABLES
  cluster,        \* the content of each composition, or None
  revisions,      \* the number of each revision, 0 if it does not exist
  changes,        \* what other clients have done
  initialized,
  compositions,   \* c.compositions: the content cached for each name, or None
  cachedRevisions,\* revisionClient.revisions
  byComposition,  \* revisionClient.revisionsByComposition: numbers, or None
  pending,        \* the composite being resolved, or None
  answers         \* what each composite has been resolved to

clusterVars == <<cluster, revisions, changes>>
cacheVars == <<initialized, compositions, cachedRevisions, byComposition>>
vars == <<clusterVars, cacheVars, pending, answers>>

-----------------------------------------------------------------------------
Pinned(x) == x.ref # None /\ x.policy = "Manual" /\ x.revisionRef # None
ByRevision(x) == x.ref # None /\ ~Pinned(x)

Found(n, content) == [name |-> n, content |-> content]

(* A revision is taken without asking whose it is.                         *)
OwnedByAny(r, x) == r[2].type = x.type

(* A revision belongs to the composition, and has the composite's type.    *)
Owned(r, x) == r[1] = x.ref /\ r[2].type = x.type

(* The answers that are not errors.                                        *)
FromRevision(r, x) == IF Owned(r, x) THEN {Found(r[1], r[2])} ELSE {}

(* isCompositionCompatible and labelsMatch over the cached compositions.   *)
Matching(x) ==
  {n \in Names : /\ compositions[n] # None
                 /\ compositions[n].type = x.type
                 /\ x.selector \subseteq compositions[n].labels}

Init ==
  /\ cluster \in [Names -> Contents \cup {None}]
  /\ revisions = [r \in Revisions |-> IF cluster[r[1]] = r[2] THEN 1 ELSE 0]
  /\ changes = 0
  /\ initialized = FALSE
  /\ compositions = [n \in Names |-> None]
  /\ cachedRevisions = {}
  /\ byComposition = [n \in Names |-> None]
  /\ pending = None
  /\ answers = [x \in Composites |-> {}]

-----------------------------------------------------------------------------
(* The cluster: a composition is applied; Crossplane gives the revision of *)
(* its content the highest number; a composition and its revisions go.     *)
Apply(n, content) ==
  /\ changes < MaxChanges
  /\ cluster[n] # content
  /\ cluster' = [cluster EXCEPT ![n] = content]
  /\ changes' = changes + 1
  /\ UNCHANGED <<revisions, cacheVars, pending, answers>>

Revise(n) ==
  /\ cluster[n] # None
  /\ ~IsLatest(<<n, cluster[n]>>, revisions)
  /\ revisions' = Revised(<<n, cluster[n]>>, revisions)
  /\ UNCHANGED <<cluster, changes, cacheVars, pending, answers>>

Delete(n) ==
  /\ changes < MaxChanges
  /\ cluster[n] # None
  /\ cluster' = [cluster EXCEPT ![n] = None]
  /\ revisions' = [r \in Revisions |-> IF r[1] = n THEN 0 ELSE revisions[r]]
  /\ changes' = changes + 1
  /\ UNCHANGED <<cacheVars, pending, answers>>

-----------------------------------------------------------------------------
Initialize ==
  /\ ~initialized
  /\ initialized' = TRUE
  /\ compositions' = cluster
  /\ UNCHANGED <<clusterVars, cachedRevisions, byComposition, pending, answers>>

Find(x) ==
  /\ initialized
  /\ pending = None
  /\ pending' = x
  /\ UNCHANGED <<clusterVars, cacheVars, answers>>

(* FindMatchingComposition returns, with an error if answer is empty.      *)
Answer(x, answer) ==
  /\ pending' = None
  /\ answers' = [answers EXCEPT ![x] = @ \cup answer]

(* GetComposition and the revision reads miss and ask the cluster.         *)
CacheComposition(n) == compositions' = [compositions EXCEPT ![n] = cluster[n]]

NeedsRevision(x) == Pinned(x) /\ x.revisionRef \notin cachedRevisions
NeedsRevisions(x) == ByRevision(x) /\ byComposition[x.ref] = None
NeedsComposition(x) ==
  /\ ByRevision(x)
  /\ byComposition[x.ref] # None
  /\ RevisionsOf(x.ref, byComposition[x.ref]) = {}
  /\ compositions[x.ref] = None
NeedsList(x) == x.ref = None /\ \A n \in Names : compositions[n] = None

FetchRevision(x) ==
  /\ pending = x
  /\ NeedsRevision(x)
  /\ revisions[x.revisionRef] > 0
  /\ cachedRevisions' = cachedRevisions \cup {x.revisionRef}
  /\ UNCHANGED <<clusterVars, initialized, compositions, byComposition, pending, answers>>

(* A slip: the list is not looked for in the cache.                       *)
ListRevisionsAgain(x) ==
  /\ pending = x
  /\ ByRevision(x)
  /\ byComposition' = [byComposition EXCEPT ![x.ref] =
                         [r \in Revisions |-> IF r[1] = x.ref THEN revisions[r] ELSE 0]]
  /\ cachedRevisions' = cachedRevisions \cup RevisionsOf(x.ref, revisions)
  /\ UNCHANGED <<clusterVars, initialized, compositions, pending, answers>>

(* A list of a composition's revisions is cached, even if it is empty, and *)
(* every revision of it by name.                                           *)
ListRevisions(x) ==
  /\ pending = x
  /\ NeedsRevisions(x)
  /\ byComposition' = [byComposition EXCEPT ![x.ref] =
                         [r \in Revisions |-> IF r[1] = x.ref THEN revisions[r] ELSE 0]]
  /\ cachedRevisions' = cachedRevisions \cup RevisionsOf(x.ref, revisions)
  /\ UNCHANGED <<clusterVars, initialized, compositions, pending, answers>>

(* No revisions: the composition itself, unpublished.                      *)
FetchComposition(x) ==
  /\ pending = x
  /\ NeedsComposition(x)
  /\ cluster[x.ref] # None
  /\ CacheComposition(x.ref)
  /\ UNCHANGED <<clusterVars, initialized, cachedRevisions, byComposition, pending, answers>>

(* Every call to the cluster may fail, and does when the object is absent. *)
ReadFails(x) ==
  /\ pending = x
  /\ NeedsRevision(x) \/ NeedsRevisions(x) \/ NeedsComposition(x) \/ NeedsList(x)
  /\ Answer(x, {})
  /\ UNCHANGED <<clusterVars, cacheVars>>

-----------------------------------------------------------------------------
(* Case 2 of resolveCompositionFromRevisions: the pinned revision.         *)
AnswerPinned(x) ==
  /\ pending = x
  /\ Pinned(x) /\ ~NeedsRevision(x)
  /\ Answer(x, FromRevision(x.revisionRef, x))
  /\ UNCHANGED <<clusterVars, cacheVars>>

(* Cases 1 and 3: the latest revision; a selector that matches none of the *)
(* revisions there are is an error.                                        *)
AnswerLatest(x) ==
  /\ pending = x
  /\ ByRevision(x) /\ ~NeedsRevisions(x)
  /\ RevisionsOf(x.ref, byComposition[x.ref]) # {}
  /\ LET matching == MatchingRevisions(x.ref, byComposition[x.ref], RevisionSelector(x))
     IN Answer(x, IF matching = {} THEN {}
                  ELSE FromRevision(Highest(matching, byComposition[x.ref]), x))
  /\ UNCHANGED <<clusterVars, cacheVars>>

AnswerUnpublished(x) ==
  /\ pending = x
  /\ ByRevision(x) /\ ~NeedsRevisions(x)
  /\ RevisionsOf(x.ref, byComposition[x.ref]) = {}
  /\ compositions[x.ref] # None
  /\ Answer(x, FromRevision(<<x.ref, compositions[x.ref]>>, x))
  /\ UNCHANGED <<clusterVars, cacheVars>>

(* findByLabelSelector, or findByTypeReference when there is no selector:  *)
(* one cached composition, or none, or too many. An empty cache is listed  *)
(* for, but the list is not kept.                                          *)
AnswerMatching(x) ==
  /\ pending = x
  /\ x.ref = None
  /\ Answer(x, IF Cardinality(Matching(x)) = 1
               THEN {Found(n, compositions[n]) : n \in Matching(x)} ELSE {})
  /\ UNCHANGED <<clusterVars, cacheVars>>

(* The cache is not looked into first.                                     *)
GetCompositionAgain(n) ==
  /\ initialized
  /\ pending = None
  /\ cluster[n] # None
  /\ CacheComposition(n)
  /\ UNCHANGED <<clusterVars, initialized, cachedRevisions, byComposition, pending, answers>>

(* GetComposition for the composition diff of comp.                        *)
GetComposition(n) ==
  /\ initialized
  /\ pending = None
  /\ compositions[n] = None
  /\ cluster[n] # None
  /\ CacheComposition(n)
  /\ UNCHANGED <<clusterVars, initialized, cachedRevisions, byComposition, pending, answers>>

Change ==
  \E n \in Names :
    \/ \E content \in Contents : Apply(n, content)
    \/ Revise(n)
    \/ Delete(n)

Resolve ==
  \E x \in Composites :
    \/ Find(x)
    \/ FetchRevision(x)
    \/ ListRevisions(x)
    \/ FetchComposition(x)
    \/ ReadFails(x)
    \/ AnswerPinned(x)
    \/ AnswerLatest(x)
    \/ AnswerUnpublished(x)
    \/ AnswerMatching(x)

Next ==
  \/ Change
  \/ Initialize
  \/ Resolve
  \/ \E n \in Names : GetComposition(n)

Spec == Init /\ [][Next]_vars

-----------------------------------------------------------------------------
TypeOK ==
  /\ cluster \in [Names -> Contents \cup {None}]
  /\ revisions \in [Revisions -> Nat]
  /\ changes \in 0 .. MaxChanges
  /\ initialized \in BOOLEAN
  /\ compositions \in [Names -> Contents \cup {None}]
  /\ cachedRevisions \subseteq Revisions
  /\ \A n \in Names : byComposition[n] # None =>
       /\ byComposition[n] \in [Revisions -> Nat]
       /\ RevisionsOf(n, byComposition[n]) \subseteq cachedRevisions
  /\ pending \in Composites \cup {None}
  /\ \A x \in Composites : answers[x] \subseteq [name : Names, content : Contents]

(* However often a composite is resolved in a run, and whatever happens to *)
(* the cluster meanwhile, it is never resolved to two compositions, nor to *)
(* two contents of one: an error may come before or after, never another   *)
(* composition.                                                            *)
OneAnswer == \A x \in Composites : Cardinality(answers[x]) <= 1

(* Composites that follow the revisions of one composition with the same   *)
(* selector are rendered with the same revision.                           *)
SameRevision ==
  \A x, y \in Composites :
    /\ ByRevision(x) /\ ByRevision(y) /\ x.ref = y.ref
    /\ RevisionSelector(x) = RevisionSelector(y)
    => \A a \in answers[x], b \in answers[y] : a = b

(* A composite is never rendered with a composition of another type, nor   *)
(* with another than it names, nor a pinned one with another revision.     *)
AnswersFit ==
  \A x \in Composites : \A a \in answers[x] :
    /\ a.content.type = x.type
    /\ x.ref # None => a.name = x.ref
    /\ Pinned(x) => <<a.name, a.content>> = x.revisionRef
    /\ x.ref = None => x.selector \subseteq a.content.labels
=============================================================================
