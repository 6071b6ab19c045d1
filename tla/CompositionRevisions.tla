------------------------- MODULE CompositionRevisions -------------------------
(***************************************************************************)
(* CompositionRevisions as client/crossplane/composition_revision_client.go*)
(* and revision_selector.go see them. A revision's name is its             *)
(* composition's and a hash of its content: a revision is identified by    *)
(* the pair, and Crossplane only ever changes its number.                  *)
(***************************************************************************)
EXTENDS Integers, FiniteSets

CONSTANTS
  Names,          \* composition names
  Contents,       \* what a composition may say: its type, labels and spec
  Composites,     \* the composites of the cluster, as a run reads them
  None            \* no such object, no reference; nothing cached

(* The labels of a content are the user's own.                             *)
ASSUME CompositionRevisionsAssumption ==
  /\ \A c \in Contents : c.labels \cap Names = {}
  /\ IsFiniteSet(Names) /\ IsFiniteSet(Composites)
  /\ None \notin Names

Revisions == Names \X Contents

(* Crossplane stamps a revision with the composition's labels and          *)
(* crossplane.io/composition-name.                                         *)
RevisionLabels(r) == r[2].labels \cup {r[1]}

(* The revisions of composition n there are; numbers gives 0 to the others *)
RevisionsOf(n, numbers) == {r \in Revisions : r[1] = n /\ numbers[r] > 0}

(* Those a compositionRevisionSelector matches.                            *)
MatchingRevisions(n, numbers, selector) ==
  {r \in RevisionsOf(n, numbers) : selector \subseteq RevisionLabels(r)}

Highest(rs, numbers) == CHOOSE r \in rs : \A s \in rs : numbers[s] <= numbers[r]

(* compositionRevisionSelector counts under the Automatic policy only.     *)
RevisionSelector(x) == IF x.policy = "Automatic" THEN x.revisionSelector ELSE {}

(* The revision controller, external: the revision of the composition's    *)
(* content gets the highest number of its composition.                     *)
IsLatest(r, numbers) ==
  numbers[r] > 0 /\ \A s \in RevisionsOf(r[1], numbers) : numbers[s] <= numbers[r]

Revised(r, numbers) ==
  IF IsLatest(r, numbers) THEN numbers
  ELSE [numbers EXCEPT ![r] =
         1 + IF RevisionsOf(r[1], numbers) = {} THEN 0
             ELSE numbers[Highest(RevisionsOf(r[1], numbers), numbers)]]
=============================================================================
