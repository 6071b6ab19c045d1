--------------------------- MODULE CompositionProofs ---------------------------
(***************************************************************************)
(* Proofs about CompositionSelection, for any compositions, revisions and  *)
(* composites, and whatever other clients of the cluster do: a composite   *)
(* is resolved to one composition at most, which is one it may have.       *)
(*                                                                         *)
(* The cluster changes freely; what an answer was read from does not. The  *)
(* invariant says what each answer was read from and that it is cached.    *)
(***************************************************************************)
EXTENDS CompositionSelection, CompImpact, FiniteSetTheorems, SequenceTheorems, TLAPS

(* The revision a composite that follows a composition gets from what is   *)
(* cached for it.                                                          *)
Latest(x) ==
  IF RevisionsOf(x.ref, byComposition[x.ref]) = {}
  THEN <<x.ref, compositions[x.ref]>>
  ELSE Highest(MatchingRevisions(x.ref, byComposition[x.ref], RevisionSelector(x)),
               byComposition[x.ref])

IsCached(x) ==
  /\ byComposition[x.ref] # None
  /\ RevisionsOf(x.ref, byComposition[x.ref]) = {} => compositions[x.ref] # None

(* What an answer was read from.                                           *)
Justified(x, a) ==
  /\ Pinned(x) => a \in FromRevision(x.revisionRef, x)
  /\ ByRevision(x) => IsCached(x) /\ a \in FromRevision(Latest(x), x)
  /\ x.ref = None => \E n \in Matching(x) : a = Found(n, compositions[n])

AnswersInv ==
  /\ \A x \in Composites : \A a \in answers[x] : Justified(x, a)
  /\ \A x \in Composites : \A a, b \in answers[x] : a = b

CachesInv ==
  /\ DOMAIN cluster = Names
  /\ DOMAIN compositions = Names /\ DOMAIN byComposition = Names /\ DOMAIN answers = Composites
  /\ pending # None => initialized
  /\ ~initialized => \A x \in Composites : answers[x] = {}

SelectionInv == CachesInv /\ AnswersInv

-----------------------------------------------------------------------------
LEMMA SelectionInit == Init => SelectionInv
BY DEF Init, SelectionInv, CachesInv, AnswersInv

(* What a step may do to the caches: add to them.                          *)
CachesKept ==
  /\ \A n \in Names : compositions[n] # None => compositions'[n] = compositions[n]
  /\ \A n \in Names : byComposition[n] # None => byComposition'[n] = byComposition[n]

(* An answer stays justified when the caches only grow.                    *)
LEMMA JustifiedStays ==
  ASSUME CompositionSelectionAssumption, CachesKept,
         NEW x \in Composites, NEW a, Justified(x, a)
  PROVE  Justified(x, a)'
<1>1. (Pinned(x)' <=> Pinned(x)) /\ (ByRevision(x)' <=> ByRevision(x))
  BY DEF Pinned, ByRevision
<1>2. x.ref # None => x.ref \in Names
  BY DEF CompositionSelectionAssumption
<1>3. ASSUME ByRevision(x)
      PROVE  IsCached(x)' /\ Latest(x)' = Latest(x)
  <2>1. x.ref \in Names /\ IsCached(x)
    BY <1>2, <1>3 DEF ByRevision, Justified
  <2>2. byComposition'[x.ref] = byComposition[x.ref] /\ byComposition[x.ref] # None
    BY <2>1 DEF CachesKept, IsCached
  <2>3. RevisionsOf(x.ref, byComposition[x.ref]) = {} => compositions'[x.ref] = compositions[x.ref]
    BY <2>1 DEF CachesKept, IsCached
  <2> QED
    BY <2>1, <2>2, <2>3 DEF IsCached, Latest
<1>4. ASSUME x.ref = None
      PROVE  \E n \in Matching(x)' : a = Found(n, compositions'[n])
  <2>1. PICK n \in Matching(x) : a = Found(n, compositions[n])
    BY <1>4 DEF Justified
  <2>2. n \in Names /\ compositions[n] # None
    BY DEF Matching
  <2>3. compositions'[n] = compositions[n]
    BY <2>2 DEF CachesKept
  <2>4. n \in Matching(x)'
    BY <2>2, <2>3 DEF Matching
  <2> QED
    BY <2>1, <2>3, <2>4
<1> QED
  BY <1>1, <1>3, <1>4 DEF Justified

(* The caches only grow, and are empty before they are initialized ...     *)
LEMMA CachesStep ==
  ASSUME CachesInv, [Next]_vars, initialized \/ ~Initialize
  PROVE  CachesKept
<1>1. CASE UNCHANGED <<compositions, byComposition>>
  BY <1>1 DEF CachesKept
<1>2. ASSUME NEW n \in Names, GetComposition(n)
      PROVE  CachesKept
  BY <1>2 DEF GetComposition, CacheComposition, CachesKept, CachesInv
<1>3. ASSUME NEW x \in Composites, ListRevisions(x)
      PROVE  CachesKept
  <2>1. byComposition[x.ref] = None
    BY <1>3 DEF ListRevisions, NeedsRevisions
  <2>2. \A n \in Names : n # x.ref => byComposition'[n] = byComposition[n]
    BY <1>3 DEF ListRevisions, CachesInv
  <2> QED
    BY <1>3, <2>1, <2>2 DEF ListRevisions, CachesKept
<1>4. ASSUME NEW x \in Composites, FetchComposition(x)
      PROVE  CachesKept
  BY <1>4 DEF FetchComposition, NeedsComposition, CacheComposition, CachesKept, CachesInv
<1>5. CASE Initialize
  BY <1>5 DEF Initialize
<1> QED
  BY <1>1, <1>2, <1>3, <1>4, <1>5 DEF Next, Change, Resolve, Apply, Revise, Delete, Find,
     FetchRevision, ReadFails, AnswerPinned, AnswerLatest, AnswerUnpublished, AnswerMatching,
     cacheVars, vars

LEMMA AnswerStep ==
  ASSUME NEW x \in Composites, NEW answer, CachesInv, Answer(x, answer)
  PROVE  /\ answers'[x] = answers[x] \cup answer
         /\ \A y \in Composites \ {x} : answers'[y] = answers[y]
         /\ DOMAIN answers' = Composites
BY DEF Answer, CachesInv

LEMMA CachesInvStep ==
  ASSUME CompositionSelectionAssumption, CachesInv, [Next]_vars
  PROVE  CachesInv'
<1>1. None \notin Composites
  BY DEF CompositionSelectionAssumption
<1>2. ASSUME NEW x \in Composites, NEW answer, Answer(x, answer), pending = x,
             UNCHANGED <<cluster, cacheVars>>
      PROVE  CachesInv'
  BY <1>1, <1>2, AnswerStep DEF CachesInv, Answer, cacheVars
<1>3. CASE Change
  <2>1. DOMAIN cluster' = Names
    BY <1>3 DEF Change, Apply, Revise, Delete, CachesInv
  <2> QED
    BY <1>3, <2>1 DEF Change, Apply, Revise, Delete, CachesInv, cacheVars
<1>4. CASE Initialize
  BY <1>4 DEF Initialize, CachesInv, clusterVars
<1>5. ASSUME NEW n \in Names, GetComposition(n)
      PROVE  CachesInv'
  BY <1>5 DEF GetComposition, CacheComposition, CachesInv, clusterVars
<1>6. ASSUME NEW x \in Composites, Find(x)
      PROVE  CachesInv'
  BY <1>6 DEF Find, CachesInv, clusterVars, cacheVars
<1>7. ASSUME NEW x \in Composites, FetchRevision(x) \/ ListRevisions(x) \/ FetchComposition(x)
      PROVE  CachesInv'
  <2>1. CASE FetchRevision(x)
    BY <2>1 DEF FetchRevision, CachesInv, clusterVars
  <2>2. CASE ListRevisions(x)
    BY <2>2 DEF ListRevisions, CachesInv, clusterVars
  <2>3. CASE FetchComposition(x)
    BY <2>3 DEF FetchComposition, CacheComposition, CachesInv, clusterVars
  <2> QED
    BY <1>7, <2>1, <2>2, <2>3
<1>8. ASSUME NEW x \in Composites,
             ReadFails(x) \/ AnswerPinned(x) \/ AnswerLatest(x) \/ AnswerUnpublished(x)
                          \/ AnswerMatching(x)
      PROVE  CachesInv'
  <2>1. pending = x /\ UNCHANGED <<cluster, cacheVars>> /\ \E answer : Answer(x, answer)
    BY <1>8 DEF ReadFails, AnswerPinned, AnswerLatest, AnswerUnpublished, AnswerMatching,
       clusterVars
  <2> QED
    BY <2>1, <1>2
<1>9. CASE UNCHANGED vars
  BY <1>9 DEF vars, clusterVars, cacheVars, CachesInv
<1> QED
  BY <1>3, <1>4, <1>5, <1>6, <1>7, <1>8, <1>9 DEF Next, Resolve

-----------------------------------------------------------------------------
LEMMA OnlyMember ==
  ASSUME NEW x \in Composites, CompositionRevisionsAssumption, Cardinality(Matching(x)) = 1,
         NEW a \in Matching(x), NEW b \in Matching(x)
  PROVE  a = b
<1> DEFINE S == Matching(x)
<1>1. S \subseteq Names
  BY DEF Matching
<1> HIDE DEF S
<1>2. IsFiniteSet(S)
  BY <1>1, FS_Subset DEF CompositionRevisionsAssumption
<1>3. PICK y : S = {y}
  BY <1>2, FS_Singleton DEF S
<1> QED
  BY <1>3 DEF S

LEMMA OneOf ==
  ASSUME NEW r, NEW x, NEW a \in FromRevision(r, x)
  PROVE  a = Found(r[1], r[2]) /\ Owned(r, x)
BY DEF FromRevision

(* Each way to answer is justified by what it reads.                       *)
LEMMA NewAnswer ==
  ASSUME NEW x \in Composites, CachesInv, UNCHANGED cacheVars,
         NEW answer, Answer(x, answer), AnswersInv, CompositionSelectionAssumption,
         \A a \in answer : Justified(x, a),
         \A a \in answer : \A b \in answers[x] \cup answer : a = b
  PROVE  AnswersInv'
<1>1. CachesKept
  BY DEF CachesKept, cacheVars
<1>2. ASSUME NEW y \in Composites, NEW a \in answers'[y]
      PROVE  Justified(y, a)'
  <2>1. Justified(y, a)
    BY <1>2, AnswerStep DEF AnswersInv
  <2> QED
    BY <1>1, <2>1, JustifiedStays
<1>3. ASSUME NEW y \in Composites, NEW a \in answers'[y], NEW b \in answers'[y]
      PROVE  a = b
  BY <1>3, AnswerStep DEF AnswersInv
<1> QED
  BY <1>2, <1>3 DEF AnswersInv

LEMMA AnswersStep ==
  ASSUME NEW x \in Composites, CachesInv, AnswersInv, CompositionSelectionAssumption,
         \/ ReadFails(x) \/ AnswerPinned(x) \/ AnswerLatest(x) \/ AnswerUnpublished(x)
         \/ AnswerMatching(x)
  PROVE  AnswersInv'
<1>1. CASE ReadFails(x)
  BY <1>1, NewAnswer DEF ReadFails
<1>2. CASE AnswerPinned(x)
  <2>1. Pinned(x) /\ ~ByRevision(x) /\ x.ref # None
    BY <1>2 DEF AnswerPinned, Pinned, ByRevision
  <2>2. \A a \in FromRevision(x.revisionRef, x) : Justified(x, a)
    BY <2>1 DEF Justified
  <2>3. \A a \in FromRevision(x.revisionRef, x), b \in answers[x] \cup FromRevision(x.revisionRef, x) :
          a = b
    BY <2>1, OneOf DEF AnswersInv, Justified
  <2> QED
    BY <1>2, <2>2, <2>3, NewAnswer DEF AnswerPinned
<1>3. CASE AnswerLatest(x) \/ AnswerUnpublished(x)
  <2>1. ByRevision(x) /\ ~Pinned(x) /\ x.ref # None /\ IsCached(x)
    BY <1>3 DEF AnswerLatest, AnswerUnpublished, ByRevision, NeedsRevisions, IsCached
  <2>2. PICK answer : Answer(x, answer) /\ answer \in {{}, FromRevision(Latest(x), x)}
    BY <1>3 DEF AnswerLatest, AnswerUnpublished, Latest
  <2>3. \A a \in answer : Justified(x, a)
    BY <2>1, <2>2 DEF Justified
  <2>4. \A a \in answer, b \in answers[x] \cup answer : a = b
    BY <2>1, <2>2, OneOf DEF AnswersInv, Justified
  <2> QED
    BY <1>3, <2>2, <2>3, <2>4, NewAnswer DEF AnswerLatest, AnswerUnpublished
<1>4. CASE AnswerMatching(x)
  <2> DEFINE answer == IF Cardinality(Matching(x)) = 1
                       THEN {Found(n, compositions[n]) : n \in Matching(x)} ELSE {}
  <2>1. x.ref = None /\ ~ByRevision(x) /\ ~Pinned(x) /\ Answer(x, answer)
    BY <1>4 DEF AnswerMatching, ByRevision, Pinned
  <2>2. \A a \in answer : Justified(x, a)
    BY <2>1 DEF Justified
  <2>3. ASSUME NEW a \in answer, NEW b \in answers[x] \cup answer
        PROVE  a = b
    <3>1. Justified(x, a) /\ Justified(x, b) /\ Cardinality(Matching(x)) = 1
      BY <2>2, <2>3 DEF AnswersInv
    <3>2. PICK n \in Matching(x) : a = Found(n, compositions[n])
      BY <3>1, <2>1 DEF Justified
    <3>3. PICK k \in Matching(x) : b = Found(k, compositions[k])
      BY <3>1, <2>1 DEF Justified
    <3>4. n = k
      BY <3>1, OnlyMember, CompositionRevisionsAssumption
    <3> QED
      BY <3>2, <3>3, <3>4
  <2> HIDE DEF answer
  <2> QED
    BY <1>4, <2>1, <2>2, <2>3, NewAnswer DEF AnswerMatching
<1> QED
  BY <1>1, <1>2, <1>3, <1>4

LEMMA AnswersInvStep ==
  ASSUME CompositionSelectionAssumption, CachesInv, AnswersInv, [Next]_vars
  PROVE  AnswersInv'
<1>1. CASE Initialize
  BY <1>1 DEF Initialize, CachesInv, AnswersInv
<1>2. ASSUME NEW x \in Composites,
             \/ ReadFails(x) \/ AnswerPinned(x) \/ AnswerLatest(x) \/ AnswerUnpublished(x)
             \/ AnswerMatching(x)
      PROVE  AnswersInv'
  BY <1>2, AnswersStep
<1>3. CASE UNCHANGED answers /\ ~Initialize
  <2>1. CachesKept
    BY <1>3, CachesStep
  <2> QED
    BY <1>3, <2>1, JustifiedStays DEF AnswersInv
<1> QED
  BY <1>1, <1>2, <1>3 DEF Next, Change, Resolve, Apply, Revise, Delete, Find, FetchRevision,
     ListRevisions, FetchComposition, GetComposition, vars

-----------------------------------------------------------------------------
(* What every answer was read from is in the caches of the clients.        *)
THEOREM SelectionInvariance == Spec => []SelectionInv
<1>1. SelectionInv /\ [Next]_vars => SelectionInv'
  BY CompositionSelectionAssumption, CachesInvStep, AnswersInvStep DEF SelectionInv
<1> QED
  BY <1>1, SelectionInit, PTL DEF Spec

(* However often a composite is resolved, and whatever other clients do to *)
(* compositions and revisions between the reads, FindMatchingComposition   *)
(* never gives it two compositions, nor two contents of one.               *)
THEOREM AtMostOneAnswer == Spec => []OneAnswer
<1>1. SelectionInv => OneAnswer
  <2> SUFFICES ASSUME SelectionInv, NEW x \in Composites
               PROVE  Cardinality(answers[x]) <= 1
    BY DEF OneAnswer
  <2>1. CASE answers[x] = {}
    BY <2>1, FS_EmptySet
  <2>2. CASE answers[x] # {}
    <3>1. PICK a \in answers[x] : TRUE
      BY <2>2
    <3>2. answers[x] = {a}
      BY <3>1 DEF SelectionInv, AnswersInv
    <3>3. Cardinality({a}) = 1
      BY FS_Singleton
    <3> QED
      BY <3>2, <3>3
  <2> QED
    BY <2>1, <2>2
<1> QED
  BY <1>1, SelectionInvariance, PTL

(* Composites that follow one composition's revisions with one selector    *)
(* are rendered with the same revision, although the revisions were listed *)
(* once and the cluster moved on (resolveCompositionFromRevisions).        *)
THEOREM OneRevision == Spec => []SameRevision
<1>1. SelectionInv => SameRevision
  <2> SUFFICES ASSUME SelectionInv, NEW x \in Composites, NEW y \in Composites,
                      ByRevision(x), ByRevision(y), x.ref = y.ref,
                      RevisionSelector(x) = RevisionSelector(y),
                      NEW a \in answers[x], NEW b \in answers[y]
               PROVE  a = b
    BY DEF SameRevision
  <2>1. Latest(x) = Latest(y)
    BY DEF Latest
  <2>2. a \in FromRevision(Latest(x), x) /\ b \in FromRevision(Latest(y), y)
    BY DEF SelectionInv, AnswersInv, Justified
  <2> QED
    BY <2>1, <2>2, OneOf
<1> QED
  BY <1>1, SelectionInvariance, PTL

(* A composite is never rendered with a composition of another type, nor   *)
(* with one its reference or its selector excludes, nor a pinned one with  *)
(* another revision.                                                       *)
THEOREM FittingAnswers == Spec => []AnswersFit
<1>1. SelectionInv => AnswersFit
  <2> SUFFICES ASSUME SelectionInv, NEW x \in Composites, NEW a \in answers[x]
               PROVE  /\ a.content.type = x.type
                      /\ x.ref # None => a.name = x.ref
                      /\ Pinned(x) => <<a.name, a.content>> = x.revisionRef
                      /\ x.ref = None => x.selector \subseteq a.content.labels
    BY DEF AnswersFit
  <2>1. Justified(x, a)
    BY DEF SelectionInv, AnswersInv
  <2>2. CASE Pinned(x)
    <3>1. a = Found(x.revisionRef[1], x.revisionRef[2]) /\ Owned(x.revisionRef, x)
      BY <2>1, <2>2, OneOf DEF Justified
    <3>2. x.revisionRef \in Names \X Contents
      BY <2>2, CompositionSelectionAssumption DEF CompositionSelectionAssumption, Pinned, Revisions
    <3> QED
      BY <3>1, <3>2, <2>2 DEF Found, Owned, Pinned
  <2>3. CASE ByRevision(x)
    <3>1. a = Found(Latest(x)[1], Latest(x)[2]) /\ Owned(Latest(x), x)
      BY <2>1, <2>3, OneOf DEF Justified
    <3> QED
      BY <3>1, <2>3 DEF Found, Owned, ByRevision
  <2>4. CASE x.ref = None
    <3>1. PICK n \in Matching(x) : a = Found(n, compositions[n])
      BY <2>1, <2>4 DEF Justified
    <3> QED
      BY <3>1, <2>4 DEF Found, Matching, Pinned
  <2> QED
    BY <2>2, <2>3, <2>4 DEF ByRevision
<1> QED
  BY <1>1, SelectionInvariance, PTL

-----------------------------------------------------------------------------
(* CompImpact: which composites are affected by a composition, which of    *)
(* them are diffed, and what is said of them.                              *)

(* Composites by place, as the client lists them.                          *)
Listing(f) == IsFiniteSet(DOMAIN f) /\ \A i \in DOMAIN f : f[i] \in Composites

InputsInv ==
  /\ input \in Inputs
  /\ at \in Nat \ {0}
  /\ phase \in {"preflight", "find", "compare", "diff", "exit"}
  /\ phase \in {"compare", "diff"} => at <= Len(input.documents)
  /\ DOMAIN matches = Names
  /\ Listing(affected) /\ \A n \in Names : Listing(matches[n])

(* The composites that are kept are diffed one after another, and none of  *)
(* those that are affected is malformed.                                   *)
DiffsInv ==
  phase = "diff" =>
    /\ ~MalformedAffected
    /\ \A i \in Kept(Doc) \ todo : affected[i] \in DOMAIN results
    /\ \A x \in DOMAIN results : results[x] \in Outcomes

(* Where a matched ref was found.                                          *)
Among(ref, i) ==
  /\ input.documents[i].kind = "Composition"
  /\ \E x \in Range(matches[input.documents[i].name]) : x.name = ref

MatchesInv ==
  /\ NamedOnce => \A ref \in matched : \E i \in DOMAIN input.documents :
       Among(ref, i) /\ (phase = "preflight" => i < at)
  /\ phase \in {"find", "compare", "diff"} \/ output # << >> => AllMatched

(* What is said of one composition adds up, with or without refs.          *)
Reckoned(o, refs) ==
  /\ ~o.error /\ ~o.skipped =>
       /\ o.total = o.changed + o.unchanged + o.errors + o.byPolicy + o.bySelector + o.byDeletion
       /\ o.repointed \in {0, o.changed + o.unchanged + o.errors}
       /\ refs # << >> => o.impacts = o.total
  /\ AnalyzeOn = "any-change" /\ o.skipped => o.repointed = 0

OutputInv ==
  /\ output \in Seq(ToSet(output))
  /\ \A o \in ToSet(output) : Reckoned(o, input.refs)

ExitInv == phase = "exit" => exitCode \in {1, CompExitCode(FALSE)}

ImpactInv == InputsInv /\ DiffsInv /\ MatchesInv /\ OutputInv /\ ExitInv

(* Without a ref given twice, no composite has two places.                 *)
OnePlaceEach(f) == \A i, j \in DOMAIN f : f[i] = f[j] => i = j

PlacesInv ==
  RefsDistinct => OnePlaceEach(affected) /\ \A n \in Names : OnePlaceEach(matches[n])

DiffingInv ==
  /\ phase \in {"compare", "diff"} => Doc.kind = "Composition"
  /\ phase = "diff" => todo \subseteq Kept(Doc) /\ \A x \in DOMAIN results : results[x] \in seen

(* An outcome that was seen is counted already, or still to be counted.    *)
Reached(outcome, field) ==
  outcome \in seen =>
    \/ Some(field)
    \/ phase = "diff" /\ \E i \in Kept(Doc) \ todo : results[affected[i]] = outcome

SeenInv ==
  RefsDistinct => Reached("changed", "changed") /\ Reached("error", "errors")

(* What the report says was seen, and the composition that is shown edited *)
(* is one of the input.                                                    *)
SaidInv ==
  \A o \in ToSet(output) :
    /\ o.changed > 0 => "changed" \in seen
    /\ o.displayed => \E d \in ToSet(input.documents) : Edited(d)

(* Each composition of the input that was passed has its entry.            *)
Entry(d) == \E o \in ToSet(output) : o.name = d.name /\ (Edited(d) => o.error \/ o.displayed)

Passed(i) ==
  \/ phase \in {"find", "compare", "diff"} /\ i < at
  \/ phase = "exit" /\ exitCode # 1

EntriesInv ==
  \A i \in DOMAIN input.documents :
    input.documents[i].kind = "Composition" /\ Passed(i) => Entry(input.documents[i])

OutcomesInv == PlacesInv /\ DiffingInv /\ SeenInv /\ SaidInv /\ EntriesInv

-----------------------------------------------------------------------------
LEMMA DocIsComposition ==
  ASSUME CompImpactAssumption, InputsInv, at <= Len(input.documents)
  PROVE  /\ at \in DOMAIN input.documents /\ Doc \in Documents
         /\ Doc.name \in Names /\ Doc.content \in Contents
         /\ Doc.scope \in {"none", "metadata", "spec"}
         /\ input.refs \in Seq(STRING)
<1>1. input.documents \in Seq(Documents) /\ input.refs \in Seq(STRING)
  BY DEF InputsInv, CompImpactAssumption
<1>2. at \in DOMAIN input.documents
  BY <1>1, LenProperties DEF InputsInv
<1>3. Doc \in Documents
  BY <1>1, <1>2, ElementOfSeq DEF Doc
<1> QED
  BY <1>1, <1>2, <1>3 DEF CompImpactAssumption

LEMMA EmptyListing == Listing(<< >>)
<1>1. DOMAIN << >> = {}
  OBVIOUS
<1> QED
  BY <1>1, FS_EmptySet DEF Listing

(* What a ref is answered with is a composite of its name.                 *)
LEMMA LookupLists ==
  ASSUME NEW d, NEW kinds, input.refs \in Seq(STRING)
  PROVE  /\ Listing(Lookup(d, kinds))
         /\ \A i \in DOMAIN Lookup(d, kinds) :
              i \in DOMAIN input.refs /\ Lookup(d, kinds)[i].name = input.refs[i]
<1>1. DOMAIN input.refs = 1 .. Len(input.refs) /\ Len(input.refs) \in Nat
  BY LenProperties
<1>2. IsFiniteSet(DOMAIN input.refs)
  BY <1>1, FS_Interval
<1>3. DOMAIN Lookup(d, kinds) \in SUBSET DOMAIN input.refs
  BY DEF Lookup
<1>4. IsFiniteSet(DOMAIN Lookup(d, kinds))
  BY <1>2, <1>3, FS_Subset
<1>5. ASSUME NEW ref, Using(ref, d, kinds) # {}
      PROVE  LookupRef(ref, d, kinds) \in Using(ref, d, kinds)
  <2>1. \E x \in Using(ref, d, kinds) : x.kind = "XR" \/ \A y \in Using(ref, d, kinds) : y.kind = "claim"
    BY <1>5, CompImpactAssumption DEF CompImpactAssumption, Using
  <2> QED
    BY <2>1 DEF LookupRef
<1>6. ASSUME NEW i \in DOMAIN Lookup(d, kinds)
      PROVE  Lookup(d, kinds)[i] \in Using(input.refs[i], d, kinds) /\ i \in DOMAIN input.refs
  BY <1>5, <1>6 DEF Lookup
<1>7. \A i \in DOMAIN Lookup(d, kinds) :
        /\ Lookup(d, kinds)[i] \in Composites /\ i \in DOMAIN input.refs
        /\ Lookup(d, kinds)[i].name = input.refs[i]
  BY <1>6 DEF Using
<1> QED
  BY <1>4, <1>7 DEF Listing

LEMMA ListOf ==
  ASSUME NEW S \in SUBSET Composites, CompositionRevisionsAssumption
  PROVE  Listing(SetToSeq(S)) /\ OnePlaceEach(SetToSeq(S))
<1>1. IsFiniteSet(S)
  BY FS_Subset DEF CompositionRevisionsAssumption
<1>2. Cardinality(S) \in Nat /\ Bijection(1 .. Cardinality(S), S) # {}
  BY <1>1, FS_CardinalityType DEF ExistsBijection
<1>3. \E f \in [1 .. Cardinality(S) -> S] : IsInjective(f)
  BY <1>2 DEF Bijection, Injection
<1>4. SetToSeq(S) \in [1 .. Cardinality(S) -> S] /\ IsInjective(SetToSeq(S))
  BY <1>3 DEF SetToSeq
<1>5. IsFiniteSet(1 .. Cardinality(S))
  BY <1>2, FS_Interval
<1> QED
  BY <1>4, <1>5 DEF Listing, OnePlaceEach, IsInjective

LEMMA InputsInit == CompImpactAssumption /\ ImpactInit => InputsInv
BY EmptyListing DEF ImpactInit, InputsInv

LEMMA InputsStep ==
  ASSUME CompImpactAssumption, CompositionRevisionsAssumption, InputsInv, [ImpactNext]_impactVars
  PROVE  InputsInv'
<1>1. ASSUME NEW kinds, Preflight(kinds)
      PROVE  InputsInv'
  <2>1. Doc.name \in Names /\ input.refs \in Seq(STRING)
    BY <1>1, DocIsComposition DEF Preflight
  <2>2. matches' \in {matches, [matches EXCEPT ![Doc.name] = Lookup(Doc, kinds)]}
    BY <1>1 DEF Preflight
  <2>3. DOMAIN matches' = Names /\ \A n \in Names : Listing(matches'[n])
    BY <2>1, <2>2, LookupLists DEF InputsInv
  <2> QED
    BY <1>1, <2>3 DEF Preflight, InputsInv
<1>2. ASSUME NEW listed, FindByListing(listed)
      PROVE  InputsInv'
  <2>1. Listing(affected')
    BY <1>2, ListOf DEF FindByListing
  <2> QED
    BY <1>2, <2>1 DEF FindByListing, Finding, InputsInv
<1>3. CASE FindByRefs
  <2>1. Listing(affected')
    BY <1>3, DocIsComposition DEF FindByRefs, Finding, InputsInv
  <2> QED
    BY <1>3, <2>1 DEF FindByRefs, Finding, InputsInv
<1>4. CASE UNCHANGED <<input, at, matches, affected>> /\ (phase' = phase \/ phase' = "exit")
  BY <1>4 DEF InputsInv
<1>5. CASE EndPreflight
  BY <1>5 DEF EndPreflight, InputsInv, Exit
<1>6. CASE SkipDocument
  BY <1>6 DEF SkipDocument, Finding, InputsInv
<1>7. CASE CompositionFails \/ SkipAnalysis \/ EndAnalysis
  BY <1>7 DEF CompositionFails, SkipAnalysis, EndAnalysis, Reported, InputsInv
<1>8. CASE Analyze
  BY <1>8 DEF Analyze, InputsInv
<1>9. CASE NoCompositions \/ PreflightFails \/ \E renderFails \in BOOLEAN : Render(renderFails)
  BY <1>9, <1>4 DEF NoCompositions, PreflightFails, Render, Exit
<1>10. CASE \E i \in todo, outcome \in Outcomes : DiffXR(i, outcome)
  BY <1>10, <1>4 DEF DiffXR
<1>11. CASE (\E x \in Composites, n \in Names \cup {None} : Repoint(x, n)) \/ UNCHANGED impactVars
  BY <1>11, <1>4 DEF Repoint, impactVars
<1> QED
  BY <1>1, <1>2, <1>3, <1>5, <1>6, <1>7, <1>8, <1>9, <1>10, <1>11 DEF ImpactNext, Run

(* What holds of the composites being diffed is fixed when they are.       *)
LEMMA DiffsStep ==
  ASSUME InputsInv, DiffsInv, [ImpactNext]_impactVars
  PROVE  DiffsInv'
<1>1. CASE Analyze
  <2>1. ~MalformedAffected /\ todo' = Kept(Doc)
    BY <1>1 DEF Analyze
  <2>2. Kept(Doc)' = Kept(Doc) /\ MalformedAffected' = MalformedAffected
    BY <1>1 DEF Analyze, Kept, Doc, MalformedAffected
  <2>3. DOMAIN results' = {}
    BY <1>1 DEF Analyze
  <2> QED
    BY <2>1, <2>2, <2>3 DEF DiffsInv
<1>2. ASSUME NEW i \in todo, NEW outcome \in Outcomes, DiffXR(i, outcome)
      PROVE  DiffsInv'
  <2>1. phase = "diff" /\ ~MalformedAffected /\ todo' = todo \ {i}
    BY <1>2 DEF DiffXR, DiffsInv
  <2>2. Kept(Doc)' = Kept(Doc) /\ MalformedAffected' = MalformedAffected /\ affected' = affected
    BY <1>2 DEF DiffXR, Kept, Doc, MalformedAffected
  <2>3. DOMAIN results' = DOMAIN results \cup {affected[i]}
    BY <1>2 DEF DiffXR
  <2>4. \A x \in DOMAIN results' : results'[x] \in Outcomes
    BY <1>2, <2>1 DEF DiffXR, DiffsInv
  <2>5. \A j \in Kept(Doc) \ todo : affected[j] \in DOMAIN results
    BY <2>1 DEF DiffsInv
  <2>6. \A j \in Kept(Doc) \ todo' : affected[j] \in DOMAIN results'
    BY <2>1, <2>3, <2>5
  <2> QED
    BY <2>1, <2>2, <2>4, <2>6 DEF DiffsInv
<1>3. CASE UNCHANGED <<input, at, phase, affected, todo, results>>
  BY <1>3 DEF DiffsInv, Kept, Doc, MalformedAffected
<1>4. CASE phase' # "diff"
  BY <1>4 DEF DiffsInv
<1>5. CASE NoCompositions \/ PreflightFails \/ EndPreflight \/ \E kinds \in {{"XR"}, {"XR", "claim"}} : Preflight(kinds)
  BY <1>4, <1>5 DEF NoCompositions, PreflightFails, EndPreflight, Preflight, Exit
<1>6. CASE SkipDocument \/ FindByRefs \/ \E listed \in SUBSET {"XR", "claim"} : FindByListing(listed)
  BY <1>4, <1>6 DEF SkipDocument, FindByRefs, FindByListing, Finding
<1>7. CASE CompositionFails \/ SkipAnalysis \/ EndAnalysis \/ \E renderFails \in BOOLEAN : Render(renderFails)
  BY <1>4, <1>7 DEF CompositionFails, SkipAnalysis, EndAnalysis, Render, Exit, Reported
<1>8. CASE (\E x \in Composites, n \in Names \cup {None} : Repoint(x, n)) \/ UNCHANGED impactVars
  BY <1>3, <1>8 DEF Repoint, impactVars
<1> QED
  BY <1>1, <1>2, <1>5, <1>6, <1>7, <1>8 DEF ImpactNext, Run

-----------------------------------------------------------------------------
(* A lookup finds refs for one name, and leaves what others found alone.   *)
LEMMA PreflightKeeps ==
  ASSUME CompImpactAssumption, InputsInv, MatchesInv, NEW kinds, Preflight(kinds), NamedOnce
  PROVE  \A ref \in matched' : \E i \in DOMAIN input.documents : i < at' /\ Among(ref, i)'
<1>1. /\ at \in DOMAIN input.documents /\ at \in Nat /\ at' = at + 1
      /\ input' = input /\ input.refs \in Seq(STRING) /\ phase = "preflight"
  BY DocIsComposition DEF Preflight, InputsInv
<1>2. ASSUME NEW ref \in matched
      PROVE  \E i \in DOMAIN input.documents : i < at /\ Among(ref, i)
  BY <1>1, <1>2 DEF MatchesInv
<1>3. CASE Doc.kind = "Composition"
  <2>1. matches' = [matches EXCEPT ![Doc.name] = Lookup(Doc, kinds)]
    BY <1>3 DEF Preflight
  <2>2. Doc.name \in DOMAIN matches
    BY <1>1, DocIsComposition DEF Preflight, InputsInv
  <2> PICK k \in DOMAIN input.documents : k = at
    BY <1>1
  <2>3. \A x \in Range(Lookup(Doc, kinds)) : Among(x.name, k)'
    <3>1. input'.documents[k] = Doc
      BY <1>1 DEF Doc
    <3>2. matches'[Doc.name] = Lookup(Doc, kinds)
      BY <2>1, <2>2
    <3> QED
      BY <3>1, <3>2, <1>3 DEF Among
  <2>4. ASSUME NEW ref, NEW i \in DOMAIN input.documents, i < at, Among(ref, i)
        PROVE  Among(ref, i)'
    <3>1. input.documents[i].kind = "Composition" /\ input.documents[at].kind = "Composition"
      BY <1>3, <2>4 DEF Among, Doc
    <3>2. i # at
      BY <1>1, <2>4
    <3>3. input.documents[i].name # input.documents[at].name
      BY <1>1, <3>1, <3>2 DEF NamedOnce
    <3>4. matches'[input.documents[i].name] = matches[input.documents[i].name]
      BY <2>1, <3>3 DEF Doc
    <3> QED
      BY <1>1, <2>4, <3>4 DEF Among
  <2>5. matched' = matched \cup {x.name : x \in Range(Lookup(Doc, kinds))}
    BY <1>3 DEF Preflight
  <2>6. ASSUME NEW ref \in matched
        PROVE  \E i \in DOMAIN input.documents : i < at' /\ Among(ref, i)'
    <3>1. PICK i \in DOMAIN input.documents : i < at /\ Among(ref, i)
      BY <1>2
    <3>2. i \in Nat
      BY <1>1, LenProperties DEF CompImpactAssumption, InputsInv
    <3> QED
      BY <1>1, <2>4, <3>1, <3>2
  <2>7. k < at'
    BY <1>1
  <2> QED
    BY <2>3, <2>5, <2>6, <2>7
<1>4. CASE Doc.kind # "Composition"
  <2>1. UNCHANGED <<matches, matched>>
    BY <1>4 DEF Preflight
  <2>2. \A i \in DOMAIN input.documents : i \in Nat
    BY LenProperties DEF CompImpactAssumption, InputsInv
  <2> QED
    BY <1>1, <1>2, <2>1, <2>2 DEF Among
<1> QED
  BY <1>3, <1>4

LEMMA MatchesStep ==
  ASSUME CompImpactAssumption, InputsInv, MatchesInv, [ImpactNext]_impactVars
  PROVE  MatchesInv'
<1>1. ASSUME NEW kinds, Preflight(kinds)
      PROVE  MatchesInv'
  <2>1. NamedOnce' <=> NamedOnce
    BY <1>1 DEF Preflight, NamedOnce
  <2>2. phase = "preflight" /\ UNCHANGED <<phase, input, output>>
    BY <1>1 DEF Preflight
  <2>3. AllMatched => AllMatched'
    BY <1>1, <2>2 DEF Preflight, AllMatched
  <2>4. NamedOnce => \A ref \in matched' : \E i \in DOMAIN input.documents : i < at' /\ Among(ref, i)'
    BY <1>1, PreflightKeeps
  <2> QED
    BY <2>1, <2>2, <2>3, <2>4 DEF MatchesInv
<1>2. CASE UNCHANGED <<input, matches, matched>> /\ (phase = "preflight" => phase' = "preflight" /\ at' = at /\ output' = output)
           /\ (phase' = "exit" => UNCHANGED output \/ phase = "find")
           /\ (phase # "preflight" => phase' # "preflight") /\ (phase = "exit" => UNCHANGED <<phase, output>>)
  BY <1>2 DEF MatchesInv, Among, NamedOnce, AllMatched, InputsInv
<1>3. CASE phase = "preflight" /\ UNCHANGED <<input, matches, matched, output>> /\ phase' = "exit"
  BY <1>3 DEF MatchesInv, Among, NamedOnce, AllMatched
<1>4. CASE EndPreflight
  <2>1. phase' # "exit" => AllMatched
    BY <1>4 DEF EndPreflight, Exit
  <2>2. phase = "preflight" /\ phase' # "preflight" /\ UNCHANGED <<input, matches, matched, output>>
    BY <1>4 DEF EndPreflight, Exit
  <2> QED
    BY <2>1, <2>2 DEF MatchesInv, Among, NamedOnce, AllMatched
<1>5. CASE NoCompositions \/ PreflightFails
  BY <1>3, <1>5 DEF NoCompositions, PreflightFails, Exit
<1>6. CASE SkipDocument \/ FindByRefs \/ \E listed \in SUBSET {"XR", "claim"} : FindByListing(listed)
  BY <1>2, <1>6 DEF SkipDocument, FindByRefs, FindByListing, Finding
<1>7. CASE CompositionFails \/ SkipAnalysis \/ EndAnalysis
  BY <1>2, <1>7 DEF CompositionFails, SkipAnalysis, EndAnalysis, Reported
<1>8. CASE Analyze \/ (\E renderFails \in BOOLEAN : Render(renderFails)) \/ \E i \in todo, outcome \in Outcomes : DiffXR(i, outcome)
  BY <1>2, <1>8 DEF Analyze, Render, Exit, DiffXR
<1>9. CASE (\E x \in Composites, n \in Names \cup {None} : Repoint(x, n)) \/ UNCHANGED impactVars
  BY <1>2, <1>9 DEF Repoint, impactVars
<1> QED
  BY <1>1, <1>4, <1>5, <1>6, <1>7, <1>8, <1>9 DEF ImpactNext, Run

-----------------------------------------------------------------------------
LEMMA TwoDisjoint ==
  ASSUME NEW A, NEW B, IsFiniteSet(A), IsFiniteSet(B), A \cap B = {}
  PROVE  /\ IsFiniteSet(A \cup B)
         /\ Cardinality(A \cup B) = Cardinality(A) + Cardinality(B)
<1>1. Cardinality(A) \in Nat /\ Cardinality(B) \in Nat
  BY FS_CardinalityType
<1>2. /\ IsFiniteSet(A \cup B)
      /\ Cardinality(A \cup B) = Cardinality(A) + Cardinality(B) - Cardinality(A \cap B)
  BY FS_Union
<1>3. Cardinality(A \cap B) = 0
  BY FS_EmptySet
<1> QED
  BY <1>1, <1>2, <1>3

LEMMA ThreeDisjoint ==
  ASSUME NEW A, NEW B, NEW C, IsFiniteSet(A), IsFiniteSet(B), IsFiniteSet(C),
         A \cap B = {}, A \cap C = {}, B \cap C = {}
  PROVE  Cardinality(A \cup B \cup C) = Cardinality(A) + Cardinality(B) + Cardinality(C)
<1>2. IsFiniteSet(A \cup B) /\ Cardinality(A \cup B) = Cardinality(A) + Cardinality(B)
  BY TwoDisjoint
<1>3. (A \cup B) \cap C = {}
  OBVIOUS
<1>4. Cardinality((A \cup B) \cup C) = Cardinality(A \cup B) + Cardinality(C)
  BY <1>2, <1>3, TwoDisjoint
<1> QED
  BY <1>2, <1>4

Diffed(outcome) == {i \in Kept(Doc) : results[affected[i]] = outcome}
Excluded(reason) == {i \in Dropped(Doc) : FilterReason(affected[i], Doc) = reason}

(* The affected composites are those that are kept, whose diffs have one   *)
(* outcome each, and those filtered out for one reason each.               *)
LEMMA AffectedAdd ==
  ASSUME InputsInv, DiffsInv, phase = "diff", todo = {}
  PROVE  /\ Cardinality(Kept(Doc)) = Cardinality(Diffed("changed"))
              + Cardinality(Diffed("unchanged")) + Cardinality(Diffed("error"))
         /\ Cardinality(Dropped(Doc)) = Cardinality(Excluded("manual_policy"))
              + Cardinality(Excluded("revision_selector_mismatch")) + Cardinality(Excluded("deleting"))
         /\ Cardinality(DOMAIN affected) = Cardinality(Kept(Doc)) + Cardinality(Dropped(Doc))
         /\ \A o \in Outcomes : Cardinality(Diffed(o)) \in Nat
         /\ \A reason : Cardinality(Excluded(reason)) \in Nat
         /\ Cardinality(Dropped(Doc)) \in Nat
<1>1. /\ \A i \in Kept(Doc) : results[affected[i]] \in Outcomes
      /\ ~MalformedAffected
  BY DEF DiffsInv
<1>2. Kept(Doc) = Diffed("changed") \cup Diffed("unchanged") \cup Diffed("error")
  BY <1>1 DEF Diffed, Outcomes
<1>3. \A x, d : FilterReason(x, d) \in
        {"kept", "deleting", "malformed", "manual_policy", "revision_selector_mismatch"}
  BY DEF FilterReason
<1>4. Dropped(Doc) = Excluded("manual_policy") \cup Excluded("revision_selector_mismatch")
                     \cup Excluded("deleting")
  BY <1>1, <1>3 DEF Dropped, Excluded, MalformedAffected
<1>5. /\ IsFiniteSet(Kept(Doc)) /\ IsFiniteSet(Dropped(Doc))
      /\ \A o : IsFiniteSet(Diffed(o)) /\ \A reason : IsFiniteSet(Excluded(reason))
  <2>1. IsFiniteSet(DOMAIN affected)
    BY DEF InputsInv, Listing
  <2>2. Kept(Doc) \in SUBSET DOMAIN affected /\ Dropped(Doc) \in SUBSET DOMAIN affected
    BY DEF Kept, Dropped
  <2>3. IsFiniteSet(Kept(Doc)) /\ IsFiniteSet(Dropped(Doc))
    BY <2>1, <2>2, FS_Subset
  <2>4. \A o : Diffed(o) \in SUBSET Kept(Doc)
    BY DEF Diffed
  <2>5. \A reason : Excluded(reason) \in SUBSET Dropped(Doc)
    BY DEF Excluded
  <2> QED
    BY <2>3, <2>4, <2>5, FS_Subset
<1>6. /\ Diffed("changed") \cap Diffed("unchanged") = {}
      /\ Diffed("changed") \cap Diffed("error") = {}
      /\ Diffed("unchanged") \cap Diffed("error") = {}
  BY DEF Diffed
<1>7. /\ Excluded("manual_policy") \cap Excluded("revision_selector_mismatch") = {}
      /\ Excluded("manual_policy") \cap Excluded("deleting") = {}
      /\ Excluded("revision_selector_mismatch") \cap Excluded("deleting") = {}
  BY DEF Excluded
<1>8. Cardinality(Kept(Doc)) = Cardinality(Diffed("changed"))
        + Cardinality(Diffed("unchanged")) + Cardinality(Diffed("error"))
  BY <1>2, <1>5, <1>6, ThreeDisjoint
<1>9. Cardinality(Dropped(Doc)) = Cardinality(Excluded("manual_policy"))
        + Cardinality(Excluded("revision_selector_mismatch")) + Cardinality(Excluded("deleting"))
  BY <1>4, <1>5, <1>7, ThreeDisjoint
<1>10. DOMAIN affected = Kept(Doc) \cup Dropped(Doc) /\ Kept(Doc) \cap Dropped(Doc) = {}
  BY DEF Kept, Dropped
<1>12. Cardinality(Kept(Doc) \cup Dropped(Doc)) = Cardinality(Kept(Doc)) + Cardinality(Dropped(Doc))
  BY <1>5, <1>10, TwoDisjoint
<1> QED
  BY <1>5, <1>8, <1>9, <1>10, <1>12, FS_CardinalityType

LEMMA AnalyzedReckons ==
  ASSUME InputsInv, DiffsInv, phase = "diff", todo = {}
  PROVE  Reckoned(Analyzed(Doc), input.refs)
<1> DEFINE o == Analyzed(Doc)
           D(outcome) == Cardinality(Diffed(outcome))
           E(reason) == Cardinality(Excluded(reason))
           k == Cardinality(Kept(Doc))
           l == Cardinality(Dropped(Doc))
<1>1. /\ k = D("changed") + D("unchanged") + D("error")
      /\ l = E("manual_policy") + E("revision_selector_mismatch") + E("deleting")
      /\ Cardinality(DOMAIN affected) = k + l
      /\ D("changed") \in Nat /\ D("unchanged") \in Nat /\ D("error") \in Nat
      /\ E("manual_policy") \in Nat /\ E("revision_selector_mismatch") \in Nat /\ E("deleting") \in Nat
  BY AffectedAdd DEF Outcomes
<1>2. /\ o.changed = D("changed") /\ o.unchanged = D("unchanged") /\ o.errors = D("error")
      /\ o.byPolicy = E("manual_policy") /\ o.bySelector = E("revision_selector_mismatch")
      /\ o.byDeletion = E("deleting")
      /\ o.total = Cardinality(DOMAIN affected) /\ o.repointed \in {0, k}
      /\ o.impacts = k + (IF input.refs = << >> THEN 0 ELSE l)
      /\ o.skipped = FALSE
  BY DEF Analyzed, Unanalyzed, Count, Filtered, Diffed, Excluded
<1> HIDE DEF o, D, E, k, l
<1>3. o.repointed \in {0, o.changed + o.unchanged + o.errors}
  BY <1>1, <1>2
<1>4. o.total = o.changed + o.unchanged + o.errors + o.byPolicy + o.bySelector + o.byDeletion
  BY <1>1, <1>2
<1>5. input.refs # << >> => o.impacts = o.total
  BY <1>1, <1>2
<1>6. Reckoned(o, input.refs)
  BY <1>2, <1>3, <1>4, <1>5 DEF Reckoned
<1> QED
  BY <1>6 DEF o

(* Without analysis, or after an error, there is nothing to add up.        *)
LEMMA OthersReckon ==
  ASSUME NEW refs
  PROVE  /\ Reckoned(Failed(Doc), refs)
         /\ ~Triggers(Doc) => Reckoned(Unanalyzed(Doc), refs)
<1>1. Failed(Doc).error = TRUE /\ Failed(Doc).skipped = FALSE
  BY DEF Failed, Unanalyzed
<1>2. /\ Unanalyzed(Doc).skipped = TRUE
      /\ Doc.scope = "none" => Unanalyzed(Doc).repointed = 0
  BY DEF Unanalyzed
<1>3. AnalyzeOn = "any-change" /\ ~Triggers(Doc) => Doc.scope = "none"
  BY DEF Triggers
<1> QED
  BY <1>1, <1>2, <1>3 DEF Reckoned

-----------------------------------------------------------------------------
LEMMA AppendToSet ==
  ASSUME NEW s, s \in Seq(ToSet(s)), NEW r
  PROVE  /\ ToSet(Append(s, r)) = ToSet(s) \cup {r}
         /\ Append(s, r) \in Seq(ToSet(Append(s, r)))
<1> DEFINE S == ToSet(s) \cup {r}
           t == Append(s, r)
<1>1. s \in Seq(S) /\ r \in S
  OBVIOUS
<1>2. /\ t \in Seq(S) /\ Len(t) = Len(s) + 1 /\ t[Len(s) + 1] = r
      /\ \A i \in 1 .. Len(s) : t[i] = s[i]
  BY <1>1, AppendProperties
<1>3. DOMAIN s = 1 .. Len(s) /\ Len(s) \in Nat /\ DOMAIN t = 1 .. Len(t)
  BY <1>1, <1>2, LenProperties
<1> HIDE DEF t
<1>4. ToSet(t) = ToSet(s) \cup {r}
  BY <1>2, <1>3 DEF ToSet
<1> QED
  BY <1>2, <1>4 DEF t

LEMMA OutputStep ==
  ASSUME InputsInv, DiffsInv, OutputInv, [ImpactNext]_impactVars
  PROVE  OutputInv'
<1>1. ASSUME NEW o, Reckoned(o, input.refs), Reported(o), input' = input
      PROVE  OutputInv'
  <2>1. output' = Append(output, o) /\ ToSet(output') = ToSet(output) \cup {o}
    BY <1>1, AppendToSet DEF Reported, OutputInv
  <2>2. output' \in Seq(ToSet(output'))
    BY <2>1, AppendToSet DEF OutputInv
  <2> QED
    BY <1>1, <2>1, <2>2 DEF OutputInv
<1>2. CASE UNCHANGED <<input, output>>
  BY <1>2 DEF OutputInv
<1>3. CASE CompositionFails
  BY <1>1, <1>3, OthersReckon DEF CompositionFails
<1>4. CASE SkipAnalysis
  BY <1>1, <1>4, OthersReckon DEF SkipAnalysis
<1>5. CASE EndAnalysis
  BY <1>1, <1>5, AnalyzedReckons DEF EndAnalysis
<1> QED
  BY <1>2, <1>3, <1>4, <1>5 DEF ImpactNext, Run, NoCompositions, Preflight, PreflightFails,
     EndPreflight, Exit, SkipDocument, FindByRefs, FindByListing, Analyze, DiffXR, Render, Repoint,
     impactVars

LEMMA ExitStep ==
  ASSUME ExitInv, [ImpactNext]_impactVars
  PROVE  ExitInv'
<1>1. CASE UNCHANGED <<phase, output, exitCode>>
  BY <1>1 DEF ExitInv, CompExitCode, Some, HasDiffs
<1>2. CASE phase' # "exit"
  BY <1>2 DEF ExitInv
<1>3. CASE exitCode' = 1
  BY <1>3 DEF ExitInv
<1>4. ASSUME NEW renderFails \in BOOLEAN, Render(renderFails)
      PROVE  ExitInv'
  <2>1. exitCode' = CompExitCode(renderFails) /\ output' = output
    BY <1>4 DEF Render, Exit
  <2>2. CompExitCode(FALSE)' = CompExitCode(FALSE)
    BY <2>1 DEF CompExitCode, Some, HasDiffs
  <2>3. CompExitCode(TRUE) = 1
    BY DEF CompExitCode
  <2> QED
    BY <2>1, <2>2, <2>3 DEF ExitInv
<1>5. CASE NoCompositions \/ PreflightFails \/ EndPreflight
  BY <1>2, <1>3, <1>5 DEF NoCompositions, PreflightFails, EndPreflight, Exit
<1>6. CASE SkipDocument \/ FindByRefs \/ \E listed \in SUBSET {"XR", "claim"} : FindByListing(listed)
  BY <1>2, <1>6 DEF SkipDocument, FindByRefs, FindByListing, Finding
<1>7. CASE CompositionFails \/ SkipAnalysis \/ EndAnalysis \/ Analyze
  BY <1>2, <1>7 DEF CompositionFails, SkipAnalysis, EndAnalysis, Analyze, Reported
<1>8. CASE \/ \E kinds \in {{"XR"}, {"XR", "claim"}} : Preflight(kinds)
           \/ \E i \in todo, outcome \in Outcomes : DiffXR(i, outcome)
           \/ \E x \in Composites, n \in Names \cup {None} : Repoint(x, n)
           \/ UNCHANGED impactVars
  BY <1>1, <1>8 DEF Preflight, DiffXR, Repoint, impactVars
<1> QED
  BY <1>4, <1>5, <1>6, <1>7, <1>8 DEF ImpactNext, Run

-----------------------------------------------------------------------------
(* The outcomes of the run: what a diff came to is where the exit code is  *)
(* read from.                                                              *)
LEMMA PlacesStep ==
  ASSUME CompImpactAssumption, CompositionRevisionsAssumption, InputsInv, PlacesInv,
         [ImpactNext]_impactVars
  PROVE  PlacesInv'
<1>1. RefsDistinct' <=> RefsDistinct
  BY DEF ImpactNext, Run, NoCompositions, Preflight, PreflightFails, EndPreflight, SkipDocument,
     FindByRefs, FindByListing, CompositionFails, SkipAnalysis, Analyze, DiffXR, EndAnalysis,
     Render, Repoint, impactVars, RefsDistinct
<1>2. SUFFICES ASSUME RefsDistinct, OnePlaceEach(affected),
                      \A n \in Names : OnePlaceEach(matches[n])
               PROVE  OnePlaceEach(affected') /\ \A n \in Names : OnePlaceEach(matches'[n])
  BY <1>1 DEF PlacesInv, OnePlaceEach
<1>3. ASSUME NEW kinds, Preflight(kinds)
      PROVE  OnePlaceEach(affected') /\ \A n \in Names : OnePlaceEach(matches'[n])
  <2>1. Doc.name \in Names /\ input.refs \in Seq(STRING)
    BY <1>3, DocIsComposition DEF Preflight
  <2>2. matches' \in {matches, [matches EXCEPT ![Doc.name] = Lookup(Doc, kinds)]}
    BY <1>3 DEF Preflight
  <2>3. OnePlaceEach(Lookup(Doc, kinds))
    BY <1>2, <2>1, LookupLists DEF OnePlaceEach, RefsDistinct
  <2>4. \A n \in Names : matches'[n] \in {matches[n], Lookup(Doc, kinds)}
    BY <2>1, <2>2 DEF InputsInv
  <2>5. affected' = affected
    BY <1>3 DEF Preflight
  <2> QED
    BY <1>2, <2>3, <2>4, <2>5
<1>4. ASSUME NEW listed, FindByListing(listed)
      PROVE  OnePlaceEach(affected') /\ matches' = matches
  BY <1>4, ListOf DEF FindByListing
<1>5. CASE FindByRefs
  <2>1. Doc.name \in Names
    BY <1>5, DocIsComposition DEF FindByRefs, Finding
  <2> QED
    BY <1>2, <1>5, <2>1 DEF FindByRefs
<1>6. CASE UNCHANGED <<matches, affected>>
  BY <1>2, <1>6
<1> QED
  BY <1>2, <1>3, <1>4, <1>5, <1>6 DEF ImpactNext, Run, NoCompositions, PreflightFails,
     EndPreflight, SkipDocument, CompositionFails, SkipAnalysis, Analyze, DiffXR, EndAnalysis,
     Render, Repoint, impactVars

LEMMA DiffingStep ==
  ASSUME InputsInv, DiffingInv, [ImpactNext]_impactVars
  PROVE  DiffingInv'
<1>1. CASE phase' \notin {"compare", "diff"}
  BY <1>1 DEF DiffingInv
<1>2. CASE FindByRefs \/ \E listed \in SUBSET {"XR", "claim"} : FindByListing(listed)
  BY <1>2 DEF FindByRefs, FindByListing, DiffingInv, Doc
<1>3. CASE Analyze
  <2>1. DOMAIN results' = {} /\ todo' = Kept(Doc) /\ Kept(Doc)' = Kept(Doc) /\ Doc' = Doc
    BY <1>3 DEF Analyze, Kept, Doc
  <2> QED
    BY <1>3, <2>1 DEF Analyze, DiffingInv
<1>4. ASSUME NEW i \in todo, NEW outcome \in Outcomes, DiffXR(i, outcome)
      PROVE  DiffingInv'
  <2>1. /\ phase = "diff" /\ phase' = "diff" /\ todo' = todo \ {i} /\ seen' = seen \cup {outcome}
        /\ results' = [x \in DOMAIN results \cup {affected[i]} |->
                         IF x = affected[i] THEN outcome ELSE results[x]]
        /\ Kept(Doc)' = Kept(Doc) /\ Doc' = Doc
    BY <1>4 DEF DiffXR, Kept, Doc
  <2> QED
    BY <2>1 DEF DiffingInv
<1>5. CASE UNCHANGED <<input, at, phase, affected, todo, results, seen>>
  BY <1>5 DEF DiffingInv, Doc, Kept
<1>6. CASE NoCompositions \/ PreflightFails \/ EndPreflight \/ \E kinds \in {{"XR"}, {"XR", "claim"}} : Preflight(kinds)
  BY <1>1, <1>6 DEF NoCompositions, PreflightFails, EndPreflight, Preflight, Exit
<1>7. CASE \/ SkipDocument \/ CompositionFails \/ SkipAnalysis \/ EndAnalysis
           \/ \E renderFails \in BOOLEAN : Render(renderFails)
  BY <1>1, <1>7 DEF SkipDocument, Finding, CompositionFails, SkipAnalysis, EndAnalysis, Render,
     Exit, Reported
<1>8. CASE (\E x \in Composites, n \in Names \cup {None} : Repoint(x, n)) \/ UNCHANGED impactVars
  BY <1>5, <1>8 DEF Repoint, impactVars
<1> QED
  BY <1>2, <1>3, <1>4, <1>6, <1>7, <1>8 DEF ImpactNext, Run

(* Diffed(outcome) is finite, so it is counted only if it has a member.    *)
LEMMA CountTells ==
  ASSUME InputsInv, NEW outcome
  PROVE  Count(Doc, outcome) > 0 <=> \E i \in Kept(Doc) : results[affected[i]] = outcome
<1>1. Diffed(outcome) \in SUBSET DOMAIN affected /\ IsFiniteSet(DOMAIN affected)
  BY DEF Diffed, Kept, InputsInv, Listing
<1>2. IsFiniteSet(Diffed(outcome))
  BY <1>1, FS_Subset
<1>3. Cardinality(Diffed(outcome)) \in Nat /\ (Cardinality(Diffed(outcome)) = 0 <=> Diffed(outcome) = {})
  BY <1>2, FS_CardinalityType, FS_EmptySet
<1>4. Count(Doc, outcome) = Cardinality(Diffed(outcome))
  BY DEF Count, Diffed
<1>5. Count(Doc, outcome) > 0 <=> Diffed(outcome) # {}
  BY <1>3, <1>4
<1> QED
  BY <1>5 DEF Diffed

LEMMA SeenStep ==
  ASSUME InputsInv, DiffsInv, OutputInv, PlacesInv, DiffingInv, SeenInv, [ImpactNext]_impactVars
  PROVE  SeenInv'
<1>1. RefsDistinct' <=> RefsDistinct
  BY DEF ImpactNext, Run, NoCompositions, Preflight, PreflightFails, EndPreflight, SkipDocument,
     FindByRefs, FindByListing, CompositionFails, SkipAnalysis, Analyze, DiffXR, EndAnalysis,
     Render, Repoint, impactVars, RefsDistinct
<1>2. SUFFICES ASSUME RefsDistinct, NEW outcome, NEW field,
                      \/ outcome = "changed" /\ field = "changed"
                      \/ outcome = "error" /\ field = "errors",
                      Reached(outcome, field)
               PROVE  Reached(outcome, field)'
  BY <1>1 DEF SeenInv
<1>3. CASE UNCHANGED <<input, at, phase, affected, todo, results, output, seen>>
  BY <1>2, <1>3 DEF Reached, Some, Kept, Doc
<1>4. CASE phase # "diff" /\ UNCHANGED <<output, seen>>
  <2>1. Some(field)' <=> Some(field)
    BY <1>4 DEF Some
  <2> QED
    BY <1>2, <1>4, <2>1 DEF Reached
<1>5. ASSUME NEW o, Reported(o), phase # "diff" \/ (outcome \in seen => o[field] > 0), seen' = seen
      PROVE  Reached(outcome, field)'
  <2>1. ToSet(output') = ToSet(output) \cup {o}
    BY <1>5, AppendToSet DEF Reported, OutputInv
  <2>2. Some(field) \/ o[field] > 0 => Some(field)'
    BY <2>1 DEF Some
  <2>3. outcome \in seen => Some(field) \/ o[field] > 0
    BY <1>2, <1>5 DEF Reached
  <2> QED
    BY <1>5, <2>2, <2>3 DEF Reached
<1>6. CASE CompositionFails \/ SkipAnalysis
  BY <1>5, <1>6 DEF CompositionFails, SkipAnalysis
<1>7. CASE EndAnalysis
  <2>1. CASE Some(field)
    <3>1. ToSet(output') = ToSet(output) \cup {Analyzed(Doc)}
      BY <1>7, AppendToSet DEF EndAnalysis, Reported, OutputInv
    <3>2. Some(field)'
      BY <2>1, <3>1 DEF Some
    <3> QED
      BY <3>2 DEF Reached
  <2>2. CASE ~Some(field)
    <3>1. Analyzed(Doc)[field] = Count(Doc, outcome)
      BY <1>2 DEF Analyzed, Unanalyzed
    <3>2. outcome \in seen => \E i \in Kept(Doc) : results[affected[i]] = outcome
      BY <1>2, <2>2 DEF Reached
    <3>3. outcome \in seen => Analyzed(Doc)[field] > 0
      BY <3>1, <3>2, CountTells
    <3> QED
      BY <1>5, <1>7, <3>3 DEF EndAnalysis
  <2> QED
    BY <2>1, <2>2
<1>8. ASSUME NEW i \in todo, NEW came \in Outcomes, DiffXR(i, came)
      PROVE  Reached(outcome, field)'
  <2>1. /\ phase = "diff" /\ phase' = "diff" /\ todo' = todo \ {i} /\ seen' = seen \cup {came}
        /\ results' = [x \in DOMAIN results \cup {affected[i]} |->
                         IF x = affected[i] THEN came ELSE results[x]]
        /\ output' = output /\ affected' = affected /\ Kept(Doc)' = Kept(Doc)
    BY <1>8 DEF DiffXR, Kept, Doc
  <2>2. i \in Kept(Doc) /\ todo \subseteq Kept(Doc) /\ Kept(Doc) \subseteq DOMAIN affected
    BY <2>1 DEF DiffingInv, Kept
  <2>3. i \in Kept(Doc) \ todo' /\ results'[affected[i]] = came
    BY <2>1, <2>2
  <2>4. ASSUME NEW j \in Kept(Doc) \ todo
        PROVE  j \in Kept(Doc) \ todo' /\ results'[affected[j]] = results[affected[j]]
    <3>1. affected[j] # affected[i]
      BY <1>2, <2>2, <2>4 DEF PlacesInv, OnePlaceEach
    <3>2. affected[j] \in DOMAIN results
      BY <2>1, <2>4 DEF DiffsInv
    <3> QED
      BY <2>1, <2>4, <3>1, <3>2
  <2>5. Some(field)' <=> Some(field)
    BY <2>1 DEF Some
  <2>6. CASE outcome = came
    BY <2>1, <2>3, <2>6 DEF Reached
  <2>7. CASE outcome # came
    <3>1. outcome \in seen' => outcome \in seen
      BY <2>1, <2>7
    <3> QED
      BY <1>2, <2>1, <2>4, <2>5, <3>1 DEF Reached
  <2> QED
    BY <2>6, <2>7
<1>9. CASE \/ NoCompositions \/ PreflightFails \/ EndPreflight \/ SkipDocument \/ FindByRefs
           \/ \E kinds \in {{"XR"}, {"XR", "claim"}} : Preflight(kinds)
           \/ \E listed \in SUBSET {"XR", "claim"} : FindByListing(listed)
           \/ \E renderFails \in BOOLEAN : Render(renderFails)
  BY <1>4, <1>9 DEF NoCompositions, PreflightFails, EndPreflight, SkipDocument, FindByRefs,
     Preflight, FindByListing, Finding, Render
<1>10. CASE Analyze
  BY <1>4, <1>10 DEF Analyze
<1>11. CASE (\E x \in Composites, n \in Names \cup {None} : Repoint(x, n)) \/ UNCHANGED impactVars
  BY <1>3, <1>11 DEF Repoint, impactVars
<1> QED
  BY <1>6, <1>7, <1>8, <1>9, <1>10, <1>11 DEF ImpactNext, Run

(* Only edited compositions are shown, and only composites whose diffs     *)
(* came to it are counted.                                                 *)
LEMMA SaidStep ==
  ASSUME CompImpactAssumption, InputsInv, DiffsInv, OutputInv, DiffingInv, SaidInv,
         [ImpactNext]_impactVars
  PROVE  SaidInv'
<1>1. CASE UNCHANGED <<input, output>> /\ seen \subseteq seen'
  BY <1>1 DEF SaidInv
<1>2. ASSUME NEW o, Reported(o), UNCHANGED <<input, seen>>, o.changed > 0 => "changed" \in seen,
             o.displayed => \E d \in ToSet(input.documents) : Edited(d)
      PROVE  SaidInv'
  <2>1. ToSet(output') = ToSet(output) \cup {o}
    BY <1>2, AppendToSet DEF Reported, OutputInv
  <2> QED
    BY <1>2, <2>1 DEF SaidInv
<1>3. ASSUME phase \in {"compare", "diff"}, Unanalyzed(Doc).displayed
      PROVE  \E d \in ToSet(input.documents) : Edited(d)
  <2>1. at \in DOMAIN input.documents /\ Doc.kind = "Composition"
    BY <1>3, DocIsComposition DEF DiffingInv, InputsInv
  <2>2. Doc \in ToSet(input.documents)
    BY <2>1 DEF Doc, ToSet
  <2> QED
    BY <1>3, <2>1, <2>2 DEF Unanalyzed, Edited
<1>4. CASE CompositionFails
  <2>1. Failed(Doc).changed = 0 /\ Failed(Doc).displayed = FALSE
    BY DEF Failed, Unanalyzed
  <2> QED
    BY <1>2, <1>4, <2>1 DEF CompositionFails
<1>5. CASE SkipAnalysis
  <2>1. Unanalyzed(Doc).changed = 0
    BY DEF Unanalyzed
  <2> QED
    BY <1>2, <1>3, <1>5, <2>1 DEF SkipAnalysis
<1>6. CASE EndAnalysis
  <2>1. phase = "diff" /\ todo = {}
    BY <1>6 DEF EndAnalysis
  <2>2. Analyzed(Doc).changed = Count(Doc, "changed") /\ Analyzed(Doc).displayed = Unanalyzed(Doc).displayed
    BY DEF Analyzed, Unanalyzed
  <2>3. Count(Doc, "changed") > 0 => "changed" \in seen
    BY <2>1, CountTells DEF DiffsInv, DiffingInv
  <2> QED
    BY <1>2, <1>3, <1>6, <2>1, <2>2, <2>3 DEF EndAnalysis
<1> QED
  BY <1>1, <1>4, <1>5, <1>6 DEF ImpactNext, Run, NoCompositions, Preflight, PreflightFails,
     EndPreflight, Exit, SkipDocument, FindByRefs, FindByListing, Analyze, DiffXR, Render, Repoint,
     impactVars

(* No composition is passed without an entry.                              *)
LEMMA EntriesStep ==
  ASSUME CompImpactAssumption, InputsInv, OutputInv, EntriesInv, [ImpactNext]_impactVars
  PROVE  EntriesInv'
<1>1. \A i \in DOMAIN input.documents : i \in Nat /\ i <= Len(input.documents)
  BY LenProperties DEF CompImpactAssumption, InputsInv
<1>2. CASE /\ UNCHANGED <<input, output>>
           /\ \A i \in DOMAIN input.documents : input.documents[i].kind = "Composition" /\ Passed(i)' => Passed(i)
  <2>1. \A d : Entry(d)' <=> Entry(d)
    BY <1>2 DEF Entry
  <2> QED
    BY <1>2, <2>1 DEF EntriesInv
<1>3. ASSUME NEW o, Reported(o), input' = input, phase \in {"compare", "diff"},
             o.name = Doc.name, Edited(Doc) => o.error \/ o.displayed
      PROVE  EntriesInv'
  <2>1. ToSet(output') = ToSet(output) \cup {o} /\ phase' = "find" /\ at' = at + 1 /\ at \in Nat
    BY <1>3, AppendToSet DEF Reported, OutputInv, InputsInv
  <2>2. ASSUME NEW d, Entry(d)
        PROVE  Entry(d)'
    BY <2>1, <2>2 DEF Entry
  <2>3. ASSUME NEW i \in DOMAIN input.documents, i = at
        PROVE  Entry(input.documents[i])'
    <3>1. o.name = input.documents[i].name /\ (Edited(input.documents[i]) => o.error \/ o.displayed)
      BY <1>3, <2>3 DEF Doc
    <3> QED
      BY <1>3, <2>1, <3>1 DEF Entry
  <2>4. ASSUME NEW i \in DOMAIN input.documents, input.documents[i].kind = "Composition", Passed(i)'
        PROVE  Entry(input.documents[i])'
    <3>1. i = at \/ i < at
      BY <1>1, <2>1, <2>4 DEF Passed
    <3>2. CASE i < at
      <4>1. Entry(input.documents[i])
        BY <1>3, <2>4, <3>2 DEF EntriesInv, Passed
      <4>2. \A d : Entry(d) => Entry(d)'
        BY <2>2
      <4> QED
        BY <1>3, <4>1, <4>2
    <3> QED
      BY <2>3, <2>4, <3>1, <3>2
  <2> QED
    BY <1>3, <2>4 DEF EntriesInv
<1>4. Unanalyzed(Doc).name = Doc.name /\ (Edited(Doc) => Unanalyzed(Doc).displayed)
  BY DEF Unanalyzed, Edited
<1>5. Failed(Doc).name = Doc.name /\ Failed(Doc).error
  BY DEF Failed, Unanalyzed
<1>6. Analyzed(Doc).name = Unanalyzed(Doc).name /\ Analyzed(Doc).displayed = Unanalyzed(Doc).displayed
  BY DEF Analyzed, Unanalyzed
<1>7. CASE CompositionFails \/ SkipAnalysis
  BY <1>3, <1>4, <1>5, <1>7 DEF CompositionFails, SkipAnalysis
<1>8. CASE EndAnalysis
  BY <1>3, <1>4, <1>6, <1>8 DEF EndAnalysis
<1>9. CASE SkipDocument
  BY <1>1, <1>2, <1>9 DEF SkipDocument, Finding, Doc, Passed, InputsInv
<1>10. CASE EndPreflight
  BY <1>1, <1>2, <1>10 DEF EndPreflight, Exit, Passed
<1>11. CASE NoCompositions \/ PreflightFails \/ \E renderFails \in BOOLEAN : Render(renderFails)
  BY <1>1, <1>2, <1>11 DEF NoCompositions, PreflightFails, Render, Exit, Passed, InputsInv
<1>12. CASE \/ FindByRefs \/ Analyze \/ (\E listed \in SUBSET {"XR", "claim"} : FindByListing(listed))
            \/ \E kinds \in {{"XR"}, {"XR", "claim"}} : Preflight(kinds)
  BY <1>2, <1>12 DEF FindByRefs, FindByListing, Finding, Analyze, Preflight, Passed
<1>13. CASE \/ \E i \in todo, outcome \in Outcomes : DiffXR(i, outcome)
            \/ \E x \in Composites, n \in Names \cup {None} : Repoint(x, n)
            \/ UNCHANGED impactVars
  BY <1>2, <1>13 DEF DiffXR, Repoint, Passed, impactVars
<1> QED
  BY <1>7, <1>8, <1>9, <1>10, <1>11, <1>12, <1>13 DEF ImpactNext, Run

LEMMA OutcomesStart == CompImpactAssumption /\ ImpactInit => OutcomesInv
<1> SUFFICES ASSUME CompImpactAssumption, ImpactInit
             PROVE  OutcomesInv
  OBVIOUS
<1>1. ToSet(output) = {} /\ DOMAIN << >> = {}
  BY EmptySeq DEF ImpactInit, ToSet
<1>2. PlacesInv
  BY <1>1 DEF ImpactInit, PlacesInv, OnePlaceEach
<1>3. SeenInv /\ SaidInv
  BY <1>1 DEF ImpactInit, SeenInv, Reached, SaidInv
<1>4. DiffingInv /\ EntriesInv
  BY DEF ImpactInit, DiffingInv, EntriesInv, Passed
<1> QED
  BY <1>2, <1>3, <1>4 DEF OutcomesInv

LEMMA ImpactStart == CompImpactAssumption /\ ImpactInit => ImpactInv
<1> SUFFICES ASSUME CompImpactAssumption, ImpactInit
             PROVE  ImpactInv
  OBVIOUS
<1>1. ToSet(<< >>) = {} /\ << >> \in Seq({})
  BY EmptySeq DEF ToSet
<1>2. OutputInv /\ MatchesInv
  BY <1>1 DEF ImpactInit, OutputInv, MatchesInv
<1> QED
  BY <1>2, InputsInit DEF ImpactInit, ImpactInv, DiffsInv, ExitInv

(* What the run of comp knows of the documents, the refs and the affected  *)
(* composites, and what it has reported.                                   *)
THEOREM ImpactInvariance == ImpactSpec => []ImpactInv
<1>1. ImpactInv /\ [ImpactNext]_impactVars => ImpactInv'
  BY CompImpactAssumption, CompositionRevisionsAssumption, InputsStep, DiffsStep, MatchesStep,
     OutputStep, ExitStep DEF ImpactInv
<1> QED
  BY <1>1, ImpactStart, CompImpactAssumption, PTL DEF ImpactSpec

THEOREM OutcomesInvariance == ImpactSpec => []OutcomesInv
<1>1. ImpactInv /\ OutcomesInv /\ [ImpactNext]_impactVars => OutcomesInv'
  BY CompImpactAssumption, CompositionRevisionsAssumption, PlacesStep, DiffingStep, SeenStep,
     SaidStep, EntriesStep DEF ImpactInv, OutcomesInv
<1> QED
  BY <1>1, ImpactInvariance, OutcomesStart, CompImpactAssumption, PTL DEF ImpactSpec

(* However many compositions, composites and refs there are, and whatever  *)
(* fails among them: the exit code of comp is 1 if a diff failed, is never *)
(* 0 if one changed anything, is 3 only if something changed, and is       *)
(* silent on an edited composition only when that is reported as failed    *)
(* beside one that did not (DetermineExitCode after DiffComposition).      *)
THEOREM OutcomesReachExitCode == ImpactSpec => []OutcomesReachExit
<1>1. ImpactInv /\ OutcomesInv => OutcomesReachExit
  <2> SUFFICES ASSUME ImpactInv, OutcomesInv, phase = "exit", RefsDistinct, exitCode # 1
               PROVE  /\ "error" \notin seen
                      /\ "changed" \in seen => exitCode # 0
                      /\ exitCode = 3 => "changed" \in seen \/ \E d \in ToSet(input.documents) : Edited(d)
                      /\ exitCode = 0 => \A d \in ToSet(input.documents) :
                           Edited(d) => \E o \in ToSet(output) : o.name = d.name /\ o.error
                      /\ (\E d \in ToSet(input.documents) : d.kind = "Composition") =>
                           \E o \in ToSet(output) : ~o.error
    BY DEF OutcomesReachExit
  <2>1. exitCode = CompExitCode(FALSE)
    BY DEF ImpactInv, ExitInv
  <2>2. ~Some("errors") /\ ~(output # << >> /\ \A o \in ToSet(output) : o.error)
    BY <2>1 DEF CompExitCode
  <2>3. (HasDiffs => exitCode = 3) /\ (~HasDiffs => exitCode = 0)
    BY <2>1, <2>2 DEF CompExitCode
  <2>4. "error" \notin seen /\ ("changed" \in seen => Some("changed"))
    BY <2>2 DEF OutcomesInv, SeenInv, Reached
  <2>5. "changed" \in seen => exitCode = 3
    BY <2>3, <2>4 DEF HasDiffs
  <2>6. ASSUME HasDiffs
        PROVE  "changed" \in seen \/ \E d \in ToSet(input.documents) : Edited(d)
    BY <2>6 DEF HasDiffs, Some, OutcomesInv, SaidInv
  <2>7. ASSUME NEW d \in ToSet(input.documents), d.kind = "Composition"
        PROVE  Entry(d)
    <3>1. PICK i \in DOMAIN input.documents : d = input.documents[i]
      BY DEF ToSet
    <3> QED
      BY <2>7, <3>1 DEF OutcomesInv, EntriesInv, Passed
  <2>8. ASSUME NEW d \in ToSet(input.documents), Edited(d), ~HasDiffs
        PROVE  \E o \in ToSet(output) : o.name = d.name /\ o.error
    <3>1. PICK o \in ToSet(output) : o.name = d.name /\ (o.error \/ o.displayed)
      BY <2>7, <2>8 DEF Entry, Edited
    <3> QED
      BY <2>8, <3>1 DEF HasDiffs
  <2>9. ASSUME NEW d \in ToSet(input.documents), d.kind = "Composition"
        PROVE  \E o \in ToSet(output) : ~o.error
    <3>1. PICK o \in ToSet(output) : o.name = d.name
      BY <2>7, <2>9 DEF Entry
    <3>2. output # << >>
      BY <3>1 DEF ToSet
    <3> QED
      BY <2>2, <3>2
  <2> QED
    BY <2>3, <2>4, <2>5, <2>6, <2>8, <2>9
<1> QED
  BY <1>1, ImpactInvariance, OutcomesInvariance, PTL

(* Every affected composite of an analysed composition is in one count of  *)
(* the summary, once, however many there are and whatever became of each.  *)
THEOREM EveryCompositeCounted == ImpactSpec => []Accounted
<1>1. ImpactInv => Accounted
  BY DEF ImpactInv, OutputInv, Reckoned, Accounted
<1> QED
  BY <1>1, ImpactInvariance, PTL

(* By default an analysis is only skipped when no composite would adopt    *)
(* anything of the composition (triggersAnalysis).                         *)
THEOREM InertWhenSkipped == ImpactSpec => []SkippedOnlyIfInert
<1>1. ImpactInv => SkippedOnlyIfInert
  BY DEF ImpactInv, OutputInv, Reckoned, SkippedOnlyIfInert
<1> QED
  BY <1>1, ImpactInvariance, PTL

(* No composition is compared, and nothing is said of one, before every    *)
(* --resource ref is known to be relevant to one of the input.             *)
THEOREM RefsAreResolved == ImpactSpec => []RefsResolved
<1>1. ImpactInv => RefsResolved
  <2> SUFFICES ASSUME ImpactInv, NamedOnce, phase \in {"compare", "diff"} \/ output # << >>,
                      NEW ref \in ToSet(input.refs)
               PROVE  \E d \in ToSet(input.documents) :
                        d.kind = "Composition" /\ \E x \in Range(matches[d.name]) : x.name = ref
    BY DEF RefsResolved
  <2>1. ref \in matched
    BY DEF ImpactInv, MatchesInv, AllMatched
  <2>2. PICK i \in DOMAIN input.documents : Among(ref, i)
    BY <2>1 DEF ImpactInv, MatchesInv
  <2> QED
    BY <2>2 DEF Among, ToSet
<1> QED
  BY <1>1, ImpactInvariance, PTL

-----------------------------------------------------------------------------
(* There is a greatest of boundedly many numbers.                          *)
LEMMA Greatest ==
  ASSUME NEW S, S # {}, NEW f, NEW m \in Nat, \A s \in S : f[s] \in 0 .. m
  PROVE  \E s \in S : \A t \in S : f[t] <= f[s]
<1> DEFINE Above(s) == f[s] + 1 .. m
           T == {Above(s) : s \in S}
<1>1. T \subseteq FiniteSubsetsOf(Nat) /\ T # {}
  <2>1. ASSUME NEW s \in S
        PROVE  IsFiniteSet(Above(s)) /\ Above(s) \subseteq Nat
    <3> DEFINE a == f[s] + 1
    <3>1. a \in Nat
      OBVIOUS
    <3> HIDE DEF a
    <3>2. IsFiniteSet(a .. m) /\ a .. m \subseteq Nat
      BY <3>1, FS_Interval
    <3> QED
      BY <3>2 DEF a
  <2> QED
    BY <2>1 DEF FiniteSubsetsOf
<1> HIDE DEF T
<1>2. PICK x \in T : \A y \in T : ~(<<y, x>> \in StrictSubsetOrdering(Nat))
  BY <1>1, WFMin, FS_StrictSubsetOrderingWellFounded
<1>3. PICK s \in S : x = Above(s)
  BY DEF T
<1>4. ASSUME NEW t \in S, f[t] > f[s]
      PROVE  FALSE
  <2>1. f[t] \in 0 .. m /\ f[s] \in 0 .. m
    OBVIOUS
  <2>2. Above(t) \subseteq Above(s) /\ f[t] \in Above(s) /\ f[t] \notin Above(t)
    BY <1>4, <2>1
  <2>3. Above(t) \in T /\ Above(s) \in T
    BY DEF T
  <2> HIDE DEF Above
  <2>4. <<Above(t), Above(s)>> \in StrictSubsetOrdering(Nat)
    BY <2>2, <2>3, <1>1 DEF StrictSubsetOrdering, FiniteSubsetsOf
  <2> QED
    BY <2>3, <2>4, <1>2, <1>3
<1> QED
  BY <1>4

(* The numbers of the cluster when a run begins, and once the composition  *)
(* of a document is applied and revised.                                   *)
Given(n, before) == [s \in Revisions |-> IF s[1] = n THEN before[s] ELSE 0]
Proposed(d) == <<d.name, d.content>>
Numbered(d, before) == Revised(Proposed(d), Given(d.name, before))

LEMMA GivenNumbers ==
  ASSUME NEW n \in Names, NEW before \in Numberings(n), MaxNumber \in Nat
  PROVE  /\ \A s \in Revisions : Given(n, before)[s] \in 0 .. MaxNumber
         /\ \A s, t \in RevisionsOf(n, Given(n, before)) :
              Given(n, before)[s] = Given(n, before)[t] => s = t
         /\ DOMAIN Given(n, before) = Revisions
<1>1. before \in [{n} \X Contents -> 0 .. MaxNumber]
  BY DEF Numberings
<1>2. \A s \in Revisions : s[1] = n => s \in {n} \X Contents
  BY DEF Revisions
<1>3. \A s, t \in {n} \X Contents : before[s] = before[t] => s = t \/ before[s] = 0
  BY DEF Numberings
<1>4. ASSUME NEW s \in RevisionsOf(n, Given(n, before))
      PROVE  s \in {n} \X Contents /\ Given(n, before)[s] = before[s] /\ before[s] # 0
  BY <1>1, <1>2 DEF RevisionsOf, Given
<1>5. \A s \in Revisions : Given(n, before)[s] \in 0 .. MaxNumber
  BY <1>1, <1>2 DEF Given
<1> QED
  BY <1>3, <1>4, <1>5 DEF Given

(* The revision of what was applied has the highest number, alone.         *)
LEMMA ProposedOnTop ==
  ASSUME CompImpactAssumption, NEW d \in Documents,
         NEW before \in Numberings(d.name)
  PROVE  /\ Numbered(d, before)[Proposed(d)] \in Nat \ {0}
         /\ \A s \in RevisionsOf(d.name, Numbered(d, before)) :
              /\ Numbered(d, before)[s] \in Nat
              /\ s # Proposed(d) => Numbered(d, before)[s] < Numbered(d, before)[Proposed(d)]
         /\ Proposed(d) \in Revisions
<1> DEFINE n == d.name
           r == Proposed(d)
           given == Given(n, before)
           rs == RevisionsOf(n, given)
<1>1. n \in Names /\ d.content \in Contents /\ MaxNumber \in Nat
  BY DEF CompImpactAssumption
<1>2. r \in Revisions /\ r[1] = n
  BY <1>1 DEF Revisions, Proposed
<1>3. /\ \A s \in Revisions : given[s] \in 0 .. MaxNumber
      /\ \A s, t \in rs : given[s] = given[t] => s = t
      /\ DOMAIN given = Revisions
  BY <1>1, GivenNumbers
<1>4. Numbered(d, before) = Revised(r, given)
  BY DEF Numbered
<1> HIDE DEF n, r, given
<1>5. CASE IsLatest(r, given)
  <2>1. Numbered(d, before) = given /\ given[r] > 0 /\ \A s \in rs : given[s] <= given[r]
    BY <1>2, <1>4, <1>5 DEF Revised, IsLatest
  <2>2. r \in rs
    BY <1>2, <2>1 DEF RevisionsOf
  <2>3. \A s \in rs : s \in Revisions
    BY DEF RevisionsOf
  <2>4. \A s \in rs : s # r => given[s] < given[r]
    BY <1>1, <1>2, <1>3, <2>1, <2>2, <2>3
  <2> QED
    BY <1>1, <1>2, <1>3, <2>1, <2>3, <2>4 DEF n, r
<1>6. CASE ~IsLatest(r, given)
  <2> DEFINE top == IF rs = {} THEN 0 ELSE given[Highest(rs, given)]
  <2>1. Numbered(d, before) = [given EXCEPT ![r] = 1 + top]
    BY <1>2, <1>4, <1>6 DEF Revised
  <2>2. top \in 0 .. MaxNumber /\ \A s \in rs : given[s] <= top
    <3>1. CASE rs = {}
      BY <1>1, <3>1
    <3>2. CASE rs # {}
      <4>1. \A s \in rs : s \in Revisions
        BY DEF RevisionsOf
      <4>2. \E s \in rs : \A t \in rs : given[t] <= given[s]
        <5> HIDE DEF rs
        <5>1. \A s \in rs : given[s] \in 0 .. MaxNumber
          BY <4>1, <1>3
        <5> QED
          BY <1>1, <3>2, <5>1, Greatest
      <4>3. Highest(rs, given) \in rs /\ \A t \in rs : given[t] <= given[Highest(rs, given)]
        BY <4>2 DEF Highest
      <4> QED
        BY <3>2, <4>1, <4>3, <1>3
    <3> QED
      BY <3>1, <3>2
  <2> HIDE DEF top
  <2>3. /\ Numbered(d, before)[r] = 1 + top
        /\ \A s \in Revisions : s # r => Numbered(d, before)[s] = given[s]
    BY <1>2, <1>3, <2>1
  <2>4. ASSUME NEW s \in RevisionsOf(n, Numbered(d, before)), s # r
        PROVE  Numbered(d, before)[s] \in Nat /\ Numbered(d, before)[s] < 1 + top
    <3>1. s \in Revisions /\ s[1] = n /\ Numbered(d, before)[s] > 0
      BY <2>4 DEF RevisionsOf
    <3>2. Numbered(d, before)[s] = given[s]
      BY <3>1, <2>3, <2>4
    <3>3. s \in rs
      BY <3>1, <3>2 DEF RevisionsOf
    <3>4. given[s] \in Nat
      BY <3>1, <1>1, <1>3
    <3> QED
      BY <3>2, <3>3, <3>4, <2>2, <1>1
  <2>5. 1 + top \in Nat \ {0}
    BY <2>2, <1>1
  <2> QED
    BY <1>2, <2>3, <2>4, <2>5 DEF n, r
<1> QED
  BY <1>5, <1>6

(* So it is what a selector that matches it makes the composite adopt.     *)
LEMMA AdoptsIfSelected ==
  ASSUME CompImpactAssumption, NEW d \in Documents, NEW x
  PROVE  Adopts(x, d) <=> RevisionSelector(x) \subseteq PredictedLabels(d)
<1> DEFINE n == d.name
           r == Proposed(d)
           numbers(before) == Numbered(d, before)
           matching(before) == MatchingRevisions(n, numbers(before), RevisionSelector(x))
<1>1. r[1] = n /\ RevisionLabels(r) = PredictedLabels(d)
  BY DEF Proposed, RevisionLabels, PredictedLabels
<1>2. Adopts(x, d) <=>
        \A before \in Numberings(n) :
          matching(before) # {} /\ Highest(matching(before), numbers(before)) = r
  BY DEF Adopts, Numbered, Given, Proposed
<1>3. ASSUME NEW before \in Numberings(n)
      PROVE  /\ numbers(before)[r] \in Nat \ {0}
             /\ \A s \in RevisionsOf(n, numbers(before)) :
                  /\ numbers(before)[s] \in Nat
                  /\ s # r => numbers(before)[s] < numbers(before)[r]
             /\ r \in Revisions
  BY <1>3, ProposedOnTop
<1> HIDE DEF numbers, r
<1>4. ASSUME RevisionSelector(x) \subseteq PredictedLabels(d), NEW before \in Numberings(n)
      PROVE  matching(before) # {} /\ Highest(matching(before), numbers(before)) = r
  <2>1. r \in matching(before)
    BY <1>1, <1>3, <1>4 DEF MatchingRevisions, RevisionsOf
  <2>2. matching(before) \subseteq RevisionsOf(n, numbers(before))
    BY DEF MatchingRevisions
  <2> DEFINE M == matching(before)
             f == numbers(before)
  <2>3. f[r] \in Nat /\ \A s \in M : f[s] \in Nat /\ (s # r => f[s] < f[r])
    BY <2>2, <1>3
  <2> HIDE DEF M, f
  <2>4. \A s \in M : f[s] <= f[r]
    BY <2>3
  <2>5. \A t \in M : (\A s \in M : f[s] <= f[t]) => t = r
    BY <2>1, <2>3 DEF M
  <2>6. Highest(M, f) = r
    BY <2>1, <2>4, <2>5 DEF Highest, M
  <2> QED
    BY <2>1, <2>6 DEF M, f
<1>5. ASSUME Adopts(x, d)
      PROVE  RevisionSelector(x) \subseteq PredictedLabels(d)
  <2> DEFINE none == [s \in {n} \X Contents |-> 0]
  <2>1. none \in Numberings(n)
    BY DEF Numberings, CompImpactAssumption
  <2>2. matching(none) # {} /\ Highest(matching(none), numbers(none)) = r
    BY <1>2, <1>5, <2>1
  <2>3. ASSUME NEW s \in matching(none)
        PROVE  s = r
    <3>1. s \in Revisions /\ s[1] = n /\ numbers(none)[s] > 0
      BY DEF MatchingRevisions, RevisionsOf
    <3>2. \A t \in Revisions : Given(n, none)[t] = 0
      BY DEF Given, Revisions
    <3>3. DOMAIN Given(n, none) = Revisions
      BY DEF Given
    <3>4. s # r => numbers(none)[s] = Given(n, none)[s]
      BY <3>1, <3>3 DEF numbers, Numbered, Revised, r
    <3> QED
      BY <3>1, <3>2, <3>4
  <2>4. r \in matching(none)
    BY <2>2, <2>3
  <2> QED
    BY <1>1, <2>4 DEF MatchingRevisions
<1> QED
  BY <1>2, <1>4, <1>5

(* The composites comp diffs are those Crossplane moves to the revision    *)
(* the document would produce, whatever revisions there are already        *)
(* (classifyXR predicts only the labels of that revision).                 *)
THEOREM PartitionPredicts == ImpactSpec => []PartitionIsRight
<1>1. ImpactInv => PartitionIsRight
  <2> SUFFICES ASSUME ImpactInv, phase = "diff", NEW i \in DOMAIN affected
               PROVE  FilterReason(affected[i], Doc) = "kept" <=>
                        /\ ~affected[i].deleting
                        /\ IF affected[i].policy = "Manual" THEN IncludeManual
                           ELSE Adopts(affected[i], Doc)
    BY DEF PartitionIsRight
  <2>1. Doc \in Documents /\ affected[i] \in Composites
    BY CompImpactAssumption, DocIsComposition DEF ImpactInv, InputsInv, Listing
  <2>2. FilterReason(affected[i], Doc) # "malformed"
    BY DEF ImpactInv, DiffsInv, MalformedAffected
  <2>3. Adopts(affected[i], Doc) <=> RevisionSelector(affected[i]) \subseteq PredictedLabels(Doc)
    BY CompImpactAssumption, <2>1, AdoptsIfSelected
  <2> QED
    BY <2>2, <2>3 DEF FilterReason
<1> QED
  BY <1>1, ImpactInvariance, PTL
=============================================================================
