------------------------------ MODULE CompImpact ------------------------------
(***************************************************************************)
(* DiffComposition of diffprocessor/comp_processor.go: what applying some  *)
(* compositions would do to the composites that use them. The --resource   *)
(* refs are looked up before anything is rendered; then each composition   *)
(* is compared with the cluster's, its composites are partitioned into     *)
(* those that would adopt its next revision and those that would not, and  *)
(* the former are diffed. The run ends with an exit code.                  *)
(*                                                                         *)
(* Composites are looked up in a cluster that other clients change. What   *)
(* DiffSingleResource returns (NestedDiff) is any of its outcomes.         *)
(***************************************************************************)
EXTENDS CompositionRevisions, Sequences, SequencesExt

CONSTANTS
  Documents,      \* the possible documents of the input, see below
  Inputs,         \* the sequences of documents and refs a run may be given
  AnalyzeOn,      \* --analyze-on
  IncludeManual,  \* --include-manual
  MaxRepoints,    \* bound on composites that change their composition
  MaxNumber       \* bound on the numbers revisions have before the run

(* A document: its kind, the composition's name and content, how it        *)
(* differs from the cluster's, whether masks hide that, and whether        *)
(* calculateCompositionDiff fails on it. A composite: an XR or a claim,    *)
(* its name, whether it is being deleted, its policy and selector, and     *)
(* which of these cannot be read. A ref is a name.                         *)
ASSUME CompImpactAssumption ==
  /\ \A d \in Documents : /\ d.kind \in {"Composition", "GoTemplate"}
                          /\ d.name \in Names /\ d.content \in Contents
                          /\ d.scope \in {"none", "metadata", "spec"}
                          /\ {d.masked, d.fails} \subseteq BOOLEAN
  /\ \A x \in Composites : /\ x.kind \in {"XR", "claim"} /\ x.name \in STRING
                           /\ x.deleting \in BOOLEAN
                           /\ x.malformed \in {"nothing", "policy", "selector"}
                           /\ x.policy \in {"Automatic", "Manual"}
  /\ Inputs \subseteq [documents : Seq(Documents), refs : Seq(STRING)]
  /\ AnalyzeOn \in {"any-change", "spec-change", "always"}
  /\ IncludeManual \in BOOLEAN
  /\ MaxRepoints \in Nat
  /\ MaxNumber \in Nat

VARIABLES
  input,          \* the documents and the --resource refs
  uses,           \* the composition each composite refers to, or None
  repoints,       \* how many composites have changed it
  phase,          \* "preflight", "find", "compare", "diff", "render", "exit"
  at,             \* the document being processed
  matches,        \* preflightMatches: the composites of each composition name
  matched,        \* the refs matchedAtLeastOnce
  affected,       \* affectedXRs: composites by the place of their ref or in the list
  todo,           \* the places in it of the kept XRs not diffed yet
  results,        \* the outcome of each kept XR that has been
  output,         \* output.Compositions
  exitCode,
  seen            \* history: what the diffs of the run came to

impactVars == <<input, uses, repoints, phase, at, matches, matched, affected, todo, results,
          output, exitCode, seen>>

Outcomes == {"changed", "unchanged", "error"}

-----------------------------------------------------------------------------
Doc == input.documents[at]

(* predictedRevisionLabels, without the composition's name; with it.       *)
CompositionLabels(d) == d.content.labels
PredictedLabels(d) == d.content.labels \cup {d.name}

(* classifyXR, in the order of its checks.                                 *)
FilterReason(x, d) ==
  IF x.deleting THEN "deleting"
  ELSE IF x.malformed = "policy" THEN "malformed"
  ELSE IF x.policy = "Manual" THEN IF IncludeManual THEN "kept" ELSE "manual_policy"
  ELSE IF x.malformed = "selector" THEN "malformed"
  ELSE IF RevisionSelector(x) \subseteq PredictedLabels(d) THEN "kept"
  ELSE "revision_selector_mismatch"

(* partitionXRsByUpdatePolicy: the places in affectedXRs (a ref may be     *)
(* given twice, and is then counted twice).                                *)
Kept(d) == {i \in DOMAIN affected : FilterReason(affected[i], d) = "kept"}
Dropped(d) == {i \in DOMAIN affected : FilterReason(affected[i], d) # "kept"}

(* A slip: composites being deleted are in no count.                       *)
FilteredByUser(d, reason) ==
  Cardinality({i \in Dropped(d) : reason # "deleting" /\ FilterReason(affected[i], d) = reason})

(* countFilterReasons                                                      *)
Filtered(d, reason) == Cardinality({i \in Dropped(d) : FilterReason(affected[i], d) = reason})

(* A slip: an unmasked difference is what triggers the analysis.           *)
TriggersOnDisplay(d) == d.scope # "none" /\ ~d.masked

(* triggersAnalysis                                                        *)
Triggers(d) ==
  CASE AnalyzeOn = "always" -> TRUE
    [] AnalyzeOn = "spec-change" -> d.scope = "spec"
    [] AnalyzeOn = "any-change" -> d.scope # "none"

(* What is said of a composition without its impact analysis.              *)
Unanalyzed(d) ==
  [name |-> d.name, error |-> FALSE, displayed |-> d.scope # "none" /\ ~d.masked,
   repointed |-> IF d.scope = "none" THEN 0 ELSE Cardinality(Kept(d)),
   skipped |-> TRUE, impacts |-> 0, total |-> 0, changed |-> 0, unchanged |-> 0, errors |-> 0,
   byPolicy |-> 0, bySelector |-> 0, byDeletion |-> 0]

Failed(d) == [Unanalyzed(d) EXCEPT !.error = TRUE, !.displayed = FALSE, !.repointed = 0, !.skipped = FALSE]

(* buildImpactAnalysis, counted over the kept XRs; widened with those that *)
(* were filtered.                                                          *)
Count(d, outcome) == Cardinality({i \in Kept(d) : results[affected[i]] = outcome})

Analyzed(d) ==
  [Unanalyzed(d) EXCEPT
     !.skipped = FALSE,
     !.impacts = Cardinality(Kept(d)) + (IF input.refs = << >> THEN 0 ELSE Cardinality(Dropped(d))),
     !.total = Cardinality(DOMAIN affected),
     !.changed = Count(d, "changed"), !.unchanged = Count(d, "unchanged"),
     !.errors = Count(d, "error"),
     !.byPolicy = Filtered(d, "manual_policy"),
     !.bySelector = Filtered(d, "revision_selector_mismatch"),
     !.byDeletion = Filtered(d, "deleting")]

ImpactInit ==
  /\ input \in Inputs
  /\ uses \in [Composites -> Names \cup {None}]
  /\ repoints = 0
  /\ phase = "preflight"
  /\ at = 1
  /\ matches = [n \in Names |-> << >>]
  /\ matched = {}
  /\ affected = << >>
  /\ todo = {}
  /\ results = [x \in {} |-> "unchanged"]
  /\ output = << >>
  /\ exitCode = None
  /\ seen = {}

(* Another client of the cluster: a composite takes another composition.   *)
Repoint(x, n) ==
  /\ repoints < MaxRepoints
  /\ phase # "exit"
  /\ uses' = [uses EXCEPT ![x] = n]
  /\ repoints' = repoints + 1
  /\ UNCHANGED <<input, phase, at, matches, matched, affected, todo, results, output, exitCode, seen>>

Exit(code) ==
  /\ phase' = "exit"
  /\ exitCode' = code

-----------------------------------------------------------------------------
(* lookupRef: the XR of this name or else, if the XRD can be read, the     *)
(* claim; one of another composition is as good as none.                   *)
Using(ref, d, kinds) ==
  {x \in Composites : x.name = ref /\ x.kind \in kinds /\ uses[x] = d.name}
LookupRef(ref, d, kinds) ==
  CHOOSE x \in Using(ref, d, kinds) :
    x.kind = "XR" \/ \A y \in Using(ref, d, kinds) : y.kind = "claim"

(* findByRefs: a ref without such a composite is dropped.                  *)
Lookup(d, kinds) ==
  [i \in {j \in DOMAIN input.refs : Using(input.refs[j], d, kinds) # {}} |->
     LookupRef(input.refs[i], d, kinds)]

NoCompositions ==
  /\ phase = "preflight"
  /\ input.documents = << >>
  /\ Exit(1)
  /\ UNCHANGED <<input, uses, repoints, at, matches, matched, affected, todo, results, output, seen>>

Preflight(kinds) ==
  /\ phase = "preflight"
  /\ input.refs # << >>
  /\ at <= Len(input.documents)
  /\ IF Doc.kind = "Composition"
     THEN /\ matches' = [matches EXCEPT ![Doc.name] = Lookup(Doc, kinds)]
          /\ matched' = matched \cup {x.name : x \in Range(Lookup(Doc, kinds))}
     ELSE UNCHANGED <<matches, matched>>
  /\ at' = at + 1
  /\ UNCHANGED <<input, uses, repoints, phase, affected, todo, results, output, exitCode, seen>>

(* A read fails with anything but NotFound.                                *)
PreflightFails ==
  /\ phase = "preflight"
  /\ input.refs # << >>
  /\ at <= Len(input.documents)
  /\ Doc.kind = "Composition"
  /\ Exit(1)
  /\ UNCHANGED <<input, uses, repoints, at, matches, matched, affected, todo, results, output, seen>>

(* A slip: one ref that is relevant is enough.                             *)
SomeMatched == input.refs = << >> \/ matched # {}
AllMatched == ToSet(input.refs) \subseteq matched

EndPreflight ==
  /\ phase = "preflight"
  /\ input.documents # << >>
  /\ input.refs # << >> => at > Len(input.documents)
  /\ IF AllMatched THEN phase' = "find" /\ UNCHANGED exitCode ELSE Exit(1)
  /\ at' = 1
  /\ UNCHANGED <<input, uses, repoints, matches, matched, affected, todo, results, output, seen>>

-----------------------------------------------------------------------------
Finding == phase = "find" /\ at <= Len(input.documents)

SkipDocument ==
  /\ Finding
  /\ Doc.kind # "Composition"
  /\ at' = at + 1
  /\ UNCHANGED <<input, uses, repoints, phase, matches, matched, affected, todo, results, output, exitCode, seen>>

FindByRefs ==
  /\ Finding
  /\ Doc.kind = "Composition"
  /\ input.refs # << >>
  /\ affected' = matches[Doc.name]
  /\ phase' = "compare"
  /\ UNCHANGED <<input, uses, repoints, at, matches, matched, todo, results, output, exitCode, seen>>

(* Default discovery: only the kinds that could be listed are found; no    *)
(* failure is one of the run.                                              *)
FindByListing(listed) ==
  /\ Finding
  /\ Doc.kind = "Composition"
  /\ input.refs = << >>
  /\ affected' = SetToSeq({x \in Composites : x.kind \in listed /\ uses[x] = Doc.name})
  /\ phase' = "compare"
  /\ UNCHANGED <<input, uses, repoints, at, matches, matched, todo, results, output, exitCode, seen>>

-----------------------------------------------------------------------------
(* processSingleComposition returns to the loop over the documents.        *)
Reported(result) ==
  /\ output' = Append(output, result)
  /\ phase' = "find"
  /\ at' = at + 1

MalformedAffected == \E i \in DOMAIN affected : FilterReason(affected[i], Doc) = "malformed"

(* The comparison fails, or a composite's policy or selector cannot be     *)
(* read.                                                                   *)
CompositionFails ==
  /\ phase = "compare"
  /\ Doc.fails \/ MalformedAffected
  /\ Reported(Failed(Doc))
  /\ UNCHANGED <<input, uses, repoints, matches, matched, affected, todo, results, exitCode, seen>>

SkipAnalysis ==
  /\ phase = "compare"
  /\ ~Doc.fails /\ ~MalformedAffected
  /\ ~Triggers(Doc)
  /\ Reported(Unanalyzed(Doc))
  /\ UNCHANGED <<input, uses, repoints, matches, matched, affected, todo, results, exitCode, seen>>

Analyze ==
  /\ phase = "compare"
  /\ ~Doc.fails /\ ~MalformedAffected
  /\ Triggers(Doc)
  /\ todo' = Kept(Doc)
  /\ results' = [x \in {} |-> "unchanged"]
  /\ phase' = "diff"
  /\ UNCHANGED <<input, uses, repoints, at, matches, matched, affected, output, exitCode, seen>>

(* collectXRDiffs: whatever comes of one XR, the next is diffed; results   *)
(* are kept by the composite's key.                                        *)
DiffXR(i, outcome) ==
  /\ phase = "diff"
  /\ i \in todo /\ \A j \in todo : i <= j
  /\ results' = [x \in DOMAIN results \cup {affected[i]} |->
                   IF x = affected[i] THEN outcome ELSE results[x]]
  /\ todo' = todo \ {i}
  /\ seen' = seen \cup {outcome}
  /\ UNCHANGED <<input, uses, repoints, phase, at, matches, matched, affected, output, exitCode>>

EndAnalysis ==
  /\ phase = "diff"
  /\ todo = {}
  /\ Reported(Analyzed(Doc))
  /\ UNCHANGED <<input, uses, repoints, matches, matched, affected, todo, results, exitCode, seen>>

-----------------------------------------------------------------------------
Some(field) == \E o \in ToSet(output) : o[field] > 0
HasDiffs == Some("changed") \/ \E o \in ToSet(output) : o.displayed

(* A slip: differences are reported before failed composites.              *)
ExitCodeDiffsFirst(renderFails) ==
  IF renderFails THEN 1 ELSE IF HasDiffs THEN 3 ELSE IF Some("errors") THEN 1 ELSE 0

(* The end of DiffComposition, and DetermineExitCode of what it returns:   *)
(* the errors of composites and of the renderer count, those of            *)
(* compositions only if there is no other.                                 *)
CompExitCode(renderFails) ==
  IF \/ renderFails
     \/ Some("errors")
     \/ output # << >> /\ \A o \in ToSet(output) : o.error
  THEN 1 ELSE IF HasDiffs THEN 3 ELSE 0

Render(renderFails) ==
  /\ phase = "find"
  /\ at > Len(input.documents)
  /\ Exit(CompExitCode(renderFails))
  /\ UNCHANGED <<input, uses, repoints, at, matches, matched, affected, todo, results, output, seen>>

Run ==
  \/ NoCompositions
  \/ \E kinds \in {{"XR"}, {"XR", "claim"}} : Preflight(kinds)
  \/ PreflightFails
  \/ EndPreflight
  \/ SkipDocument
  \/ FindByRefs
  \/ \E listed \in SUBSET {"XR", "claim"} : FindByListing(listed)
  \/ CompositionFails
  \/ SkipAnalysis
  \/ Analyze
  \/ \E i \in todo, outcome \in Outcomes : DiffXR(i, outcome)
  \/ EndAnalysis
  \/ \E renderFails \in BOOLEAN : Render(renderFails)

ImpactNext ==
  \/ Run
  \/ \E x \in Composites, n \in Names \cup {None} : Repoint(x, n)

ImpactSpec == ImpactInit /\ [][ImpactNext]_impactVars

-----------------------------------------------------------------------------
ImpactTypeOK ==
  /\ input \in Inputs
  /\ uses \in [Composites -> Names \cup {None}]
  /\ repoints \in 0 .. MaxRepoints
  /\ phase \in {"preflight", "find", "compare", "diff", "exit"}
  /\ at \in 1 .. Len(input.documents) + 1
  /\ phase \in {"compare", "diff"} => Doc.kind = "Composition"
  /\ \A n \in Names : Range(matches[n]) \subseteq Composites
  /\ matched \subseteq ToSet(input.refs)
  /\ Range(affected) \subseteq Composites
  /\ todo \subseteq DOMAIN affected
  /\ DOMAIN results \subseteq Composites
  /\ \A x \in DOMAIN results : results[x] \in Outcomes
  /\ exitCode \in {None, 0, 1, 3}
  /\ seen \subseteq Outcomes

(* Every affected composite of an analysed composition is in one of the    *)
(* summary's counts, once; those that would adopt the new revision are the *)
(* ones that were diffed; and with --resource each has its own entry.      *)
Accounted ==
  \A o \in ToSet(output) : ~o.error /\ ~o.skipped =>
    /\ o.total = o.changed + o.unchanged + o.errors + o.byPolicy + o.bySelector + o.byDeletion
    /\ o.repointed \in {0, o.changed + o.unchanged + o.errors}
    /\ input.refs # << >> => o.impacts = o.total

(* No two compositions of the input have one name: the later one's lookup  *)
(* would replace the earlier one's.                                        *)
NamedOnce ==
  \A i, j \in DOMAIN input.documents :
    LET d == input.documents[i]
        e == input.documents[j]
    IN d.kind = "Composition" /\ e.kind = "Composition" /\ d.name = e.name => i = j

(* Nothing is compared or diffed before every --resource ref is known to   *)
(* be relevant to one of the compositions ("fails before rendering any     *)
(* diffs"), although composites change their composition meanwhile; then   *)
(* each is among some composition's affected composites.                   *)
RefsResolved ==
  input.refs # << >> /\ NamedOnce /\ (phase \in {"compare", "diff"} \/ output # << >>) =>
    \A ref \in ToSet(input.refs) :
      \E d \in ToSet(input.documents) :
        d.kind = "Composition" /\ \E x \in Range(matches[d.name]) : x.name = ref

(* The numbers the revisions of composition n may have: no two the same.   *)
Numberings(n) ==
  {before \in [{n} \X Contents -> 0 .. MaxNumber] :
     \A s, t \in {n} \X Contents : before[s] = before[t] => s = t \/ before[s] = 0}

(* Crossplane's own choice, once the composition is applied and its        *)
(* revision has the highest number, whatever (numbered) revisions there    *)
(* were.                                                                   *)
Adopts(x, d) ==
  LET r == <<d.name, d.content>>
  IN \A before \in Numberings(d.name) :
       LET numbers == Revised(r, [s \in Revisions |-> IF s[1] = d.name THEN before[s] ELSE 0])
           matching == MatchingRevisions(d.name, numbers, RevisionSelector(x))
       IN matching # {} /\ Highest(matching, numbers) = r

(* The composites that are diffed are those that will adopt the revision   *)
(* the composition would produce (and pinned ones, if asked to).           *)
PartitionIsRight ==
  phase = "diff" => \A i \in DOMAIN affected :
    LET x == affected[i]
    IN FilterReason(x, Doc) = "kept" <=>
         ~x.deleting /\ (IF x.policy = "Manual" THEN IncludeManual ELSE Adopts(x, Doc))

(* By default the analysis is skipped only when no composite would adopt   *)
(* anything: what the masks hide is analysed all the same.                 *)
SkippedOnlyIfInert ==
  AnalyzeOn = "any-change" =>
    \A o \in ToSet(output) : o.skipped => o.repointed = 0

(* No ref was given twice: the second diff of a composite would replace    *)
(* the first.                                                              *)
RefsDistinct ==
  \A i, j \in DOMAIN input.refs : input.refs[i] = input.refs[j] => i = j

Edited(d) == d.kind = "Composition" /\ d.scope # "none" /\ ~d.masked

(* What became of every composite and composition of the run reaches its   *)
(* exit code, through the results, the counts and the report: one diff     *)
(* that failed makes it 1, whatever the others came to; it is 3 only if    *)
(* some diff changed or a composition's own difference is shown, and 0     *)
(* only if no diff changed. An edited composition that goes without a word *)
(* in the exit code is one that failed and is in the report as failed; it  *)
(* takes another that did not fail for the exit code not to say so.        *)
OutcomesReachExit ==
  phase = "exit" /\ RefsDistinct =>
    /\ "error" \in seen => exitCode = 1
    /\ "changed" \in seen => exitCode # 0
    /\ exitCode = 3 => "changed" \in seen \/ \E d \in ToSet(input.documents) : Edited(d)
    /\ exitCode = 0 => \A d \in ToSet(input.documents) :
         Edited(d) => \E o \in ToSet(output) : o.name = d.name /\ o.error
    /\ exitCode # 1 /\ (\E d \in ToSet(input.documents) : d.kind = "Composition") =>
         \E o \in ToSet(output) : ~o.error
=============================================================================
