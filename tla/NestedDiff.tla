------------------------------ MODULE NestedDiff ------------------------------
(***************************************************************************)
(* PerformDiff of diffprocessor/diff_processor.go: every input XR is       *)
(* rendered and diffed together with the XRs it composes, recursively;     *)
(* only when the whole tree has been rendered are the resources that it    *)
(* no longer contains looked for (the two-phase diff of                    *)
(* diff_calculator.go). The run ends with an exit code.                    *)
(*                                                                         *)
(* The recursion of diffSingleResourceInternal and ProcessNestedXRs is an  *)
(* explicit stack, one frame per XR being processed.                       *)
(***************************************************************************)
EXTENDS Integers, Sequences, FiniteSets, SequencesExt

CONSTANTS
  Keys,           \* dt.MakeDiffKey of every resource
  XRs,            \* the ones an XRD defines
  MaxNestedDepth, \* --max-nested-depth
  Worlds          \* the clusters and pipelines considered

(* A world: the input XRs in order, what each XR's pipeline composes, the  *)
(* composition found for it, which resources the cluster has, the tree     *)
(* GetResourceTree returns and the nodes of it that carry no               *)
(* composition-resource-name, and which existing resources a dry-run apply *)
(* would change.                                                           *)
World == [roots : Seq(XRs), renders : [XRs -> SUBSET Keys], composition : [XRs -> BOOLEAN],
          inCluster : SUBSET Keys, children : [Keys -> SUBSET Keys],
          unannotated : SUBSET Keys, changed : SUBSET Keys]

ASSUME NestedDiffAssumption ==
  /\ XRs \subseteq Keys
  /\ MaxNestedDepth \in Int
  /\ Worlds \subseteq World
  /\ \A w \in Worlds : w.roots # <<>>

VARIABLES
  world,
  stack,     \* the XRs being processed, the root first
  groups,    \* one outcome per processed input: diffs, and the error if any
  phase,     \* "root", "enter", "nested", "failed" or "exit"
  error,     \* kind of the error of the XR on top of the stack
  exitCode

vars == <<world, stack, groups, phase, error, exitCode>>

ErrorKinds == {"none", "composition", "tool", "schema"}
DiffTypes == {"added", "modified", "equal", "removed"}
NoDiffs == [k \in {} |-> "equal"]
IsDiffs(d) == d \in [DOMAIN d -> DiffTypes] /\ DOMAIN d \subseteq Keys

-----------------------------------------------------------------------------
Roots == world.roots
Top == stack[Len(stack)]
Copy(f, g) == [k \in DOMAIN f \cup DOMAIN g |-> IF k \in DOMAIN g THEN g[k] ELSE f[k]]

(* CalculateDiff: no current object, a changed one, or neither.            *)
DiffType(k) ==
  IF k \notin world.inCluster THEN "added"
  ELSE IF k \in world.changed THEN "modified" ELSE "equal"

(* CalculateNonRemovalDiffs: the XR always, composed resources if they     *)
(* differ; what was rendered is remembered even when it does not.          *)
NonRemovalDiffs(x) ==
  [k \in {x} \cup {c \in world.renders[x] : DiffType(c) # "equal"} |-> DiffType(k)]

RenderedKeys(x) == world.renders[x]

(* The nodes of the cluster's tree below the root: the smallest set with   *)
(* the root's children and the children of its own members.                *)
TreeBelow(x) ==
  {k \in Keys : \A S \in SUBSET Keys :
     world.children[x] \subseteq S /\ (\A z \in S : world.children[z] \subseteq S) => k \in S}

(* CalculateRemovedResourceDiffs: annotated nodes that were not rendered.  *)
RemovedDiffs(x, rendered) ==
  [k \in (TreeBelow(x) \ world.unannotated) \ rendered |-> "removed"]

(* A slip in DetermineExitCode: differences are reported before errors.    *)
ExitCodeDiffsFirst(errs, hasDiffs) ==
  IF hasDiffs THEN 3 ELSE IF errs = {} THEN 0 ELSE IF errs = {"schema"} THEN 2 ELSE 1

DetermineExitCode(errs, hasDiffs) ==
  IF errs = {"schema"} THEN 2
  ELSE IF errs # {} THEN 1
  ELSE IF hasDiffs THEN 3 ELSE 0

GroupErrors == {groups[i].err : i \in DOMAIN groups} \ {"none"}
HasDiffs ==
  \E i \in DOMAIN groups : \E k \in DOMAIN groups[i].diffs : groups[i].diffs[k] # "equal"

-----------------------------------------------------------------------------
NewFrame(x) == [xr |-> x, diffs |-> NoDiffs, rendered |-> {}, nested |-> {}]

Init ==
  /\ world \in Worlds
  /\ stack = <<>>
  /\ groups = <<>>
  /\ phase = "root"
  /\ error = "none"
  /\ exitCode = -1

(* A slip in PerformDiff: it returns at the first input that fails.        *)
BeginUnlessFailed ==
  /\ phase = "root"
  /\ Len(groups) < Len(Roots)
  /\ GroupErrors = {}
  /\ stack' = <<NewFrame(Roots[Len(groups) + 1])>>
  /\ phase' = "enter"
  /\ UNCHANGED <<world, groups, error, exitCode>>

(* DiffSingleResource is called on the next input.                         *)
BeginRoot ==
  /\ phase = "root"
  /\ Len(groups) < Len(Roots)
  /\ stack' = <<NewFrame(Roots[Len(groups) + 1])>>
  /\ phase' = "enter"
  /\ UNCHANGED <<world, groups, error, exitCode>>

(* diffSingleResourceInternal up to the call of ProcessNestedXRs, which is *)
(* always given the depth 1.                                               *)
Enter ==
  /\ phase = "enter"
  /\ world.composition[Top.xr]
  /\ 1 <= MaxNestedDepth
  /\ stack' = [stack EXCEPT ![Len(stack)] =
       [xr |-> Top.xr, diffs |-> NonRemovalDiffs(Top.xr),
        rendered |-> RenderedKeys(Top.xr), nested |-> world.renders[Top.xr] \cap XRs]]
  /\ phase' = "nested"
  /\ UNCHANGED <<world, groups, error, exitCode>>

(* Any of its steps may fail: no composition found, the validation, or     *)
(* anything else (functions, render, cluster, depth).                      *)
EnterFails(kind) ==
  /\ phase = "enter"
  /\ kind = "composition" <=> ~world.composition[Top.xr]
  /\ phase' = "failed"
  /\ error' = kind
  /\ UNCHANGED <<world, stack, groups, exitCode>>

(* ProcessNestedXRs goes on to one of the composed XRs.                    *)
Descend(y) ==
  /\ phase = "nested"
  /\ y \in Top.nested
  /\ stack' = Append([stack EXCEPT ![Len(stack)].nested = @ \ {y}], NewFrame(y))
  /\ phase' = "enter"
  /\ UNCHANGED <<world, groups, error, exitCode>>

(* A slip in ProcessNestedXRs: the rendered keys of a nested XR are lost.  *)
MergedWithoutRendered(parent, child) ==
  [parent EXCEPT !.diffs = Copy(@, child.diffs)]

(* The two maps.Copy of the caller: diffs and rendered keys.               *)
Merged(parent, child) ==
  [parent EXCEPT !.diffs = Copy(@, child.diffs), !.rendered = @ \cup child.rendered]

(* A nested XR is complete; removals are not looked for yet.               *)
ReturnNested ==
  /\ phase = "nested"
  /\ Top.nested = {}
  /\ Len(stack) > 1
  /\ stack' = Append(SubSeq(stack, 1, Len(stack) - 2), Merged(stack[Len(stack) - 1], Top))
  /\ UNCHANGED <<world, groups, phase, error, exitCode>>

(* A nested XR without a composition is skipped, with a warning.           *)
SkipNested ==
  /\ phase = "failed"
  /\ error = "composition"
  /\ Len(stack) > 1
  /\ stack' = Front(stack)
  /\ phase' = "nested"
  /\ error' = "none"
  /\ UNCHANGED <<world, groups, exitCode>>

(* A failed input has no diffs at all, and the error of any XR below it.   *)
FailedGroup == [xr |-> stack[1].xr, err |-> error, diffs |-> NoDiffs]

(* Any other error goes up to PerformDiff.                                 *)
FailRoot ==
  /\ phase = "failed"
  /\ ~(error = "composition" /\ Len(stack) > 1)
  /\ groups' = Append(groups, FailedGroup)
  /\ stack' = <<>>
  /\ phase' = "root"
  /\ error' = "none"
  /\ UNCHANGED <<world, exitCode>>

(* The whole tree is rendered. An XR that exists may have lost resources;  *)
(* PerformDiff appends its group.                                          *)
FinishRoot ==
  /\ phase = "nested"
  /\ Top.nested = {}
  /\ Len(stack) = 1
  /\ LET removed == IF Top.xr \in world.inCluster
                    THEN RemovedDiffs(Top.xr, Top.rendered) ELSE NoDiffs
     IN groups' = Append(groups, [xr |-> Top.xr, err |-> "none",
                                  diffs |-> Copy(Top.diffs, removed)])
  /\ stack' = <<>>
  /\ phase' = "root"
  /\ UNCHANGED <<world, error, exitCode>>

(* GetResourceTree failed: "cannot detect removed resources".              *)
RemovalFails ==
  /\ phase = "nested"
  /\ Top.nested = {}
  /\ Len(stack) = 1
  /\ Top.xr \in world.inCluster
  /\ phase' = "failed"
  /\ error' = "tool"
  /\ UNCHANGED <<world, stack, groups, exitCode>>

(* RenderDiffs is always called; its failure is one more error.            *)
Exit(renderFails) ==
  /\ phase = "root"
  /\ Len(groups) = Len(Roots)
  /\ exitCode' = DetermineExitCode(
       GroupErrors \cup (IF renderFails THEN {"tool"} ELSE {}), HasDiffs)
  /\ error' = IF renderFails THEN "tool" ELSE "none"
  /\ phase' = "exit"
  /\ UNCHANGED <<world, stack, groups>>

Next ==
  \/ BeginRoot
  \/ Enter
  \/ \E kind \in ErrorKinds \ {"none"} : EnterFails(kind)
  \/ \E y \in XRs : Descend(y)
  \/ ReturnNested
  \/ SkipNested
  \/ FailRoot
  \/ FinishRoot
  \/ RemovalFails
  \/ \E renderFails \in BOOLEAN : Exit(renderFails)

Spec == Init /\ [][Next]_vars

(* A sequential program whose calls return.                                *)
FairSpec == Spec /\ WF_vars(Next)

-----------------------------------------------------------------------------
TypeOK ==
  /\ world \in World
  /\ \A i \in DOMAIN stack : /\ stack[i].xr \in XRs
                            /\ IsDiffs(stack[i].diffs)
                            /\ stack[i].rendered \subseteq Keys
                            /\ stack[i].nested \subseteq XRs
  /\ Len(groups) <= Len(Roots)
  /\ \A i \in DOMAIN groups : /\ groups[i].xr = Roots[i]
                             /\ groups[i].err \in ErrorKinds
                             /\ IsDiffs(groups[i].diffs)
  /\ phase \in {"root", "enter", "nested", "failed", "exit"}
  /\ error \in ErrorKinds
  /\ exitCode \in -1 .. 3

(* The reference: an XR's tree is the smallest set with the XR in it and   *)
(* with what the XRs of the set render, where they have a composition.     *)
Closed(S) == \A z \in S \cap XRs : world.composition[z] => world.renders[z] \subseteq S
Reached(x) == {k \in Keys : \A S \in SUBSET Keys : x \in S /\ Closed(S) => k \in S}

(* What the XRs of that tree render ...                                    *)
Composed(x) ==
  {k \in Keys : \E z \in Reached(x) \cap XRs : world.composition[z] /\ k \in world.renders[z]}

(* ... and the resources of the cluster's tree that none of them does.     *)
Lost(x) ==
  IF x \in world.inCluster
  THEN (TreeBelow(x) \ world.unannotated) \ Composed(x) ELSE {}

(* A successful input reports exactly the truth about its whole tree: each *)
(* rendered resource at any depth that would change, with its kind of      *)
(* change, each lost one as removed, and nothing else; no resource of a    *)
(* nested XR is mistaken for a removal, and no failed part is left out.    *)
GroupsAreExact ==
  \A g \in Range(groups) : g.err = "none" =>
    LET shown == {k \in DOMAIN g.diffs : g.diffs[k] # "equal"}
    IN /\ shown = {k \in Reached(g.xr) : DiffType(k) # "equal"} \cup Lost(g.xr)
       /\ \A k \in shown :
            g.diffs[k] = IF k \in Lost(g.xr) THEN "removed" ELSE DiffType(k)

(* The exit code as the README orders it: 3 only if every input succeeded  *)
(* and something differs, 2 only if every error is a validation error, 0   *)
(* only if everything succeeded and nothing differs.                       *)
ExitCodeIsWorst ==
  phase = "exit" =>
    /\ exitCode = 3 <=> GroupErrors = {} /\ error = "none" /\ HasDiffs
    /\ exitCode = 2 <=> GroupErrors = {"schema"} /\ error = "none"
    /\ exitCode = 0 <=> GroupErrors = {} /\ error = "none" /\ ~HasDiffs

(* Once all inputs are in, each has its outcome, in input order.           *)
Finishes == <>(phase = "exit" /\ Len(groups) = Len(Roots))

(* "Resources from nested XRs (including unchanged ones) are not flagged   *)
(* as removed": none that hangs below a nested XR that is still composed.  *)
NestedResourcesAreKept ==
  \A i \in DOMAIN groups : \A y \in (Reached(groups[i].xr) \cap XRs) \ {groups[i].xr} :
    \A k \in TreeBelow(y) :
      ~(k \in DOMAIN groups[i].diffs /\ groups[i].diffs[k] = "removed" /\ ~world.composition[y])
=============================================================================
