------------------------------ MODULE RenderLoop ------------------------------
(***************************************************************************)
(* RenderToStableState of diffprocessor/diff_processor.go: render the      *)
(* composition pipeline of one XR again and again, feeding it the cluster  *)
(* resources it asks for and, with --eventual-state, a synthesized Ready   *)
(* condition for what it composed, until nothing new comes back. Calls     *)
(* follow one another, one per XR and nested XR of the run.                *)
(*                                                                         *)
(* The pipeline (RenderFunc) and the resolution of selectors against the   *)
(* cluster are unconstrained here: any output, any resolved resources, any *)
(* error. RenderSession refines the resolution.                            *)
(***************************************************************************)
EXTENDS Integers, FiniteSets

CONSTANTS
  Resources,            \* keys of the cluster resources selectors can resolve to
  Composed,             \* composedResourceKey values: composition-resource-name and GVK
  MaxRenderIterations   \* --max-iterations

ASSUME RenderLoopAssumption ==
  /\ IsFiniteSet(Resources)
  /\ IsFiniteSet(Composed)
  /\ MaxRenderIterations \in Int

VARIABLES
  pc,                   \* "render", "resolve", "check", "stable" or "failed"
  iteration,            \* the loop counter
  synthesizeReady,      \* --eventual-state, fixed for the call
  observedResources,    \* the parameter: what the XR controls in the cluster
  requiredResources,    \* the deduplicated map of resources to supply, its keys
  observed,             \* the observed resources of the next render
  input,                \* RenderInputs of the last render, its varying part
  output,               \* what RenderFunc last returned
  additionalResources,  \* what the selectors of output resolved to
  newReqs,              \* the ones addUniqueResource found new (newReqCount)
  failure               \* which error ended the call, or "none"

vars == <<pc, iteration, synthesizeReady, observedResources, requiredResources,
          observed, input, output, additionalResources, newReqs, failure>>

-----------------------------------------------------------------------------
(* Observed resources: the composed keys present, and those of them whose  *)
(* Ready condition is True.                                                *)
Observed == {o \in [present : SUBSET Composed, ready : SUBSET Composed] :
               o.ready \subseteq o.present}

(* CompositionOutputs: the keys composed, whether RequiredResources is     *)
(* non-empty, and whether RenderFunc also returned an error (a fatal       *)
(* pipeline step still populates the output).                              *)
Outputs == [composed : SUBSET Composed, selectors : BOOLEAN, err : BOOLEAN]

Inputs == [required : SUBSET Resources, observed : Observed]

NoOutput == [composed |-> {}, selectors |-> FALSE, err |-> FALSE]

(* A slip in addUniqueResource: every resolved resource counts as new.     *)
UnseenWithoutDedup(found) == found

(* addUniqueResource: only a key that is not in the map yet counts as new. *)
Unseen(found) == found \ requiredResources

(* findNewComposedResources                                                *)
NewComposed == output.composed \ observed.present

(* A slip in mergeObservedResources: what was observed before is lost.     *)
ReadyReplaces(o, composed) == [present |-> composed, ready |-> composed]

(* synthesizeReadyStatus followed by mergeObservedResources: everything    *)
(* just composed is observed, and observed Ready, next time.               *)
WithReady(o, composed) == [present |-> o.present \cup composed,
                           ready   |-> o.ready \cup composed]

(* Slips in the stability checks: --eventual-state forgets newReqCount;    *)
(* it looks at what was resolved and not at what was new.                  *)
StableOnComposedOnly == IF synthesizeReady THEN NewComposed = {} ELSE newReqs = {}
StableOnResolved ==
  IF synthesizeReady THEN NewComposed = {} /\ additionalResources = {} ELSE newReqs = {}

(* checkRequirementsResolved, checkStabilityWithReadySynthesis             *)
IsStable ==
  IF synthesizeReady THEN NewComposed = {} /\ newReqs = {} ELSE newReqs = {}

Fail(reason) ==
  /\ pc' = "failed"
  /\ failure' = reason
  /\ UNCHANGED <<iteration, synthesizeReady, observedResources, requiredResources,
                 observed, input, output, additionalResources, newReqs>>

NextIteration ==
  /\ pc' = "render"
  /\ iteration' = iteration + 1

-----------------------------------------------------------------------------
Init ==
  /\ pc = "render"
  /\ iteration = 1
  /\ synthesizeReady \in BOOLEAN
  /\ observedResources \in Observed
  /\ requiredResources = {}
  /\ observed = observedResources
  /\ input = [required |-> {}, observed |-> observedResources]
  /\ output = NoOutput
  /\ additionalResources = {}
  /\ newReqs = {}
  /\ failure = "none"

(* RenderFunc runs the pipeline on what has been gathered so far.          *)
Render(out) ==
  /\ pc = "render"
  /\ iteration <= MaxRenderIterations
  /\ pc' = "resolve"
  /\ input' = [required |-> requiredResources, observed |-> observed]
  /\ output' = out
  /\ additionalResources' = {}
  /\ newReqs' = {}
  /\ UNCHANGED <<iteration, synthesizeReady, observedResources, requiredResources,
                 observed, failure>>

(* ResolveSelectors succeeded: merge what it found, even after an error.   *)
Resolve(found) ==
  /\ pc = "resolve"
  /\ output.selectors \/ found = {}
  /\ pc' = "check"
  /\ additionalResources' = found
  /\ newReqs' = Unseen(found)
  /\ requiredResources' = requiredResources \cup found
  /\ UNCHANGED <<iteration, synthesizeReady, observedResources, observed, input,
                 output, failure>>

(* ResolveSelectors failed: "failed to process requirements".              *)
ResolveFails ==
  /\ pc = "resolve"
  /\ output.selectors
  /\ Fail("requirements")

(* A render error that brought no new requirement: nothing left to try.    *)
RenderFails ==
  /\ pc = "check"
  /\ output.err
  /\ newReqs = {}
  /\ Fail("render")

(* A render error that did: try again with them (continue).                *)
RetryAfterError ==
  /\ pc = "check"
  /\ output.err
  /\ newReqs # {}
  /\ NextIteration
  /\ UNCHANGED <<synthesizeReady, observedResources, requiredResources, observed,
                 input, output, additionalResources, newReqs, failure>>

ReachStable ==
  /\ pc = "check"
  /\ ~output.err
  /\ IsStable
  /\ pc' = "stable"
  /\ UNCHANGED <<iteration, synthesizeReady, observedResources, requiredResources,
                 observed, input, output, additionalResources, newReqs, failure>>

Continue ==
  /\ pc = "check"
  /\ ~output.err
  /\ ~IsStable
  /\ NextIteration
  /\ observed' = IF synthesizeReady THEN WithReady(observed, output.composed) ELSE observed
  /\ UNCHANGED <<synthesizeReady, observedResources, requiredResources, input,
                 output, additionalResources, newReqs, failure>>

(* setReadyCondition could not write status.conditions.                    *)
SynthesisFails ==
  /\ pc = "check"
  /\ ~output.err
  /\ ~IsStable
  /\ synthesizeReady
  /\ output.composed # {}
  /\ Fail("synthesis")

(* The loop ran out: "did not stabilize after %d iterations".              *)
Exhaust ==
  /\ pc = "render"
  /\ iteration > MaxRenderIterations
  /\ Fail("exhausted")

(* The processor goes on to another XR; --eventual-state does not change.   *)
NewCall ==
  /\ pc \in {"stable", "failed"}
  /\ pc' = "render"
  /\ iteration' = 1
  /\ observedResources' \in Observed
  /\ requiredResources' = {}
  /\ observed' = observedResources'
  /\ input' = [required |-> {}, observed |-> observedResources']
  /\ output' = NoOutput
  /\ additionalResources' = {}
  /\ newReqs' = {}
  /\ failure' = "none"
  /\ UNCHANGED synthesizeReady

LoopStep ==
  \/ \E out \in Outputs : Render(out)
  \/ \E found \in SUBSET Resources : Resolve(found)
  \/ ResolveFails
  \/ RenderFails
  \/ RetryAfterError
  \/ ReachStable
  \/ Continue
  \/ SynthesisFails
  \/ Exhaust

Next == LoopStep \/ NewCall

Spec == Init /\ [][Next]_vars

-----------------------------------------------------------------------------
TypeOK ==
  /\ pc \in {"render", "resolve", "check", "stable", "failed"}
  /\ iteration \in Nat \ {0}
  /\ synthesizeReady \in BOOLEAN
  /\ observedResources \in Observed
  /\ requiredResources \in SUBSET Resources
  /\ observed \in Observed
  /\ input \in Inputs
  /\ output \in Outputs
  /\ additionalResources \in SUBSET Resources
  /\ newReqs \in SUBSET Resources
  /\ failure \in {"none", "requirements", "render", "synthesis", "exhausted"}

(* What the call has discovered: requirements, and composed resources that *)
(* the cluster did not have.                                               *)
Discovered ==
  Cardinality(requiredResources) + Cardinality(observed.present \ observedResources.present)

(* "did not stabilize" is only reported when every one of the              *)
(* MaxRenderIterations renders discovered something: no render of          *)
(* RenderToStableState is spent on an input that was already tried.        *)
ExhaustionIsEarned == failure = "exhausted" => Discovered >= MaxRenderIterations

(* What RenderToStableState returns comes from a render that succeeded and *)
(* was supplied with every resource its own selectors resolve to. With     *)
(* --eventual-state it also observed every resource it composes, and all   *)
(* of them Ready but those that were in the cluster, not Ready, before.    *)
StableIsClosed ==
  pc = "stable" =>
    /\ ~output.err
    /\ additionalResources \subseteq input.required
    /\ synthesizeReady =>
         /\ output.composed \subseteq input.observed.present
         /\ output.composed \subseteq
              input.observed.ready \cup (observedResources.present \ observedResources.ready)

(* Two renders of one call never get the same input: from one to the next  *)
(* the required and the observed resources, and the Ready ones, only grow, *)
(* and something was added ("no point retrying" in the code's words).      *)
NoIdenticalRetry ==
  [][pc = "render" /\ pc' = "resolve" /\ iteration > 1 =>
       /\ input.required \subseteq input'.required
       /\ input.observed.present \subseteq input'.observed.present
       /\ input.observed.ready \subseteq input'.observed.ready
       /\ \/ input.required # input'.required
          \/ input.observed.present # input'.observed.present]_vars

(* With an iteration budget larger than what there is to discover, every   *)
(* call ends, either with a result or with an error of a call it made:     *)
(* never with "did not stabilize", and it never spins.                     *)
Settles ==
  pc = "render" ~> pc = "stable" \/ failure \in {"requirements", "render", "synthesis"}
=============================================================================
