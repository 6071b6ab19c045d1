---------------------------- MODULE RenderSession ----------------------------
(***************************************************************************)
(* RenderToStableState together with the RequirementsProvider it asks:     *)
(* the calls of one run, one XR after the other, share the provider's      *)
(* cache, and the cluster may change between any two reads. The session    *)
(* implements RenderLoop, where what a selector resolves to is arbitrary.  *)
(***************************************************************************)
EXTENDS RequirementsProvider

CONSTANTS Composed, MaxRenderIterations

VARIABLES
  pc, iteration, synthesizeReady, observedResources, observed, input, output,
  newReqs, failure,     \* as in RenderLoop
  required              \* requiredResources, the keys with their contents

loopVars == <<pc, iteration, synthesizeReady, observedResources, observed, input,
              output, newReqs, failure>>

sessionVars == <<loopVars, required, providerVars>>

Loop == INSTANCE RenderLoop WITH
          Resources <- Key,
          requiredResources <- DOMAIN required,
          additionalResources <- IF pc = "resolve" THEN {} ELSE DOMAIN resolved

-----------------------------------------------------------------------------
SessionInit ==
  /\ ProviderInit
  /\ required = Empty
  /\ Loop!Init

(* Initialize, before anything is rendered.                                *)
Initialize == Prefetch /\ UNCHANGED <<loopVars, required>>

(* A render that returns selectors goes on to ResolveSelectors with the    *)
(* namespace of the XR; one that returns none skips it.                    *)
RenderOnce(list, composed, err) ==
  /\ call # "new"
  /\ IF list # <<>>
     THEN BeginResolve(list, xrNamespace)
     ELSE /\ selectors' = <<>>
          /\ next' = 1
          /\ resolved' = Empty
          /\ UNCHANGED <<cluster, updates, cache, call, xrNamespace, fetched, steady>>
  /\ UNCHANGED required
  /\ Loop!Render([composed |-> composed, selectors |-> list # <<>>, err |-> err])

ResolveOne == ProcessSelector /\ UNCHANGED <<loopVars, required>>

(* Slips in the loop over additionalResources: a key already supplied gets *)
(* its newer contents; only the last resolution is supplied.               *)
NewestSupplied == Over(resolved, required)
LastSupplied == resolved

(* addUniqueResource on each resolved resource: a key already supplied     *)
(* keeps the contents it had.                                              *)
Supplied == Over(required, resolved)

(* A slip there: newReqCount counts every resolved resource.               *)
EveryRequirement == DOMAIN resolved

(* newReqCount: the keys that were not in the map yet.                     *)
NewRequirements == DOMAIN resolved \ DOMAIN required

ResolveAll ==
  /\ pc = "resolve"
  /\ IF output.selectors THEN FinishResolve ELSE UNCHANGED providerVars
  /\ pc' = "check"
  /\ newReqs' = NewRequirements
  /\ required' = Supplied
  /\ UNCHANGED <<iteration, synthesizeReady, observedResources, observed, input,
                 output, failure>>

ResolveError == SelectorFails /\ UNCHANGED required /\ Loop!ResolveFails

(* What the loop does with the outcome, see RenderLoop.                    *)
EndIteration ==
  /\ UNCHANGED <<providerVars, required>>
  /\ \/ Loop!RenderFails
     \/ Loop!RetryAfterError
     \/ Loop!ReachStable
     \/ Loop!Continue
     \/ Loop!SynthesisFails
     \/ Loop!Exhaust

(* The next XR of the run, in its own namespace; the cache stays.          *)
NextXR(ns) ==
  /\ xrNamespace' = ns
  /\ required' = Empty
  /\ resolved' = Empty
  /\ UNCHANGED <<cluster, updates, cache, call, selectors, next, fetched, steady>>
  /\ Loop!NewCall

SessionStep ==
  \/ Initialize
  \/ \E list \in SelectorLists \cup {<<>>}, composed \in SUBSET Composed, err \in BOOLEAN :
       RenderOnce(list, composed, err)
  \/ ResolveOne
  \/ ResolveAll
  \/ ResolveError
  \/ EndIteration

SessionNext ==
  \/ SessionStep
  \/ \E ns \in XRNamespaces : NextXR(ns)
  \/ ClusterStep /\ UNCHANGED <<loopVars, required>>

SessionSpec == SessionInit /\ [][SessionNext]_sessionVars

(* One goroutine runs the loop, and every call it makes returns: the       *)
(* command's context carries --timeout.                                    *)
SessionFairSpec == SessionSpec /\ WF_sessionVars(SessionStep)

-----------------------------------------------------------------------------
SessionTypeOK ==
  /\ ProviderTypeOK
  /\ Loop!TypeOK
  /\ required \in Contents

(* The loop over a live cluster is RenderLoop: dedup by key, the cache and *)
(* changes of the cluster in the middle of a call included.                *)
ImplementsRenderLoop == Loop!Spec

(* Every render of one call sees the same contents of a required resource, *)
(* although the cluster changes, lists are refetched and the cache is      *)
(* overwritten: what was supplied once stays as it was supplied.           *)
SuppliedStays ==
  [][pc # "stable" /\ pc # "failed" =>
       \A k \in DOMAIN required : k \in DOMAIN required' /\ required'[k] = required[k]]_sessionVars

(* A cluster that changes under the loop cannot keep it from ending: with  *)
(* a budget above the number of keys, every call settles.                  *)
SessionSettles == Loop!Settles
=============================================================================
