------------------------------ MODULE XRPipeline ------------------------------
(***************************************************************************)
(* What diffSingleResourceInternal of diffprocessor/diff_processor.go does *)
(* with one input after another before it compares anything: the CRDs are  *)
(* loaded once (Initialize), then every input gets the defaults of its     *)
(* XRD, is resolved to the composite to render (ClaimRendering), rendered, *)
(* and what was rendered is stripped of wrong namespaces, defaulted and    *)
(* validated (SchemaValidation) with the CRDs the run has cached           *)
(* (SchemaClient), while the cluster's CRDs and objects change.            *)
(*                                                                         *)
(* Which resources a composition renders is external; the choice of the    *)
(* composition and its functions, the render loop and the comparison have  *)
(* modules of their own. An error ends the input, not the run.             *)
(***************************************************************************)
EXTENDS SchemaValidation, ClaimRendering

CONSTANTS
  Compositions, \* what compositions render: sequences of [kind, ns, odd]
  MaxInputs     \* bound on the inputs of a run

ASSUME XRPipelineAssumption ==
  /\ "" \notin Namespaces
  /\ \A i \in Inputs : [kind |-> i.kind, ns |-> i.ns, odd |-> i.odd] \in Resource
  /\ Compositions \subseteq Seq(Resource)
  /\ MaxInputs \in Nat

VARIABLE begun  \* how many inputs were begun

vars == <<clientVars, checkVars, renderingVars, begun>>

-----------------------------------------------------------------------------
Init ==
  /\ ClientInit
  /\ CheckInit
  /\ RenderingInit
  /\ begun = 0

(* initializeSchemaValidator, LoadCRDs. The history counts these look-ups. *)
Load ==
  /\ \/ \E k \in XRKinds, ok \in BOOLEAN : LoadCRD(k, ok)
     \/ FinishLoading
     \/ LoadingFails
  /\ UNCHANGED <<checkVars, renderingVars, begun>>

(* PerformDiff's loop.                                                     *)
Begin(i) ==
  /\ loading = "loaded"
  /\ begun < MaxInputs
  /\ begun' = begun + 1
  /\ BeginInput(i)
  /\ UNCHANGED <<clientVars, checkVars>>

(* The composition, its functions and applyXRDDefaults, any of which may   *)
(* fail. A kind no XRD defines has none.                                   *)
ApplyXRDDefaults(ok) ==
  /\ stage = "default"
  /\ LET k == DefinedKind(input.kind)
         known == IsDefined(input.kind) /\ KnownByXRDName(input.kind)
     IN /\ stage' = IF ok /\ known THEN "existing" ELSE "failed"
        /\ used' = IF known THEN [used EXCEPT ![k] = @ \cup {CRDFor(k)}] ELSE used
  /\ UNCHANGED <<clientVars, resources, check, at, toEnsure, missing, defaulted, unfound,
                 unusable, input, clusterVars, existing, existingBacking, rendering,
                 observed, unread, begun>>

FetchStep ==
  /\ \/ \E ok \in BOOLEAN : FetchExisting(ok)
     \/ \E converts \in BOOLEAN : Resolve(converts)
     \/ \E ok \in BOOLEAN : FetchBacking(ok)
     \/ \E ok \in BOOLEAN, children \in SUBSET Controllers : FetchTree(ok, children)
     \/ \E ok \in BOOLEAN, children \in SUBSET Controllers : Observe(ok, children)
  /\ UNCHANGED <<clientVars, checkVars, begun>>

(* mergeUnstructured: the input over the rendered XR, which has lost its   *)
(* namespace and gets it back.                                             *)
MergeUnstructured(dest, src) ==
  [src EXCEPT !.ns = IF src.ns = "" THEN dest.ns ELSE src.ns]

(* The top-level resource of the diff, prepareXRForDiff: the claim itself  *)
(* when an XR was rendered in its place.                                   *)
Subject ==
  LET xr == [kind |-> input.kind, ns |-> input.ns, odd |-> input.odd]
  IN IF rendering.from = "input" THEN MergeUnstructured([xr EXCEPT !.ns = ""], xr) ELSE xr

(* The renderer puts a namespaced composite's namespace on all it          *)
(* composes, whatever their scope.                                         *)
Composed(composition) ==
  [j \in DOMAIN composition |->
     IF rendering.ns = "" THEN composition[j] ELSE [composition[j] EXCEPT !.ns = rendering.ns]]

(* RenderToStableState, prepareXRForDiff and the begin of the namespace    *)
(* clean-up, which leaves the composite alone.                             *)
Render(composition) ==
  /\ stage = "render"
  /\ resources' = <<Subject>> \o Composed(composition)
  /\ check' = "strip"
  /\ at' = 2
  /\ stage' = "check"
  /\ Forget
  /\ UNCHANGED <<clientVars, toEnsure, missing, defaulted, used, unfound, unusable, input, begun>>

RenderFails ==
  /\ stage = "render"
  /\ stage' = "failed"
  /\ UNCHANGED <<clientVars, checkVars, input, clusterVars, existing, existingBacking,
                 rendering, observed, unread, begun>>

Check == CheckStep /\ UNCHANGED <<renderingVars, begun>>

(* The input is through, with an error or on to the comparison. All that   *)
(* is left of it is in the caches.                                         *)
EndInput ==
  /\ stage = "failed" \/ check \in Outcomes
  /\ stage' = "idle"
  /\ Forget
  /\ resources' = << >>
  /\ check' = "no"
  /\ at' = 1
  /\ toEnsure' = {}
  /\ missing' = {}
  /\ defaulted' = {}
  /\ unfound' = {}
  /\ unusable' = FALSE
  /\ UNCHANGED <<clientVars, used, input, begun>>

ClusterChanges ==
  \/ /\ \E k \in Kinds, crd \in CRDContent \cup {Absent} : CRDChanges(k, crd)
     /\ UNCHANGED <<checkVars, renderingVars, begun>>
  \/ ObjectChanges /\ UNCHANGED <<clientVars, checkVars, begun>>

(* The run is over: Initialize failed, or the inputs are through.          *)
Over ==
  /\ \/ loading = "aborted"
     \/ loading = "loaded" /\ stage = "idle" /\ begun = MaxInputs
  /\ UNCHANGED vars

Next ==
  \/ Load
  \/ \E i \in Inputs : Begin(i)
  \/ \E ok \in BOOLEAN : ApplyXRDDefaults(ok)
  \/ FetchStep
  \/ \E composition \in Compositions : Render(composition)
  \/ RenderFails
  \/ Check
  \/ EndInput
  \/ ClusterChanges
  \/ Over

Spec == Init /\ [][Next]_vars

-----------------------------------------------------------------------------
(* All look-ups of a kind in a run are answered with one CRD, although     *)
(* every step asks again and the CRD may be upgraded, removed or           *)
(* reinstalled meanwhile: the scope a namespace was stripped for, the      *)
(* defaults, the schema and the scope that is validated go together.       *)
OneSchema == \A k \in Kinds : Cardinality(used[k]) <= 1

(* What passed validation fits the CRDs the run used: every resource has   *)
(* one, whose schema it satisfies and whose defaults it got unless a       *)
(* look-up failed; what is namespaced is in a namespace, in the input's if *)
(* that has one; and only a claim reaches out of its namespace to          *)
(* cluster-scoped resources. A kind that counts as one without a CRD gets  *)
(* no defaults, and passes only if its CRD was looked up and cached before *)
(* its schema was validated.                                               *)
ValidatedIsLegal ==
  check = "ok" =>
    \A i \in DOMAIN resources :
      LET r == resources[i]
          crd == crdByName[r.kind]
      IN /\ r.kind \in DOMAIN crdByName
         /\ ~(r.odd /\ crd.strict)
         /\ i \in defaulted \/ r.kind \in unfound \/ ~CRDRequired(r.kind)
         /\ crd.scope = "Namespaced" =>
              r.ns \in (IF input.ns = "" THEN Namespaces ELSE {input.ns})
         /\ crd.scope = "Cluster" =>
              r.ns = "" /\ (input.ns # "" => input.kind \in ClaimKinds)

(* An input fails validation for a reason. A validation error (exit code   *)
(* 2) names a resource that does not fit its CRD, or one of a kind that    *)
(* counts as needing none and has none cached, or a CRD that cannot be     *)
(* compiled; any other error (exit code 1) a kind that the cluster had no  *)
(* CRD for when it was looked up, or a default that does not apply. A      *)
(* failed call to the cluster may give either.                             *)
OutcomeExplained ==
  /\ check = "tool" => unfound # {} \/ unusable
  /\ check = "schema" =>
       \/ unfound # {} \/ unusable
       \/ \E i \in DOMAIN resources :
            LET r == resources[i]
                crd == crdByName[r.kind]
            IN \/ ~CRDRequired(r.kind) /\ r.kind \notin DOMAIN crdByName
               \/ r.odd /\ crd.strict
               \/ crd.scope = "Namespaced" /\ (r.ns = "" \/ input.ns \notin {"", r.ns})
               \/ crd.scope = "Cluster" /\ (r.ns # "" \/ (input.ns # "" /\ ~Claim))
=============================================================================
