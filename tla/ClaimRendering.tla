---------------------------- MODULE ClaimRendering ----------------------------
(***************************************************************************)
(* Which composite an input is rendered as, and with which observed        *)
(* resources: the reads diffSingleResourceInternal makes of the cluster    *)
(* between the defaults and the rendering, resolveBackingXRForClaim with   *)
(* the merge of the claim's spec, and the dummy XR of a claim that has     *)
(* none (diffprocessor/diff_processor.go).                                 *)
(*                                                                         *)
(* The input is a claim or an XR. The cluster may have an object of its    *)
(* name, and the backing XR that object's spec.resourceRef names; both may *)
(* be replaced, changed or deleted between two reads, and reads may fail.  *)
(*                                                                         *)
(* A spec maps the fields it has to where their value is from; values are  *)
(* left out, but for the update policy: `manual' says that the spec has    *)
(* one and that it is Manual. A bare object has no spec. A resource tree   *)
(* is what the tree client found: the composed resources are told apart by *)
(* the UID of their controller only.                                       *)
(***************************************************************************)
EXTENDS SchemaClient, FiniteSets

CONSTANTS
  Inputs,           \* the resources the user has: [kind, ns, odd, has, manual, bare]
  Objects,          \* what the cluster may have under the input's name: [uid, ref]
  Backings,         \* what it may have as the backing XR: [uid, has, manual, bare]
  UserFields,       \* fields of the spec that are not Crossplane's
  NoUID, NewUID,    \* no controller, and the UID the dummy XR is given
  MaxObjectChanges  \* bound on the changes made to these objects per input

AlwaysPreserved == {"claimRef", "resourceRefs"}
PreservedIfAbsent == {"compositionRef", "compositionSelector", "writeConnectionSecretToRef"}
RevisionRef == "compositionRevisionRef"
UpdatePolicy == "compositionUpdatePolicy"
CrossplaneFields == AlwaysPreserved \cup PreservedIfAbsent \cup {RevisionRef, UpdatePolicy}
SpecFields == UserFields \cup CrossplaneFields
UIDs == {o.uid : o \in Objects \cup Backings}
Controllers == UIDs \cup {NoUID}

ASSUME ClaimRenderingAssumption ==
  /\ \A i \in Inputs : i.kind \in Kinds /\ i.has \subseteq SpecFields
  /\ \A o \in Inputs \cup Backings : /\ o.manual => UpdatePolicy \in o.has
                                     /\ o.bare => o.has = {}
  /\ \A o \in Objects : o.ref \in {"none", "partial", "full"}
  /\ Backings \subseteq [uid : UIDs, has : SUBSET SpecFields, manual : BOOLEAN, bare : BOOLEAN]
  /\ UserFields \cap CrossplaneFields = {}
  /\ {o.uid : o \in Objects} \cap {b.uid : b \in Backings} = {}
  /\ {NoUID, NewUID} \cap UIDs = {}
  /\ NoUID # NewUID
  /\ Absent \notin Objects \cup Backings
  /\ MaxObjectChanges \in Nat

VARIABLES
  stage,          \* the step diffSingleResourceInternal is at
  input,          \* xr
  object,         \* the cluster's object of its name, or Absent
  backing,        \* the XR that object refers to, or Absent
  objectChanges,  \* how often they changed since the input was begun
  existing,       \* existingXRFromCluster
  existingBacking,\* existingBackingXRUn
  rendering,      \* xrForRendering: [from, uid, ns, spec]
  observed,       \* controllers of the observed resources; {} is also nil
  unread          \* history: the read of an object or of the backing XR failed

clusterVars == <<object, backing, objectChanges>>
renderingVars == <<stage, input, object, backing, objectChanges, existing,
                   existingBacking, rendering, observed, unread>>

-----------------------------------------------------------------------------
Claim == IsClaimKind(input.kind)

(* What the cluster can have for an input: only claims have a resourceRef. *)
ObjectsFor(i) ==
  {Absent} \cup {o \in Objects : IsClaimKind(i.kind) \/ o.ref = "none"}
BackingsFor(o) == {Absent} \cup (IF o # Absent /\ o.ref = "full" THEN Backings ELSE {})

(* A slip in buildMergedSpec: the XR's spec is the base, so that a field   *)
(* the user removed from the claim stays.                                  *)
MergedOntoXR(fields, b) ==
  [f \in fields \cup b.has |-> IF f \in fields \ AlwaysPreserved THEN "claim" ELSE "xr"]

(* buildMergedSpec, with XRUpdatePolicy of the XR, whose policy itself is  *)
(* not kept.                                                               *)
MergedSpec(fields, b) ==
  LET kept == {f \in b.has : \/ f \in AlwaysPreserved
                             \/ f \in PreservedIfAbsent \ fields
                             \/ f = RevisionRef /\ f \notin fields /\ b.manual}
  IN [f \in fields \cup kept |-> IF f \in kept THEN "xr" ELSE "claim"]

(* mergeClaimSpecIntoBackingXR                                             *)
SyncedSpec(i, b) ==
  IF i.bare \/ b.bare THEN [f \in b.has |-> "xr"] ELSE MergedSpec(i.has, b)

(* A slip in extractComposedResourcesFromTree: resources of nested XRs are *)
(* kept.                                                                   *)
ControlledByAnyone(children, uid) == children

(* extractComposedResourcesFromTree                                        *)
ControlledBy(children, uid) == {c \in children : c = NoUID \/ c = uid}

(* The trees a composite with this UID can have; a claim controls nothing. *)
Trees(uid, isClaim) == SUBSET (Controllers \ (IF isClaim THEN {uid} ELSE {}))

-----------------------------------------------------------------------------
NoRendering == [from |-> "nothing", uid |-> NoUID, ns |-> "", spec |-> << >>]

(* Nothing was read for the input at hand, or what was is dead.            *)
Forget ==
  /\ object' = Absent
  /\ backing' = Absent
  /\ objectChanges' = 0
  /\ existing' = Absent
  /\ existingBacking' = Absent
  /\ rendering' = NoRendering
  /\ observed' = {}
  /\ unread' = FALSE

RenderingInit ==
  /\ stage = "idle"
  /\ input \in Inputs
  /\ object = Absent
  /\ backing = Absent
  /\ objectChanges = 0
  /\ existing = Absent
  /\ existingBacking = Absent
  /\ rendering = NoRendering
  /\ observed = {}
  /\ unread = FALSE

(* The next input, whatever the cluster has for it; SanitizeXR.            *)
BeginInput(i) ==
  /\ stage = "idle"
  /\ input' = i
  /\ object' \in ObjectsFor(i)
  /\ backing' \in BackingsFor(object')
  /\ objectChanges' = 0
  /\ existing' = Absent
  /\ existingBacking' = Absent
  /\ rendering' = NoRendering
  /\ observed' = {}
  /\ unread' = FALSE
  /\ stage' = "default"

(* FetchCurrentObject of the input itself. An error is logged only, and    *)
(* the input is then rendered without a UID, as a new one is.              *)
FetchExisting(ok) ==
  /\ stage = "existing"
  /\ existing' = IF ok THEN object ELSE Absent
  /\ rendering' = [from |-> "input",
                   uid |-> IF ok /\ object # Absent THEN object.uid ELSE NoUID,
                   ns |-> input.ns,
                   spec |-> [f \in input.has |-> "claim"]]
  /\ unread' = ~ok
  /\ stage' = "resolve"
  /\ UNCHANGED <<input, clusterVars, existingBacking, observed>>

(* A slip in resolveBackingXRForClaim: only a claim the cluster does not   *)
(* have is new, one that was not reconciled yet is rendered as it is.      *)
IsNewToCrossplaneIfAbsent(o) == o = Absent

(* No object, or none with a complete resourceRef.                         *)
IsNewToCrossplane(o) == o = Absent \/ o.ref # "full"

(* resolveBackingXRForClaim up to its first read, and synthesizeDummy-     *)
(* BackingXRForNewClaim; the conversion may fail.                          *)
Resolve(converts) ==
  /\ stage = "resolve"
  /\ IF ~IsNewToCrossplane(existing)
     THEN stage' = "backing" /\ UNCHANGED rendering
     ELSE IF ~Claim
     THEN stage' = "observe" /\ UNCHANGED rendering
     ELSE IF ~converts
     THEN stage' = "failed" /\ UNCHANGED rendering
     ELSE /\ rendering' = [from |-> "dummy", uid |-> NewUID, ns |-> "",
                           spec |-> [f \in input.has \cup {"claimRef"} |->
                                       IF f = "claimRef" THEN "xr" ELSE "claim"]]
          /\ stage' = "observe"
  /\ UNCHANGED <<input, clusterVars, existing, existingBacking, observed, unread>>

(* The backing XR. One that is gone or cannot be read leaves the claim to  *)
(* be rendered itself.                                                     *)
FetchBacking(ok) ==
  /\ stage = "backing"
  /\ existingBacking' = IF ok THEN backing ELSE Absent
  /\ stage' = IF ok /\ backing # Absent THEN "tree" ELSE "observe"
  /\ unread' = (unread \/ ~ok)
  /\ UNCHANGED <<input, clusterVars, existing, rendering, observed>>

(* Its tree, where an error is an error, and the merge, where a malformed  *)
(* update policy is one.                                                   *)
FetchTree(ok, children) ==
  /\ stage = "tree"
  /\ children \in Trees(existingBacking.uid, FALSE)
  /\ IF ok
     THEN /\ observed' = ControlledBy(children, existingBacking.uid)
          /\ rendering' = [from |-> "backing", uid |-> existingBacking.uid, ns |-> "",
                           spec |-> SyncedSpec(input, existingBacking)]
          /\ stage' = "observe"
     ELSE stage' = "failed" /\ UNCHANGED <<observed, rendering>>
  /\ UNCHANGED <<input, clusterVars, existing, existingBacking, unread>>

(* fetchObservedResourcesFromClusterXR, unless there are some already.     *)
Observe(ok, children) ==
  /\ stage = "observe"
  /\ IF observed = {} /\ existing # Absent
     THEN /\ children \in Trees(existing.uid, Claim)
          /\ observed' = IF ok THEN ControlledBy(children, existing.uid) ELSE {}
     ELSE UNCHANGED observed
  /\ stage' = "render"
  /\ UNCHANGED <<input, clusterVars, existing, existingBacking, rendering, unread>>

(* Crossplane, or a user, while the input is being diffed.                 *)
ObjectChanges ==
  /\ stage \in {"default", "existing", "resolve", "backing", "tree", "observe"}
  /\ objectChanges < MaxObjectChanges
  /\ object' \in ObjectsFor(input)
  /\ backing' \in BackingsFor(object')
  /\ <<object', backing'>> # <<object, backing>>
  /\ objectChanges' = objectChanges + 1
  /\ UNCHANGED <<stage, input, existing, existingBacking, rendering, observed, unread>>

-----------------------------------------------------------------------------
(* Every observed resource that has a controller is controlled by the very *)
(* composite it is rendered with, also when the cluster changed between    *)
(* the reads: the render binary rejects the others                         *)
(* (diffprocessor/resource_manager.go:636).                                *)
ObservedIsControlled ==
  stage = "render" => \A c \in observed : c \in {NoUID, rendering.uid}

(* Unless a read failed or the cluster changed meanwhile, an input is      *)
(* rendered as what Crossplane reconciles: an XR as itself with its UID, a *)
(* claim that was reconciled as its backing XR, one that was not as an XR  *)
(* with a claimRef. The one exception is a backing XR that is gone.        *)
RenderedAsInCluster ==
  stage = "render" /\ ~unread /\ objectChanges = 0
    => IF ~Claim
       THEN /\ rendering.from = "input"
            /\ rendering.uid = IF object = Absent THEN NoUID ELSE object.uid
       ELSE IF object # Absent /\ object.ref = "full"
       THEN IF backing = Absent
            THEN rendering.from = "input" /\ rendering.uid = object.uid
            ELSE rendering.from = "backing" /\ rendering.uid = backing.uid
       ELSE rendering.from = "dummy" /\ "claimRef" \in DOMAIN rendering.spec

(* The spec a backing XR is rendered with is the one the claim is synced   *)
(* to: of the user's fields and the update policy exactly the claim's, the *)
(* references Crossplane manages from the XR, a composition choice from    *)
(* wherever there is one, and a revision that the claim does not name only *)
(* if the XR is pinned. Once it is synced, another run of the claim        *)
(* renders the same, but for the revision: the policy of the XR, which     *)
(* decides on it, is then the claim's, and a pin the claim does not share  *)
(* is gone.                                                                *)
SpecAsSynced ==
  stage = "render" /\ rendering.from = "backing" /\ ~input.bare /\ ~existingBacking.bare
    => LET spec == rendering.spec
           xr == existingBacking
           synced == [xr EXCEPT !.has = DOMAIN spec, !.manual = input.manual]
       IN /\ \A f \in UserFields \cup {UpdatePolicy} :
               f \in DOMAIN spec <=> f \in input.has
          /\ \A f \in AlwaysPreserved \cap xr.has : spec[f] = "xr"
          /\ \A f \in PreservedIfAbsent :
               /\ f \in DOMAIN spec <=> f \in input.has \cup xr.has
               /\ f \in input.has => spec[f] = "claim"
          /\ RevisionRef \in DOMAIN spec <=>
               RevisionRef \in input.has \/ (RevisionRef \in xr.has /\ xr.manual)
          /\ DOMAIN spec \ DOMAIN SyncedSpec(input, synced) =
               {f \in {RevisionRef} : xr.manual /\ ~input.manual /\ f \in xr.has \ input.has}
          /\ DOMAIN SyncedSpec(input, synced) \subseteq DOMAIN spec
=============================================================================
