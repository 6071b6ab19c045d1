--------------------------- MODULE XRPipelineProofs ---------------------------
(***************************************************************************)
(* Theorems about XRPipeline, for any kinds, XRDs, CRDs, objects, backing  *)
(* XRs and compositions, and any number of inputs and of changes to the    *)
(* cluster.                                                                *)
(***************************************************************************)
EXTENDS XRPipeline, FiniteSetTheorems, SequenceTheorems, TLAPS

(* The two caches of CRDs agree, and hold no CRD the cluster never had.    *)
CacheInv ==
  /\ clusterCRD \in [Kinds -> CRDContent \cup {Absent}]
  /\ \A k \in Kinds : clusterCRD[k] \in CRDsOf[k]
  /\ toLoad \subseteq XRKinds
  /\ DOMAIN crdByName \subseteq Kinds
  /\ \A k \in DOMAIN crdByName : crdByName[k] \in CRDContent
  /\ crds \in Seq([kind : Kinds, crd : CRDContent])
  /\ \A j \in DOMAIN crds : /\ crds[j].kind \in DOMAIN crdByName
                            /\ crds[j].crd = crdByName[crds[j].kind]

(* What a kind was ever treated by is what the cache has for it.           *)
UsedInv ==
  /\ used \in [Kinds -> SUBSET CRDContent]
  /\ \A k \in Kinds : \A crd \in used[k] : k \in DOMAIN crdByName /\ crd = crdByName[k]

(* An input is validated after it was rendered, as its first resource.     *)
SubjectInv ==
  /\ input \in Inputs
  /\ resources \in Seq(Resource)
  /\ at \in Nat \ {0}
  /\ toEnsure \subseteq Kinds
  /\ check \in {"no", "strip", "ensure", "default", "scope"} \cup Outcomes
  /\ check # "no" <=> stage = "check"
  /\ check # "no" => resources # << >> /\ Root.kind = input.kind /\ Root.ns = input.ns
  /\ check = "strip" => at > 1

(* An XR is rendered in the input's namespace or in none.                  *)
NamespaceInv == rendering.ns \in {"", input.ns}

Defaulted(i) == \/ i \in defaulted
                \/ resources[i].kind \in unfound
                \/ ~CRDRequired(resources[i].kind)
Satisfied(i) == /\ resources[i].kind \in DOMAIN crdByName
                /\ ~(resources[i].odd /\ crdByName[resources[i].kind].strict)
Scoped(i) == ScopeFits(resources[i], crdByName[resources[i].kind])

(* How far the steps of the validation have come.                          *)
ProgressInv ==
  /\ check = "default" => \A i \in DOMAIN resources : i < at => Defaulted(i)
  /\ check \in {"scope", "ok"} => \A i \in DOMAIN resources : Defaulted(i) /\ Satisfied(i)
  /\ check = "scope" => \A i \in DOMAIN resources : i < at => Scoped(i)
  /\ check = "ok" => \A i \in DOMAIN resources : Scoped(i)

ValidationInv == CacheInv /\ UsedInv /\ SubjectInv /\ ProgressInv

(* Which composite the reads made so far belong to.                        *)
FetchInv ==
  /\ object \in ObjectsFor(input)
  /\ existing \in ObjectsFor(input)
  /\ stage \in {"idle", "default", "existing", "resolve", "backing", "tree", "observe",
                "render", "check", "failed"}
  /\ stage \in {"default", "existing", "resolve", "backing", "tree"} => observed = {}
  /\ stage \in {"resolve", "backing", "tree"} =>
       (existing # Absent => rendering.uid = existing.uid)
  /\ stage \in {"backing", "tree"} => existing # Absent /\ Claim
  /\ stage = "observe" =>
       /\ observed \subseteq {NoUID, rendering.uid}
       /\ observed = {} /\ existing # Absent => Claim \/ rendering.uid = existing.uid
  /\ ObservedIsControlled

-----------------------------------------------------------------------------
(* What is cached stays cached as it is.                                   *)
Kept == \A k \in DOMAIN crdByName : k \in DOMAIN crdByName' /\ crdByName'[k] = crdByName[k]

(* addCRD keeps the caches in agreement and drops nothing.                 *)
LEMMA AddCRDKeeps ==
  ASSUME CacheInv, NEW k \in Kinds, k \in DOMAIN crdByName \/ clusterCRD[k] # Absent,
         AddCRD(k), clusterCRD' = clusterCRD, toLoad' \subseteq toLoad
  PROVE  CacheInv' /\ Kept /\ k \in DOMAIN crdByName' /\ crdByName'[k] = CRDFor(k)
<1> USE SchemaClientAssumption
<1>1. CASE k \in DOMAIN crdByName
  BY <1>1 DEF CacheInv, AddCRD, Kept, CRDFor
<1>2. CASE k \notin DOMAIN crdByName
  <2> DEFINE e == [kind |-> k, crd |-> clusterCRD[k]]
  <2>1. clusterCRD[k] \in CRDContent
    BY <1>2 DEF CacheInv
  <2>2. /\ DOMAIN crdByName' = DOMAIN crdByName \cup {k}
        /\ crdByName'[k] = clusterCRD[k]
        /\ \A j \in DOMAIN crdByName : crdByName'[j] = crdByName[j]
    BY <1>2 DEF AddCRD
  <2>3. e \in [kind : Kinds, crd : CRDContent]
    BY <2>1
  <2>4. /\ crds' = Append(crds, e)
        /\ crds' \in Seq([kind : Kinds, crd : CRDContent])
        /\ DOMAIN crds' = DOMAIN crds \cup {Len(crds) + 1}
        /\ \A j \in DOMAIN crds : crds'[j] = crds[j]
        /\ crds'[Len(crds) + 1] = e
    <3>1. crds' = Append(crds, e)
      BY <1>2 DEF AddCRD
    <3> QED BY <3>1, <2>3, AppendProperties DEF CacheInv
  <2>5. \A j \in DOMAIN crds' : /\ crds'[j].kind \in DOMAIN crdByName'
                                /\ crds'[j].crd = crdByName'[crds'[j].kind]
    BY <2>2, <2>4 DEF CacheInv
  <2>6. Kept /\ CRDFor(k) = clusterCRD[k]
    BY <1>2, <2>2 DEF Kept, CRDFor
  <2> QED
    BY <2>1, <2>2, <2>4, <2>5, <2>6 DEF CacheInv
<1> QED
  BY <1>1, <1>2

(* GetCRD does, found or not.                                              *)
LEMMA GetCRDKeeps ==
  ASSUME CacheInv, NEW k \in Kinds, NEW ok \in BOOLEAN, GetCRD(k, ok)
  PROVE  /\ CacheInv' /\ Kept
         /\ Found(k, ok) => k \in DOMAIN crdByName' /\ crdByName'[k] = CRDFor(k)
<1>1. CASE Found(k, ok)
  BY <1>1, AddCRDKeeps DEF GetCRD, Found
<1>2. CASE ~Found(k, ok)
  BY <1>2 DEF GetCRD, CacheInv, Kept
<1> QED
  BY <1>1, <1>2

(* A step that leaves the client alone keeps everything.                   *)
LEMMA ClientUnchanged ==
  ASSUME CacheInv, UNCHANGED clientVars
  PROVE  CacheInv' /\ Kept
BY DEF CacheInv, Kept, clientVars

(* The history follows a cache that drops nothing.                         *)
LEMMA UsedKept ==
  ASSUME UsedInv, Kept, used' = used
  PROVE  UsedInv'
BY DEF UsedInv, Kept

(* A look-up keeps both, and records what the cache then has.              *)
LEMMA ConsultKeeps ==
  ASSUME CacheInv, UsedInv, NEW k \in Kinds, NEW ok \in BOOLEAN, Consult(k, ok)
  PROVE  /\ CacheInv' /\ UsedInv' /\ Kept
         /\ Found(k, ok) => k \in DOMAIN crdByName' /\ crdByName'[k] = CRDFor(k)
         /\ ~Found(k, ok) => k \in unfound'
         /\ unfound \subseteq unfound'
<1>1. CacheInv' /\ Kept /\ (Found(k, ok) => k \in DOMAIN crdByName' /\ crdByName'[k] = CRDFor(k))
  BY GetCRDKeeps DEF Consult
<1>2. /\ ~Found(k, ok) => k \in unfound'
      /\ unfound \subseteq unfound'
  BY DEF Consult, Found
<1>3. UsedInv'
  <2>1. CASE ~Found(k, ok)
    <3>1. used' = used
      BY <2>1 DEF Consult, UsedInv
    <3> QED BY <3>1, <1>1, UsedKept
  <2>2. CASE Found(k, ok)
    <3>1. CRDFor(k) \in CRDContent
      BY <2>2, <1>1 DEF CacheInv
    <3>2. used' = [used EXCEPT ![k] = @ \cup {CRDFor(k)}]
      BY <2>2 DEF Consult
    <3>3. used' \in [Kinds -> SUBSET CRDContent]
      BY <3>1, <3>2 DEF UsedInv
    <3>4. \A j \in Kinds : \A crd \in used'[j] : j \in DOMAIN crdByName' /\ crd = crdByName'[j]
      BY <3>2, <2>2, <1>1 DEF UsedInv, Kept
    <3> QED BY <3>3, <3>4 DEF UsedInv
  <2> QED BY <2>1, <2>2
<1> QED
  BY <1>1, <1>2, <1>3

-----------------------------------------------------------------------------
(* The order in which the resources of an input are treated.               *)
LEMMA ResourceTypes ==
  ASSUME SubjectInv
  PROVE  /\ DOMAIN resources = 1 .. Len(resources) /\ Len(resources) \in Nat
         /\ \A i \in DOMAIN resources : resources[i] \in Resource /\ resources[i].kind \in Kinds
<1>1. DOMAIN resources = 1 .. Len(resources) /\ Len(resources) \in Nat
  BY LenProperties DEF SubjectInv
<1>2. ASSUME NEW i \in DOMAIN resources PROVE resources[i] \in Resource
  BY <1>1, ElementOfSeq DEF SubjectInv
<1>3. \A r \in Resource : r.kind \in Kinds
  BY DEF Resource
<1> QED
  BY <1>1, <1>2, <1>3

LEMMA ResourceAt ==
  ASSUME SubjectInv, at <= Len(resources)
  PROVE  at \in DOMAIN resources /\ resources[at] \in Resource /\ resources[at].kind \in Kinds
BY ResourceTypes DEF SubjectInv

(* The progress made is not undone by a step that keeps the cache, the     *)
(* resources and what is recorded of them.                                 *)
LEMMA ProgressKept ==
  ASSUME CacheInv, ProgressInv, Kept, resources' = resources,
         defaulted \subseteq defaulted', unfound \subseteq unfound'
  PROVE  \A i \in DOMAIN resources :
           /\ Defaulted(i) => Defaulted(i)'
           /\ Satisfied(i) => Satisfied(i)'
           /\ Satisfied(i) /\ Scoped(i) => Scoped(i)'
BY DEF Defaulted, Satisfied, Scoped, ScopeFits, Root, Kept

LEMMA StripKeeps ==
  ASSUME ValidationInv, NEW ok \in BOOLEAN, Strip(ok), UNCHANGED renderingVars
  PROVE  ValidationInv'
<1> DEFINE r == resources[at]
<1>1. /\ check = "strip" /\ at \in DOMAIN resources /\ at > 1 /\ r \in Resource /\ r.kind \in Kinds
      /\ input' = input /\ stage' = stage /\ at' = at + 1 /\ at \in Nat \ {0}
  BY ResourceAt DEF Strip, ValidationInv, SubjectInv, renderingVars
<1>2. CacheInv' /\ UsedInv'
  <2>1. CASE r.ns = ""
    BY <2>1, ClientUnchanged, UsedKept DEF Strip, ValidationInv
  <2>2. CASE r.ns # ""
    BY <2>2, <1>1, ConsultKeeps DEF Strip, ValidationInv
  <2> QED BY <2>1, <2>2
<1>3. /\ resources' \in Seq(Resource) /\ resources' # << >> /\ resources'[1] = resources[1]
      /\ check' \in {"strip", "tool"}
  <2>1. CASE resources' = resources
    BY <2>1, <1>1 DEF Strip, ValidationInv, SubjectInv
  <2>2. CASE resources' # resources
    <3> DEFINE e == [r EXCEPT !.ns = ""]
    <3>1. resources' = [resources EXCEPT ![at] = e] /\ check' \in {"strip", "tool"}
      BY <2>2, <1>1 DEF Strip
    <3>2. e \in Resource
      BY <1>1 DEF Resource
    <3> HIDE DEF e
    <3>3. resources \in Seq(Resource) /\ at \in 1 .. Len(resources)
      BY <1>1 DEF ValidationInv, SubjectInv
    <3> QED BY <3>1, <3>2, <3>3, <1>1, ExceptSeq
  <2> QED BY <2>1, <2>2
<1>4. SubjectInv'
  <2>1. toEnsure' = toEnsure
    BY DEF Strip
  <2>2. stage = "check" /\ Root.kind = input.kind /\ Root.ns = input.ns /\ Root' = Root
        /\ toEnsure \subseteq Kinds /\ input \in Inputs
    BY <1>1, <1>3 DEF ValidationInv, SubjectInv, Root
  <2>3. check' \in {"no", "strip", "ensure", "default", "scope"} \cup Outcomes /\ check' # "no"
    BY <1>3 DEF Outcomes
  <2>4. at' \in Nat \ {0} /\ at' > 1
    BY <1>1
  <2> QED BY <1>1, <1>3, <2>1, <2>2, <2>3, <2>4 DEF SubjectInv
<1>5. ProgressInv'
  BY <1>3 DEF ProgressInv
<1> QED
  BY <1>2, <1>4, <1>5 DEF ValidationInv

LEMMA EnsureKeeps ==
  ASSUME ValidationInv, UNCHANGED renderingVars,
         BeginEnsure \/ (\E k \in Kinds, ok \in BOOLEAN : Ensure(k, ok)) \/ EndEnsure
  PROVE  ValidationInv'
<1>1. CASE BeginEnsure
  <2>1. CacheInv' /\ UsedInv'
    BY <1>1, ClientUnchanged, UsedKept DEF BeginEnsure, ValidationInv
  <2>2. KindsAt \subseteq Kinds
    BY ResourceTypes DEF KindsAt, ValidationInv
  <2>3. SubjectInv' /\ ProgressInv'
    BY <1>1, <2>2 DEF BeginEnsure, ValidationInv, SubjectInv, ProgressInv, Root, renderingVars
  <2> QED BY <2>1, <2>3 DEF ValidationInv
<1>2. ASSUME NEW k \in Kinds, NEW ok \in BOOLEAN, Ensure(k, ok)
      PROVE  ValidationInv'
  <2>1. CacheInv' /\ UsedInv'
    BY <1>2, ConsultKeeps DEF Ensure, ValidationInv
  <2>2. SubjectInv' /\ ProgressInv'
    BY <1>2 DEF Ensure, ValidationInv, SubjectInv, ProgressInv, Root, renderingVars
  <2> QED BY <2>1, <2>2 DEF ValidationInv
<1>3. CASE EndEnsure
  <2>1. CacheInv' /\ UsedInv'
    BY <1>3, ClientUnchanged, UsedKept DEF EndEnsure, ValidationInv
  <2>2. SubjectInv' /\ ProgressInv'
    BY <1>3 DEF EndEnsure, ValidationInv, SubjectInv, ProgressInv, Root, renderingVars, Outcomes
  <2> QED BY <2>1, <2>2 DEF ValidationInv
<1> QED
  BY <1>1, <1>2, <1>3

LEMMA ApplyDefaultsKeeps ==
  ASSUME ValidationInv, NEW ok \in BOOLEAN, NEW applies \in BOOLEAN,
         ApplyDefaults(ok, applies), UNCHANGED renderingVars
  PROVE  ValidationInv'
<1> DEFINE k == resources[at].kind
<1>1. /\ check = "default" /\ at \in DOMAIN resources /\ k \in Kinds
      /\ resources' = resources /\ at' = at + 1 /\ toEnsure' = toEnsure
      /\ input' = input /\ stage' = stage
  BY ResourceAt DEF ApplyDefaults, ValidationInv, renderingVars
<1>2. CASE ~CRDRequired(k)
  <2>1. /\ CacheInv' /\ UsedInv' /\ Kept
        /\ check' = check /\ defaulted' = defaulted /\ unfound' = unfound
    BY <1>2, ClientUnchanged, UsedKept DEF ApplyDefaults, ValidationInv
  <2>2. \A i \in DOMAIN resources : i = at => Defaulted(i)'
    BY <1>2, <1>1 DEF Defaulted, CRDRequired
  <2>3. SubjectInv'
    BY <1>1, <2>1 DEF ValidationInv, SubjectInv, Root
  <2>4. \A i \in DOMAIN resources : Defaulted(i) => Defaulted(i)'
    BY <1>1, <2>1, ProgressKept DEF ValidationInv
  <2>5. ProgressInv'
    BY <1>1, <2>1, <2>2, <2>4, ResourceTypes DEF ProgressInv, ValidationInv, SubjectInv
  <2> QED BY <2>1, <2>3, <2>5 DEF ValidationInv
<1>3. CASE CRDRequired(k)
  <2>1. /\ CacheInv' /\ UsedInv' /\ Kept /\ unfound \subseteq unfound'
        /\ ~Found(k, ok) => k \in unfound'
    BY <1>1, <1>3, ConsultKeeps DEF ApplyDefaults, ValidationInv
  <2>2. /\ check' \in {"default", "tool"}
        /\ defaulted \subseteq defaulted'
        /\ Found(k, ok) /\ applies => at \in defaulted'
        /\ Found(k, ok) /\ ~applies => check' = "tool"
    BY <1>1, <1>3 DEF ApplyDefaults
  <2>3. SubjectInv'
    BY <1>1, <2>2 DEF ValidationInv, SubjectInv, Root, Outcomes
  <2>4. \A i \in DOMAIN resources : Defaulted(i) => Defaulted(i)'
    BY <1>1, <2>1, <2>2, ProgressKept DEF ValidationInv
  <2>5. \A i \in DOMAIN resources : check' = "default" /\ i = at => Defaulted(i)'
    BY <1>1, <2>1, <2>2 DEF Defaulted
  <2>6. ProgressInv'
    BY <1>1, <2>2, <2>4, <2>5, ResourceTypes DEF ProgressInv, ValidationInv, SubjectInv
  <2> QED BY <2>1, <2>3, <2>6 DEF ValidationInv
<1> QED
  BY <1>2, <1>3

LEMMA ValidateKeeps ==
  ASSUME ValidationInv, NEW compiles \in BOOLEAN, Validate(compiles), UNCHANGED renderingVars
  PROVE  ValidationInv'
<1>1. /\ check = "default" /\ at > Len(resources) /\ resources' = resources /\ at' = 1
      /\ input' = input /\ stage' = stage /\ check' \in {"scope", "schema"}
      /\ toEnsure' = toEnsure /\ defaulted' = defaulted /\ unfound' = unfound
  BY DEF Validate, renderingVars
<1>2. CacheInv' /\ Kept
  BY ClientUnchanged DEF Validate, ValidationInv
<1>3. \A k \in Kinds : \A crd \in Listed(k) :
        k \in DOMAIN crdByName /\ crd = crdByName[k] /\ crd \in CRDContent
  BY DEF Listed, ValidationInv, CacheInv
<1>4. UsedInv'
  <2>1. used' = [k \in Kinds |-> IF k \in KindsAt THEN used[k] \cup Listed(k) ELSE used[k]]
    BY DEF Validate
  <2>2. \A k \in Kinds : used'[k] \subseteq used[k] \cup Listed(k)
    BY <2>1
  <2>3. used' \in [Kinds -> SUBSET CRDContent]
    BY <2>1, <1>3 DEF ValidationInv, UsedInv
  <2>4. \A k \in Kinds : \A crd \in used'[k] : k \in DOMAIN crdByName /\ crd = crdByName[k]
    BY <2>2, <1>3 DEF ValidationInv, UsedInv
  <2> QED BY <2>3, <2>4, <1>2 DEF UsedInv, Kept
<1>5. SubjectInv'
  BY <1>1 DEF ValidationInv, SubjectInv, Root, Outcomes
<1>6. ASSUME check' = "scope"
      PROVE  \A i \in DOMAIN resources : Defaulted(i)' /\ Satisfied(i)'
  <2>1. \A i \in DOMAIN resources : i < at
    BY <1>1 DEF ValidationInv, SubjectInv
  <2>2. \A i \in DOMAIN resources : Defaulted(i)
    BY <2>1, <1>1 DEF ValidationInv, ProgressInv
  <2>3. \A i \in DOMAIN resources : Satisfied(i)
    <3>1. \A i \in DOMAIN resources : resources[i].kind \in Kinds
      BY ResourceTypes DEF ValidationInv
    <3>2. \A i \in DOMAIN resources :
            /\ Listed(resources[i].kind) # {}
            /\ \A crd \in Listed(resources[i].kind) : ~(resources[i].odd /\ crd.strict)
      BY <1>6 DEF Validate
    <3> QED BY <3>1, <3>2, <1>3 DEF Satisfied
  <2> QED BY <2>2, <2>3, <1>1, <1>2, ProgressKept DEF ValidationInv
<1>7. ProgressInv'
  BY <1>1, <1>6 DEF ProgressInv, ValidationInv, SubjectInv
<1> QED
  BY <1>2, <1>4, <1>5, <1>7 DEF ValidationInv

LEMMA ScopeKeeps ==
  ASSUME ValidationInv, UNCHANGED renderingVars,
         (\E ok \in BOOLEAN : ValidateScope(ok)) \/ EndValidation
  PROVE  ValidationInv'
<1>1. ASSUME NEW ok \in BOOLEAN, ValidateScope(ok)
      PROVE  ValidationInv'
  <2> DEFINE r == resources[at]
  <2>1. /\ check = "scope" /\ at \in DOMAIN resources /\ r.kind \in Kinds
        /\ resources' = resources /\ at' = at + 1 /\ toEnsure' = toEnsure
        /\ defaulted' = defaulted /\ input' = input /\ stage' = stage
        /\ check' \in {"scope", "schema"}
    BY <1>1, ResourceAt DEF ValidateScope, ValidationInv, renderingVars
  <2>2. /\ CacheInv' /\ UsedInv' /\ Kept /\ unfound \subseteq unfound'
        /\ Found(r.kind, ok) => /\ r.kind \in DOMAIN crdByName'
                                /\ crdByName'[r.kind] = CRDFor(r.kind)
    BY <1>1, <2>1, ConsultKeeps DEF ValidateScope, ValidationInv
  <2>3. SubjectInv'
    BY <2>1 DEF ValidationInv, SubjectInv, Root, Outcomes
  <2>4. \A i \in DOMAIN resources :
          /\ Defaulted(i)' /\ Satisfied(i)'
          /\ Scoped(i) => Scoped(i)'
    BY <2>1, <2>2, ProgressKept DEF ValidationInv, ProgressInv
  <2>5. \A i \in DOMAIN resources : check' = "scope" /\ i = at => Scoped(i)'
    <3>1. check' = "scope" => ScopeFits(r, CRDFor(r.kind)) /\ Found(r.kind, ok)
      BY <1>1 DEF ValidateScope
    <3>2. check' = "scope" => ScopeFits(r, crdByName'[r.kind])
      BY <3>1, <2>2
    <3> QED BY <3>2, <2>1 DEF Scoped, ScopeFits, Root
  <2>6. ProgressInv'
    BY <2>1, <2>4, <2>5, ResourceTypes DEF ProgressInv, ValidationInv, SubjectInv
  <2> QED BY <2>2, <2>3, <2>6 DEF ValidationInv
<1>2. CASE EndValidation
  <2>1. CacheInv' /\ UsedInv' /\ Kept
    BY <1>2, ClientUnchanged, UsedKept DEF EndValidation, ValidationInv
  <2>2. SubjectInv'
    BY <1>2 DEF EndValidation, ValidationInv, SubjectInv, Root, renderingVars, Outcomes
  <2>3. \A i \in DOMAIN resources : i < at
    BY <1>2 DEF EndValidation, ValidationInv, SubjectInv
  <2>4. \A i \in DOMAIN resources : Defaulted(i)' /\ Satisfied(i)' /\ Scoped(i)'
    BY <1>2, <2>1, <2>3, ProgressKept DEF EndValidation, ValidationInv, ProgressInv
  <2>5. ProgressInv'
    BY <1>2, <2>4 DEF EndValidation, ProgressInv
  <2> QED BY <2>1, <2>2, <2>5 DEF ValidationInv
<1> QED
  BY <1>1, <1>2

LEMMA CheckKeeps ==
  ASSUME ValidationInv, Check
  PROVE  ValidationInv'
<1>1. UNCHANGED renderingVars /\ CheckStep
  BY DEF Check
<1>2. CASE \E ok \in BOOLEAN : Strip(ok)
  BY <1>1, <1>2, StripKeeps
<1>3. CASE BeginEnsure \/ (\E k \in Kinds, ok \in BOOLEAN : Ensure(k, ok)) \/ EndEnsure
  BY <1>1, <1>3, EnsureKeeps
<1>4. CASE \E ok, applies \in BOOLEAN : ApplyDefaults(ok, applies)
  BY <1>1, <1>4, ApplyDefaultsKeeps
<1>5. CASE \E compiles \in BOOLEAN : Validate(compiles)
  BY <1>1, <1>5, ValidateKeeps
<1>6. CASE (\E ok \in BOOLEAN : ValidateScope(ok)) \/ EndValidation
  BY <1>1, <1>6, ScopeKeeps
<1> QED
  BY <1>1, <1>2, <1>3, <1>4, <1>5, <1>6 DEF CheckStep

-----------------------------------------------------------------------------
(* The steps around the validation.                                        *)

(* Loading fills the caches like any look-up.                              *)
LEMMA LoadKeeps ==
  ASSUME ValidationInv, Load
  PROVE  ValidationInv'
<1>1. CacheInv' /\ Kept
  <2>1. ASSUME NEW k \in XRKinds, NEW ok \in BOOLEAN, LoadCRD(k, ok)
        PROVE  CacheInv' /\ Kept
    <3>1. k \in Kinds
      BY SchemaClientAssumption
    <3>2. CASE Found(k, ok)
      BY <2>1, <3>1, <3>2, AddCRDKeeps DEF LoadCRD, Found, ValidationInv
    <3>3. CASE ~Found(k, ok)
      BY <2>1, <3>3 DEF LoadCRD, ValidationInv, CacheInv, Kept
    <3> QED BY <3>2, <3>3
  <2>2. CASE FinishLoading \/ LoadingFails
    BY <2>2 DEF FinishLoading, LoadingFails, ValidationInv, CacheInv, Kept
  <2> QED BY <2>1, <2>2 DEF Load
<1>2. UNCHANGED <<checkVars, renderingVars>>
  BY DEF Load
<1>3. UsedInv'
  BY <1>1, <1>2, UsedKept DEF ValidationInv, checkVars
<1>4. SubjectInv'
  BY <1>2 DEF ValidationInv, SubjectInv, Root, checkVars, renderingVars
<1>5. \A i \in DOMAIN resources :
        /\ Defaulted(i) => Defaulted(i)'
        /\ Satisfied(i) => Satisfied(i)'
        /\ Satisfied(i) /\ Scoped(i) => Scoped(i)'
  BY <1>1, <1>2, ProgressKept DEF ValidationInv, checkVars
<1>6. ProgressInv'
  <2>1. /\ check \in {"scope", "ok"} => \A i \in DOMAIN resources : Satisfied(i)
        /\ check' = check /\ at' = at /\ resources' = resources
    BY <1>2 DEF ValidationInv, ProgressInv, checkVars
  <2> QED BY <1>5, <2>1 DEF ValidationInv, ProgressInv
<1> QED
  BY <1>1, <1>3, <1>4, <1>6 DEF ValidationInv

(* The cluster's own changes reach no cache.                               *)
LEMMA ClusterKeeps ==
  ASSUME ValidationInv, ClusterChanges
  PROVE  ValidationInv'
<1>1. CacheInv' /\ UNCHANGED <<crdByName, checkVars, stage, input>>
  <2>1. ASSUME NEW k \in Kinds, NEW crd \in CRDContent \cup {Absent}, CRDChanges(k, crd),
               UNCHANGED <<checkVars, renderingVars>>
        PROVE  CacheInv' /\ UNCHANGED <<crdByName, checkVars, stage, input>>
    <3>1. clusterCRD' = [clusterCRD EXCEPT ![k] = crd] /\ crd \in CRDsOf[k]
          /\ UNCHANGED <<crdByName, crds, toLoad>>
      BY <2>1 DEF CRDChanges
    <3>2. /\ clusterCRD' \in [Kinds -> CRDContent \cup {Absent}]
          /\ \A j \in Kinds : clusterCRD'[j] \in CRDsOf[j]
      BY <3>1 DEF ValidationInv, CacheInv
    <3> QED BY <2>1, <3>1, <3>2 DEF ValidationInv, CacheInv, renderingVars
  <2>2. CASE ObjectChanges /\ UNCHANGED <<clientVars, checkVars, begun>>
    BY <2>2, ClientUnchanged DEF ObjectChanges, ValidationInv, clientVars
  <2> QED BY <2>1, <2>2 DEF ClusterChanges
<1>2. UsedInv'
  BY <1>1 DEF ValidationInv, UsedInv, checkVars
<1>3. SubjectInv'
  BY <1>1 DEF ValidationInv, SubjectInv, Root, checkVars
<1>4. ProgressInv'
  BY <1>1 DEF ValidationInv, ProgressInv, Defaulted, Satisfied, Scoped, ScopeFits, Root, checkVars
<1> QED
  BY <1>1, <1>2, <1>3, <1>4 DEF ValidationInv

(* What happens before the rendering leaves the validation alone, but for  *)
(* the CRD the defaults of an XRD are taken from.                          *)
LEMMA BeforeKeeps ==
  ASSUME ValidationInv, NEW i \in Inputs, NEW ok \in BOOLEAN,
         Begin(i) \/ ApplyXRDDefaults(ok) \/ FetchStep \/ RenderFails
  PROVE  ValidationInv'
<1>1. /\ UNCHANGED <<clientVars, resources, check, at, toEnsure>>
      /\ stage # "check" /\ stage' # "check" /\ input' \in Inputs
  BY DEF Begin, BeginInput, ApplyXRDDefaults, FetchStep, FetchExisting, Resolve, FetchBacking,
         FetchTree, Observe, RenderFails, checkVars, ValidationInv, SubjectInv
<1>2. CacheInv' /\ Kept
  BY <1>1, ClientUnchanged DEF ValidationInv
<1>3. UsedInv'
  <2>1. CASE ApplyXRDDefaults(ok)
    <3> DEFINE k == DefinedKind(input.kind)
               known == IsDefined(input.kind) /\ KnownByXRDName(input.kind)
    <3>1. used' = IF known THEN [used EXCEPT ![k] = @ \cup {CRDFor(k)}] ELSE used
      BY <2>1 DEF ApplyXRDDefaults
    <3>2. known => k \in DOMAIN crdByName /\ CRDFor(k) = crdByName[k] /\ CRDFor(k) \in CRDContent
      BY DEF KnownByXRDName, CRDFor, ValidationInv, CacheInv
    <3> HIDE DEF known, k
    <3>3. used' \in [Kinds -> SUBSET CRDContent]
      BY <3>1, <3>2 DEF ValidationInv, UsedInv
    <3>4. \A j \in Kinds : \A crd \in used'[j] : j \in DOMAIN crdByName /\ crd = crdByName[j]
      BY <3>1, <3>2 DEF ValidationInv, UsedInv
    <3> QED BY <3>3, <3>4, <1>1 DEF UsedInv, clientVars
  <2>2. CASE ~ApplyXRDDefaults(ok)
    BY <2>2, <1>2, UsedKept DEF Begin, FetchStep, RenderFails, checkVars, ValidationInv
  <2> QED BY <2>1, <2>2
<1>4. check = "no"
  BY <1>1 DEF ValidationInv, SubjectInv
<1>5. SubjectInv'
  BY <1>1, <1>4 DEF ValidationInv, SubjectInv
<1>6. ProgressInv'
  BY <1>1, <1>4 DEF ProgressInv
<1> QED
  BY <1>2, <1>3, <1>5, <1>6 DEF ValidationInv

(* The input is its own first resource, under its kind and namespace.      *)
LEMMA RenderKeeps ==
  ASSUME ValidationInv, NamespaceInv, NEW composition \in Compositions, Render(composition)
  PROVE  ValidationInv'
<1>1. Subject = [kind |-> input.kind, ns |-> input.ns, odd |-> input.odd]
  BY DEF Subject, MergeUnstructured
<1>2. Subject \in Resource
  BY <1>1, XRPipelineAssumption DEF ValidationInv, SubjectInv
<1>3. Composed(composition) \in Seq(Resource)
  <2>1. composition \in Seq(Resource)
    BY XRPipelineAssumption
  <2>2. DOMAIN composition = 1 .. Len(composition) /\ Len(composition) \in Nat
        /\ \A j \in DOMAIN composition : composition[j] \in Resource
    BY <2>1, LenProperties, ElementOfSeq
  <2>3. input.ns \in Namespaces \cup {""}
    BY <1>1, <1>2 DEF Resource
  <2>4. \A r \in Resource : [r EXCEPT !.ns = rendering.ns] \in Resource
    BY <2>3 DEF Resource, NamespaceInv
  <2>5. Composed(composition) \in [1 .. Len(composition) -> Resource]
    BY <2>2, <2>4 DEF Composed
  <2> QED BY <2>2, <2>5
<1>4. /\ check' = "strip" /\ at' = 2 /\ stage' = "check" /\ input' = input
      /\ resources' = <<Subject>> \o Composed(composition)
      /\ toEnsure' = toEnsure /\ used' = used /\ rendering' = NoRendering
      /\ UNCHANGED clientVars
  BY DEF Render, Forget
<1>5. CacheInv' /\ UsedInv'
  BY <1>4, ClientUnchanged, UsedKept DEF ValidationInv
<1>6. resources' \in Seq(Resource) /\ resources' # << >> /\ resources'[1] = Subject
  BY <1>2, <1>3, <1>4, ConcatProperties
<1>7. SubjectInv'
  <2>1. Root'.kind = input.kind /\ Root'.ns = input.ns
    BY <1>1, <1>6 DEF Root
  <2>2. at' \in Nat \ {0} /\ at' > 1
    BY <1>4
  <2> QED BY <1>4, <1>6, <2>1, <2>2 DEF ValidationInv, SubjectInv
<1>8. ProgressInv'
  BY <1>4 DEF ProgressInv
<1> QED
  BY <1>5, <1>7, <1>8 DEF ValidationInv

(* Nothing is left of an input but what is cached.                         *)
LEMMA EndKeeps ==
  ASSUME ValidationInv, EndInput
  PROVE  ValidationInv'
<1>1. CacheInv' /\ UsedInv'
  BY ClientUnchanged, UsedKept DEF EndInput, ValidationInv
<1>2. /\ resources' = << >> /\ at' = 1 /\ toEnsure' = {} /\ check' = "no"
      /\ stage' = "idle" /\ input' = input
  BY DEF EndInput
<1>3. resources' \in Seq(Resource)
  BY <1>2, EmptySeq
<1>4. SubjectInv' /\ ProgressInv'
  BY <1>2, <1>3 DEF ValidationInv, SubjectInv, ProgressInv
<1> QED
  BY <1>1, <1>4 DEF ValidationInv

LEMMA InitValidation == Init => ValidationInv
<1> SUFFICES ASSUME Init PROVE ValidationInv
  OBVIOUS
<1>1. CacheInv /\ UsedInv
  <2>1. DOMAIN crdByName = {} /\ crds = << >> /\ \A k \in Kinds : used[k] = {}
    BY DEF Init, ClientInit, CheckInit
  <2> QED BY <2>1, EmptySeq DEF Init, ClientInit, CheckInit, CacheInv, UsedInv
<1>2. SubjectInv /\ ProgressInv
  <2>1. /\ resources = << >> /\ at = 1 /\ toEnsure = {} /\ check = "no"
        /\ stage = "idle" /\ input \in Inputs
    BY DEF Init, CheckInit, RenderingInit
  <2>2. resources \in Seq(Resource)
    BY <2>1, EmptySeq
  <2> QED BY <2>1, <2>2 DEF SubjectInv, ProgressInv
<1> QED
  BY <1>1, <1>2 DEF ValidationInv

(* No step gives the XR to render another namespace.                       *)
LEMMA NamespaceKept == NamespaceInv /\ [Next]_vars => NamespaceInv'
<1> SUFFICES ASSUME NamespaceInv, [Next]_vars PROVE NamespaceInv'
  OBVIOUS
<1>1. CASE UNCHANGED <<rendering, input>>
  BY <1>1 DEF NamespaceInv
<1>2. CASE rendering' = NoRendering
  BY <1>2 DEF NoRendering, NamespaceInv
<1>3. ASSUME NEW ok \in BOOLEAN, FetchExisting(ok) PROVE NamespaceInv'
  BY <1>3 DEF FetchExisting, NamespaceInv
<1>4. ASSUME NEW converts \in BOOLEAN, Resolve(converts) PROVE NamespaceInv'
  <2> DEFINE spec == [f \in input.has \cup {"claimRef"} |-> IF f = "claimRef" THEN "xr" ELSE "claim"]
  <2>1. /\ input' = input
        /\ \/ rendering' = rendering
           \/ rendering' = [from |-> "dummy", uid |-> NewUID, ns |-> "", spec |-> spec]
    BY <1>4 DEF Resolve
  <2> HIDE DEF spec
  <2>2. [from |-> "dummy", uid |-> NewUID, ns |-> "", spec |-> spec].ns = ""
    OBVIOUS
  <2>3. rendering' # rendering => rendering'.ns = ""
    BY <2>1, <2>2, Zenon
  <2> QED BY <2>1, <2>3 DEF NamespaceInv
<1>5. ASSUME NEW ok \in BOOLEAN, NEW children, FetchTree(ok, children) PROVE NamespaceInv'
  <2> DEFINE uid == existingBacking.uid
             spec == SyncedSpec(input, existingBacking)
  <2>1. /\ input' = input
        /\ \/ rendering' = rendering
           \/ rendering' = [from |-> "backing", uid |-> uid, ns |-> "", spec |-> spec]
    BY <1>5 DEF FetchTree
  <2> HIDE DEF uid, spec
  <2>2. [from |-> "backing", uid |-> uid, ns |-> "", spec |-> spec].ns = ""
    OBVIOUS
  <2>3. rendering' # rendering => rendering'.ns = ""
    BY <2>1, <2>2, Zenon
  <2> QED BY <2>1, <2>3 DEF NamespaceInv
<1> QED
  BY <1>1, <1>2, <1>3, <1>4, <1>5
  DEF Next, vars, renderingVars, Load, Begin, BeginInput, ApplyXRDDefaults, FetchStep, FetchBacking,
      Observe, Render, Forget, RenderFails, Check, EndInput, ClusterChanges, ObjectChanges, Over

LEMMA NextValidation == ValidationInv /\ NamespaceInv /\ [Next]_vars => ValidationInv'
<1> SUFFICES ASSUME ValidationInv, NamespaceInv, [Next]_vars PROVE ValidationInv'
  OBVIOUS
<1>1. CASE Load
  BY <1>1, LoadKeeps
<1>2. CASE \E i \in Inputs : Begin(i)
  BY <1>2, BeforeKeeps
<1>3. CASE (\E ok \in BOOLEAN : ApplyXRDDefaults(ok)) \/ FetchStep \/ RenderFails
  BY <1>3, BeforeKeeps DEF ValidationInv, SubjectInv
<1>4. CASE \E composition \in Compositions : Render(composition)
  BY <1>4, RenderKeeps
<1>5. CASE Check
  BY <1>5, CheckKeeps
<1>6. CASE EndInput
  BY <1>6, EndKeeps
<1>7. CASE ClusterChanges
  BY <1>7, ClusterKeeps
<1>8. CASE UNCHANGED vars
  <2>1. CacheInv' /\ UsedInv'
    BY <1>8, ClientUnchanged, UsedKept DEF ValidationInv, vars, checkVars
  <2>2. SubjectInv' /\ ProgressInv'
    BY <1>8 DEF ValidationInv, SubjectInv, ProgressInv, Defaulted, Satisfied, Scoped, ScopeFits,
                Root, vars, clientVars, checkVars, renderingVars
  <2> QED BY <2>1, <2>2 DEF ValidationInv
<1> QED
  BY <1>1, <1>2, <1>3, <1>4, <1>5, <1>6, <1>7, <1>8 DEF Next, Over

(* The caches agree, and the validation has come as far as it says.        *)
THEOREM ValidationInvariance == Spec => []ValidationInv
<1>1. Init => ValidationInv /\ NamespaceInv
  <2>1. Init => rendering = NoRendering
    BY DEF Init, RenderingInit
  <2>2. NoRendering.ns = ""
    BY DEF NoRendering
  <2> QED BY <2>1, <2>2, InitValidation DEF NamespaceInv
<1>2. ValidationInv /\ NamespaceInv /\ [Next]_vars => (ValidationInv /\ NamespaceInv)'
  BY NextValidation, NamespaceKept
<1> QED
  BY <1>1, <1>2, PTL DEF Spec

(* However often a kind is looked up in a run, and whatever happens to its *)
(* CRD in the cluster, it is treated by one CRD throughout.                *)
THEOREM AlwaysOneSchema == Spec => []OneSchema
<1>1. ValidationInv => OneSchema
  <2> SUFFICES ASSUME ValidationInv, NEW k \in Kinds PROVE Cardinality(used[k]) <= 1
    BY DEF OneSchema
  <2>1. CASE used[k] = {}
    BY <2>1, FS_EmptySet
  <2>2. CASE used[k] # {}
    <3>1. PICK crd \in used[k] : TRUE
      BY <2>2
    <3>2. used[k] = {crd}
      BY DEF ValidationInv, UsedInv
    <3>3. Cardinality({crd}) = 1
      BY FS_Singleton
    <3> QED BY <3>2, <3>3
  <2> QED BY <2>1, <2>2
<1> QED
  BY <1>1, ValidationInvariance, PTL

(* Whatever passes validation is legal under the CRDs the run has used,    *)
(* and was defaulted with them unless a look-up failed or its kind counts  *)
(* as one without a CRD.                                                   *)
THEOREM PassedIsLegal == Spec => []ValidatedIsLegal
<1>1. ValidationInv => ValidatedIsLegal
  <2> SUFFICES ASSUME ValidationInv, check = "ok", NEW i \in DOMAIN resources
               PROVE  LET r == resources[i]
                          crd == crdByName[r.kind]
                      IN /\ r.kind \in DOMAIN crdByName
                         /\ ~(r.odd /\ crd.strict)
                         /\ i \in defaulted \/ r.kind \in unfound \/ ~CRDRequired(r.kind)
                         /\ crd.scope = "Namespaced" =>
                              r.ns \in (IF input.ns = "" THEN Namespaces ELSE {input.ns})
                         /\ crd.scope = "Cluster" =>
                              r.ns = "" /\ (input.ns # "" => input.kind \in ClaimKinds)
    BY DEF ValidatedIsLegal
  <2>1. Defaulted(i) /\ Satisfied(i) /\ Scoped(i)
    BY DEF ValidationInv, ProgressInv
  <2>2. Root.ns = input.ns /\ Root.kind = input.kind
    BY DEF ValidationInv, SubjectInv
  <2>3. resources[i].ns \in Namespaces \cup {""}
    BY ResourceTypes DEF ValidationInv, Resource
  <2> QED
    BY <2>1, <2>2, <2>3 DEF Defaulted, Satisfied, Scoped, ScopeFits, IsClaimKind
<1> QED
  BY <1>1, ValidationInvariance, PTL

-----------------------------------------------------------------------------
(* Objects with a complete resourceRef are claims'.                        *)
LEMMA OnlyClaimsRefer ==
  ASSUME NEW i, NEW o \in ObjectsFor(i), o # Absent, ~IsNewToCrossplane(o)
  PROVE  IsClaimKind(i.kind)
<1>1. o.ref = "full" /\ o \in {p \in Objects : IsClaimKind(i.kind) \/ p.ref = "none"}
  BY DEF ObjectsFor, IsNewToCrossplane
<1> QED
  BY <1>1

(* The tree of a claim holds nothing the claim controls.                   *)
LEMMA TreesOfClaims ==
  ASSUME NEW uid, NEW isClaim \in BOOLEAN, NEW children \in Trees(uid, isClaim)
  PROVE  /\ ControlledBy(children, uid) \subseteq {NoUID, uid}
         /\ isClaim /\ uid # NoUID => ControlledBy(children, uid) \subseteq {NoUID}
BY DEF Trees, ControlledBy

(* The UIDs of objects tell them from no controller.                       *)
LEMMA ObjectsHaveUIDs ==
  ASSUME NEW i, NEW o \in ObjectsFor(i), o # Absent
  PROVE  o.uid # NoUID
<1>1. o \in Objects
  BY DEF ObjectsFor
<1> QED
  BY <1>1, ClaimRenderingAssumption DEF UIDs

LEMMA FetchSteps ==
  ASSUME FetchInv, FetchStep
  PROVE  FetchInv'
<1>1. ASSUME NEW ok \in BOOLEAN, FetchExisting(ok) PROVE FetchInv'
  <2> DEFINE spec == [f \in input.has |-> "claim"]
             uid == IF ok /\ object # Absent THEN object.uid ELSE NoUID
  <2>1. /\ stage = "existing" /\ stage' = "resolve" /\ object' = object /\ input' = input
        /\ existing' = IF ok THEN object ELSE Absent
        /\ rendering' = [from |-> "input", uid |-> uid, ns |-> input.ns, spec |-> spec]
        /\ observed' = observed
    BY <1>1 DEF FetchExisting, clusterVars
  <2> HIDE DEF spec
  <2>2. [from |-> "input", uid |-> uid, ns |-> input.ns, spec |-> spec].uid = uid
    OBVIOUS
  <2>3. rendering'.uid = uid
    BY <2>1, <2>2, Zenon
  <2>4. existing' \in ObjectsFor(input) /\ (existing' # Absent => rendering'.uid = existing'.uid)
    BY <2>1, <2>3 DEF FetchInv, ObjectsFor
  <2> QED BY <2>1, <2>4 DEF FetchInv, ObservedIsControlled, Claim, ObjectsFor
<1>2. ASSUME NEW converts \in BOOLEAN, Resolve(converts) PROVE FetchInv'
  <2>1. /\ stage = "resolve" /\ object' = object /\ input' = input /\ existing' = existing
        /\ observed' = observed
    BY <1>2 DEF Resolve, clusterVars
  <2>2. CASE ~IsNewToCrossplane(existing)
    <3>1. stage' = "backing" /\ rendering' = rendering
      BY <1>2, <2>2 DEF Resolve
    <3>2. existing # Absent /\ Claim
      BY <2>2, OnlyClaimsRefer DEF FetchInv, IsNewToCrossplane, Claim
    <3> QED BY <2>1, <3>1, <3>2 DEF FetchInv, ObservedIsControlled, Claim
  <2>3. CASE IsNewToCrossplane(existing)
    <3>1. \/ stage' = "observe" /\ (Claim \/ rendering' = rendering)
          \/ stage' = "failed"
      BY <1>2, <2>3 DEF Resolve
    <3> QED BY <2>1, <3>1 DEF FetchInv, ObservedIsControlled, Claim
  <2> QED BY <2>2, <2>3
<1>3. ASSUME NEW ok \in BOOLEAN, FetchBacking(ok) PROVE FetchInv'
  <2>1. /\ stage = "backing" /\ stage' \in {"tree", "observe"} /\ object' = object
        /\ input' = input /\ existing' = existing /\ observed' = observed
        /\ rendering' = rendering
    BY <1>3 DEF FetchBacking, clusterVars
  <2> QED BY <2>1 DEF FetchInv, ObservedIsControlled, Claim
<1>4. ASSUME NEW ok \in BOOLEAN, NEW children \in SUBSET Controllers, FetchTree(ok, children)
      PROVE  FetchInv'
  <2> DEFINE uid == existingBacking.uid
             spec == SyncedSpec(input, existingBacking)
  <2>1. /\ stage = "tree" /\ object' = object /\ input' = input /\ existing' = existing
    BY <1>4 DEF FetchTree, clusterVars
  <2>2. CASE ~ok
    <3>1. stage' = "failed"
      BY <1>4, <2>2 DEF FetchTree
    <3> QED BY <2>1, <3>1 DEF FetchInv, ObservedIsControlled, Claim
  <2>3. CASE ok
    <3>1. /\ stage' = "observe" /\ observed' = ControlledBy(children, uid)
          /\ rendering' = [from |-> "backing", uid |-> uid, ns |-> "", spec |-> spec]
          /\ children \in Trees(uid, FALSE)
      BY <1>4, <2>3 DEF FetchTree
    <3> HIDE DEF uid, spec
    <3>2. [from |-> "backing", uid |-> uid, ns |-> "", spec |-> spec].uid = uid
      OBVIOUS
    <3>3. rendering'.uid = uid
      BY <3>1, <3>2, Zenon
    <3>4. observed' \subseteq {NoUID, rendering'.uid}
      BY <3>1, <3>3, TreesOfClaims
    <3> QED BY <2>1, <3>1, <3>4 DEF FetchInv, ObservedIsControlled, Claim
  <2> QED BY <2>2, <2>3
<1>5. ASSUME NEW ok \in BOOLEAN, NEW children \in SUBSET Controllers, Observe(ok, children)
      PROVE  FetchInv'
  <2>1. /\ stage = "observe" /\ stage' = "render" /\ object' = object /\ input' = input
        /\ existing' = existing /\ rendering' = rendering
    BY <1>5 DEF Observe, clusterVars
  <2>2. CASE observed = {} /\ existing # Absent
    <3>1. /\ children \in Trees(existing.uid, Claim)
          /\ observed' = IF ok THEN ControlledBy(children, existing.uid) ELSE {}
      BY <1>5, <2>2 DEF Observe
    <3>2. existing.uid # NoUID
      BY <2>2, ObjectsHaveUIDs DEF FetchInv
    <3>3. Claim \in BOOLEAN
      BY DEF Claim, IsClaimKind
    <3>4. Claim => observed' \subseteq {NoUID}
      BY <3>1, <3>2, <3>3, TreesOfClaims
    <3>5. ~Claim => observed' \subseteq {NoUID, rendering.uid}
      BY <2>1, <2>2, <3>1, <3>3, TreesOfClaims DEF FetchInv
    <3> QED BY <2>1, <3>4, <3>5 DEF FetchInv, ObservedIsControlled
  <2>3. CASE ~(observed = {} /\ existing # Absent)
    <3>1. observed' = observed
      BY <1>5, <2>3 DEF Observe
    <3> QED BY <2>1, <3>1 DEF FetchInv, ObservedIsControlled
  <2> QED BY <2>2, <2>3
<1> QED
  BY <1>1, <1>2, <1>3, <1>4, <1>5 DEF FetchStep

LEMMA NextFetch == FetchInv /\ [Next]_vars => FetchInv'
<1> SUFFICES ASSUME FetchInv, [Next]_vars PROVE FetchInv'
  OBVIOUS
<1>1. CASE \E i \in Inputs : Begin(i)
  BY <1>1 DEF Begin, BeginInput, FetchInv, ObservedIsControlled, ObjectsFor
<1>2. CASE FetchStep
  BY <1>2, FetchSteps
<1>3. CASE \E ok \in BOOLEAN : ApplyXRDDefaults(ok)
  BY <1>3 DEF ApplyXRDDefaults, clusterVars, FetchInv, ObservedIsControlled, Claim
<1>4. CASE (\E composition \in Compositions : Render(composition)) \/ EndInput
  BY <1>4 DEF Render, EndInput, Forget, FetchInv, ObservedIsControlled, ObjectsFor, Claim
<1>5. CASE RenderFails
  BY <1>5 DEF RenderFails, clusterVars, FetchInv, ObservedIsControlled, Claim
<1>6. CASE ObjectChanges
  BY <1>6 DEF ObjectChanges, FetchInv, ObservedIsControlled, Claim
<1>7. CASE UNCHANGED renderingVars
  BY <1>7 DEF renderingVars, FetchInv, ObservedIsControlled, Claim
<1> QED
  BY <1>1, <1>2, <1>3, <1>4, <1>5, <1>6, <1>7
  DEF Next, Load, Check, ClusterChanges, Over, vars

(* The observed resources a composite is rendered with are its own or      *)
(* nobody's, whatever happens to it between the reads.                     *)
THEOREM RenderedWithItsOwn == Spec => []ObservedIsControlled
<1>1. Init => FetchInv
  BY DEF Init, RenderingInit, FetchInv, ObservedIsControlled, ObjectsFor
<1>2. FetchInv /\ [Next]_vars => FetchInv'
  BY NextFetch
<1>3. FetchInv => ObservedIsControlled
  BY DEF FetchInv
<1> QED
  BY <1>1, <1>2, <1>3, PTL DEF Spec

-----------------------------------------------------------------------------
(* Why an input fails: what is cached is listed, what needs a CRD has been *)
(* looked for, and what a failed step leaves tells of it.                  *)
AllListed == \A k \in DOMAIN crdByName : \E j \in DOMAIN crds : crds[j].kind = k

Unfit(i) ==
  LET r == resources[i]
      crd == crdByName[r.kind]
  IN \/ ~CRDRequired(r.kind) /\ r.kind \notin DOMAIN crdByName
     \/ r.kind \in DOMAIN crdByName /\ ((r.odd /\ crd.strict) \/ ~ScopeFits(r, crd))

ReasonInv ==
  /\ AllListed
  /\ check = "ensure" => /\ missing \subseteq unfound
                         /\ \A i \in DOMAIN resources : CRDRequired(resources[i].kind) =>
                              resources[i].kind \in toEnsure \cup missing \cup DOMAIN crdByName
  /\ check = "default" => \A i \in DOMAIN resources : CRDRequired(resources[i].kind) =>
                            resources[i].kind \in DOMAIN crdByName
  /\ check = "tool" => unfound # {} \/ unusable
  /\ check = "schema" => unfound # {} \/ unusable \/ \E i \in DOMAIN resources : Unfit(i)

LEMMA ListingKept ==
  ASSUME CacheInv, AllListed, NEW k \in Kinds, k \in DOMAIN crdByName \/ clusterCRD[k] # Absent,
         AddCRD(k)
  PROVE  AllListed'
<1>1. CASE k \in DOMAIN crdByName
  BY <1>1 DEF AddCRD, AllListed
<1>2. CASE k \notin DOMAIN crdByName
  <2> DEFINE e == [kind |-> k, crd |-> clusterCRD[k]]
  <2>1. e \in [kind : Kinds, crd : CRDContent] /\ e.kind = k
    BY <1>2 DEF CacheInv
  <2>2. crds' = Append(crds, e) /\ crds \in Seq([kind : Kinds, crd : CRDContent])
    BY <1>2 DEF AddCRD, CacheInv
  <2> HIDE DEF e
  <2>3. /\ DOMAIN crds' = DOMAIN crds \cup {Len(crds) + 1}
        /\ \A j \in DOMAIN crds : crds'[j] = crds[j]
        /\ crds'[Len(crds) + 1] = e
    BY <2>1, <2>2, AppendProperties
  <2>4. DOMAIN crdByName' = DOMAIN crdByName \cup {k}
    BY <1>2 DEF AddCRD
  <2> QED
    BY <2>1, <2>3, <2>4 DEF AllListed
<1> QED
  BY <1>1, <1>2

LEMMA ConsultLists ==
  ASSUME CacheInv, AllListed, NEW k \in Kinds, NEW ok \in BOOLEAN, Consult(k, ok)
  PROVE  AllListed'
<1>1. CASE Found(k, ok)
  BY <1>1, ListingKept DEF Consult, GetCRD, Found
<1>2. CASE ~Found(k, ok)
  BY <1>2 DEF Consult, GetCRD, AllListed
<1> QED
  BY <1>1, <1>2

(* What does not fit the caches does not fit them until they change.       *)
LEMMA ReasonUnchanged ==
  ASSUME ReasonInv,
         UNCHANGED <<crdByName, crds, resources, check, toEnsure, missing, unfound, unusable>>
  PROVE  ReasonInv'
<1>1. \A i \in DOMAIN resources : Unfit(i) => Unfit(i)'
  BY DEF Unfit, ScopeFits, Root
<1> QED
  BY <1>1 DEF ReasonInv, AllListed

LEMMA StripReason ==
  ASSUME ValidationInv, ReasonInv, NEW ok \in BOOLEAN, Strip(ok)
  PROVE  ReasonInv'
<1> DEFINE r == resources[at]
<1>1. at \in DOMAIN resources /\ r.kind \in Kinds /\ check = "strip"
  BY ResourceAt DEF Strip, ValidationInv
<1>2. CASE r.ns = ""
  BY <1>1, <1>2 DEF Strip, ReasonInv, AllListed, clientVars
<1>3. CASE r.ns # ""
  <2>1. AllListed' /\ (~Found(r.kind, ok) => r.kind \in unfound')
    BY <1>1, <1>3, ConsultLists, ConsultKeeps DEF Strip, ValidationInv, ReasonInv
  <2>2. check' = IF Found(r.kind, ok) THEN check ELSE "tool"
    BY <1>3 DEF Strip
  <2> QED
    BY <1>1, <2>1, <2>2 DEF ReasonInv
<1> QED
  BY <1>2, <1>3

LEMMA EnsureReason ==
  ASSUME ValidationInv, ReasonInv,
         BeginEnsure \/ (\E k \in Kinds, ok \in BOOLEAN : Ensure(k, ok)) \/ EndEnsure
  PROVE  ReasonInv'
<1>1. CASE BeginEnsure
  BY <1>1 DEF BeginEnsure, ReasonInv, AllListed, KindsAt, clientVars
<1>2. ASSUME NEW k \in Kinds, NEW ok \in BOOLEAN, Ensure(k, ok)
      PROVE  ReasonInv'
  <2>1. /\ check = "ensure" /\ check' = "ensure" /\ resources' = resources
        /\ toEnsure' = toEnsure \ {k}
        /\ missing' = IF Found(k, ok) THEN missing ELSE missing \cup {k}
    BY <1>2 DEF Ensure
  <2>2. /\ AllListed' /\ unfound \subseteq unfound' /\ (~Found(k, ok) => k \in unfound')
        /\ Found(k, ok) => k \in DOMAIN crdByName'
        /\ \A j \in DOMAIN crdByName : j \in DOMAIN crdByName'
    BY <1>2, ConsultLists, ConsultKeeps DEF Ensure, ValidationInv, ReasonInv, Kept
  <2> QED
    BY <2>1, <2>2 DEF ReasonInv
<1>3. CASE EndEnsure
  BY <1>3 DEF EndEnsure, ReasonInv, AllListed, clientVars
<1> QED
  BY <1>1, <1>2, <1>3

LEMMA DefaultsReason ==
  ASSUME ValidationInv, ReasonInv, NEW ok \in BOOLEAN, NEW applies \in BOOLEAN,
         ApplyDefaults(ok, applies)
  PROVE  ReasonInv'
<1> DEFINE k == resources[at].kind
<1>1. check = "default" /\ at \in DOMAIN resources /\ k \in Kinds /\ resources' = resources
  BY ResourceAt DEF ApplyDefaults, ValidationInv
<1>2. CASE ~CRDRequired(k)
  BY <1>1, <1>2 DEF ApplyDefaults, ReasonInv, AllListed, clientVars
<1>3. CASE CRDRequired(k)
  <2>1. /\ AllListed' /\ \A j \in DOMAIN crdByName : j \in DOMAIN crdByName'
    BY <1>1, <1>3, ConsultLists, ConsultKeeps DEF ApplyDefaults, ValidationInv, ReasonInv, Kept
  <2>2. /\ check' = IF Found(k, ok) /\ ~applies THEN "tool" ELSE check
        /\ unusable' = (Found(k, ok) /\ ~applies)
    BY <1>3 DEF ApplyDefaults
  <2> QED
    BY <1>1, <2>1, <2>2 DEF ReasonInv
<1> QED
  BY <1>2, <1>3

(* After the CRDs were ensured, only a kind that needs none has no schema. *)
LEMMA ValidateReason ==
  ASSUME ValidationInv, ReasonInv, NEW compiles \in BOOLEAN, Validate(compiles)
  PROVE  ReasonInv'
<1>1. /\ check = "default" /\ resources' = resources /\ check' \in {"scope", "schema"}
      /\ unusable' = ~compiles /\ UNCHANGED clientVars
  BY DEF Validate
<1>2. CASE compiles /\ check' = "schema"
  <2>1. PICK i \in DOMAIN resources :
          \/ Listed(resources[i].kind) = {}
          \/ \E crd \in Listed(resources[i].kind) : resources[i].odd /\ crd.strict
    BY <1>2 DEF Validate
  <2>2. resources[i].kind \in Kinds
    BY ResourceTypes DEF ValidationInv
  <2>3. ASSUME Listed(resources[i].kind) = {}
        PROVE  Unfit(i)
    <3>1. resources[i].kind \notin DOMAIN crdByName
      BY <2>3 DEF Listed, ReasonInv, AllListed
    <3>2. ~CRDRequired(resources[i].kind)
      BY <1>1, <3>1 DEF ReasonInv
    <3> QED
      BY <3>1, <3>2 DEF Unfit
  <2>4. ASSUME \E crd \in Listed(resources[i].kind) : resources[i].odd /\ crd.strict
        PROVE  Unfit(i)
    <3>1. PICK crd \in Listed(resources[i].kind) : resources[i].odd /\ crd.strict
      BY <2>4
    <3>2. resources[i].kind \in DOMAIN crdByName /\ crd = crdByName[resources[i].kind]
      BY DEF Listed, ValidationInv, CacheInv
    <3> QED
      BY <3>1, <3>2 DEF Unfit
  <2>5. Unfit(i)
    BY <2>1, <2>3, <2>4
  <2>6. Unfit(i)'
    BY <1>1, <2>5 DEF Unfit, ScopeFits, Root, clientVars
  <2> QED
    BY <1>1, <1>2, <2>6 DEF ReasonInv, AllListed, clientVars
<1> QED
  BY <1>1, <1>2 DEF ReasonInv, AllListed, clientVars

LEMMA ScopeReason ==
  ASSUME ValidationInv, ReasonInv, (\E ok \in BOOLEAN : ValidateScope(ok)) \/ EndValidation
  PROVE  ReasonInv'
<1>1. ASSUME NEW ok \in BOOLEAN, ValidateScope(ok)
      PROVE  ReasonInv'
  <2> PICK i \in DOMAIN resources : i = at
    BY <1>1, ResourceAt DEF ValidateScope, ValidationInv
  <2> DEFINE r == resources[i]
  <2>1. check = "scope" /\ r.kind \in Kinds /\ resources' = resources
    BY <1>1, ResourceTypes DEF ValidateScope, ValidationInv
  <2>2. /\ AllListed' /\ (~Found(r.kind, ok) => r.kind \in unfound')
        /\ Found(r.kind, ok) => r.kind \in DOMAIN crdByName' /\ crdByName'[r.kind] = CRDFor(r.kind)
    BY <1>1, <2>1, ConsultLists, ConsultKeeps DEF ValidateScope, ValidationInv, ReasonInv
  <2>3. check' = IF Found(r.kind, ok) /\ ScopeFits(r, CRDFor(r.kind)) THEN check ELSE "schema"
    BY <1>1 DEF ValidateScope
  <2>4. Found(r.kind, ok) /\ ~ScopeFits(r, CRDFor(r.kind)) => Unfit(i)'
    BY <2>1, <2>2 DEF Unfit, ScopeFits, Root
  <2> QED
    BY <2>1, <2>2, <2>3, <2>4 DEF ReasonInv
<1>2. CASE EndValidation
  BY <1>2 DEF EndValidation, ReasonInv, AllListed, clientVars
<1> QED
  BY <1>1, <1>2

(* No input is begun before the CRDs are loaded.                           *)
LoadedInv == stage # "idle" => loading = "loaded"

LEMMA NextLoaded == LoadedInv /\ [Next]_vars => LoadedInv'
<1> SUFFICES ASSUME LoadedInv, [Next]_vars PROVE LoadedInv'
  OBVIOUS
<1>1. CASE Load
  BY <1>1 DEF Load, LoadCRD, FinishLoading, LoadingFails, renderingVars, LoadedInv
<1>2. CASE Check
  <2>1. stage' = stage
    BY <1>2 DEF Check, renderingVars
  <2>2. loading' = loading
    BY <1>2 DEF Check, CheckStep, Strip, BeginEnsure, Ensure, EndEnsure, ApplyDefaults, Validate,
                ValidateScope, EndValidation, Consult, GetCRD, clientVars
  <2> QED
    BY <2>1, <2>2 DEF LoadedInv
<1>3. CASE (\E i \in Inputs : Begin(i)) \/ EndInput
  BY <1>3 DEF Begin, EndInput, clientVars, LoadedInv
<1>4. CASE (\E ok \in BOOLEAN : ApplyXRDDefaults(ok)) \/ RenderFails \/ FetchStep
           \/ (\E composition \in Compositions : Render(composition))
  <2>1. stage # "idle" /\ loading' = loading
    BY <1>4 DEF ApplyXRDDefaults, RenderFails, FetchStep, Render, FetchExisting, Resolve,
                FetchBacking, FetchTree, Observe, clientVars
  <2> QED
    BY <2>1 DEF LoadedInv
<1>5. CASE ClusterChanges \/ UNCHANGED vars
  BY <1>5 DEF ClusterChanges, CRDChanges, ObjectChanges, clientVars, renderingVars, vars, LoadedInv
<1> QED
  BY <1>1, <1>2, <1>3, <1>4, <1>5 DEF Next, Over

LEMMA NextReason == ValidationInv /\ LoadedInv /\ ReasonInv /\ [Next]_vars => ReasonInv'
<1> SUFFICES ASSUME ValidationInv, LoadedInv, ReasonInv, [Next]_vars PROVE ReasonInv'
  OBVIOUS
<1>1. ASSUME NEW k \in XRKinds, NEW ok \in BOOLEAN, LoadCRD(k, ok), UNCHANGED checkVars
      PROVE  ReasonInv'
  <2>1. k \in Kinds
    BY SchemaClientAssumption
  <2>2. CASE Found(k, ok)
    <3>1. AllListed'
      BY <1>1, <2>1, <2>2, ListingKept DEF LoadCRD, Found, ValidationInv, ReasonInv
    <3>2. check' = "no"
      BY <1>1 DEF LoadCRD, checkVars, LoadedInv, ValidationInv, SubjectInv
    <3> QED
      BY <3>1, <3>2 DEF ReasonInv
  <2>3. CASE ~Found(k, ok)
    BY <1>1, <2>3, ReasonUnchanged DEF LoadCRD, checkVars
  <2> QED
    BY <2>2, <2>3
<1>2. CASE UNCHANGED <<crdByName, crds, resources, check, toEnsure, missing, unfound, unusable>>
  BY <1>2, ReasonUnchanged
<1>3. CASE Load
  BY <1>1, <1>2, <1>3 DEF Load, FinishLoading, LoadingFails, checkVars
<1>4. CASE check' \in {"no", "strip"} /\ UNCHANGED clientVars
  BY <1>4 DEF ReasonInv, AllListed, clientVars
<1>5. CASE Check
  BY <1>5, StripReason, EnsureReason, DefaultsReason, ValidateReason, ScopeReason DEF Check, CheckStep
<1>6. CASE (\E composition \in Compositions : Render(composition)) \/ EndInput
  BY <1>4, <1>6 DEF Render, EndInput
<1>7. CASE (\E i \in Inputs : Begin(i)) \/ FetchStep \/ RenderFails \/ UNCHANGED vars
  BY <1>2, <1>7 DEF Begin, FetchStep, RenderFails, vars, clientVars, checkVars
<1>8. CASE (\E ok \in BOOLEAN : ApplyXRDDefaults(ok)) \/ ClusterChanges
  BY <1>2, <1>8 DEF ApplyXRDDefaults, ClusterChanges, CRDChanges, clientVars, checkVars
<1> QED
  BY <1>3, <1>5, <1>6, <1>7, <1>8 DEF Next, Over

(* An input fails validation for a reason: a resource that does not fit    *)
(* its CRD, or needs none and has none in the cache, a CRD that cannot be  *)
(* used, or a look-up that found none; what is reported as a tool error is *)
(* one of the latter two.                                                  *)
THEOREM FailuresHaveReasons == Spec => []OutcomeExplained
<1>1. ValidationInv /\ ReasonInv => OutcomeExplained
  <2> SUFFICES ASSUME ValidationInv, ReasonInv, check = "schema", unfound = {}, ~unusable
               PROVE  \E i \in DOMAIN resources :
                        LET r == resources[i]
                            crd == crdByName[r.kind]
                        IN \/ ~CRDRequired(r.kind) /\ r.kind \notin DOMAIN crdByName
                           \/ r.odd /\ crd.strict
                           \/ crd.scope = "Namespaced" /\ (r.ns = "" \/ input.ns \notin {"", r.ns})
                           \/ crd.scope = "Cluster" /\ (r.ns # "" \/ (input.ns # "" /\ ~Claim))
    BY DEF OutcomeExplained, ReasonInv
  <2>1. PICK i \in DOMAIN resources : Unfit(i)
    BY DEF ReasonInv
  <2>2. Root.ns = input.ns /\ Root.kind = input.kind
    BY DEF ValidationInv, SubjectInv
  <2>3. resources[i].kind \in DOMAIN crdByName => crdByName[resources[i].kind] \in CRDContent
    BY DEF ValidationInv, CacheInv
  <2> QED
    BY <2>1, <2>2, <2>3 DEF Unfit, ScopeFits, Claim, CRDContent
<1>2. Init => LoadedInv /\ ReasonInv
  BY DEF Init, ClientInit, CheckInit, RenderingInit, LoadedInv, ReasonInv, AllListed
<1>3. ReasonInv /\ LoadedInv /\ ValidationInv /\ [Next]_vars => (LoadedInv /\ ReasonInv)'
  BY NextLoaded, NextReason
<1> QED
  BY <1>1, <1>2, <1>3, ValidationInvariance, PTL DEF Spec

-----------------------------------------------------------------------------
(* What an input is rendered as, against what the cluster has for it as    *)
(* long as every read succeeds and nothing changes.                        *)
Undisturbed == ~unread /\ objectChanges = 0

RenderedAs ==
  IF ~Claim
  THEN /\ rendering.from = "input"
       /\ rendering.uid = IF object = Absent THEN NoUID ELSE object.uid
  ELSE IF object # Absent /\ object.ref = "full"
  THEN IF backing = Absent
       THEN rendering.from = "input" /\ rendering.uid = object.uid
       ELSE rendering.from = "backing" /\ rendering.uid = backing.uid
  ELSE rendering.from = "dummy" /\ "claimRef" \in DOMAIN rendering.spec

AsItIs ==
  /\ rendering.from = "input"
  /\ rendering.uid = IF existing = Absent THEN NoUID ELSE existing.uid

AsMerged ==
  rendering.from = "backing" =>
    existingBacking \in Backings /\ rendering.spec = SyncedSpec(input, existingBacking)

AsReadInv ==
  /\ objectChanges \in Nat
  /\ backing \in Backings \cup {Absent}
  /\ stage \in {"resolve", "backing", "tree", "observe", "render"} /\ Undisturbed =>
       existing = object
  /\ stage \in {"resolve", "backing", "tree"} => AsItIs
  /\ stage \in {"backing", "tree"} => Claim /\ ~IsNewToCrossplane(existing)
  /\ stage = "tree" => existingBacking \in Backings /\ (Undisturbed => existingBacking = backing)
  /\ stage \in {"observe", "render"} => AsMerged /\ (Undisturbed => RenderedAs)

LEMMA FetchExistingAsRead ==
  ASSUME AsReadInv, NEW ok \in BOOLEAN, FetchExisting(ok)
  PROVE  AsReadInv'
<1> DEFINE spec == [f \in input.has |-> "claim"]
           uid == IF ok /\ object # Absent THEN object.uid ELSE NoUID
<1>1. /\ stage' = "resolve" /\ UNCHANGED <<object, backing, objectChanges>>
      /\ existing' = IF ok THEN object ELSE Absent
      /\ rendering' = [from |-> "input", uid |-> uid, ns |-> input.ns, spec |-> spec]
      /\ unread' = ~ok
  BY DEF FetchExisting, clusterVars
<1> HIDE DEF spec, uid
<1>2. /\ [from |-> "input", uid |-> uid, ns |-> input.ns, spec |-> spec].uid = uid
      /\ [from |-> "input", uid |-> uid, ns |-> input.ns, spec |-> spec].from = "input"
  OBVIOUS
<1>3. rendering'.uid = uid /\ rendering'.from = "input"
  BY <1>1, <1>2, Zenon
<1>4. uid = IF existing' = Absent THEN NoUID ELSE existing'.uid
  BY <1>1 DEF uid
<1>5. AsItIs'
  BY <1>3, <1>4 DEF AsItIs
<1>6. Undisturbed' => existing' = object'
  BY <1>1 DEF Undisturbed
<1> QED
  BY <1>1, <1>5, <1>6 DEF AsReadInv

LEMMA ResolveAsRead ==
  ASSUME AsReadInv, FetchInv, NEW converts \in BOOLEAN, Resolve(converts)
  PROVE  AsReadInv'
<1> DEFINE spec == [f \in input.has \cup {"claimRef"} |-> IF f = "claimRef" THEN "xr" ELSE "claim"]
<1>1. /\ stage = "resolve" /\ UNCHANGED <<object, backing, objectChanges, existing, unread, input>>
      /\ Undisturbed' = Undisturbed /\ AsItIs /\ (Undisturbed => existing = object)
  BY DEF Resolve, clusterVars, Undisturbed, AsReadInv
<1>2. CASE ~IsNewToCrossplane(existing)
  <2>1. stage' = "backing" /\ rendering' = rendering
    BY <1>2 DEF Resolve
  <2>2. Claim
    BY <1>1, <1>2, OnlyClaimsRefer DEF FetchInv, IsNewToCrossplane, Claim
  <2> QED
    BY <1>1, <1>2, <2>1, <2>2 DEF AsReadInv, AsItIs, Claim
<1>3. CASE IsNewToCrossplane(existing) /\ ~Claim
  <2>1. stage' = "observe" /\ rendering' = rendering
    BY <1>3 DEF Resolve
  <2>2. AsMerged' /\ (Undisturbed => RenderedAs')
    BY <1>1, <1>3, <2>1 DEF AsItIs, AsMerged, RenderedAs, Claim
  <2> QED
    BY <1>1, <2>1, <2>2 DEF AsReadInv
<1>4. CASE IsNewToCrossplane(existing) /\ Claim /\ converts
  <2>1. /\ stage' = "observe"
        /\ rendering' = [from |-> "dummy", uid |-> NewUID, ns |-> "", spec |-> spec]
    BY <1>4 DEF Resolve
  <2>2. "claimRef" \in DOMAIN spec
    OBVIOUS
  <2> HIDE DEF spec
  <2>3. /\ [from |-> "dummy", uid |-> NewUID, ns |-> "", spec |-> spec].from = "dummy"
        /\ [from |-> "dummy", uid |-> NewUID, ns |-> "", spec |-> spec].spec = spec
    OBVIOUS
  <2>4. rendering'.from = "dummy" /\ "claimRef" \in DOMAIN rendering'.spec
    BY <2>1, <2>2, <2>3, Zenon
  <2>5. AsMerged' /\ (Undisturbed => RenderedAs')
    BY <1>1, <1>4, <2>4 DEF AsMerged, RenderedAs, Claim, IsNewToCrossplane
  <2> QED
    BY <1>1, <2>1, <2>5 DEF AsReadInv
<1>5. CASE IsNewToCrossplane(existing) /\ Claim /\ ~converts
  <2>1. stage' = "failed"
    BY <1>5 DEF Resolve
  <2> QED
    BY <1>1, <2>1 DEF AsReadInv
<1> QED
  BY <1>2, <1>3, <1>4, <1>5

LEMMA FetchBackingAsRead ==
  ASSUME AsReadInv, NEW ok \in BOOLEAN, FetchBacking(ok)
  PROVE  AsReadInv'
<1>1. /\ stage = "backing" /\ UNCHANGED <<object, backing, objectChanges, existing, rendering, input>>
      /\ existingBacking' = IF ok THEN backing ELSE Absent
      /\ stage' = IF ok /\ backing # Absent THEN "tree" ELSE "observe"
      /\ unread' = (unread \/ ~ok)
  BY DEF FetchBacking, clusterVars
<1>2. /\ AsItIs /\ Claim /\ ~IsNewToCrossplane(existing) /\ (Undisturbed => existing = object)
      /\ backing \in Backings \cup {Absent} /\ objectChanges \in Nat
  BY <1>1 DEF AsReadInv
<1>3. Undisturbed' => Undisturbed /\ ok
  BY <1>1 DEF Undisturbed
<1>4. AsItIs' /\ (Claim /\ ~IsNewToCrossplane(existing))'
  BY <1>1, <1>2 DEF AsItIs, Claim
<1>5. stage' = "observe" => AsMerged' /\ (Undisturbed' => RenderedAs')
  BY <1>1, <1>2, <1>3 DEF AsItIs, AsMerged, RenderedAs, Claim, IsNewToCrossplane
<1> QED
  BY <1>1, <1>2, <1>3, <1>4, <1>5 DEF AsReadInv

LEMMA FetchTreeAsRead ==
  ASSUME AsReadInv, NEW ok \in BOOLEAN, NEW children, FetchTree(ok, children)
  PROVE  AsReadInv'
<1> DEFINE uid == existingBacking.uid
           spec == SyncedSpec(input, existingBacking)
<1>1. /\ stage = "tree" /\ UNCHANGED <<object, backing, objectChanges, existing, existingBacking,
                                       input, unread>>
      /\ Undisturbed' = Undisturbed
      /\ \/ stage' = "failed"
         \/ /\ stage' = "observe"
            /\ rendering' = [from |-> "backing", uid |-> uid, ns |-> "", spec |-> spec]
  BY DEF FetchTree, clusterVars, Undisturbed
<1>2. /\ Claim /\ ~IsNewToCrossplane(existing) /\ existingBacking \in Backings
      /\ (Undisturbed => existing = object /\ existingBacking = backing)
      /\ backing \in Backings \cup {Absent} /\ objectChanges \in Nat
  BY <1>1 DEF AsReadInv
<1>3. CASE stage' = "observe"
  <2> HIDE DEF uid, spec
  <2>1. /\ [from |-> "backing", uid |-> uid, ns |-> "", spec |-> spec].from = "backing"
        /\ [from |-> "backing", uid |-> uid, ns |-> "", spec |-> spec].uid = uid
        /\ [from |-> "backing", uid |-> uid, ns |-> "", spec |-> spec].spec = spec
    OBVIOUS
  <2>2. rendering'.from = "backing" /\ rendering'.uid = uid /\ rendering'.spec = spec
    BY <1>1, <1>3, <2>1, Zenon
  <2>3. Absent \notin Backings
    BY ClaimRenderingAssumption DEF ClaimRenderingAssumption
  <2>4. AsMerged' /\ (Undisturbed => RenderedAs')
    BY <1>1, <1>2, <2>2, <2>3 DEF AsMerged, RenderedAs, Claim, IsNewToCrossplane, uid, spec
  <2> QED
    BY <1>1, <1>2, <1>3, <2>4 DEF AsReadInv
<1>4. CASE stage' = "failed"
  BY <1>1, <1>2, <1>4 DEF AsReadInv
<1> QED
  BY <1>1, <1>3, <1>4

LEMMA AsReadUnchanged ==
  ASSUME AsReadInv, UNCHANGED <<object, backing, objectChanges, existing, existingBacking,
                               rendering, input, unread>>,
         \/ stage' = stage
         \/ stage' \in {"idle", "default", "existing", "check", "failed"}
         \/ stage = "observe" /\ stage' = "render"
  PROVE  AsReadInv'
BY DEF AsReadInv, Undisturbed, AsItIs, AsMerged, RenderedAs, Claim

LEMMA NextAsRead == AsReadInv /\ FetchInv /\ [Next]_vars => AsReadInv'
<1> SUFFICES ASSUME AsReadInv, FetchInv, [Next]_vars PROVE AsReadInv'
  OBVIOUS
<1>1. CASE \E i \in Inputs : Begin(i)
  BY <1>1 DEF Begin, BeginInput, AsReadInv, BackingsFor
<1>2. ASSUME NEW ok \in BOOLEAN, NEW children, Observe(ok, children)
      PROVE  AsReadInv'
  BY <1>2, AsReadUnchanged DEF Observe, clusterVars
<1>3. CASE FetchStep
  BY <1>2, <1>3, FetchExistingAsRead, ResolveAsRead, FetchBackingAsRead, FetchTreeAsRead DEF FetchStep
<1>4. CASE (\E composition \in Compositions : Render(composition)) \/ EndInput
  BY <1>4 DEF Render, EndInput, Forget, AsReadInv
<1>5. CASE (\E ok \in BOOLEAN : ApplyXRDDefaults(ok)) \/ RenderFails \/ UNCHANGED renderingVars
  BY <1>5, AsReadUnchanged DEF ApplyXRDDefaults, RenderFails, clusterVars, renderingVars
<1>6. CASE ObjectChanges
  <2>1. objectChanges' # 0 /\ objectChanges' \in Nat
    BY <1>6 DEF ObjectChanges, AsReadInv
  <2>2. backing' \in Backings \cup {Absent}
    BY <1>6 DEF ObjectChanges, BackingsFor
  <2>3. UNCHANGED <<stage, input, existing, existingBacking, rendering>>
    BY <1>6 DEF ObjectChanges
  <2> QED
    BY <2>1, <2>2, <2>3 DEF AsReadInv, Undisturbed, AsItIs, AsMerged, Claim
<1> QED
  BY <1>1, <1>3, <1>4, <1>5, <1>6 DEF Next, Load, Check, ClusterChanges, Over, vars

(* Between the reads and the rendering: what is rendered was read of the   *)
(* cluster, and merged, for the input at hand (diffSingleResourceInternal).*)
THEOREM ReadInvariance == Spec => [](FetchInv /\ AsReadInv)
<1>1. Init => FetchInv /\ AsReadInv
  BY DEF Init, RenderingInit, FetchInv, ObservedIsControlled, ObjectsFor, AsReadInv
<1>2. FetchInv /\ AsReadInv /\ [Next]_vars => (FetchInv /\ AsReadInv)'
  BY NextFetch, NextAsRead
<1> QED
  BY <1>1, <1>2, PTL DEF Spec

(* As long as every read succeeds and nobody interferes, an input is       *)
(* rendered as Crossplane reconciles it: a claim as its backing XR, as an  *)
(* XR of its own if there is none yet, an XR as itself.                    *)
THEOREM RenderedAsReconciled == Spec => []RenderedAsInCluster
<1>1. AsReadInv => RenderedAsInCluster
  BY DEF AsReadInv, RenderedAsInCluster, Undisturbed, RenderedAs
<1> QED
  BY <1>1, ReadInvariance, PTL

(* Which fields a merged spec has, and from where (buildMergedSpec).       *)
KeptFields(fields, b) ==
  {f \in b.has : \/ f \in AlwaysPreserved
                 \/ f \in PreservedIfAbsent \ fields
                 \/ f = RevisionRef /\ f \notin fields /\ b.manual}

(* The spec is what Crossplane syncs from a claim to its XR, and merging   *)
(* the claim into the synced XR again adds nothing and drops at most the   *)
(* revision the XR was pinned to: SpecAsSynced for any claim and XR.       *)
IsSynced(i, xr, spec) ==
  LET synced == [xr EXCEPT !.has = DOMAIN spec, !.manual = i.manual]
  IN /\ \A f \in UserFields \cup {UpdatePolicy} : f \in DOMAIN spec <=> f \in i.has
     /\ \A f \in AlwaysPreserved \cap xr.has : spec[f] = "xr"
     /\ \A f \in PreservedIfAbsent : /\ f \in DOMAIN spec <=> f \in i.has \cup xr.has
                                     /\ f \in i.has => spec[f] = "claim"
     /\ RevisionRef \in DOMAIN spec <=>
          RevisionRef \in i.has \/ (RevisionRef \in xr.has /\ xr.manual)
     /\ DOMAIN spec \ DOMAIN SyncedSpec(i, synced) =
          {f \in {RevisionRef} : xr.manual /\ ~i.manual /\ f \in xr.has \ i.has}
     /\ DOMAIN SyncedSpec(i, synced) \subseteq DOMAIN spec

(* What buildMergedSpec merges is that, if both have a spec.               *)
LEMMA MergeIsSync ==
  ASSUME NEW i, NEW xr \in Backings, NEW spec, spec = SyncedSpec(i, xr), ~i.bare, ~xr.bare
  PROVE  IsSynced(i, xr, spec)
<1> DEFINE synced == [xr EXCEPT !.has = DOMAIN spec, !.manual = i.manual]
<1>1. /\ DOMAIN spec = i.has \cup KeptFields(i.has, xr)
      /\ \A f \in DOMAIN spec : spec[f] = IF f \in KeptFields(i.has, xr) THEN "xr" ELSE "claim"
  BY DEF SyncedSpec, MergedSpec, KeptFields
<1>2. synced.has = DOMAIN spec /\ synced.manual = i.manual /\ synced.bare = xr.bare
  BY ClaimRenderingAssumption
<1>3. DOMAIN SyncedSpec(i, synced) = i.has \cup KeptFields(i.has, synced)
  BY <1>2 DEF SyncedSpec, MergedSpec, KeptFields
<1>4. \A f \in UserFields : f \notin CrossplaneFields
  BY ClaimRenderingAssumption
<1>5. /\ AlwaysPreserved \cap PreservedIfAbsent = {}
      /\ RevisionRef \notin AlwaysPreserved \cup PreservedIfAbsent
      /\ UpdatePolicy \notin AlwaysPreserved \cup PreservedIfAbsent \cup {RevisionRef}
  BY DEF AlwaysPreserved, PreservedIfAbsent, RevisionRef, UpdatePolicy
<1>6. \A f \in UserFields \cup {UpdatePolicy} : f \in DOMAIN spec <=> f \in i.has
  BY <1>1, <1>4, <1>5 DEF KeptFields, CrossplaneFields
<1>7. \A f \in AlwaysPreserved \cap xr.has : spec[f] = "xr"
  BY <1>1 DEF KeptFields
<1>8. \A f \in PreservedIfAbsent : /\ f \in DOMAIN spec <=> f \in i.has \cup xr.has
                                   /\ f \in i.has => spec[f] = "claim"
  BY <1>1, <1>5 DEF KeptFields
<1>9. RevisionRef \in DOMAIN spec <=>
        RevisionRef \in i.has \/ (RevisionRef \in xr.has /\ xr.manual)
  BY <1>1, <1>5 DEF KeptFields
<1>10. DOMAIN spec \ DOMAIN SyncedSpec(i, synced) =
         {f \in {RevisionRef} : xr.manual /\ ~i.manual /\ f \in xr.has \ i.has}
  BY <1>1, <1>2, <1>3, <1>5 DEF KeptFields
<1>11. DOMAIN SyncedSpec(i, synced) \subseteq DOMAIN spec
  BY <1>1, <1>2, <1>3 DEF KeptFields
<1> QED
  BY <1>6, <1>7, <1>8, <1>9, <1>10, <1>11, Zenon DEF IsSynced

(* The spec an XR is rendered with in a claim's place is the one           *)
(* Crossplane syncs to it, whatever the two had; to sync and merge it      *)
(* again changes nothing but a pin the claim does not share                *)
(* (mergeClaimSpecIntoBackingXR, buildMergedSpec).                         *)
THEOREM RenderedAsSynced == Spec => []SpecAsSynced
<1>1. AsReadInv => SpecAsSynced
  <2> SUFFICES ASSUME AsReadInv, stage = "render", rendering.from = "backing",
                      ~input.bare, ~existingBacking.bare
               PROVE  SpecAsSynced
    BY DEF SpecAsSynced
  <2>1. existingBacking \in Backings /\ rendering.spec = SyncedSpec(input, existingBacking)
    BY DEF AsReadInv, AsMerged
  <2>2. IsSynced(input, existingBacking, rendering.spec)
    BY <2>1, MergeIsSync, Zenon
  <2> QED
    BY <2>2, Zenon DEF SpecAsSynced, IsSynced
<1> QED
  BY <1>1, ReadInvariance, PTL
=============================================================================
