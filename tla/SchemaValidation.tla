--------------------------- MODULE SchemaValidation ---------------------------
(***************************************************************************)
(* What happens to a rendered XR and its composed resources before they    *)
(* are diffed: removeNamespacesFromClusterScopedResources of               *)
(* diffprocessor/diff_processor.go and ValidateResources of                *)
(* diffprocessor/schema_validator.go. Every step asks the schema client    *)
(* for CRDs again, and any of these look-ups may fail.                     *)
(*                                                                         *)
(* The validation library and the defaulting of the Crossplane CLI are     *)
(* external: a resource that is `odd' is invalid for a `strict' CRD.       *)
(***************************************************************************)
EXTENDS SchemaClient, FiniteSets

CONSTANTS Namespaces

Resource == [kind : Kinds, ns : Namespaces \cup {""}, odd : BOOLEAN]

VARIABLES
  resources,    \* the XR or claim, then the composed resources
  check,        \* "no", the step the validation is at, or its outcome
  at,           \* the resource the step has come to
  toEnsure,     \* kinds whose CRD is still to be ensured
  missing,      \* missingCRDs
  defaulted,    \* the resources that got the defaults of their CRD
  used,         \* history: the CRDs a kind's resources were treated by in this run
  unfound,      \* history: kinds looked up in vain for this input
  unusable      \* history: a CRD that was found could not be used

checkVars == <<resources, check, at, toEnsure, missing, defaulted, used, unfound, unusable>>

Outcomes == {"ok", "tool", "schema"}

-----------------------------------------------------------------------------
Root == resources[1]
KindsAt == {resources[i].kind : i \in DOMAIN resources}

(* One look-up, and what it contributes to the history.                    *)
Consult(k, ok) ==
  /\ GetCRD(k, ok)
  /\ used' = [used EXCEPT ![k] = IF Found(k, ok) THEN @ \cup {CRDFor(k)} ELSE @]
  /\ unfound' = IF ok /\ (k \in DOMAIN crdByName \/ clusterCRD[k] # Absent)
                THEN unfound ELSE unfound \cup {k}

CheckInit ==
  /\ resources = << >>
  /\ check = "no"
  /\ at = 1
  /\ toEnsure = {}
  /\ missing = {}
  /\ defaulted = {}
  /\ used = [k \in Kinds |-> {}]
  /\ unfound = {}
  /\ unusable = FALSE

(* The next composed resource of removeNamespacesFromClusterScoped-        *)
(* Resources; one without a namespace is left alone, one whose scope       *)
(* cannot be told fails the XR.                                            *)
Strip(ok) ==
  /\ check = "strip"
  /\ at <= Len(resources)
  /\ LET r == resources[at]
         cluster == Found(r.kind, ok) /\ CRDFor(r.kind).scope = "Cluster"
     IN IF r.ns = ""
        THEN at' = at + 1 /\ UNCHANGED <<resources, check, used, unfound, clientVars>>
        ELSE /\ Consult(r.kind, ok)
             /\ resources' = IF cluster THEN [resources EXCEPT ![at].ns = ""] ELSE resources
             /\ check' = IF Found(r.kind, ok) THEN check ELSE "tool"
             /\ at' = at + 1
  /\ UNCHANGED <<toEnsure, missing, defaulted, unusable>>

(* ValidateResources: the kinds that need a CRD, each once.                *)
BeginEnsure ==
  /\ check = "strip"
  /\ at > Len(resources)
  /\ check' = "ensure"
  /\ toEnsure' = {k \in KindsAt : CRDRequired(k)}
  /\ missing' = {}
  /\ UNCHANGED <<resources, at, defaulted, used, unfound, unusable, clientVars>>

(* In the order of a Go map, that is in any.                               *)
Ensure(k, ok) ==
  /\ check = "ensure"
  /\ k \in toEnsure
  /\ Consult(k, ok)
  /\ toEnsure' = toEnsure \ {k}
  /\ missing' = IF Found(k, ok) THEN missing ELSE missing \cup {k}
  /\ UNCHANGED <<resources, check, at, defaulted, unusable>>

(* "unable to find CRDs for", all of them together.                        *)
EndEnsure ==
  /\ check = "ensure"
  /\ toEnsure = {}
  /\ check' = IF missing = {} THEN "default" ELSE "tool"
  /\ at' = 1
  /\ UNCHANGED <<resources, toEnsure, missing, defaulted, used, unfound, unusable, clientVars>>

(* The next resource of applyCRDDefaults. A look-up that fails is skipped, *)
(* defaulting that fails is an error.                                      *)
ApplyDefaults(ok, applies) ==
  /\ check = "default"
  /\ at <= Len(resources)
  /\ at' = at + 1
  /\ LET k == resources[at].kind
     IN IF ~CRDRequired(k)
        THEN UNCHANGED <<check, defaulted, used, unfound, unusable, clientVars>>
        ELSE /\ Consult(k, ok)
             /\ defaulted' = IF Found(k, ok) /\ applies THEN defaulted \cup {at} ELSE defaulted
             /\ check' = IF Found(k, ok) /\ ~applies THEN "tool" ELSE check
             /\ unusable' = (Found(k, ok) /\ ~applies)
  /\ UNCHANGED <<resources, toEnsure, missing>>

(* The CRDs of the list for these kinds.                                   *)
Listed(k) == {crds[i].crd : i \in {j \in DOMAIN crds : crds[j].kind = k}}

(* SchemaValidate with GetAllCRDs, and ResultError: a resource without a   *)
(* schema is an error like an invalid one.                                 *)
Validate(compiles) ==
  /\ check = "default"
  /\ at > Len(resources)
  /\ check' = IF /\ compiles
                 /\ \A i \in DOMAIN resources :
                      /\ Listed(resources[i].kind) # {}
                      /\ \A crd \in Listed(resources[i].kind) : ~(resources[i].odd /\ crd.strict)
              THEN "scope" ELSE "schema"
  /\ unusable' = ~compiles
  /\ used' = [k \in Kinds |-> IF k \in KindsAt THEN used[k] \cup Listed(k) ELSE used[k]]
  /\ at' = 1
  /\ UNCHANGED <<resources, toEnsure, missing, defaulted, unfound, clientVars>>

(* Slips in ValidateScopeConstraints: namespaces are not compared; the     *)
(* claim's exception is lost.                                              *)
ScopeFitsNoClaim(r, crd) ==
  IF crd.scope = "Namespaced"
  THEN r.ns # "" /\ (Root.ns = "" \/ r.ns = Root.ns)
  ELSE r.ns = "" /\ Root.ns = ""
ScopeFitsAnyNamespace(r, crd) ==
  IF crd.scope = "Namespaced"
  THEN r.ns # ""
  ELSE r.ns = "" /\ (Root.ns = "" \/ IsClaimKind(Root.kind))

(* ValidateScopeConstraints                                                *)
ScopeFits(r, crd) ==
  IF crd.scope = "Namespaced"
  THEN r.ns # "" /\ (Root.ns = "" \/ r.ns = Root.ns)
  ELSE r.ns = "" /\ (Root.ns = "" \/ IsClaimKind(Root.kind))

(* The next resource of the loop over it; a look-up that fails counts as a *)
(* validation error.                                                       *)
ValidateScope(ok) ==
  /\ check = "scope"
  /\ at <= Len(resources)
  /\ LET r == resources[at]
     IN /\ Consult(r.kind, ok)
        /\ check' = IF Found(r.kind, ok) /\ ScopeFits(r, CRDFor(r.kind)) THEN check ELSE "schema"
  /\ at' = at + 1
  /\ UNCHANGED <<resources, toEnsure, missing, defaulted, unusable>>

EndValidation ==
  /\ check = "scope"
  /\ at > Len(resources)
  /\ check' = "ok"
  /\ UNCHANGED <<resources, at, toEnsure, missing, defaulted, used, unfound, unusable, clientVars>>

CheckStep ==
  \/ \E ok \in BOOLEAN : Strip(ok)
  \/ BeginEnsure
  \/ \E k \in Kinds, ok \in BOOLEAN : Ensure(k, ok)
  \/ EndEnsure
  \/ \E ok, applies \in BOOLEAN : ApplyDefaults(ok, applies)
  \/ \E compiles \in BOOLEAN : Validate(compiles)
  \/ \E ok \in BOOLEAN : ValidateScope(ok)
  \/ EndValidation
=============================================================================
