------------------------- MODULE RequirementsProvider -------------------------
(***************************************************************************)
(* RequirementsProvider of diffprocessor/requirements_provider.go: resolve *)
(* the selectors a pipeline asked for, from a cache shared by every XR of  *)
(* the run or from the cluster, which may change at any time.              *)
(***************************************************************************)
EXTENDS Naturals, Sequences, FiniteSets

CONSTANTS
  Kinds,            \* kinds of the resources selectors name
  NamespacedKinds,  \* those whose resources live in a namespace
  PrefetchedKind,   \* EnvironmentConfig, which Initialize caches
  Namespaces,
  Names,
  Versions,         \* what distinguishes two contents of one resource
  Absent,           \* no such resource in the cluster
  XRNamespaces,     \* namespaces of the XRs of the run, "" for a cluster-scoped one
  SelectorLists,    \* the RequiredResources a render may return
  MaxUpdates        \* bound on the changes made to the cluster

(* A resource's dt.MakeDiffKey: kind, namespace and name.                  *)
Key == {k \in [kind : Kinds, ns : Namespaces \cup {""}, name : Names] :
          k.ns = "" <=> k.kind \notin NamespacedKinds}

(* A selector matches by one name, by labels (the names of the resources   *)
(* that carry them), or in no supported way.                               *)
Selector ==
  {s \in [match : {"name", "labels", "none"}, kind : Kinds,
          ns : Namespaces \cup {""}, names : SUBSET Names] :
     s.match = "name" => \E n \in Names : s.names = {n}}

ASSUME ProviderAssumption ==
  /\ NamespacedKinds \subseteq Kinds
  /\ PrefetchedKind \in Kinds \ NamespacedKinds
  /\ "" \notin Namespaces
  /\ Absent \notin Versions
  /\ XRNamespaces \subseteq Namespaces \cup {""}
  /\ SelectorLists \subseteq Seq(Selector)
  /\ MaxUpdates \in Nat

VARIABLES
  cluster,      \* the version of every resource, or Absent
  updates,      \* how often the cluster changed
  cache,        \* resourceCache, a function from some keys to versions
  call,         \* "new" (before Initialize), "idle", "running", "ok" or "error"
  xrNamespace,  \* the namespace of the XR of the current call
  selectors,    \* the selectors of the current call
  next,         \* the position of the next one to process
  resolved,     \* allResources, the first of each key
  fetched,      \* newlyFetchedResources, the last of each key
  steady        \* history: keys in the cluster since the call began

providerVars == <<cluster, updates, cache, call, xrNamespace, selectors, next,
                  resolved, fetched, steady>>

-----------------------------------------------------------------------------
Contents == UNION {[S -> Versions] : S \in SUBSET Key}

Empty == [k \in {} |-> Absent]

(* f, and g where f is not defined.                                        *)
Over(f, g) == [k \in DOMAIN f \cup DOMAIN g |-> IF k \in DOMAIN f THEN f[k] ELSE g[k]]

Existing == {k \in Key : cluster[k] # Absent}

(* What GetResource or a list call returns for these keys.                 *)
Read(keys) == [k \in keys \cap Existing |-> cluster[k]]

(* A slip in resolveNamespace: the selector's namespace is ignored.        *)
NamespaceOfXR(sel) == IF sel.kind \in NamespacedKinds THEN xrNamespace ELSE ""

(* resolveNamespace: nothing for a cluster-scoped kind, else the           *)
(* selector's namespace, else the XR's.                                    *)
ResolvedNamespace(sel) ==
  IF sel.kind \notin NamespacedKinds THEN ""
  ELSE IF sel.ns # "" THEN sel.ns ELSE xrNamespace

(* The key a matchName selector looks up, if there can be such a resource. *)
NamedKeys(sel) ==
  {k \in Key : k.kind = sel.kind /\ k.name \in sel.names /\ k.ns = ResolvedNamespace(sel)}

(* A slip in processLabelSelector: an empty namespace means the XR's.      *)
LabelledKeysInXRNamespace(sel) ==
  {k \in Key : k.kind = sel.kind /\ k.name \in sel.names /\ k.ns = ResolvedNamespace(sel)}

(* processLabelSelector: the selector's namespace as it stands, an empty   *)
(* one or a cluster-scoped kind meaning every namespace.                   *)
LabelledKeys(sel) ==
  {k \in Key : /\ k.kind = sel.kind
               /\ k.name \in sel.names
               /\ sel.kind \in NamespacedKinds /\ sel.ns # "" => k.ns = sel.ns}

(* A slip in getCachedResource: the cache is keyed without the namespace.  *)
CachedByNameOnly(keys) ==
  LET hit == {k \in DOMAIN cache : \E j \in keys : j.kind = k.kind /\ j.name = k.name}
  IN [k \in hit |-> cache[k]]

(* getCachedResource                                                       *)
Cached(keys) == [k \in keys \cap DOMAIN cache |-> cache[k]]

(* processNameSelector: the cached resource, else the one of the cluster,  *)
(* else nothing (an unmet requirement is no error).                        *)
NameSelection(sel) ==
  LET hit == Cached(NamedKeys(sel))
  IN IF hit # Empty THEN [found |-> hit, fetched |-> Empty]
     ELSE [found |-> Read(NamedKeys(sel)), fetched |-> Read(NamedKeys(sel))]

(* Labels are always listed afresh.                                        *)
LabelSelection(sel) ==
  [found |-> Read(LabelledKeys(sel)), fetched |-> Read(LabelledKeys(sel))]

(* processSelector                                                         *)
Selection(sel) ==
  CASE sel.match = "name"   -> NameSelection(sel)
    [] sel.match = "labels" -> LabelSelection(sel)
    [] OTHER                -> [found |-> Empty, fetched |-> Empty]

-----------------------------------------------------------------------------
ProviderInit ==
  /\ cluster \in [Key -> Versions \cup {Absent}]
  /\ updates = 0
  /\ cache = Empty
  /\ call = "new"
  /\ xrNamespace \in XRNamespaces
  /\ selectors = <<>>
  /\ next = 1
  /\ resolved = Empty
  /\ fetched = Empty
  /\ steady = {}

(* Initialize: cache every EnvironmentConfig of the cluster.               *)
Prefetch ==
  /\ call = "new"
  /\ call' = "idle"
  /\ cache' = Over(Read({k \in Key : k.kind = PrefetchedKind}), cache)
  /\ UNCHANGED <<cluster, updates, xrNamespace, selectors, next, resolved, fetched, steady>>

(* ResolveSelectors is called for an XR of this namespace.                 *)
BeginResolve(list, ns) ==
  /\ call \in {"idle", "ok", "error"}
  /\ call' = "running"
  /\ xrNamespace' = ns
  /\ selectors' = list
  /\ next' = 1
  /\ resolved' = Empty
  /\ fetched' = Empty
  /\ steady' = Existing
  /\ UNCHANGED <<cluster, updates, cache>>

(* One selector, one read of the cache or of the cluster.                  *)
ProcessSelector ==
  /\ call = "running"
  /\ next <= Len(selectors)
  /\ LET selection == Selection(selectors[next])
     IN /\ resolved' = Over(resolved, selection.found)
        /\ fetched' = Over(selection.fetched, fetched)
  /\ next' = next + 1
  /\ UNCHANGED <<cluster, updates, cache, call, xrNamespace, selectors, steady>>

(* The scope lookup or the read failed (a missing name is not a failure):  *)
(* the call fails and what it fetched is not cached.                       *)
SelectorFails ==
  /\ call = "running"
  /\ next <= Len(selectors)
  /\ selectors[next].match # "none"
  /\ call' = "error"
  /\ resolved' = Empty
  /\ fetched' = Empty
  /\ UNCHANGED <<cluster, updates, cache, xrNamespace, selectors, next, steady>>

(* Slips in cacheResources: the map is replaced; nothing is stored.        *)
CacheReplaced(newly) == newly
CacheForgotten(newly) == cache

(* cacheResources: the newly fetched replace what was cached.              *)
CachedAfter(newly) == Over(newly, cache)

FinishResolve ==
  /\ call = "running"
  /\ next > Len(selectors)
  /\ call' = "ok"
  /\ cache' = CachedAfter(fetched)
  /\ UNCHANGED <<cluster, updates, xrNamespace, selectors, next, resolved, fetched, steady>>

(* Somebody creates, changes or deletes a resource of the cluster.         *)
ClusterChanges(k, v) ==
  /\ updates < MaxUpdates
  /\ v # cluster[k]
  /\ cluster' = [cluster EXCEPT ![k] = v]
  /\ updates' = updates + 1
  /\ steady' = IF v = Absent THEN steady \ {k} ELSE steady
  /\ UNCHANGED <<cache, call, xrNamespace, selectors, next, resolved, fetched>>

ProviderStep == Prefetch \/ ProcessSelector \/ SelectorFails \/ FinishResolve

ClusterStep == \E k \in Key, v \in Versions \cup {Absent} : ClusterChanges(k, v)

ProviderNext ==
  \/ ProviderStep
  \/ ClusterStep
  \/ \E list \in SelectorLists \ {<<>>}, ns \in XRNamespaces : BeginResolve(list, ns)

ProviderSpec == ProviderInit /\ [][ProviderNext]_providerVars

-----------------------------------------------------------------------------
ProviderTypeOK ==
  /\ cluster \in [Key -> Versions \cup {Absent}]
  /\ updates \in 0 .. MaxUpdates
  /\ cache \in Contents
  /\ call \in {"new", "idle", "running", "ok", "error"}
  /\ xrNamespace \in XRNamespaces
  /\ selectors \in SelectorLists \cup {<<>>}
  /\ next \in 1 .. Len(selectors) + 1
  /\ resolved \in Contents
  /\ fetched \in Contents
  /\ steady \subseteq Existing

(* What a requirement asks for, as upstream Crossplane reads it: a name in *)
(* the namespace the selector gives or else the XR's; labels in the        *)
(* namespace the selector gives or else in all; no namespace at all for a  *)
(* cluster-scoped kind.                                                    *)
AsksFor(sel, k) ==
  /\ sel.match # "none"
  /\ k.kind = sel.kind
  /\ k.name \in sel.names
  /\ sel.kind \in NamespacedKinds =>
       \/ k.ns = sel.ns
       \/ sel.ns = "" /\ sel.match = "name" /\ k.ns = xrNamespace
       \/ sel.ns = "" /\ sel.match = "labels"

(* ResolveSelectors hands a pipeline only resources one of its selectors   *)
(* asks for, although the cache holds those of other XRs and namespaces.   *)
ResolvedWasAskedFor ==
  \A k \in DOMAIN resolved : \E i \in 1 .. next - 1 : AsksFor(selectors[i], k)

(* And all of them: whatever a selector asks for and stayed in the cluster *)
(* for the whole call is in the result, from every namespace if need be.   *)
ResolvedIsComplete ==
  call = "ok" =>
    \A i \in 1 .. Len(selectors) : \A k \in steady :
      AsksFor(selectors[i], k) => k \in DOMAIN resolved

(* Every resource a successful call fetched is what later calls find in    *)
(* the cache, and so is everything it was served from the cache: a name    *)
(* resolved once is never "not found" again in the same run.               *)
ResolvedStaysCached == call = "ok" => DOMAIN resolved \subseteq DOMAIN cache

(* A call that fails leaves no trace in the cache, whatever it had fetched *)
(* before, and no step of the provider ever forgets a cached resource.     *)
FailedCallLeavesCache ==
  [][/\ DOMAIN cache \subseteq DOMAIN cache'
     /\ call = "running" /\ call' # "ok" => cache' = cache]_providerVars
=============================================================================
