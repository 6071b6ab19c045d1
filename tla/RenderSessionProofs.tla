------------------------- MODULE RenderSessionProofs -------------------------
(***************************************************************************)
(* Proofs about RequirementsProvider and about RenderSession, for any      *)
(* selectors, any cluster and any number of XRs.                           *)
(*                                                                         *)
(* First the provider alone: what a call hands to a pipeline is what was   *)
(* asked for, all of it and nothing else, and the cache only grows,        *)
(* whatever the cluster does. Only the domains of the maps matter to it.   *)
(* Then the render loop that resolves requirements from the shared cache   *)
(* and a changing cluster: it implements RenderLoop, and what it supplied  *)
(* once stays as it was supplied.                                          *)
(***************************************************************************)
EXTENDS RenderSession, SequenceTheorems, TLAPS

(* The selectors of a call and the place in them.                          *)
CallInv ==
  /\ selectors \in Seq(Selector)
  /\ next \in 1 .. Len(selectors) + 1
  /\ call = "ok" => next = Len(selectors) + 1
  /\ steady \subseteq Existing

(* What was found so far, against the selectors processed and the cache    *)
(* as it will be when the call succeeds.                                   *)
FoundInv ==
  /\ ResolvedWasAskedFor
  /\ call \in {"running", "ok"} =>
       \A i \in 1 .. next - 1 : \A k \in steady :
         AsksFor(selectors[i], k) => k \in DOMAIN resolved
  /\ call = "running" => DOMAIN resolved \subseteq DOMAIN cache \cup DOMAIN fetched
  /\ ResolvedStaysCached

ProviderInv == CallInv /\ FoundInv

-----------------------------------------------------------------------------
LEMMA OverDomain ==
  ASSUME NEW f, NEW g
  PROVE  DOMAIN Over(f, g) = DOMAIN f \cup DOMAIN g
BY DEF Over

LEMMA EmptyDomain == DOMAIN Empty = {}
BY DEF Empty

LEMMA ReadDomain ==
  ASSUME NEW keys
  PROVE  DOMAIN Read(keys) = keys \cap Existing
BY DEF Read

(* A selector's keys are those it asks for.                                *)
LEMMA KeysAreAskedFor ==
  ASSUME NEW sel \in Selector, NEW k \in Key
  PROVE  /\ sel.match = "name" => (k \in NamedKeys(sel) <=> AsksFor(sel, k))
         /\ sel.match = "labels" => (k \in LabelledKeys(sel) <=> AsksFor(sel, k))
         /\ sel.match = "none" => ~AsksFor(sel, k)
<1>1. k.ns = "" <=> k.kind \notin NamespacedKinds
  BY DEF Key
<1>2. CASE sel.match = "name"
  <2>1. k \in NamedKeys(sel) <=>
          k.kind = sel.kind /\ k.name \in sel.names /\ k.ns = ResolvedNamespace(sel)
    BY DEF NamedKeys
  <2>2. CASE sel.kind \notin NamespacedKinds
    BY <1>1, <1>2, <2>1, <2>2 DEF ResolvedNamespace, AsksFor
  <2>3. CASE sel.kind \in NamespacedKinds /\ sel.ns = ""
    BY <1>1, <1>2, <2>1, <2>3 DEF ResolvedNamespace, AsksFor
  <2>4. CASE sel.kind \in NamespacedKinds /\ sel.ns # ""
    BY <1>1, <1>2, <2>1, <2>4 DEF ResolvedNamespace, AsksFor
  <2> QED
    BY <2>2, <2>3, <2>4
<1>3. CASE sel.match = "labels"
  BY <1>1, <1>3 DEF LabelledKeys, AsksFor
<1>4. CASE sel.match = "none"
  BY <1>4 DEF AsksFor
<1>5. sel.match \in {"name", "labels", "none"}
  BY DEF Selector
<1> QED
  BY <1>2, <1>3, <1>4, <1>5

(* A name has one key, so that the cache holds all of it or nothing.       *)
LEMMA NamedOnce ==
  ASSUME NEW sel, NEW n, sel.names = {n}, NEW j \in NamedKeys(sel), NEW k \in NamedKeys(sel)
  PROVE  j = k
<1>1. /\ j = [kind |-> j.kind, ns |-> j.ns, name |-> j.name]
      /\ k = [kind |-> k.kind, ns |-> k.ns, name |-> k.name]
  BY DEF NamedKeys, Key
<1>2. j.kind = k.kind /\ j.ns = k.ns /\ j.name = k.name
  BY DEF NamedKeys
<1> QED
  BY <1>1, <1>2

(* The fields of a selection.                                              *)
LEMMA Fields ==
  ASSUME NEW a, NEW b, NEW s, s = [found |-> a, fetched |-> b]
  PROVE  s.found = a /\ s.fetched = b
OBVIOUS

(* What one selector adds.                                                 *)
LEMMA SelectionIsExact ==
  ASSUME NEW sel \in Selector
  PROVE  /\ \A k \in DOMAIN Selection(sel).found : AsksFor(sel, k)
         /\ \A k \in Existing : AsksFor(sel, k) => k \in DOMAIN Selection(sel).found
         /\ DOMAIN Selection(sel).found \subseteq DOMAIN cache \cup DOMAIN Selection(sel).fetched
<1> DEFINE Keys == IF sel.match = "name" THEN NamedKeys(sel) ELSE LabelledKeys(sel)
<1>1. /\ Existing \subseteq Key
      /\ NamedKeys(sel) \subseteq Key
      /\ LabelledKeys(sel) \subseteq Key
  BY DEF Existing, NamedKeys, LabelledKeys
<1>2. ASSUME Selection(sel).found = Read(Keys), Selection(sel).fetched = Read(Keys),
             sel.match \in {"name", "labels"}
      PROVE  /\ \A k \in DOMAIN Selection(sel).found : AsksFor(sel, k)
             /\ \A k \in Existing : AsksFor(sel, k) => k \in DOMAIN Selection(sel).found
             /\ DOMAIN Selection(sel).found \subseteq DOMAIN cache \cup DOMAIN Selection(sel).fetched
  <2>1. DOMAIN Selection(sel).found = Keys \cap Existing
    BY <1>2, ReadDomain
  <2>2. \A k \in Key : k \in Keys <=> AsksFor(sel, k)
    BY <1>2, KeysAreAskedFor
  <2> QED
    BY <1>1, <1>2, <2>1, <2>2
<1>3. CASE sel.match = "name"
  <2> DEFINE hit == Cached(NamedKeys(sel))
  <2>1. DOMAIN hit = NamedKeys(sel) \cap DOMAIN cache
    BY DEF Cached
  <2>2. Selection(sel) = NameSelection(sel)
    BY <1>3 DEF Selection
  <2> HIDE DEF hit
  <2>3. CASE hit # Empty
    <3>1. Selection(sel) = [found |-> hit, fetched |-> Empty]
      BY <2>2, <2>3 DEF NameSelection, hit
    <3>2. [found |-> hit, fetched |-> Empty].found = hit
      OBVIOUS
    <3>3. Selection(sel).found = hit
      BY <3>1, <3>2, Zenon
    <3>4. PICK j \in NamedKeys(sel) : j \in DOMAIN cache
      <4>1. CASE NamedKeys(sel) \cap DOMAIN cache = {}
        <5>1. hit = Empty
          BY <4>1 DEF Cached, Empty, hit
        <5> QED
          BY <2>3, <5>1
      <4> QED
        BY <4>1
    <3>5. \A k \in NamedKeys(sel) : k = j
      <4>1. PICK n \in Names : sel.names = {n}
        BY <1>3 DEF Selector
      <4> QED
        BY <4>1, NamedOnce
    <3>6. \A k \in Key : k \in NamedKeys(sel) <=> AsksFor(sel, k)
      BY <1>3, KeysAreAskedFor
    <3> QED
      BY <1>1, <2>1, <3>3, <3>4, <3>5, <3>6
  <2>4. CASE hit = Empty
    <3>1. Selection(sel) = [found |-> Read(NamedKeys(sel)), fetched |-> Read(NamedKeys(sel))]
      BY <2>2, <2>4 DEF NameSelection, hit
    <3>2. /\ Selection(sel).found = Read(NamedKeys(sel))
          /\ Selection(sel).fetched = Read(NamedKeys(sel))
      BY <3>1, Fields
    <3> QED
      BY <1>2, <1>3, <3>2
  <2> QED
    BY <2>3, <2>4
<1>4. CASE sel.match = "labels"
  <2>1. Selection(sel) = [found |-> Read(LabelledKeys(sel)), fetched |-> Read(LabelledKeys(sel))]
    BY <1>4 DEF Selection, LabelSelection
  <2>2. /\ Selection(sel).found = Read(LabelledKeys(sel))
        /\ Selection(sel).fetched = Read(LabelledKeys(sel))
    BY <2>1, Fields
  <2> QED
    BY <1>2, <1>4, <2>2
<1>5. CASE sel.match = "none"
  <2>1. Selection(sel) = [found |-> Empty, fetched |-> Empty]
    BY <1>5 DEF Selection
  <2>2. Selection(sel).found = Empty
    BY <2>1, Fields
  <2>3. \A k \in Key : ~AsksFor(sel, k)
    BY <1>5, KeysAreAskedFor
  <2> QED
    BY <1>1, <2>2, <2>3, EmptyDomain
<1> QED
  BY <1>3, <1>4, <1>5 DEF Selector

-----------------------------------------------------------------------------
LEMMA InvInit == ProviderInit => ProviderInv
<1> SUFFICES ASSUME ProviderInit
             PROVE  ProviderInv
  OBVIOUS
<1>1. selectors = << >> /\ next = 1 /\ call = "new" /\ steady = {}
  BY DEF ProviderInit
<1>2. CallInv
  BY <1>1 DEF CallInv
<1>3. FoundInv
  BY <1>1, EmptyDomain DEF ProviderInit, FoundInv, ResolvedWasAskedFor, ResolvedStaysCached
<1> QED
  BY <1>2, <1>3 DEF ProviderInv

(* A selector asks for the same things as long as the XR is the same.      *)
LEMMA AskedStays ==
  ASSUME UNCHANGED <<xrNamespace, selectors>>
  PROVE  \A i, k : AsksFor(selectors[i], k)' <=> AsksFor(selectors[i], k)
BY DEF AsksFor

LEMMA InvPrefetch == ProviderInv /\ Prefetch => ProviderInv'
<1> SUFFICES ASSUME ProviderInv, Prefetch
             PROVE  ProviderInv'
  OBVIOUS
<1>1. \A i, k : AsksFor(selectors[i], k)' <=> AsksFor(selectors[i], k)
  BY AskedStays DEF Prefetch
<1>2. CallInv'
  BY DEF ProviderInv, CallInv, Prefetch, Existing
<1>3. FoundInv'
  BY <1>1 DEF ProviderInv, FoundInv, ResolvedWasAskedFor, ResolvedStaysCached, Prefetch
<1> QED
  BY <1>2, <1>3 DEF ProviderInv

LEMMA InvBegin ==
  ASSUME ProviderInv,
         NEW list \in SelectorLists, NEW ns \in XRNamespaces, BeginResolve(list, ns)
  PROVE  ProviderInv'
<1>1. /\ call' = "running" /\ selectors' = list /\ next' = 1
      /\ steady' = Existing /\ resolved' = Empty /\ UNCHANGED cluster
  BY DEF BeginResolve
<1>2. list \in Seq(Selector)
  BY ProviderAssumption DEF ProviderAssumption
<1>3. Len(list) \in Nat
  BY <1>2, LenProperties
<1>4. steady' \subseteq Existing'
  BY <1>1 DEF Existing
<1>5. CallInv'
  <2>1. selectors' \in Seq(Selector) /\ next' \in 1 .. Len(selectors') + 1
    BY <1>1, <1>2, <1>3
  <2> QED
    BY <1>1, <1>2, <1>4, <2>1 DEF CallInv
<1>6. DOMAIN resolved' = {}
  BY <1>1, EmptyDomain
<1>7. FoundInv'
  BY <1>1, <1>6 DEF FoundInv, ResolvedWasAskedFor, ResolvedStaysCached
<1> QED
  BY <1>5, <1>7 DEF ProviderInv

LEMMA InvProcess == ProviderInv /\ ProcessSelector => ProviderInv'
<1> SUFFICES ASSUME ProviderInv, ProcessSelector
             PROVE  ProviderInv'
  OBVIOUS
<1>1. selectors \in Seq(Selector) /\ next \in 1 .. Len(selectors) + 1
  BY DEF ProviderInv, CallInv
<1>2. Len(selectors) \in Nat /\ DOMAIN selectors = 1 .. Len(selectors)
  BY <1>1, LenProperties
<1>3. next \in Nat /\ next >= 1
  BY <1>1, <1>2
<1>4. /\ call = "running" /\ next \in 1 .. Len(selectors) /\ next' = next + 1
      /\ UNCHANGED <<cluster, cache, call, xrNamespace, selectors, steady>>
  BY <1>3, <1>2 DEF ProcessSelector
<1> DEFINE sel == selectors[next]
           found == Selection(sel).found
           new == Selection(sel).fetched
<1>5. /\ DOMAIN resolved' = DOMAIN resolved \cup DOMAIN found
      /\ DOMAIN fetched' = DOMAIN new \cup DOMAIN fetched
  BY OverDomain DEF ProcessSelector
<1>6. sel \in Selector
  BY <1>2, <1>4, <1>1 DEF ProviderInv, CallInv
<1>7. /\ \A k \in DOMAIN found : AsksFor(sel, k)
      /\ \A k \in Existing : AsksFor(sel, k) => k \in DOMAIN found
      /\ DOMAIN found \subseteq DOMAIN cache \cup DOMAIN new
  BY <1>6, SelectionIsExact
<1> HIDE DEF sel, found, new
<1>8. \A i, k : AsksFor(selectors[i], k)' <=> AsksFor(selectors[i], k)
  BY <1>4, AskedStays
<1>9. CallInv'
  BY <1>4 DEF ProviderInv, CallInv, Existing
<1>10. ResolvedWasAskedFor'
  <2> SUFFICES ASSUME NEW k \in DOMAIN resolved'
               PROVE  \E i \in 1 .. next' - 1 : AsksFor(selectors[i], k)'
    BY DEF ResolvedWasAskedFor
  <2>1. CASE k \in DOMAIN resolved
    <3>1. PICK i \in 1 .. next - 1 : AsksFor(selectors[i], k)
      BY <2>1 DEF ProviderInv, FoundInv, ResolvedWasAskedFor
    <3>2. i \in 1 .. next' - 1
      BY <1>4, <1>3, <3>1
    <3>3. AsksFor(selectors[i], k)'
      BY <1>8, <3>1
    <3> QED
      BY <3>2, <3>3
  <2>2. CASE k \in DOMAIN found
    <3>1. next \in 1 .. next' - 1
      BY <1>4, <1>3
    <3>2. AsksFor(selectors[next], k)
      BY <1>7, <2>2 DEF sel
    <3>3. \A i : i = next => AsksFor(selectors[i], k)'
      BY <1>8, <3>2
    <3> QED
      BY <3>1, <3>3
  <2> QED
    BY <1>5, <2>1, <2>2
<1>11. ASSUME NEW i \in 1 .. next' - 1, NEW k \in steady', AsksFor(selectors[i], k)'
      PROVE  k \in DOMAIN resolved'
  <2>1. AsksFor(selectors[i], k) /\ k \in steady /\ steady \subseteq Existing
    BY <1>4, <1>8, <1>11 DEF ProviderInv, CallInv
  <2>2. CASE i = next
    BY <1>5, <1>7, <2>1, <2>2 DEF sel
  <2>3. CASE i \in 1 .. next - 1
    BY <1>4, <1>5, <2>1, <2>3 DEF ProviderInv, FoundInv
  <2> QED
    BY <1>4, <2>2, <2>3
<1>12. DOMAIN resolved' \subseteq DOMAIN cache' \cup DOMAIN fetched'
  BY <1>4, <1>5, <1>7 DEF ProviderInv, FoundInv
<1> QED
  BY <1>4, <1>9, <1>10, <1>11, <1>12 DEF ProviderInv, FoundInv, ResolvedStaysCached

LEMMA InvFails == ProviderInv /\ SelectorFails => ProviderInv'
<1> SUFFICES ASSUME ProviderInv, SelectorFails
             PROVE  ProviderInv'
  OBVIOUS
<1>1. CallInv'
  BY DEF ProviderInv, CallInv, SelectorFails, Existing
<1>2. FoundInv'
  BY EmptyDomain DEF SelectorFails, FoundInv, ResolvedWasAskedFor, ResolvedStaysCached
<1> QED
  BY <1>1, <1>2 DEF ProviderInv

LEMMA InvFinish == ProviderInv /\ FinishResolve => ProviderInv'
<1> SUFFICES ASSUME ProviderInv, FinishResolve
             PROVE  ProviderInv'
  OBVIOUS
<1>1. DOMAIN cache' = DOMAIN fetched \cup DOMAIN cache
  BY OverDomain DEF FinishResolve, CachedAfter
<1>2. \A i, k : AsksFor(selectors[i], k)' <=> AsksFor(selectors[i], k)
  BY AskedStays DEF FinishResolve
<1>3. CallInv'
  BY DEF ProviderInv, CallInv, FinishResolve, Existing
<1>4. FoundInv'
  BY <1>1, <1>2 DEF ProviderInv, FoundInv, ResolvedWasAskedFor, ResolvedStaysCached, FinishResolve
<1> QED
  BY <1>3, <1>4 DEF ProviderInv

LEMMA InvCluster == ProviderInv /\ ClusterStep => ProviderInv'
<1> SUFFICES ASSUME ProviderInv,
                    NEW k \in Key, NEW v \in Versions \cup {Absent}, ClusterChanges(k, v)
             PROVE  ProviderInv'
  BY DEF ClusterStep
<1>1. /\ UNCHANGED <<cache, call, xrNamespace, selectors, next, resolved, fetched>>
      /\ steady' \subseteq steady
  BY DEF ClusterChanges
<1>2. steady' \subseteq Existing'
  <2>1. steady \subseteq Key /\ \A j \in steady : cluster[j] # Absent
    BY DEF ProviderInv, CallInv, Existing
  <2>2. \A j \in steady' : j \in Key /\ cluster'[j] # Absent
    BY <2>1 DEF ClusterChanges
  <2> QED
    BY <2>2 DEF Existing
<1>3. \A i, j : AsksFor(selectors[i], j)' <=> AsksFor(selectors[i], j)
  BY <1>1, AskedStays
<1>4. CallInv'
  BY <1>1, <1>2 DEF ProviderInv, CallInv
<1>5. FoundInv'
  BY <1>1, <1>3 DEF ProviderInv, FoundInv, ResolvedWasAskedFor, ResolvedStaysCached
<1> QED
  BY <1>4, <1>5 DEF ProviderInv

LEMMA InvStep == ProviderInv /\ [ProviderNext]_providerVars => ProviderInv'
<1> SUFFICES ASSUME ProviderInv, [ProviderNext]_providerVars
             PROVE  ProviderInv'
  OBVIOUS
<1>1. CASE ProviderStep
  BY <1>1, InvPrefetch, InvProcess, InvFails, InvFinish DEF ProviderStep
<1>2. CASE ClusterStep
  BY <1>2, InvCluster
<1>3. CASE \E list \in SelectorLists \ {<<>>}, ns \in XRNamespaces : BeginResolve(list, ns)
  BY <1>3, InvBegin
<1>4. CASE UNCHANGED providerVars
  <2>1. \A i, k : AsksFor(selectors[i], k)' <=> AsksFor(selectors[i], k)
    BY <1>4, AskedStays DEF providerVars
  <2>2. CallInv'
    BY <1>4 DEF ProviderInv, CallInv, Existing, providerVars
  <2>3. FoundInv'
    BY <1>4, <2>1
       DEF ProviderInv, FoundInv, ResolvedWasAskedFor, ResolvedStaysCached, providerVars
  <2> QED
    BY <2>2, <2>3 DEF ProviderInv
<1> QED
  BY <1>1, <1>2, <1>3, <1>4 DEF ProviderNext

-----------------------------------------------------------------------------
(* The inductive invariant: how far the call is, and what was found so     *)
(* far, against the selectors processed and the cache.                     *)
THEOREM ProviderInvariance == ProviderSpec => []ProviderInv
BY InvInit, InvStep, PTL DEF ProviderSpec

(* ResolveSelectors hands a pipeline only resources one of its selectors   *)
(* asks for, whatever the cache holds of other XRs and namespaces.         *)
THEOREM OnlyWhatWasAskedFor == ProviderSpec => []ResolvedWasAskedFor
<1>1. ProviderInv => ResolvedWasAskedFor
  BY DEF ProviderInv, FoundInv
<1> QED
  BY <1>1, ProviderInvariance, PTL

(* A successful call misses nothing that is asked for and was in the       *)
(* cluster from its beginning to its end.                                  *)
THEOREM AllThatWasAskedFor == ProviderSpec => []ResolvedIsComplete
<1>1. ProviderInv => ResolvedIsComplete
  BY DEF ProviderInv, CallInv, FoundInv, ResolvedIsComplete
<1> QED
  BY <1>1, ProviderInvariance, PTL

(* What a call that succeeded returned is in the cache from then on.       *)
THEOREM StaysCached == ProviderSpec => []ResolvedStaysCached
<1>1. ProviderInv => ResolvedStaysCached
  BY DEF ProviderInv, FoundInv
<1> QED
  BY <1>1, ProviderInvariance, PTL

(* No step forgets a cached resource, and a call that does not succeed     *)
(* changes nothing in the cache of the run.                                *)
THEOREM FailureLeavesNoTrace == ProviderSpec => FailedCallLeavesCache
<1>1. [ProviderNext]_providerVars =>
        /\ DOMAIN cache \subseteq DOMAIN cache'
        /\ call = "running" /\ call' # "ok" => cache' = cache
  <2> SUFFICES ASSUME [ProviderNext]_providerVars
               PROVE  /\ DOMAIN cache \subseteq DOMAIN cache'
                      /\ call = "running" /\ call' # "ok" => cache' = cache
    OBVIOUS
  <2>1. CASE Prefetch
    BY <2>1, OverDomain DEF Prefetch
  <2>2. CASE FinishResolve
    BY <2>2, OverDomain DEF FinishResolve, CachedAfter
  <2>3. CASE UNCHANGED cache
    BY <2>3
  <2> QED
    BY <2>1, <2>2, <2>3 DEF ProviderNext, ProviderStep, ClusterStep, ProcessSelector,
       SelectorFails, ClusterChanges, BeginResolve, providerVars
<1> QED
  BY <1>1, PTL DEF ProviderSpec, FailedCallLeavesCache
-----------------------------------------------------------------------------
(* The provider works for the loop only while the loop waits for it, and   *)
(* has found nothing when nothing was asked.                               *)
SessionInv ==
  /\ DOMAIN resolved \subseteq Key
  /\ call = "running" => pc = "resolve" /\ output.selectors
  /\ pc = "resolve" /\ ~output.selectors => DOMAIN resolved = {}

-----------------------------------------------------------------------------
LEMMA SelectionOfKeys ==
  ASSUME NEW sel
  PROVE  DOMAIN Selection(sel).found \subseteq Key
<1>1. NamedKeys(sel) \subseteq Key /\ LabelledKeys(sel) \subseteq Key
  BY DEF NamedKeys, LabelledKeys
<1>2. DOMAIN Cached(NamedKeys(sel)) \subseteq Key
  BY <1>1 DEF Cached
<1>3. DOMAIN Read(NamedKeys(sel)) \subseteq Key /\ DOMAIN Read(LabelledKeys(sel)) \subseteq Key
  BY <1>1, ReadDomain
<1> DEFINE found == Selection(sel).found
<1>4. found \in {Cached(NamedKeys(sel)), Read(NamedKeys(sel)), Read(LabelledKeys(sel)), Empty}
  BY DEF Selection, NameSelection, LabelSelection
<1> HIDE DEF found
<1>5. DOMAIN found \subseteq Key
  BY <1>2, <1>3, <1>4, EmptyDomain
<1> QED
  BY <1>5 DEF found

LEMMA SessionInvInit == SessionInit => SessionInv
BY EmptyDomain DEF SessionInit, ProviderInit, Loop!Init, SessionInv

(* The steps of the loop after the requirements are resolved, and a new    *)
(* call: whatever they do, the loop then waits for nothing.                *)
LEMMA LoopGoesOn ==
  ASSUME SessionInv, pc # "resolve", pc' # "resolve", call' = call,
         DOMAIN resolved' \subseteq DOMAIN resolved
  PROVE  SessionInv'
BY DEF SessionInv

LEMMA SessionInvStep == SessionInv /\ [SessionNext]_sessionVars => SessionInv'
<1> SUFFICES ASSUME SessionInv, [SessionNext]_sessionVars
             PROVE  SessionInv'
  OBVIOUS
<1>1. CASE Initialize
  BY <1>1 DEF Initialize, Prefetch, loopVars, SessionInv
<1>2. ASSUME NEW list \in SelectorLists \cup {<<>>}, NEW composed \in SUBSET Composed,
             NEW err \in BOOLEAN, RenderOnce(list, composed, err)
      PROVE  SessionInv'
  <2> DEFINE out == [composed |-> composed, selectors |-> list # <<>>, err |-> err]
  <2>1. out.selectors = (list # <<>>)
    OBVIOUS
  <2>2. pc = "render" /\ pc' = "resolve" /\ output' = out
    BY <1>2 DEF RenderOnce, Loop!Render
  <2> HIDE DEF out
  <2>3. output'.selectors = (list # <<>>)
    BY <2>1, <2>2, Zenon
  <2>4. resolved' = Empty
    BY <1>2 DEF RenderOnce, BeginResolve
  <2>5. CASE list = <<>>
    <3>1. call' = call
      BY <1>2, <2>5 DEF RenderOnce
    <3> QED
      BY <2>2, <2>4, <3>1, EmptyDomain DEF SessionInv
  <2>6. CASE list # <<>>
    BY <2>2, <2>3, <2>4, <2>6, EmptyDomain DEF SessionInv
  <2> QED
    BY <2>5, <2>6
<1>3. CASE ResolveOne
  <2>1. /\ call = "running" /\ call' = call /\ UNCHANGED <<pc, output>>
        /\ resolved' = Over(resolved, Selection(selectors[next]).found)
    BY <1>3 DEF ResolveOne, ProcessSelector, loopVars
  <2>2. DOMAIN resolved' \subseteq Key
    BY <2>1, OverDomain, SelectionOfKeys DEF SessionInv
  <2> QED
    BY <2>1, <2>2 DEF SessionInv
<1>4. CASE ResolveAll
  <2>1. pc' = "check" /\ UNCHANGED <<output, resolved>>
    BY <1>4 DEF ResolveAll, FinishResolve, providerVars
  <2>2. call' # "running"
    BY <1>4 DEF ResolveAll, FinishResolve, providerVars, SessionInv
  <2> QED
    BY <2>1, <2>2 DEF SessionInv
<1>5. CASE ResolveError
  <2>1. pc' = "failed" /\ call' = "error" /\ resolved' = Empty
    BY <1>5 DEF ResolveError, SelectorFails, Loop!ResolveFails, Loop!Fail
  <2> QED
    BY <2>1, EmptyDomain DEF SessionInv
<1>6. CASE EndIteration
  <2>1. call' = call /\ resolved' = resolved
    BY <1>6 DEF EndIteration, providerVars
  <2>2. pc # "resolve" /\ pc' # "resolve"
    BY <1>6 DEF EndIteration, Loop!RenderFails, Loop!RetryAfterError, Loop!ReachStable,
       Loop!Continue, Loop!SynthesisFails, Loop!Exhaust, Loop!Fail, Loop!NextIteration
  <2> QED
    BY <2>1, <2>2, LoopGoesOn
<1>7. ASSUME NEW ns \in XRNamespaces, NextXR(ns)
      PROVE  SessionInv'
  <2>1. call' = call /\ DOMAIN resolved' = {}
    BY <1>7, EmptyDomain DEF NextXR
  <2>2. pc # "resolve" /\ pc' # "resolve"
    BY <1>7 DEF NextXR, Loop!NewCall
  <2> QED
    BY <2>1, <2>2, LoopGoesOn
<1>8. CASE ClusterStep /\ UNCHANGED <<loopVars, required>>
  BY <1>8 DEF ClusterStep, ClusterChanges, loopVars, SessionInv
<1>9. CASE UNCHANGED sessionVars
  BY <1>9 DEF sessionVars, loopVars, providerVars, SessionInv
<1> QED
  BY <1>1, <1>2, <1>3, <1>4, <1>5, <1>6, <1>7, <1>8, <1>9 DEF SessionNext, SessionStep

-----------------------------------------------------------------------------
LEMMA InitRefines == SessionInit => Loop!Init
BY DEF SessionInit

LEMMA StepRefines == SessionInv /\ [SessionNext]_sessionVars => [Loop!Next]_(Loop!vars)
<1> SUFFICES ASSUME SessionInv, [SessionNext]_sessionVars
             PROVE  Loop!Next \/ UNCHANGED Loop!vars
  OBVIOUS
<1>1. ASSUME UNCHANGED <<loopVars, required, resolved>>
      PROVE  UNCHANGED Loop!vars
  BY <1>1 DEF loopVars, Loop!vars
<1>2. CASE Initialize
  BY <1>1, <1>2 DEF Initialize, Prefetch
<1>3. ASSUME NEW list \in SelectorLists \cup {<<>>}, NEW composed \in SUBSET Composed,
             NEW err \in BOOLEAN, RenderOnce(list, composed, err)
      PROVE  Loop!Next
  <2> DEFINE out == [composed |-> composed, selectors |-> list # <<>>, err |-> err]
  <2>1. out \in Loop!Outputs
    BY DEF Loop!Outputs
  <2>2. Loop!Render(out)
    BY <1>3 DEF RenderOnce
  <2> QED
    BY <2>1, <2>2 DEF Loop!Next, Loop!LoopStep
<1>4. CASE ResolveOne
  <2>1. pc = "resolve" /\ pc' = "resolve"
    BY <1>4 DEF ResolveOne, ProcessSelector, SessionInv, loopVars
  <2> QED
    BY <1>4, <2>1 DEF ResolveOne, loopVars, Loop!vars
<1>5. CASE ResolveAll
  <2>1. DOMAIN required' = DOMAIN required \cup DOMAIN resolved
    BY <1>5, OverDomain DEF ResolveAll, Supplied
  <2>2. resolved' = resolved
    BY <1>5 DEF ResolveAll, FinishResolve, providerVars
  <2>3. output.selectors \/ DOMAIN resolved = {}
    BY <1>5 DEF ResolveAll, SessionInv
  <2>4. Loop!Resolve(DOMAIN resolved)
    BY <1>5, <2>1, <2>2, <2>3 DEF ResolveAll, NewRequirements, Loop!Resolve, Loop!Unseen
  <2> QED
    BY <2>4 DEF SessionInv, Loop!Next, Loop!LoopStep
<1>6. CASE ResolveError
  BY <1>6 DEF ResolveError, Loop!Next, Loop!LoopStep
<1>7. CASE EndIteration
  BY <1>7 DEF EndIteration, Loop!Next, Loop!LoopStep
<1>8. ASSUME NEW ns \in XRNamespaces, NextXR(ns)
      PROVE  Loop!Next
  BY <1>8 DEF NextXR, Loop!Next
<1>9. CASE ClusterStep /\ UNCHANGED <<loopVars, required>>
  BY <1>1, <1>9 DEF ClusterStep, ClusterChanges
<1>10. CASE UNCHANGED sessionVars
  BY <1>1, <1>10 DEF sessionVars, providerVars
<1> QED
  BY <1>2, <1>3, <1>4, <1>5, <1>6, <1>7, <1>8, <1>9, <1>10 DEF SessionNext, SessionStep

-----------------------------------------------------------------------------
(* The loop and the provider agree on whose turn it is.                    *)
THEOREM SessionInvariance == SessionSpec => []SessionInv
BY SessionInvInit, SessionInvStep, PTL DEF SessionSpec

(* RenderToStableState over a live cluster and a shared cache behaves like *)
(* the loop of RenderLoop, whatever selectors resolve to: what is proved   *)
(* there of every resolution holds of this one.                            *)
THEOREM Implements == SessionSpec => ImplementsRenderLoop
BY InitRefines, StepRefines, SessionInvariance, PTL DEF SessionSpec, ImplementsRenderLoop, Loop!Spec

(* No step of a call changes or drops the contents of a resource that was  *)
(* supplied in it.                                                         *)
THEOREM SuppliedOnce == SessionSpec => SuppliedStays
<1>1. ASSUME [SessionNext]_sessionVars, pc # "stable", pc # "failed", NEW k \in DOMAIN required
      PROVE  k \in DOMAIN required' /\ required'[k] = required[k]
  <2>1. CASE ResolveAll
    BY <1>1, <2>1 DEF ResolveAll, Supplied, Over
  <2>2. CASE UNCHANGED required
    BY <1>1, <2>2
  <2>3. ASSUME NEW ns \in XRNamespaces, NextXR(ns)
        PROVE  FALSE
    BY <1>1, <2>3 DEF NextXR, Loop!NewCall
  <2> QED
    BY <1>1, <2>1, <2>2, <2>3 DEF SessionNext, SessionStep, Initialize, RenderOnce, ResolveOne,
       ResolveError, EndIteration, sessionVars
<1>2. [SessionNext]_sessionVars =>
        (pc # "stable" /\ pc # "failed" =>
           \A k \in DOMAIN required : k \in DOMAIN required' /\ required'[k] = required[k])
  BY <1>1
<1> QED
  BY <1>2, PTL DEF SessionSpec, SuppliedStays
=============================================================================
