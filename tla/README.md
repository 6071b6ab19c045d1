# crossplane-diff, specified

crossplane-diff shows what applying a composite resource (`xr`) or a composition
(`comp`) would change in a cluster. It renders compositions locally with the
functions the cluster would use, feeds the functions what they ask for, and
compares what comes out with the cluster through dry-run applies. Everything it
does is read-only; what can go wrong is that the diff is not what Crossplane
would do.

This directory holds TLA+ modules for the parts whose control is hard to test,
TLC configurations that check them on small instances, and TLAPS proofs of their
safety properties for every value of the constants. Paths below are
relative to `src/cmd/diff/` unless they begin with `src/`. `PROJECT.json` maps
every definition to the lines it models.

## The system

### Components, their state and their operations

| component | state | operations | modelled by |
|---|---|---|---|
| Render loop (`diffprocessor/diff_processor.go`, `RenderToStableState`) | required resources, observed resources, iteration counter of one call | render, resolve requirements, synthesize readiness, decide whether stable | `RenderLoop`, `RenderSession` |
| Requirements provider (`requirements_provider.go`) | a cache of resources shared by all XRs of a run | `Initialize`, `ResolveSelectors` by name and by label | `RequirementsProvider`, `RenderSession` |
| XR diff run (`diff_processor.go`) | one result per input XR, the set of rendered keys | `PerformDiff`, `DiffSingleResource`, recursion through `ProcessNestedXRs` | `NestedDiff`; what happens to an input before the comparison, in `XRPipeline` and `ClaimRendering` |
| Diff calculator (`diff_calculator.go`) | diffs and rendered keys of one XR | non-removal diffs, removal diffs, identity preservation | `NestedDiff`, `ResourceIdentity` |
| Resource manager (`resource_manager.go`, `preserve.go`) | none; reads the cluster | `FetchCurrentObject`, `UpdateOwnerRefs`, `FetchObservedResources` | `ResourceIdentity` (the first two), `ClaimRendering` (the last) |
| Render engine (`render_engine.go`) | a mutex, started functions, their addresses, the cleanups of a docker network | `Render`, `Cleanup` by any goroutine | `RenderEngine`, `FunctionRuntimes` |
| Function provider (`function_provider.go`) | functions cached per composition, container names | `GetFunctionsForComposition` through three wrappers, `Cleanup` | `FunctionProvider`, `FunctionRuntimes` |
| Composition client (`client/crossplane/composition_client.go`) | a cache of compositions | `Initialize`, `GetComposition`, `FindMatchingComposition`, `FindComposites` | `CompositionSelection`; `FindComposites` in `CompImpact` |
| Composition revision client and selector (`composition_revision_client.go`, `revision_selector.go`) | caches of revisions by name and by composition | get one revision, the latest matching one | `CompositionRevisions`, `CompositionSelection` |
| Composition impact (`comp_processor.go`) | preflight matches, the results of a run | `DiffComposition`: preflight, compare, partition, diff, report, exit code | `CompImpact` |
| Exit codes (`errors.go`) | none | `DetermineExitCode` | `NestedDiff`, `CompImpact` |
| Schema client, definition client, type converter (`client/kubernetes/schema_client.go`, `client/crossplane/definition_client.go`, `client/kubernetes/type_converter.go`) | CRDs by name and in a list, XRDs, resource kinds, under read-write locks | `LoadCRDsFromXRDs`, `GetCRD`, `GetCRDByName`, `GetXRDForXR`, ... | `SchemaClient`, in `XRPipeline`; not the locks |
| Schema validator (`schema_validator.go`) | none of its own | ensure CRDs, apply defaults, validate schemas and scopes | `SchemaValidation`, in `XRPipeline`; its outcome is an input of `NestedDiff` |
| Warnings sink (`warnings.go`) | a set of messages under a mutex shared by derived loggers | record, report | not yet |
| Renderers (`renderer/`) | none | text, JSON and YAML output | how a diff is keyed, in `ResourceIdentity`; the rest not |
| Command line, version command, test support | none that outlives parsing | wiring, formatting | no: input and output only |

### How they interact

One invocation is one goroutine that calls down: the command builds the clients
and a processor; `comp` calls the `xr` processor's `DiffSingleResource` for each
affected composite. The components share state in three ways.

* **Caches that last for the run.** Required resources, functions, compositions
  and revisions are read once and reused for XRs that are processed later, while
  other clients change the cluster. CRDs are fetched when a kind is first seen,
  by whichever step sees it. Whether the answer is still the one that should be
  used depends on the cache's key and on when it was filled.
* **Maps that are merged.** The diffs and rendered keys of nested XRs are merged
  into those of their root before removals are computed from what is missing.
* **Long-lived resources outside the process.** Function containers, runtimes and
  a docker network are started when first needed and removed at the end,
  whichever of the steps before failed. The engine is guarded by a mutex, being
  callable from several goroutines.

### What is hard

Ordering (removals only after everything nested has been rendered; the preflight
before any diff; defaults, namespaces and validation in separate passes; containers
before the network), stale reads (two reads of one resource, or a cached answer
under too coarse a key), partial failures (one of several selectors, resources,
inputs, compositions or containers fails, and the rest must neither be lost nor be
mistaken for complete), the limit of `--max-iterations`, locks held across failing
calls, and terminating although the cluster changes underneath. `PROJECT.json` lists
these hazards by line with the properties that guard them.

### What makes each component correct

* *Render loop*: what it returns is closed under its own requirements; it never
  repeats a render with the same input; it gives up only after as many
  discoveries as it had iterations; it ends.
* *Requirements provider*: an answer is exactly what Crossplane would have read,
  and the cache never makes it less; a failing call leaves the cache alone.
* *XR diff run*: every input gets its whole diff or an error, never a part; the
  exit code is the worst outcome.
* *Diff calculator and resource manager*: an existing resource is found whatever
  it is called; a change is not shown as a removal and an addition; labels and
  owner references are those the cluster would accept and keep.
* *Render engine*: every render has all its runtimes on an existing network,
  nothing is started twice, nothing is left behind, no caller waits for ever.
* *Function provider*: a composition gets its own functions, with registry and
  environment applied exactly once, and every container is removed, before the
  network it is on.
* *Reads before rendering*: an input is rendered as the composite Crossplane
  reconciles for it, with that composite's resources, and a claim's spec is merged
  as Crossplane syncs it.
* *Schema client and validator*: a kind has one schema in a run; what is compared
  has passed every check; what is rejected is rejected for a reason.
* *Composition client*: a composite gets one composition in a run, of its type,
  owned by what it refers to; composites that follow one composition agree.
* *Composition impact*: those composites are diffed that would adopt the new
  revision, each is counted once; a composite that fails reaches the report and
  the exit code; a composition that fails reaches the report, and the exit code
  unless another one does not fail.

## The modules

| module | what it is | composes |
|---|---|---|
| `RenderLoop` | the loop alone: any pipeline, any resolution of requirements. It is the abstract specification of the loop | |
| `RequirementsProvider` | `ResolveSelectors` and the cache against a changing cluster | |
| `RenderSession` | the loop calling the provider, for one XR after another | `RequirementsProvider` (by `EXTENDS`); implements `RenderLoop` (by `INSTANCE`) |
| `NestedDiff` | `PerformDiff` over trees of composites, with an explicit stack for the recursion | |
| `ResourceIdentity` | the calls made to diff what one composite composes, resource by resource | |
| `RenderEngine` | threads that render and clean up under a mutex | |
| `FunctionProvider` | the cached provider in its wrappers, and the containers; the abstract specification of what the engine may do to them | |
| `FunctionRuntimes` | one run's functions from the first look-up to the end of `Cleanup` | `FunctionProvider` (by `EXTENDS`, which it implements) and `RenderEngine` (by `INSTANCE`, with one thread) |
| `SchemaClient` | the CRD caches against a cluster whose CRDs change | |
| `SchemaValidation` | from rendered resources to validated ones, look-up by look-up | `SchemaClient` |
| `ClaimRendering` | the reads that decide which composite an input is rendered as, and the merge of a claim into its XR | `SchemaClient` (what is a claim) |
| `XRPipeline` | one input after another from the load of the CRDs to the end of validation | `SchemaValidation` and `ClaimRendering`, sharing one `SchemaClient` |
| `CompositionRevisions` | what a revision is, which one a composite follows, how Crossplane numbers them: operators without state | |
| `CompositionSelection` | `FindMatchingComposition` and its caches against a changing cluster | `CompositionRevisions` |
| `CompImpact` | `DiffComposition` from preflight to exit code | `CompositionRevisions` |
| `RenderLoopProofs`, `RenderSessionProofs`, `RenderEngineProofs`, `FunctionRuntimesProofs`, `XRPipelineProofs`, `NestedDiffProofs`, `ResourceIdentityProofs` | theorems | the module of the name, with the component modules it extends |
| `CompositionProofs` | theorems | `CompositionSelection` and `CompImpact` |
| `MC...` | instances for TLC | one module each |

An operator described as a *slip* is not part of the behaviour: it is a small
error somebody could make in the definition that follows it, kept because it
breaks one of the properties and so shows that the property depends on it.

### How state and actions correspond to the code

**RenderLoop.** Variables are the function's locals; `pc` is the place in the
loop body. `Render` is the call of `RenderFunc`, `Resolve...` the call of the
provider with the merge into the required map, the check actions are the code
after it: the early return when stable, `continue` on a failed render that brought
new requirements in, the error on one that did not, the readiness synthesis,
and the limit. A resource is its key; contents matter in `RenderSession` only.

**RequirementsProvider.** One action per selector processed, and other clients'
updates between any two reads. `resolved` and `fetched` are the two maps of the
call; the cache is written when the call succeeds. `steady` is a history
variable: what the cluster had all through the call.

**NestedDiff.** A *world* is a pipeline and a cluster: what every XR composes,
what the cluster has below it, which resources would change. The stack holds a
frame per XR under way with the diffs and rendered keys gathered; frames end by
merging into the frame below. Each step that returns an error in the code is an
action that fails the group with the kind of the error.

**ResourceIdentity.** One action per call to the API server and outcome of it: GET
by name, LIST by label, dry-run apply, reading the tree; `Skip` is the `continue`
for a resource with neither a name nor a prefix. `look` holds what the two look-ups
found, `results` what the resource became (owner references, composite label).
Objects are records of a name, a composition resource name and an owner (this
composite, a sibling in the same tree, a stranger); labels follow from the owner.
Owner references are kept by their place in what was rendered, so those that are
dropped as duplicates leave a gap. `Change` lets other clients delete objects, and
the controller create them, between the calls.

**RenderEngine.** `pc` of a thread is where it is in `Render` or `Cleanup`; `mu`
is the mutex. Setup, start, render, stop and release are separate steps, each of
which may fail where the code handles a failure, and the deferred unlock is part
of each return.

**FunctionProvider.** A package is the sequence of its path components, so that
the registry override, which cuts and prepends components, and container naming,
which takes the last one, do what they do; environment pairs are a sequence, as
in the annotation. `Cleanup` is one step per container, each of which may fail.

**FunctionRuntimes.** The program's one goroutine asks the provider for functions,
renders with them through the engine, and at last runs the deferred `Cleanup`,
which goes through the provider and then the engine. Each step of the engine that
starts a runtime also starts its container. The provider's annotations leave the
containers up when the engine stops a runtime, so `running` and `containers` are
separate, and a runtime is gone when its container is removed. `firstOf` is a
history variable: which composition was fetched under a name first.

**SchemaClient.** A CRD is its scope and whether it is strict, that is, rejects a
resource that is `odd`. `GetCRD` is one step: the cache is asked, then discovery
and the cluster, and what is found is cached under its name and in the list;
`ok` says whether the calls to the cluster succeed. The XRDs are fixed, being read
once; the CRDs of the cluster are not.

**SchemaValidation.** `check` and `at` are the pass and the resource it has come to:
`Strip` is the loop of `removeNamespacesFromClusterScopedResources`, `Ensure` that
of `EnsureComposedResourceCRDs` (in the order of a Go map, that is in any),
`ApplyDefaults` that of `applyCRDDefaults`, `Validate` the call of the validation
library with the cached list, `ValidateScope` the last loop. Every look-up is a
step of its own, may fail, and may find a CRD that changed in the cluster.
`used`, `unfound` and `unusable` are history variables: which CRDs a kind was
treated by, which kinds were looked up in vain, whether a CRD that was found could
not be used.

**ClaimRendering.** One action per read: the input's own object, the backing XR its
`resourceRef` names, the tree of that, the tree of the object. A spec maps its
fields to where their values come from (the claim or the XR), which is all that
the merge decides, except for the update policy, of which `manual` says that the spec
has one and that it is `Manual`; a claim or XR that is `bare` has no spec, and the
merge then returns early. A tree is the set of controllers of the resources in it; the
resources of a nested composite have another controller than the root.
`ObjectChanges` lets Crossplane or a user change, replace or delete both objects
between any two reads.

**XRPipeline.** `stage` is the place in `diffSingleResourceInternal`. What a
composition renders is any of the sequences given; the composite itself comes first
in what is validated, a claim in place of the XR that was rendered for it, as
`prepareXRForDiff` does. An error ends the input and leaves the caches.

**CompositionSelection.** `FindMatchingComposition` is split at every read of the
cluster (`NeedsRevision`, `FetchRevision`, ...): it continues from what is cached,
and other clients act in between. `answers` records every result of the run.

**CompImpact.** `phase` and `at` are the place in `DiffComposition`; the diff of one
composite is any outcome `NestedDiff` can have. Composites may change their
composition between look-ups. The affected composites are a function from the places
of the client's list. A `--resource` is a name, which an XR and a claim may share:
the look-up takes the XR if that uses the composition, else the claim. `results` is
a map by composite, so of a composite that is listed twice the second diff
overwrites the first; `RefsDistinct` says that no name was given twice. `seen` is a
history variable: what the diffs of the run came to. `preflightMatches` is keyed by
name, so of two documents of one name the later replaces what was found for the
earlier: `NamedOnce` says that this did not happen, and `RefsResolved` promises a
home for each `--resource` only then.

## What is checked

Every run finishes in seconds to about two minutes. `NestedDiff_skipped` and
`ResourceIdentity_generated` are expected to end in a violation; the others to
pass. The type invariants, `TypeOK` and its namesakes, are part of the modules but
no run's property; those of `RenderLoop`, `RenderEngine`, `NestedDiff` and
`ResourceIdentity` are proved.

| run | shows | bounds, and why they are enough |
|---|---|---|
| `RenderLoop` | `StableIsClosed`, `ExhaustionIsEarned`, `NoIdenticalRetry` | 2 resources, 2 composed keys, 3 iterations: success, failure after discovery and exhaustion all occur in every combination of old and new keys. What it shows is also proved without bounds. Symmetric in either kind of key |
| `RequirementsProvider` | `ResolvedWasAskedFor`, `ResolvedIsComplete`, `ResolvedStaysCached`, `FailedCallLeavesCache` | a namespaced and a cluster-scoped kind, two namespaces, one name, selectors in all pairs, two changes of the cluster: a selector can find its key cached, uncached, cached from another XR, or gone, before and after another one |
| `RenderSession` | the session implements `RenderLoop` (`ImplementsRenderLoop`); `SuppliedStays`; `SessionSettles` | one namespace, two contents, one change, one composed key, 4 iterations: enough for a key to be fetched twice with different contents and for the loop to be cut short |
| `NestedDiff` | `GroupsAreExact`, `ExitCodeIsWorst`, `Finishes` | all trees of a root, one nested XR and two resources, rendered and existing, so that every resource may be added, kept, changed, moved or removed at either level; and two inputs failing in every way. Deeper trees repeat the same merge |
| `NestedDiff_skipped` | `NestedResourcesAreKept` fails | the same trees without the second input |
| `ResourceIdentity` | `ChangedNotReplaced`, `RemovalsAreComplete`, `LabelKept`, `RefsAreAdmissible` | two resources of a root, nested or claimed composite, new or existing; subsets of six objects that differ in name, prefix and owner; one change by others. The two resources are what it takes for one to fail and the other not |
| `ResourceIdentity_generated` | `EveryNewResourceIsShown` fails | the same, without changes by others |
| `RenderEngine` | `Served`, `NetworkOwned`, `NotRestarted`, `NothingLeft`, `Returns` | three threads, three functions, four pipelines that overlap, one function whose runtime cannot be stopped: a cleanup between two renders and a second batch beside the first both occur. The safety part is proved for any number |
| `FunctionRuntimes` | `EveryContainerRemoved`, `PreparedOnce`, `NeededFunctions`, `NetworkReleasedLast` | four compositions over three functions, two of them revisions of one composition and one with a function that is not installed; a pipeline with a function twice, two packages of one image name, packages with and without a registry, an environment with and without the injected key; calls repeated without limit, and every look-up, setup, start and removal may fail |
| `CompositionSelection` | `OneAnswer`, `SameRevision`, `AnswersFit` | seven composites, one of each way to choose a composition; two names, three contents, two changes by others: a cache can be filled before, between and after changes |
| `CompImpact` | `Accounted`, `RefsResolved`, `PartitionIsRight`, `SkippedOnlyIfInert`, `OutcomesReachExit` | up to two compositions among other documents, one of which may fail before the other is analysed, with and without `--resource`, five composites, one for each class the partition tells apart, an XR and a claim among them of one name; one composite changes its composition during the run, and each diff may come out in any way |
| `XRPipeline` | `OneSchema`, `ValidatedIsLegal`, `OutcomeExplained`, `RenderedAsInCluster`, `ObservedIsControlled`, `SpecAsSynced` | two inputs out of a namespaced XR, a cluster-scoped XR, its claim (with fields, with an update policy, without a spec) and a kind no XRD defines; a composed kind whose CRD may have either scope or be missing, and a kind of a `*.k8s.io` group with a CRD, which is as one without when the look-up fails; two backing XRs, one pinned by its own update policy, that have and lack what the claim sets; one change of a CRD in the run and one of the objects per input. A CRD can be stale within an input, and for the second when the first had it cached; a claim's object may be new, half reconciled, reconciled, replaced or gone between any two reads |

Bounds that are part of the specifications, not of the program: `MaxUpdates`,
`MaxChanges`, `MaxRepoints`, `MaxCRDChanges` and `MaxObjectChanges` limit what
*others* do to the cluster, `MaxInputs` how many inputs a run has, and `MaxNumber`
how high the revisions in `CompImpact` are numbered before the run. The theorems
hold for every value of them.
`CHECK_DEADLOCK FALSE` is set where a run of the program ends (`NestedDiff`,
`CompImpact`); in the other models there is always another
call, and `ResourceIdentity` and `XRPipeline` say by `Done` and `Over` where they
end.

### Fairness

* `RenderSession`: weak fairness of the session's own steps together. There is one
  goroutine, and each call it makes returns or is cut off by `--timeout`. Nothing
  is assumed of the clients that change the cluster.
* `NestedDiff`: weak fairness of `Next`, for the same reason.
* `RenderEngine`: weak fairness of each thread's steps while it holds the lock
  (the calls return, by the same timeout), and strong fairness of taking the lock,
  because `sync.Mutex` hands it over to a waiter that has been starved for a
  millisecond. No thread is assumed to call anything at all.

The other runs check safety only.

## What is proved

The `...Proofs` modules prove, for all values of the constants under the
assumptions named in the modules:

* **RenderLoop** (`RenderLoopAssumption`: two finite sets, an integer limit).
  `TypeCorrect`, `ExhaustionEarned`, `StableClosed`, `NeverRetriesIdentically`, and
  `EnoughIterations`: with a limit above the number of keys there are, the loop
  never reports that it did not stabilize. The inductive invariant is
  `LoopInv == TypeOK /\ ObservedInv /\ CountInv /\ InputInv`.
  `StableIsClosed` speaks of the last render's input and of what was resolved
  after it, so `InputInv` has to say at every place of the loop how the input
  relates to what has been gathered since, and that after the first iteration it
  is strictly smaller; that gives `NoIdenticalRetry` too. `ExhaustionIsEarned`
  needs `CountInv`, iterations never outnumber discoveries, which in turn needs
  `ObservedInv`: what was observed from the start stays, and only synthesis adds
  to it, so that each addition counts once. The counting rests on one lemma about
  cardinalities of finite sets.
* **RequirementsProvider** (`ProviderAssumption`: namespaces and the sentinel are
  told apart, the lists of selectors are sequences of selectors, a selector by name
  having one name).
  `OnlyWhatWasAskedFor`, `AllThatWasAskedFor`, `StaysCached`,
  `FailureLeavesNoTrace`, for any selectors and however often the cluster changes.
  The inductive invariant is `ProviderInv == CallInv /\ FoundInv`: `CallInv` says
  how far the call is; `FoundInv` that the selectors already processed have put
  whatever they ask for and was in the cluster all along (`steady`) into `resolved`,
  and that everything there is asked for, and in the cache or about to be.
* **RenderSession** (no assumption of its own). `Implements`: the loop calling the
  provider implements `RenderLoop`, so what is proved of `RenderLoop` for every
  resolution of requirements holds for this one. `SuppliedOnce` is `SuppliedStays`.
  `SessionInv` says whose turn it is: the provider has a call under way only while
  the loop waits for one, and has resolved nothing for an output that asked for
  nothing; so a resolution that ends hands over what the abstract step adds.
* **RenderEngine** (`RenderEngineAssumption`: pipelines are sequences of functions,
  some of the functions may be orphaned). `EngineInvariance`, and from it
  `EveryRenderServed`, `NetworkAlwaysOwned`, `NeverRestarted`, `CleanupLeavesNothing`
  for any number of goroutines. The inductive invariant is
  `EngineInv == TypeOK /\ MutexInv /\ RecordInv /\ RuntimeInv /\ NetworkInv`:
  mutual exclusion first (without it two threads would find one function new),
  then the agreement of the three records of what was started, then of the
  records with the runtimes that are up (with the exception of a thread that is
  stopping them), then that the network is there as long as anything is recorded
  and is released by exactly one of the cleanups held.
* **FunctionRuntimes** (`FunctionProviderAssumption`: pipelines, packages and
  environments are sequences, a package is not empty, the sentinel is no
  composition). `ContainersRemoved` and `ReleasedLast` from
  `ProviderInv == CacheInv /\ CleanupInv` and `OrderInv`: what is cached or was
  handed out runs under names `Cleanup` knows (so the engine starts nothing else),
  `Cleanup` comes to every container, and the goroutine is in the engine's cleanup
  only when the provider's is over. With the same invariant
  `ImplementsProvider`: the composition is a behaviour of the provider alone.
  `PipelinesFunctions` and `Idempotent` need `HandedOutInv`: what is cached under a
  name is what was first fetched under it, prepared once. That rests on two lemmas
  about the operators, `OverriddenTwice` and `UpsertTwice`; the first needs
  `HostOnly` (an override with a path is not idempotent, see below), and the
  property's "once" needs `KeysOnce` (a function annotated with one variable twice
  keeps both).
* **XRPipeline** (the assumptions of `SchemaClient`, `ClaimRendering` and
  `XRPipeline`: XRs and claims are disjoint, the objects' and the backing XRs' UIDs
  too; a user's fields of a spec are not Crossplane's. Of the kinds whose group says
  that they need no CRD nothing is assumed: they may have CRDs or not).
  `AlwaysOneSchema`, `PassedIsLegal`, `FailuresHaveReasons`, `RenderedWithItsOwn`,
  `RenderedAsReconciled` and `RenderedAsSynced`, for any inputs, compositions and
  number of changes.
  `ValidationInv == CacheInv /\ UsedInv /\ SubjectInv /\ ProgressInv`: the two CRD
  caches agree and only grow (so an answer given once is given again), every answer
  given is in them, what is validated is what was rendered for the input, and each
  resource a pass has gone by has what the pass promises. `NamespaceInv` adds that a
  composite is rendered in its input's namespace or in none, which is why the
  namespace check need only compare with the root. `ReasonInv` keeps, for each place a
  pass can fail at, the cause it would have: what was looked up in vain, and that
  every CRD in the cache is also in the list the validation library is given; for the
  cause to be still there, `LoadedInv` has to say that nothing is cached in between by
  the loading, which is over when the first input is begun.
  `FetchInv` says which composite the reads made so far belong to, and `AsReadInv`
  what was read: a rendering is put together from the values read, whatever the
  cluster has since; and as long as nothing changed and no read failed (`Undisturbed`)
  these are what the cluster has. `RenderedAsSynced` rests on `MergeIsSync`, a fact
  about `SyncedSpec` for any claim and any XR. Merging a second time is not the identity:
  the XR's update policy decides whether its revision is kept, and is itself replaced by
  the claim's, so an XR pinned by a policy of its own is rendered pinned once, and the
  theorem says that nothing else is lost.
* **NestedDiff** (`NestedDiffAssumption`: the worlds have inputs; what renders what is
  any relation, cycles included). `Exactness`, `WorstOutcome`, `TypesHold`. A root's
  tree is the smallest set that contains what its members compose, so that nothing
  has to be computed by recursion. The inductive invariant is
  `DiffInv == InputsInv /\ TreesInv /\ GroupsAreExact /\ ExitCodeIsWorst`. `TreesInv`
  says of each frame of the stack that what it has rendered is in every closed set
  that its XR is in, and that the only composed XRs whose own resources it lacks are
  those it has yet to process or the one it waits for; when none is left, what is
  rendered is itself closed, hence the tree.
* **ResourceIdentity** (assumptions: the sentinel is no object, label or resource name;
  `AsRendered`, what the render engine returns: below a nested composite everything is
  labelled with the root, and a resource's controllers are one owner, apart from a
  claim). `ChangesAreNotReplacements`, `NoRemovalOnFailure`, `LabelsStay`,
  `AdmissibleRefs`, `TypesHold`. The inductive invariant is
  `IdentityInv == BaseInv /\ LookInv /\ ResultsInv /\ NoneLeftOut /\ RemovedInv`:
  a look-up that saw an answer and settled on nothing leaves nothing that matches, as
  long as nobody else changes the cluster; what a resource was compared with has its
  name among those rendered; and what is removed has not.
  `ChangedNotReplaced` needs the assumption about labels: with any other label on
  what is rendered, the look-up would ask for the wrong objects.
* **CompositionSelection** (`CompositionRevisionsAssumption`: finitely many names and
  composites, labels are no names; `CompositionSelectionAssumption`). `AtMostOneAnswer`,
  `OneRevision`, `FittingAnswers`. The inductive invariant
  `SelectionInv == CachesInv /\ AnswersInv` says that each answer could be read from
  the caches again. The caches only grow, so two answers to one composite, or to two
  that follow the same revisions, were read from the same entry.
* **CompImpact** (`CompImpactAssumption`: types). `EveryCompositeCounted`,
  `RefsAreResolved`, `InertWhenSkipped`, for any options, inputs
  and composites, from `ImpactInv == InputsInv /\ DiffsInv /\ MatchesInv /\ OutputInv
  /\ ExitInv`. The counts add up because the reasons partition the places of the list
  (`Accounted` adds the cardinalities of disjoint finite sets). `PartitionPredicts`
  does not come from the invariant alone: that a composite would adopt the proposed
  revision is a fact about how Crossplane numbers revisions, whatever numbers there
  were before, and the lemmas `Greatest`, `GivenNumbers`, `ProposedOnTop` and
  `AdoptsIfSelected` prove it of `CompositionRevisions`. `OutcomesReachExitCode` relates
  the exit code to what the single diffs came to, over all compositions of a run; its
  invariant is `OutcomesInv == PlacesInv /\ DiffingInv /\ SeenInv /\ SaidInv /\ EntriesInv`.
  `SeenInv` says that a diff that failed or changed something is counted in an entry of
  the report already, or still in the results of the composition at hand, for which
  `PlacesInv` has to say that each composite has one place and so one result; `SaidInv`
  and `EntriesInv` are about the other direction, that what the report says was seen and
  that each composition passed has its entry.

So every safety property that a passing run checks is also a theorem. Only
model-checked are the liveness properties `Finishes`, `Returns` and
`SessionSettles`: liveness under fairness is out of the prover's reach. What the
bounds of the runs limit, the theorems do not; what both leave out is said below.

## What the models disagree about with the documentation

Two runs show a disagreement by a counterexample.

* **A nested XR that is skipped takes its resources with it**
  (`NestedDiff_skipped`). When no composition is found for a nested XR,
  `ProcessNestedXRs` continues (`diff_processor.go:1039`); what it composes is not
  rendered, and the removal phase reports it as removed.
* **New resources overwrite each other in the output**
  (`ResourceIdentity_generated`). A generated name is shown, and keyed, as
  `<prefix>(generated)`; two new resources of one kind whose names come from the
  same prefix have one key (`diff_calculator.go:315`).

Others were met while modelling. They follow from a line or two of the code and
need no counterexample.

* Two revisions of a composition share functions: the cache is keyed by the
  composition's name (`function_provider.go:133`). `NeededFunctions` excepts a
  composition whose name was first fetched in another revision.
* A composition that renders a resource of a built-in kind fails validation: it has
  no CRD, so the validation library has no schema for it, and the scope check asks
  for its CRD too (`schema_validator.go:232`), although the comments at
  `schema_validator.go:181` and `:268` count such kinds as needing none. In
  `OutcomeExplained` a kind that needs no CRD and has none in the cache is a cause of
  failure.
* Kinds of `*.k8s.io` groups that do have CRDs (`gateway.networking.k8s.io`) count as
  needing none too (`schema_client.go:163`, "typically"). Their CRDs are neither ensured
  nor used for defaults (`schema_validator.go:182`, `:279`); the one look-up before the
  schemas are validated is that of the namespace clean-up, for resources in a namespace
  (`diff_processor.go:1521`). So a resource of such a kind can pass, without its defaults,
  if it or an earlier one, of an earlier input even, was in a namespace, and fails
  otherwise: whether an input is valid depends on those before it. `ValidatedIsLegal`
  excepts the defaults of these kinds.
* A failed CRD look-up ends the namespace clean-up and the ensuring with a tool
  error, is skipped in the defaulting, and is a validation error (exit code 2) in
  the scope check (`diff_processor.go:1523`, `schema_validator.go:201`, `:285`,
  `:232`). What the defaulting skips is validated and compared without its defaults.
* A claim whose backing XR is gone, or cannot be read, is rendered itself, although
  the comment at `diff_processor.go:618` says the renderer rejects claims.
* A first read that fails for whatever reason makes an input a new one
  (`diff_processor.go:355`), which is then rendered without UID and observed
  resources.
* The merge of a claim into its XR keeps the revision if the XR's update policy is
  `Manual` (`diff_processor.go:801`), but not the policy itself (`:776`): an XR with a
  policy that its claim does not have is rendered pinned and automatic at once.
  `SpecAsSynced` says what a second run makes of it.
* The pinned revision merged into a claim's XR (`diff_processor.go:797`) has no effect
  on the composition, which was chosen before (`:327`).
* `--max-nested-depth` never applies: `diffSingleResourceInternal` always passes
  depth 1 to `ProcessNestedXRs` (`diff_processor.go:487`; `src/README.md:218`). In
  `NestedDiff` the depth is what the code passes.
* A `comp` run in which one composition fails and another differs exits with 3, and
  with 0 if the other does not differ (`comp_processor.go:295`), where
  `src/README.md:751` says that an error beats a difference and a partially failed run
  never returns 3, and `:876` that the tool never silently continues. Only if all
  compositions fail does the exit code say so. `OutcomesReachExit` promises no more than
  that: a failed composition beside one that did not fail is in the report.
* With `--eventual-state` the loop ends when nothing new is composed, one render
  earlier than `src/design/design-doc-cli-diff.md:1591` describes
  (`diff_processor.go:1327`).
* A list that fails makes a resource with a `generateName` a new one
  (`resource_manager.go:105`), and failed discovery makes a composition one that
  nothing uses (`comp_processor.go:229`); `src/README.md:876` promises never to
  continue silently.
* Two nested XRs of one tree that compose a resource of the same name find each
  other's objects by label, since all carry the root's label; only a
  `generateName` prefix tells them apart (`resource_manager.go:322`).
* A function used in two steps of a pipeline is in the new batch twice
  (`render_engine.go:158`).
* A registry override that has a path of its own is applied again to its own
  result, the cached functions being modified in place
  (`function_provider.go:340`); overrides without a path are idempotent.
* Container names are the last part of a package's path: two functions of the same
  name from different organisations get one container (`function_provider.go:269`).
* Two documents of one composition name in the `comp` input share the preflight
  matches of the second (`comp_processor.go:326`).
* With an empty cache `findByLabelSelector` and `findByTypeReference` list the
  compositions and drop the list (`composition_client.go:651`, `:699`).
* A nested XR of the type the `comp` input is for, but using another composition,
  is rendered with the input (`comp_processor.go:547`;
  `src/design/design-doc-cli-diff.md:657`).

## What is not modelled

Output formatting, YAML loading, flag parsing, the version command and test
support keep no state that another component relies on. The contents of
resources are outcomes in the models: a field is from the claim or from the XR, a
resource valid for a CRD or not, defaulted or not, a dry-run result equal to the
object or not. `GetCRD` is atomic: nothing in the program calls the schema and
definition clients from two goroutines, so the double-checked locking in them is
not modelled. `DetermineExitCode` works on the kind of an error; the walk through
trees of wrapped and joined errors is left out, as is the de-duplication of
warnings. The crossplane binary, docker, the API server and Crossplane's controllers
are modelled by what the code relies on and are marked external in the map.

## Plan

The order follows what a wrong diff would come from first: the loop that decides
what is rendered, the recursion that decides what is removed, then the engine
and caches they depend on, then `comp`.

1. Done: the modules above, alone and composed, and theorems for every safety property
   checked of them.
2. `Warnings`: the shared sink and its derived loggers.
3. The tree of wrapped errors that exit codes are computed from, as a recursive
   function on finite trees.
4. `XRPipeline` continued into `ResourceIdentity`: the object is fetched once before
   rendering and again for the diff (`diff_processor.go:355`), and `NestedDiff` with
   the outcome of its validation from `SchemaValidation`.
5. Theorems: the termination arguments as far as they are safety (a measure that each
   step of `NestedDiff` and of the render loop decreases), and a promise of the diff
   calculator to its caller as an abstract specification that `ResourceIdentity`
   implements.
