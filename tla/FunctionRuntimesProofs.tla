------------------------ MODULE FunctionRuntimesProofs ------------------------
(***************************************************************************)
(* Proofs about FunctionProvider and FunctionRuntimes: whatever the        *)
(* compositions, packages and pipelines are and whichever step fails,      *)
(* every container that was started is removed or could not be, and before *)
(* the network is released.                                                *)
(***************************************************************************)
EXTENDS FunctionRuntimes, SequenceTheorems, TLAPS

(* These functions run under some of these names. (A function value is a   *)
(* record that has a container.)                                           *)
RunUnder(functions, names) ==
  \A i \in DOMAIN functions :
    "container" \in DOMAIN functions[i] /\ functions[i].container \in names

(* Cleanup knows the names of all the functions that are handed out.       *)
CacheInv ==
  /\ DOMAIN cache = Names
  /\ \A n \in Names : cache[n] # NoFunctions => RunUnder(cache[n], containerNames)
  /\ returned # NoFunctions => RunUnder(returned.functions, containerNames)

(* Containers have such names, and Cleanup comes to every one.             *)
CleanupInv ==
  /\ containerNames \subseteq {ContainerName(Package[f]) : f \in Functions}
  /\ containers \subseteq containerNames
  /\ phase = "cleanup" => containers \subseteq pending \cup kept
  /\ phase = "closed" => containers \subseteq kept

ProviderInv == CacheInv /\ CleanupInv

-----------------------------------------------------------------------------
(* The wrappers leave the container of a function alone.                   *)
LEMMA ExceptKeeps ==
  ASSUME NEW f, NEW p, NEW e, "container" \in DOMAIN f
  PROVE  /\ "container" \in DOMAIN [f EXCEPT !.package = p, !.env = e]
         /\ [f EXCEPT !.package = p, !.env = e].container = f.container
OBVIOUS

LEMMA WrappedRunUnder ==
  ASSUME NEW functions, NEW names, RunUnder(functions, names)
  PROVE  RunUnder(Wrapped(functions), names)
<1> SUFFICES ASSUME NEW i \in DOMAIN Wrapped(functions)
             PROVE  /\ "container" \in DOMAIN Wrapped(functions)[i]
                    /\ Wrapped(functions)[i].container \in names
  BY DEF RunUnder
<1> DEFINE f == functions[i]
           w == [f EXCEPT !.package = Overridden(f.package), !.env = Upsert(f.env)]
<1>1. i \in DOMAIN functions /\ Wrapped(functions)[i] = w
  BY DEF Wrapped
<1>2. "container" \in DOMAIN f /\ f.container \in names
  BY <1>1 DEF RunUnder
<1> HIDE DEF f
<1>3. "container" \in DOMAIN w /\ w.container = f.container
  BY <1>2, ExceptKeeps
<1> QED
  BY <1>1, <1>2, <1>3

LEMMA FetchedRunUnder ==
  ASSUME NEW c
  PROVE  RunUnder(Fetched(c), {Fetched(c)[i].container : i \in DOMAIN c.pipeline})
<1> SUFFICES ASSUME NEW i \in DOMAIN Fetched(c)
             PROVE  /\ "container" \in DOMAIN Fetched(c)[i]
                    /\ i \in DOMAIN c.pipeline
  BY DEF RunUnder
<1> DEFINE step == c.pipeline[i]
<1>1. i \in DOMAIN c.pipeline
  BY DEF Fetched
<1>2. Fetched(c)[i] = [name |-> step, package |-> Package[step],
                       container |-> ContainerName(Package[step]), env |-> EnvPairs[step]]
  BY <1>1 DEF Fetched
<1> QED
  BY <1>1, <1>2

LEMMA MoreNames ==
  ASSUME NEW functions, NEW names, NEW more, names \subseteq more, RunUnder(functions, names)
  PROVE  RunUnder(functions, more)
BY DEF RunUnder

-----------------------------------------------------------------------------
(* What an answer does to the cache, from the cache or fetched.            *)
LEMMA AnswerInv ==
  ASSUME CacheInv, NEW c \in Compositions, NEW functions,
         cache' = [cache EXCEPT ![c.name] = functions],
         containerNames \subseteq containerNames',
         RunUnder(functions, containerNames'),
         returned' = [comp |-> c, functions |-> cache'[c.name]]
  PROVE  CacheInv'
<1>1. c.name \in Names /\ DOMAIN cache = Names
  BY DEF Names, CacheInv
<1>2. cache'[c.name] = functions /\ DOMAIN cache' = Names
  BY <1>1
<1>3. ASSUME NEW n \in Names, cache'[n] # NoFunctions
      PROVE  RunUnder(cache'[n], containerNames')
  <2>1. CASE n = c.name
    BY <1>2, <2>1
  <2>2. CASE n # c.name
    <3>1. cache'[n] = cache[n]
      BY <1>1, <2>2
    <3>2. RunUnder(cache[n], containerNames)
      BY <1>3, <3>1 DEF CacheInv
    <3> QED
      BY <3>1, <3>2, MoreNames
  <2> QED
    BY <2>1, <2>2
<1>4. [comp |-> c, functions |-> functions].functions = functions
  OBVIOUS
<1>5. returned'.functions = functions
  BY <1>2, <1>4, Zenon
<1>6. RunUnder(returned'.functions, containerNames')
  BY <1>5
<1> QED
  BY <1>2, <1>3, <1>6 DEF CacheInv

LEMMA ProviderInvInit == Init => ProviderInv
BY DEF Init, ProviderInv, CacheInv, CleanupInv

(* The steps of the provider, with anything the engine may start.          *)
Step == Get \/ (\E some : StartContainers(some)) \/ Cleanup \/ UNCHANGED vars

LEMMA ProviderInvStep == ProviderInv /\ Step => ProviderInv'
<1> SUFFICES ASSUME ProviderInv, Step
             PROVE  ProviderInv'
  OBVIOUS
<1>1. ASSUME NEW c \in Compositions, GetFetches(c)
      PROVE  ProviderInv'
  <2> DEFINE new == {Fetched(c)[i].container : i \in DOMAIN c.pipeline}
  <2>1. /\ containerNames' = containerNames \cup new
        /\ cache' = [cache EXCEPT ![c.name] = Wrapped(Fetched(c))]
        /\ returned' = [comp |-> c, functions |-> cache'[c.name]]
        /\ UNCHANGED <<containers, phase, pending, kept>>
    BY <1>1 DEF GetFetches
  <2>2. RunUnder(Wrapped(Fetched(c)), new)
    BY FetchedRunUnder, WrappedRunUnder
  <2> HIDE DEF new
  <2>3. RunUnder(Wrapped(Fetched(c)), containerNames')
    BY <2>1, <2>2, MoreNames
  <2>4. CacheInv'
    BY <2>1, <2>3, AnswerInv DEF ProviderInv
  <2>5. containerNames' \subseteq {ContainerName(Package[f]) : f \in Functions}
    <3>1. \A i \in DOMAIN c.pipeline :
            /\ c.pipeline[i] \in Functions
            /\ Fetched(c)[i].container = ContainerName(Package[c.pipeline[i]])
      BY <1>1 DEF GetFetches, Fetched
    <3> QED
      BY <2>1, <3>1 DEF new, ProviderInv, CleanupInv
  <2>6. CleanupInv'
    BY <2>1, <2>5 DEF ProviderInv, CleanupInv
  <2> QED
    BY <2>4, <2>6 DEF ProviderInv
<1>2. ASSUME NEW c \in Compositions, GetFails(c)
      PROVE  ProviderInv'
  <2>1. UNCHANGED <<cache, containerNames, containers, phase, pending, kept>>
        /\ returned' = NoFunctions
    BY <1>2 DEF GetFails
  <2>2. CacheInv'
    BY <2>1 DEF ProviderInv, CacheInv
  <2>3. CleanupInv'
    BY <2>1 DEF ProviderInv, CleanupInv
  <2> QED
    BY <2>2, <2>3 DEF ProviderInv
<1>3. ASSUME NEW c \in Compositions, GetCached(c)
      PROVE  ProviderInv'
  <2>1. /\ cache[c.name] # NoFunctions
        /\ cache' = [cache EXCEPT ![c.name] = Wrapped(cache[c.name])]
        /\ returned' = [comp |-> c, functions |-> cache'[c.name]]
        /\ UNCHANGED <<containerNames, containers, phase, pending, kept>>
    BY <1>3 DEF GetCached
  <2>2. RunUnder(cache[c.name], containerNames)
    BY <2>1 DEF ProviderInv, CacheInv, Names
  <2>3. RunUnder(Wrapped(cache[c.name]), containerNames')
    BY <2>1, <2>2, WrappedRunUnder
  <2>4. CacheInv'
    BY <2>1, <2>3, AnswerInv DEF ProviderInv
  <2>5. CleanupInv'
    BY <2>1 DEF ProviderInv, CleanupInv
  <2> QED
    BY <2>4, <2>5 DEF ProviderInv
<1>4. ASSUME NEW some, StartContainers(some)
      PROVE  ProviderInv'
  <2>1. /\ phase = "open" /\ returned # NoFunctions
        /\ some \subseteq {returned.functions[i].container : i \in DOMAIN returned.functions}
        /\ containers' = containers \cup some
        /\ UNCHANGED <<cache, containerNames, returned, phase, pending, kept>>
    BY <1>4 DEF StartContainers
  <2>2. some \subseteq containerNames
    BY <2>1 DEF ProviderInv, CacheInv, RunUnder
  <2>3. CacheInv'
    BY <2>1 DEF ProviderInv, CacheInv
  <2>4. CleanupInv'
    BY <2>1, <2>2 DEF ProviderInv, CleanupInv
  <2> QED
    BY <2>3, <2>4 DEF ProviderInv
<1>5. CASE Cleanup
  <2>1. CacheInv'
    BY <1>5 DEF Cleanup, BeginCleanup, RemoveContainer, KeepContainer, EndCleanup,
       ProviderInv, CacheInv
  <2>2. ASSUME NEW docker \in BOOLEAN, BeginCleanup(docker)
        PROVE  CleanupInv'
    BY <2>2 DEF BeginCleanup, ProviderInv, CleanupInv
  <2>3. ASSUME NEW name \in pending, RemoveContainer(name)
        PROVE  CleanupInv'
    BY <2>3 DEF RemoveContainer, ProviderInv, CleanupInv
  <2>4. ASSUME NEW name \in pending, KeepContainer(name)
        PROVE  CleanupInv'
    BY <2>4 DEF KeepContainer, ProviderInv, CleanupInv
  <2>5. ASSUME EndCleanup
        PROVE  CleanupInv'
    BY <2>5 DEF EndCleanup, ProviderInv, CleanupInv
  <2> QED
    BY <1>5, <2>1, <2>2, <2>3, <2>4, <2>5 DEF Cleanup, ProviderInv
<1>6. CASE UNCHANGED vars
  BY <1>6 DEF vars, ProviderInv, CacheInv, CleanupInv
<1> QED
  BY <1>1, <1>2, <1>3, <1>4, <1>5, <1>6 DEF Step, Get

-----------------------------------------------------------------------------
(* The engine's steps are steps of the provider or none of its business.   *)
LEMMA RunStep == [RunNext]_runVars => Step
<1> SUFFICES ASSUME [RunNext]_runVars
             PROVE  Step
  OBVIOUS
<1>1. ASSUME NEW c \in Compositions, GetFunctions(c)
      PROVE  Step
  BY <1>1 DEF GetFunctions, Step, Get
<1>2. CASE EngineStarts
  BY <1>2 DEF EngineStarts, Step
<1>3. CASE ProviderCleanup
  BY <1>3 DEF ProviderCleanup, Step, Cleanup
<1>4. CASE RenderWith \/ EngineStep \/ EngineCleanup
  BY <1>4 DEF RenderWith, EngineStep, EngineCleanup, Step
<1>5. CASE UNCHANGED runVars
  BY <1>5 DEF runVars, Step
<1> QED
  BY <1>1, <1>2, <1>3, <1>4, <1>5 DEF RunNext

LEMMA StepIsNext == ProviderInv /\ Step => [Next]_vars
<1> SUFFICES ASSUME ProviderInv, NEW some, StartContainers(some)
             PROVE  Next
  BY DEF Step, Next
<1>1. some \subseteq containerNames
  BY DEF StartContainers, ProviderInv, CacheInv, RunUnder
<1>2. some \subseteq {ContainerName(Package[f]) : f \in Functions}
  BY <1>1 DEF ProviderInv, CleanupInv
<1> QED
  BY <1>2 DEF Next

(* The one goroutine is in the engine's Cleanup only after the provider's. *)
OrderInv ==
  /\ DOMAIN pc = {Main}
  /\ pc[Main] \in {"cleanup called", "stop", "release"} => phase = "closed"

LEMMA OrderInvInit == RunInit => OrderInv
BY DEF RunInit, Engine!Init, OrderInv

(* Steps of the goroutine inside the engine, none of which begins its      *)
(* Cleanup.                                                                *)
LEMMA EngineOrder ==
  ASSUME OrderInv, phase' = phase, NEW place, pc' = [pc EXCEPT ![Main] = place],
         place \in {"stop", "release"} => pc[Main] \in {"cleanup called", "stop", "release"},
         place # "cleanup called"
  PROVE  OrderInv'
BY DEF OrderInv

LEMMA OrderInvStep == OrderInv /\ [RunNext]_runVars => OrderInv'
<1> SUFFICES ASSUME OrderInv, [RunNext]_runVars
             PROVE  OrderInv'
  OBVIOUS
<1>1. ASSUME NEW c \in Compositions, GetFunctions(c)
      PROVE  OrderInv'
  BY <1>1 DEF GetFunctions, GetFetches, GetFails, GetCached, engineVars, OrderInv
<1>2. CASE RenderWith
  BY <1>2, EngineOrder DEF RenderWith, Engine!CallRender, vars
<1>3. CASE EngineStarts
  BY <1>3, EngineOrder DEF EngineStarts, StartContainers, Engine!Start, Engine!StartFails,
     Engine!Return
<1>4. CASE EngineStep
  <2>1. phase' = phase
    BY <1>4 DEF EngineStep, vars
  <2>2. CASE Engine!Lock(Main)
    BY <2>1, <2>2, EngineOrder DEF Engine!Lock, Engine!LockRender, Engine!LockCleanup
  <2>3. CASE Engine!Setup(Main) \/ Engine!SetupFails(Main) \/ Engine!RenderReturns(Main)
             \/ Engine!CleanupReturns(Main)
    BY <2>1, <2>3, EngineOrder DEF Engine!Setup, Engine!SetupFails, Engine!RenderReturns,
       Engine!CleanupReturns, Engine!Return
  <2>4. CASE Engine!Forget(Main)
    BY <2>1, <2>4, EngineOrder DEF Engine!Forget
  <2>5. CASE Engine!StopBatch(Main) \/ Engine!RunCleanup(Main)
    BY <2>1, <2>5 DEF Engine!StopBatch, Engine!RunCleanup, OrderInv
  <2> QED
    BY <1>4, <2>2, <2>3, <2>4, <2>5 DEF EngineStep
<1>5. CASE ProviderCleanup
  BY <1>5 DEF ProviderCleanup, OrderInv
<1>6. CASE EngineCleanup
  BY <1>6 DEF EngineCleanup, Engine!CallCleanup, vars, OrderInv
<1>7. CASE UNCHANGED runVars
  BY <1>7 DEF runVars, vars, engineVars, OrderInv
<1> QED
  BY <1>1, <1>2, <1>3, <1>4, <1>5, <1>6, <1>7 DEF RunNext

-----------------------------------------------------------------------------
(* The names Cleanup knows cover the functions handed out and the          *)
(* containers that are up; the engine's Cleanup waits for the provider's.  *)
THEOREM RunInvariance == RunSpec => [](ProviderInv /\ OrderInv)
<1>1. RunInit => ProviderInv /\ OrderInv
  BY ProviderInvInit, OrderInvInit DEF RunInit
<1>2. ProviderInv /\ OrderInv /\ [RunNext]_runVars => (ProviderInv /\ OrderInv)'
  BY ProviderInvStep, RunStep, OrderInvStep
<1> QED
  BY <1>1, <1>2, PTL DEF RunSpec

(* A run with the engine is a run of the function provider: nothing the    *)
(* engine does is more than the provider allows for.                       *)
THEOREM ImplementsProvider == RunSpec => Spec
<1>1. RunInit => Init
  BY DEF RunInit
<1>2. ProviderInv /\ [RunNext]_runVars => [Next]_vars
  BY RunStep, StepIsNext
<1> QED
  BY <1>1, <1>2, RunInvariance, PTL DEF RunSpec, Spec

(* However the compositions share functions and whatever fails, Cleanup    *)
(* leaves no container but those it could not remove.                      *)
THEOREM ContainersRemoved == RunSpec => []EveryContainerRemoved
<1>1. ProviderInv => EveryContainerRemoved
  BY DEF ProviderInv, CleanupInv, EveryContainerRemoved
<1> QED
  BY <1>1, RunInvariance, PTL

(* The network is released when no container of the run can be on it.      *)
THEOREM ReleasedLast == RunSpec => NetworkReleasedLast
<1>1. ProviderInv /\ OrderInv /\ [RunNext]_runVars =>
        (pc[Main] = "release" /\ network /\ ~network' => containers \subseteq kept)
  BY DEF ProviderInv, CleanupInv, OrderInv
<1> QED
  BY <1>1, RunInvariance, PTL DEF RunSpec, NetworkReleasedLast

-----------------------------------------------------------------------------
(* The functions of a pipeline, by name.                                   *)
NamesOf(functions) == [i \in DOMAIN functions |-> functions[i].name]

(* A registry that is a host, without a path of its own, and annotations   *)
(* that name a variable once.                                              *)
HostOnly == Registry = << >> \/ \E h \in Hosts : Registry = <<h>>
KeysOnce ==
  \A f \in Functions : \A i, j \in DOMAIN EnvPairs[f] :
    EnvPairs[f][i].key = EnvPairs[f][j].key => i = j

(* Functions as they are handed out: prepared once, whatever they went     *)
(* through before. (A registry with a path is not replaced but prepended   *)
(* to, each time.)                                                         *)
Prepared(functions) ==
  \A i \in DOMAIN functions :
    /\ {"name", "package", "env"} \subseteq DOMAIN functions[i]
    /\ functions[i].name \in Functions
    /\ HostOnly => functions[i].package = Overridden(Package[functions[i].name])
    /\ functions[i].env = Upsert(EnvPairs[functions[i].name])

LEMMA OverriddenTwice ==
  ASSUME HostOnly, NEW S, NEW pkg \in Seq(S), pkg # << >>
  PROVE  Overridden(Overridden(pkg)) = Overridden(pkg)
<1>1. CASE Registry = << >>
  BY <1>1 DEF Overridden
<1>2. ASSUME NEW h \in Hosts, Registry = <<h>>
      PROVE  Overridden(Overridden(pkg)) = Overridden(pkg)
  <2> DEFINE rest == IF Len(pkg) > 1 /\ Head(pkg) \in Hosts THEN Tail(pkg) ELSE pkg
             q == <<h>> \o rest
  <2>1. rest \in Seq(S) /\ rest # << >>
    <3>1. Tail(pkg) \in Seq(S) /\ Len(Tail(pkg)) = Len(pkg) - 1 /\ Len(pkg) \in Nat
      BY HeadTailProperties, LenProperties
    <3>2. Len(pkg) > 1 => Len(Tail(pkg)) # 0
      BY <3>1
    <3>3. Len(<< >>) = 0
      OBVIOUS
    <3>4. Len(pkg) > 1 => Tail(pkg) # << >>
      BY <3>2, <3>3, Zenon
    <3> QED
      BY <3>1, <3>4
  <2>2. Registry # << >>
    BY <1>2
  <2>3. Overridden(pkg) = q
    BY <1>2, <2>2 DEF Overridden, ReplaceRegistry
  <2> HIDE DEF rest
  <2>4. rest \in Seq(S \cup {h}) /\ Len(rest) \in Nat \ {0}
    BY <2>1, EmptySeq, LenProperties
  <2>5. Len(q) > 1 /\ Head(q) = h /\ Tail(q) = rest
    BY <2>4
  <2> HIDE DEF q
  <2>6. Overridden(q) = <<h>> \o Tail(q)
    BY <1>2, <2>2, <2>5 DEF Overridden, ReplaceRegistry
  <2> QED
    BY <2>3, <2>5, <2>6 DEF q
<1> QED
  BY <1>1, <1>2 DEF HostOnly

(* The pair is there, nothing else has its key, and a pair with another    *)
(* key stays where it was.                                                 *)
LEMMA UpsertPairs ==
  ASSUME NEW S, NEW pairs \in Seq(S)
  PROVE  /\ DOMAIN pairs \subseteq DOMAIN Upsert(pairs)
         /\ Upsert(pairs) = [i \in DOMAIN Upsert(pairs) |-> Upsert(pairs)[i]]
         /\ \E i \in DOMAIN Upsert(pairs) : Upsert(pairs)[i].key = MaxRecv.key
         /\ \A i \in DOMAIN Upsert(pairs) :
              Upsert(pairs)[i].key = MaxRecv.key => Upsert(pairs)[i] = MaxRecv
         /\ \A i \in DOMAIN pairs :
              Upsert(pairs)[i] = IF pairs[i].key = MaxRecv.key THEN MaxRecv ELSE pairs[i]
         /\ \A i \in DOMAIN Upsert(pairs) \ DOMAIN pairs :
              /\ i = Len(pairs) + 1
              /\ Upsert(pairs)[i] = MaxRecv
              /\ \A j \in DOMAIN pairs : pairs[j].key # MaxRecv.key
<1> DEFINE q == Upsert(pairs)
<1>1. CASE \E i \in DOMAIN pairs : pairs[i].key = MaxRecv.key
  <2>1. q = [i \in DOMAIN pairs |-> IF pairs[i].key = MaxRecv.key THEN MaxRecv ELSE pairs[i]]
    BY <1>1 DEF Upsert
  <2> HIDE DEF q
  <2>2. DOMAIN q = DOMAIN pairs
    BY <2>1
  <2>3. \A i \in DOMAIN pairs : q[i] = IF pairs[i].key = MaxRecv.key THEN MaxRecv ELSE pairs[i]
    BY <2>1
  <2>4. q = [i \in DOMAIN q |-> q[i]]
    BY <2>1
  <2> QED
    BY <1>1, <2>2, <2>3, <2>4 DEF q
<1>2. CASE ~\E i \in DOMAIN pairs : pairs[i].key = MaxRecv.key
  <2>1. q = Append(pairs, MaxRecv)
    BY <1>2 DEF Upsert
  <2>2. /\ Len(pairs) \in Nat
        /\ DOMAIN pairs = 1 .. Len(pairs)
        /\ pairs \in Seq(S \cup {MaxRecv})
    BY LenProperties
  <2> HIDE DEF q
  <2>3. /\ q \in Seq(S \cup {MaxRecv})
        /\ Len(q) = Len(pairs) + 1
        /\ \A i \in 1 .. Len(pairs) : q[i] = pairs[i]
        /\ q[Len(pairs) + 1] = MaxRecv
    BY <2>1, <2>2, AppendProperties
  <2>4. DOMAIN q = 1 .. Len(pairs) + 1 /\ q = [i \in DOMAIN q |-> q[i]]
    BY <2>3, LenProperties
  <2> QED
    BY <1>2, <2>2, <2>3, <2>4 DEF q
<1> QED
  BY <1>1, <1>2

LEMMA UpsertTwice ==
  ASSUME NEW S, NEW pairs \in Seq(S)
  PROVE  Upsert(Upsert(pairs)) = Upsert(pairs)
<1> DEFINE q == Upsert(pairs)
<1>1. /\ q = [i \in DOMAIN q |-> q[i]]
      /\ \E i \in DOMAIN q : q[i].key = MaxRecv.key
      /\ \A i \in DOMAIN q : q[i].key = MaxRecv.key => q[i] = MaxRecv
  BY UpsertPairs
<1> HIDE DEF q
<1>2. Upsert(q) = [i \in DOMAIN q |-> IF q[i].key = MaxRecv.key THEN MaxRecv ELSE q[i]]
  BY <1>1 DEF Upsert
<1>3. Upsert(q) = [i \in DOMAIN q |-> q[i]]
  BY <1>1, <1>2
<1> QED
  BY <1>1, <1>3 DEF q

(* What the wrappers change in a function, and what they do not.           *)
LEMMA ExceptFields ==
  ASSUME NEW f, NEW p, NEW e, {"name", "package", "env"} \subseteq DOMAIN f
  PROVE  /\ DOMAIN [f EXCEPT !.package = p, !.env = e] = DOMAIN f
         /\ [f EXCEPT !.package = p, !.env = e].name = f.name
         /\ [f EXCEPT !.package = p, !.env = e].package = p
         /\ [f EXCEPT !.package = p, !.env = e].env = e
OBVIOUS

LEMMA WrappedFields ==
  ASSUME NEW functions, NEW i \in DOMAIN functions,
         {"name", "package", "env"} \subseteq DOMAIN functions[i]
  PROVE  /\ DOMAIN Wrapped(functions)[i] = DOMAIN functions[i]
         /\ Wrapped(functions)[i].name = functions[i].name
         /\ Wrapped(functions)[i].package = Overridden(functions[i].package)
         /\ Wrapped(functions)[i].env = Upsert(functions[i].env)
<1> DEFINE f == functions[i]
           p == Overridden(f.package)
           e == Upsert(f.env)
           w == [f EXCEPT !.package = p, !.env = e]
<1>1. Wrapped(functions)[i] = w
  BY DEF Wrapped
<1> HIDE DEF f, p, e
<1>2. DOMAIN w = DOMAIN f /\ w.name = f.name /\ w.package = p /\ w.env = e
  BY ExceptFields DEF f
<1> QED
  BY <1>1, <1>2 DEF f, p, e

LEMMA WrappedPrepared ==
  ASSUME NEW functions, Prepared(functions)
  PROVE  Prepared(Wrapped(functions)) /\ NamesOf(Wrapped(functions)) = NamesOf(functions)
<1>1. DOMAIN Wrapped(functions) = DOMAIN functions
  BY DEF Wrapped
<1>2. ASSUME NEW i \in DOMAIN functions
      PROVE  /\ {"name", "package", "env"} \subseteq DOMAIN Wrapped(functions)[i]
             /\ Wrapped(functions)[i].name = functions[i].name
             /\ Wrapped(functions)[i].name \in Functions
             /\ HostOnly => Wrapped(functions)[i].package
                              = Overridden(Package[Wrapped(functions)[i].name])
             /\ Wrapped(functions)[i].env = Upsert(EnvPairs[Wrapped(functions)[i].name])
  <2> DEFINE f == functions[i]
  <2>1. /\ {"name", "package", "env"} \subseteq DOMAIN f
        /\ f.name \in Functions
        /\ HostOnly => f.package = Overridden(Package[f.name])
        /\ f.env = Upsert(EnvPairs[f.name])
    BY DEF Prepared
  <2> HIDE DEF f
  <2>2. /\ Package[f.name] \in Seq({Package[f.name][j] : j \in DOMAIN Package[f.name]})
        /\ Package[f.name] # << >>
        /\ EnvPairs[f.name] \in Seq({EnvPairs[f.name][j] : j \in DOMAIN EnvPairs[f.name]})
    BY <2>1, FunctionProviderAssumption DEF FunctionProviderAssumption
  <2>3. HostOnly => Overridden(Overridden(Package[f.name])) = Overridden(Package[f.name])
    BY <2>2, OverriddenTwice
  <2>4. Upsert(Upsert(EnvPairs[f.name])) = Upsert(EnvPairs[f.name])
    BY <2>2, UpsertTwice
  <2>5. /\ DOMAIN Wrapped(functions)[i] = DOMAIN f
        /\ Wrapped(functions)[i].name = f.name
        /\ Wrapped(functions)[i].package = Overridden(f.package)
        /\ Wrapped(functions)[i].env = Upsert(f.env)
    BY <2>1, WrappedFields DEF f
  <2> QED
    BY <2>1, <2>3, <2>4, <2>5 DEF f
<1> QED
  BY <1>1, <1>2 DEF Prepared, NamesOf

(* A function is fetched with the package that is installed.               *)
LEMMA FetchedPrepared ==
  ASSUME NEW c \in Compositions, \A i \in DOMAIN c.pipeline : c.pipeline[i] \in Functions
  PROVE  Prepared(Wrapped(Fetched(c))) /\ NamesOf(Wrapped(Fetched(c))) = c.pipeline
<1>1. DOMAIN Wrapped(Fetched(c)) = DOMAIN c.pipeline /\ DOMAIN Fetched(c) = DOMAIN c.pipeline
  BY DEF Wrapped, Fetched
<1>2. ASSUME NEW i \in DOMAIN c.pipeline
      PROVE  /\ {"name", "package", "env"} \subseteq DOMAIN Wrapped(Fetched(c))[i]
             /\ Wrapped(Fetched(c))[i].name = c.pipeline[i]
             /\ Wrapped(Fetched(c))[i].package = Overridden(Package[c.pipeline[i]])
             /\ Wrapped(Fetched(c))[i].env = Upsert(EnvPairs[c.pipeline[i]])
  <2> DEFINE f == Fetched(c)[i]
  <2>1. f = [name |-> c.pipeline[i], package |-> Package[c.pipeline[i]],
             container |-> ContainerName(Package[c.pipeline[i]]), env |-> EnvPairs[c.pipeline[i]]]
    BY DEF Fetched
  <2>2. /\ {"name", "package", "env"} \subseteq DOMAIN f
        /\ f.name = c.pipeline[i]
        /\ f.package = Package[c.pipeline[i]]
        /\ f.env = EnvPairs[c.pipeline[i]]
    BY <2>1
  <2> HIDE DEF f
  <2>3. /\ DOMAIN Wrapped(Fetched(c))[i] = DOMAIN f
        /\ Wrapped(Fetched(c))[i].name = f.name
        /\ Wrapped(Fetched(c))[i].package = Overridden(f.package)
        /\ Wrapped(Fetched(c))[i].env = Upsert(f.env)
    BY <1>1, <2>2, WrappedFields DEF f
  <2> QED
    BY <2>2, <2>3
<1>3. c.pipeline = [i \in DOMAIN c.pipeline |-> c.pipeline[i]]
  <2>1. c.pipeline \in Seq({c.pipeline[i] : i \in DOMAIN c.pipeline})
    BY FunctionProviderAssumption DEF FunctionProviderAssumption
  <2> QED
    BY <2>1, LenProperties
<1>4. Prepared(Wrapped(Fetched(c)))
  BY <1>1, <1>2 DEF Prepared
<1>5. NamesOf(Wrapped(Fetched(c))) = [i \in DOMAIN c.pipeline |-> c.pipeline[i]]
  BY <1>1, <1>2 DEF NamesOf
<1> QED
  BY <1>3, <1>4, <1>5

(* What is cached, and what was returned last, are the functions of the    *)
(* composition that was fetched first under the name, prepared.            *)
HandedOutFor(functions, c) ==
  c \in Compositions /\ Prepared(functions) /\ NamesOf(functions) = c.pipeline

HandedOutInv ==
  /\ DOMAIN cache = Names /\ DOMAIN firstOf = Names
  /\ \A n \in Names : cache[n] # NoFunctions => HandedOutFor(cache[n], firstOf[n])
  /\ returned # NoFunctions =>
       /\ returned.comp \in Compositions
       /\ HandedOutFor(returned.functions, firstOf[returned.comp.name])

LEMMA HandedOutAnswer ==
  ASSUME HandedOutInv, NEW c \in Compositions, NEW functions, NEW first,
         cache' = [cache EXCEPT ![c.name] = functions],
         DOMAIN firstOf' = DOMAIN firstOf, firstOf'[c.name] = first,
         \A n \in DOMAIN firstOf \ {c.name} : firstOf'[n] = firstOf[n],
         HandedOutFor(functions, first),
         returned' = [comp |-> c, functions |-> cache'[c.name]]
  PROVE  HandedOutInv'
<1>1. c.name \in Names /\ DOMAIN cache = Names /\ DOMAIN firstOf = Names
  BY DEF Names, HandedOutInv
<1>2. /\ cache'[c.name] = functions /\ DOMAIN cache' = Names
      /\ firstOf'[c.name] = first /\ DOMAIN firstOf' = Names
  BY <1>1
<1>3. ASSUME NEW n \in Names, cache'[n] # NoFunctions
      PROVE  HandedOutFor(cache'[n], firstOf'[n])
  <2>1. CASE n = c.name
    BY <1>2, <2>1
  <2>2. CASE n # c.name
    <3>1. cache'[n] = cache[n] /\ firstOf'[n] = firstOf[n]
      BY <1>1, <2>2
    <3> QED
      BY <1>3, <3>1 DEF HandedOutInv
  <2> QED
    BY <2>1, <2>2
<1>4. /\ [comp |-> c, functions |-> functions].functions = functions
      /\ [comp |-> c, functions |-> functions].comp = c
  OBVIOUS
<1>5. returned'.functions = functions /\ returned'.comp = c
  BY <1>2, <1>4, Zenon
<1>6. HandedOutFor(returned'.functions, firstOf'[returned'.comp.name])
  BY <1>2, <1>5
<1> QED
  BY <1>2, <1>3, <1>5, <1>6 DEF HandedOutInv

LEMMA HandedOutStep == HandedOutInv /\ [RunNext]_runVars => HandedOutInv'
<1> SUFFICES ASSUME HandedOutInv, [RunNext]_runVars
             PROVE  HandedOutInv'
  OBVIOUS
<1>1. ASSUME NEW c \in Compositions, GetFetches(c), firstOf' = [firstOf EXCEPT ![c.name] = c]
      PROVE  HandedOutInv'
  <2>1. /\ cache' = [cache EXCEPT ![c.name] = Wrapped(Fetched(c))]
        /\ returned' = [comp |-> c, functions |-> cache'[c.name]]
        /\ \A i \in DOMAIN c.pipeline : c.pipeline[i] \in Functions
    BY <1>1 DEF GetFetches
  <2>2. HandedOutFor(Wrapped(Fetched(c)), c)
    BY <2>1, FetchedPrepared DEF HandedOutFor
  <2> QED
    BY <1>1, <2>1, <2>2, HandedOutAnswer DEF HandedOutInv, Names
<1>2. ASSUME NEW c \in Compositions, GetCached(c), UNCHANGED firstOf
      PROVE  HandedOutInv'
  <2> DEFINE first == firstOf[c.name]
  <2>1. /\ cache[c.name] # NoFunctions
        /\ cache' = [cache EXCEPT ![c.name] = Wrapped(cache[c.name])]
        /\ returned' = [comp |-> c, functions |-> cache'[c.name]]
    BY <1>2 DEF GetCached
  <2>2. HandedOutFor(cache[c.name], first)
    BY <2>1 DEF HandedOutInv, Names
  <2>3. HandedOutFor(Wrapped(cache[c.name]), first)
    BY <2>2, WrappedPrepared DEF HandedOutFor
  <2>4. firstOf' = firstOf /\ firstOf'[c.name] = first
    BY <1>2
  <2> HIDE DEF first
  <2> QED
    BY <2>1, <2>3, <2>4, HandedOutAnswer
<1>3. ASSUME NEW c \in Compositions, GetFails(c), UNCHANGED firstOf
      PROVE  HandedOutInv'
  BY <1>3 DEF GetFails, HandedOutInv
<1>4. ASSUME UNCHANGED <<cache, returned, firstOf>>
      PROVE  HandedOutInv'
  BY <1>4 DEF HandedOutInv
<1>5. CASE EngineStarts
  BY <1>4, <1>5 DEF EngineStarts, StartContainers
<1>6. CASE ProviderCleanup
  BY <1>4, <1>6 DEF ProviderCleanup, BeginCleanup, RemoveContainer, KeepContainer, EndCleanup
<1>7. CASE RenderWith \/ EngineStep \/ EngineCleanup \/ UNCHANGED runVars
  BY <1>4, <1>7 DEF RenderWith, EngineStep, EngineCleanup, runVars, vars
<1> QED
  BY <1>1, <1>2, <1>3, <1>5, <1>6, <1>7 DEF RunNext, GetFunctions

LEMMA HandedOut == RunSpec => []HandedOutInv
<1>1. RunInit => HandedOutInv
  BY DEF RunInit, Init, HandedOutInv
<1> QED
  BY <1>1, HandedOutStep, PTL DEF RunSpec

-----------------------------------------------------------------------------
(* Each render gets the functions of its composition's pipeline, in order, *)
(* unless another revision of the name was fetched first.                  *)
THEOREM PipelinesFunctions == RunSpec => []NeededFunctions
<1>1. HandedOutInv => NeededFunctions
  <2> SUFFICES ASSUME HandedOutInv, returned # NoFunctions,
                      firstOf[returned.comp.name] \in {NoFunctions, returned.comp}
               PROVE  NamesOf(returned.functions) = returned.comp.pipeline
    BY DEF NeededFunctions, NamesOf
  <2>1. NoFunctions \notin Compositions
    BY FunctionProviderAssumption DEF FunctionProviderAssumption
  <2> QED
    BY <2>1 DEF HandedOutInv, HandedOutFor
<1> QED
  BY <1>1, HandedOut, PTL

(* However often the wrappers go over the cached functions, each is        *)
(* prepared once: for a registry without a path and annotations that set a *)
(* variable once.                                                          *)
THEOREM Idempotent == HostOnly /\ KeysOnce => (RunSpec => []PreparedOnce)
<1>1. ASSUME HostOnly, KeysOnce, HandedOutInv
      PROVE  PreparedOnce
  <2> SUFFICES ASSUME returned # NoFunctions, NEW i \in DOMAIN returned.functions
               PROVE  LET f == returned.functions[i]
                          ours == {j \in DOMAIN f.env : f.env[j].key = MaxRecv.key}
                      IN  /\ f.package = Overridden(Package[f.name])
                          /\ \E j \in ours : ours = {j} /\ f.env[j] = MaxRecv
                          /\ \A j \in DOMAIN EnvPairs[f.name] :
                               \/ EnvPairs[f.name][j].key = MaxRecv.key
                               \/ f.env[j] = EnvPairs[f.name][j]
    BY DEF PreparedOnce
  <2> DEFINE f == returned.functions[i]
             pairs == EnvPairs[f.name]
             ours == {j \in DOMAIN f.env : f.env[j].key = MaxRecv.key}
  <2>1. /\ f.name \in Functions
        /\ f.package = Overridden(Package[f.name])
        /\ f.env = Upsert(pairs)
    BY <1>1 DEF HandedOutInv, HandedOutFor, Prepared
  <2>2. pairs \in Seq({pairs[j] : j \in DOMAIN pairs})
    BY <2>1, FunctionProviderAssumption DEF FunctionProviderAssumption
  <2>3. \A j, k \in DOMAIN pairs : pairs[j].key = pairs[k].key => j = k
    BY <1>1, <2>1 DEF KeysOnce
  <2> HIDE DEF pairs, f
  <2>4. /\ DOMAIN pairs \subseteq DOMAIN f.env
        /\ \E j \in DOMAIN f.env : f.env[j].key = MaxRecv.key
        /\ \A j \in DOMAIN f.env : f.env[j].key = MaxRecv.key => f.env[j] = MaxRecv
        /\ \A j \in DOMAIN pairs :
             f.env[j] = IF pairs[j].key = MaxRecv.key THEN MaxRecv ELSE pairs[j]
        /\ \A j \in DOMAIN f.env \ DOMAIN pairs :
             /\ j = Len(pairs) + 1
             /\ \A k \in DOMAIN pairs : pairs[k].key # MaxRecv.key
    BY <2>1, <2>2, UpsertPairs
  <2>5. \A j, k \in ours : j = k
    BY <2>3, <2>4
  <2>6. \E j \in ours : ours = {j} /\ f.env[j] = MaxRecv
    BY <2>4, <2>5
  <2>7. \A j \in DOMAIN pairs : pairs[j].key = MaxRecv.key \/ f.env[j] = pairs[j]
    BY <2>4
  <2> QED
    BY <2>1, <2>6, <2>7 DEF f, pairs
<1>2. HostOnly /\ KeysOnce => (HandedOutInv => PreparedOnce)
  BY <1>1
<1>3. CASE HostOnly /\ KeysOnce
  <2>1. HandedOutInv => PreparedOnce
    BY <1>2, <1>3
  <2>2. RunSpec => []PreparedOnce
    BY <2>1, HandedOut, PTL
  <2> QED
    BY <2>2
<1> QED
  BY <1>3
=============================================================================
