--------------------------- MODULE FunctionProvider ---------------------------
(***************************************************************************)
(* CachedFunctionProvider of diffprocessor/function_provider.go, wrapped   *)
(* in the registry override and the environment injection as               *)
(* NewDiffProcessor wraps it: which functions a composition is rendered    *)
(* with, under which container names, and which containers Cleanup removes *)
(* from the docker daemon.                                                 *)
(*                                                                         *)
(* An image reference is the sequence of its path components; the last one *)
(* is the image name with its version or digest. A container name is that  *)
(* component (the instance id that makes it unique to the run is left out).*)
(***************************************************************************)
EXTENDS Integers, Sequences

CONSTANTS
  Compositions,     \* compositions, and revisions of compositions, to render with
  Package,          \* the installed functions and their packages
  Hosts,            \* path components with a '.' or a ':', and "localhost"
  Registry,         \* --function-registry-override: its components, << >> if unset
  EnvPairs,         \* the pairs of each function's runtime-docker-env annotation
  MaxRecv,          \* the MAX_RECV_MESSAGE_SIZE pair to inject
  NoFunctions       \* nothing cached for a composition; no call has returned

Names == {c.name : c \in Compositions}
Functions == DOMAIN Package

ASSUME FunctionProviderAssumption ==
  /\ NoFunctions \notin Compositions
  /\ \A c \in Compositions : c.pipeline \in Seq({c.pipeline[i] : i \in DOMAIN c.pipeline})
  /\ \A f \in Functions :
       /\ Package[f] \in Seq({Package[f][i] : i \in DOMAIN Package[f]}) \ {<< >>}
       /\ EnvPairs[f] \in Seq({EnvPairs[f][i] : i \in DOMAIN EnvPairs[f]})

VARIABLES
  cache,            \* the functions cached per composition name
  containerNames,   \* the container names to clean up
  containers,       \* the containers the docker daemon has
  returned,         \* the composition last asked for and the functions returned
  phase,            \* "open", "cleanup" or "closed"
  pending,          \* container names Cleanup has not come to
  kept              \* containers Cleanup could not remove

vars == <<cache, containerNames, containers, returned, phase, pending, kept>>

-----------------------------------------------------------------------------
(* The registry that is there is not looked for.                           *)
PrependRegistry(pkg) == Registry \o pkg

(* replaceRegistry                                                         *)
ReplaceRegistry(pkg) ==
  IF Len(pkg) > 1 /\ Head(pkg) \in Hosts THEN Registry \o Tail(pkg) ELSE Registry \o pkg

Overridden(pkg) == IF Registry = << >> THEN pkg ELSE ReplaceRegistry(pkg)

(* generateContainerName                                                   *)
ContainerName(pkg) == pkg[Len(pkg)]

(* upsertEnvPair                                                           *)
Upsert(pairs) ==
  LET replaced == [i \in DOMAIN pairs |-> IF pairs[i].key = MaxRecv.key THEN MaxRecv ELSE pairs[i]]
  IN  IF \E i \in DOMAIN pairs : pairs[i].key = MaxRecv.key
      THEN replaced
      ELSE Append(pairs, MaxRecv)

(* GetFunctionsFromPipeline, annotated: a function per step, its container *)
(* named after the package it is installed from.                           *)
Fetched(c) ==
  [i \in DOMAIN c.pipeline |->
     [name      |-> c.pipeline[i],
      package   |-> Package[c.pipeline[i]],
      container |-> ContainerName(Package[c.pipeline[i]]),
      env       |-> EnvPairs[c.pipeline[i]]]]

(* What the wrappers do to each function, in place: the slice is the one   *)
(* that is cached.                                                         *)
Wrapped(functions) ==
  [i \in DOMAIN functions |->
     [functions[i] EXCEPT !.package = Overridden(@), !.env = Upsert(@)]]

Init ==
  /\ cache = [n \in Names |-> NoFunctions]
  /\ containerNames = {}
  /\ containers = {}
  /\ returned = NoFunctions
  /\ phase = "open"
  /\ pending = {}
  /\ kept = {}

(* A cache miss: fetch, annotate, track, cache.                            *)
GetFetches(c) ==
  /\ phase = "open"
  /\ cache[c.name] = NoFunctions
  /\ \A i \in DOMAIN c.pipeline : c.pipeline[i] \in Functions
  /\ cache' = [cache EXCEPT ![c.name] = Wrapped(Fetched(c))]
  /\ containerNames' = containerNames \cup {Fetched(c)[i].container : i \in DOMAIN c.pipeline}
  /\ returned' = [comp |-> c, functions |-> cache'[c.name]]
  /\ UNCHANGED <<containers, phase, pending, kept>>

(* The result is cached before the error is looked at.                     *)
GetFailsCached(c) ==
  /\ phase = "open"
  /\ cache[c.name] = NoFunctions
  /\ \E i \in DOMAIN c.pipeline : c.pipeline[i] \notin Functions
  /\ cache' = [cache EXCEPT ![c.name] = << >>]
  /\ returned' = NoFunctions
  /\ UNCHANGED <<containerNames, containers, phase, pending, kept>>

(* A cache miss: "function %q referenced in pipeline step %q not found".   *)
GetFails(c) ==
  /\ phase = "open"
  /\ cache[c.name] = NoFunctions
  /\ \E i \in DOMAIN c.pipeline : c.pipeline[i] \notin Functions
  /\ returned' = NoFunctions
  /\ UNCHANGED <<cache, containerNames, containers, phase, pending, kept>>

(* A cache hit, by the name of the composition.                            *)
GetCached(c) ==
  /\ phase = "open"
  /\ cache[c.name] # NoFunctions
  /\ cache' = [cache EXCEPT ![c.name] = Wrapped(@)]
  /\ returned' = [comp |-> c, functions |-> cache'[c.name]]
  /\ UNCHANGED <<containerNames, containers, phase, pending, kept>>

(* The engine starts some of the functions it was given; a container that  *)
(* has the name is used again.                                             *)
StartContainers(some) ==
  /\ phase = "open"
  /\ returned # NoFunctions
  /\ some \subseteq {returned.functions[i].container : i \in DOMAIN returned.functions}
  /\ containers' = containers \cup some
  /\ UNCHANGED <<cache, containerNames, returned, phase, pending, kept>>

-----------------------------------------------------------------------------
(* Cleanup: with no docker client it gives up, silently.                   *)
BeginCleanup(docker) ==
  /\ phase = "open"
  /\ phase' = "cleanup"
  /\ pending' = IF docker THEN containerNames ELSE {}
  /\ kept' = IF docker THEN {} ELSE containers
  /\ UNCHANGED <<cache, containerNames, containers, returned>>

(* A tracked container that exists is listed and removed by force; either  *)
(* call can fail, and the loop goes on.                                    *)
RemoveContainer(name) ==
  /\ phase = "cleanup"
  /\ name \in pending
  /\ pending' = pending \ {name}
  /\ containers' = containers \ {name}
  /\ UNCHANGED <<cache, containerNames, returned, phase, kept>>

(* The first failure ends the loop.                                        *)
KeepContainerStops(name) ==
  /\ phase = "cleanup"
  /\ name \in pending
  /\ pending' = {}
  /\ kept' = kept \cup {name}
  /\ UNCHANGED <<cache, containerNames, containers, returned, phase>>

KeepContainer(name) ==
  /\ phase = "cleanup"
  /\ name \in pending
  /\ pending' = pending \ {name}
  /\ kept' = kept \cup {name}
  /\ UNCHANGED <<cache, containerNames, containers, returned, phase>>

EndCleanup ==
  /\ phase = "cleanup"
  /\ pending = {}
  /\ phase' = "closed"
  /\ UNCHANGED <<cache, containerNames, containers, returned, pending, kept>>

Get == \E c \in Compositions : GetFetches(c) \/ GetFails(c) \/ GetCached(c)

Cleanup ==
  \/ \E docker \in BOOLEAN : BeginCleanup(docker)
  \/ \E name \in pending : RemoveContainer(name) \/ KeepContainer(name)
  \/ EndCleanup

Next ==
  \/ Get
  \/ \E some \in SUBSET {ContainerName(Package[f]) : f \in Functions} : StartContainers(some)
  \/ Cleanup

Spec == Init /\ [][Next]_vars

-----------------------------------------------------------------------------
IsFunction(f) ==
  /\ f.name \in Functions
  /\ f.package # << >>
  /\ f.container \in {ContainerName(Package[g]) : g \in Functions}
  /\ f.env # << >>

TypeOK ==
  /\ \A n \in Names : cache[n] # NoFunctions =>
       \A i \in DOMAIN cache[n] : IsFunction(cache[n][i])
  /\ returned # NoFunctions => returned.comp \in Compositions
  /\ phase \in {"open", "cleanup", "closed"}
  /\ containerNames \subseteq {ContainerName(Package[f]) : f \in Functions}
  /\ containers \cup pending \cup kept \subseteq containerNames

(* Cleanup removes every container the run started, whatever it was that   *)
(* started it and however often the composition was asked for, except the  *)
(* ones the docker daemon failed to list or to remove.                     *)
EveryContainerRemoved == phase = "closed" => containers \subseteq kept

(* However often a composition is rendered, a function's package is the    *)
(* installed one with its registry replaced, its "repository path, tag,    *)
(* and/or digest" preserved, and its environment has the injected pair     *)
(* once, as the last word on its key, with every other pair it was         *)
(* annotated with ("the upsert is idempotent"): both are written into the  *)
(* functions that are cached and returned again.                           *)
PreparedOnce ==
  returned # NoFunctions =>
    \A i \in DOMAIN returned.functions :
      LET f == returned.functions[i]
          ours == {j \in DOMAIN f.env : f.env[j].key = MaxRecv.key}
      IN  /\ f.package = Overridden(Package[f.name])
          /\ \E j \in ours : ours = {j} /\ f.env[j] = MaxRecv
          /\ \A j \in DOMAIN EnvPairs[f.name] :
               EnvPairs[f.name][j].key = MaxRecv.key \/ f.env[j] = EnvPairs[f.name][j]
=============================================================================
