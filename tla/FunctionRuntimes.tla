--------------------------- MODULE FunctionRuntimes ---------------------------
(***************************************************************************)
(* The life of the function containers of one run: the function provider   *)
(* names them and removes them, the render engine starts them on the       *)
(* network it created and releases the network. Renders go through both,   *)
(* and so does Cleanup of diffprocessor/diff_processor.go, which calls     *)
(* them in that order. Both modules keep their own state; `running' of     *)
(* RenderEngine and `containers' of FunctionProvider are two views of the  *)
(* docker daemon: the provider's annotations leave every runtime running   *)
(* when the engine stops it.                                               *)
(***************************************************************************)
EXTENDS FunctionProvider

CONSTANTS
  Main,               \* the one goroutine of the program
  Pipelines, CreatesNetwork, Free     \* as in RenderEngine

VARIABLES
  mu, pc, fns, newFns, cleanup, startedNames, addrs, addrsList, cleanups, network,
  running,            \* as in RenderEngine
  firstOf             \* history: the composition first fetched under each name

Engine == INSTANCE RenderEngine WITH Threads <- {Main}, Orphaned <- Functions

engineVars == <<mu, pc, fns, newFns, cleanup, startedNames, addrs, addrsList, cleanups,
                network, running>>
runVars == <<vars, engineVars, firstOf>>

ASSUME FunctionRuntimesAssumption ==
  /\ Pipelines \subseteq Seq(Functions)
  /\ CreatesNetwork \in BOOLEAN
  /\ Free # Main

-----------------------------------------------------------------------------
(* The containers of these functions, under the names they are annotated   *)
(* with: two functions from packages of one image name share a container.  *)
ContainersOf(functions) == {ContainerName(Package[f]) : f \in functions}
RuntimesIn(names) == {f \in Functions : ContainerName(Package[f]) \in names}

RunInit ==
  /\ Init
  /\ Engine!Init
  /\ firstOf = [n \in Names |-> NoFunctions]

(* diffSingleResourceInternal asks for the functions of a composition.     *)
GetFunctions(c) ==
  /\ pc[Main] = "idle"
  /\ \/ GetFetches(c) /\ firstOf' = [firstOf EXCEPT ![c.name] = c]
     \/ (GetFails(c) \/ GetCached(c)) /\ UNCHANGED firstOf
  /\ UNCHANGED engineVars

(* ... and renders with them, as often as the render loop wants.           *)
RenderWith ==
  /\ phase = "open"
  /\ returned # NoFunctions
  /\ Engine!CallRender(Main, [i \in DOMAIN returned.functions |-> returned.functions[i].name])
  /\ UNCHANGED <<vars, firstOf>>

(* A runtime the engine starts is a container of the daemon, also one that *)
(* a failed start left behind.                                             *)
EngineStarts ==
  /\ \/ Engine!Start(Main)
     \/ \E left \in SUBSET Engine!NewFunctions(Main) : Engine!StartFails(Main, left)
  /\ StartContainers(ContainersOf(running' \ running))
  /\ UNCHANGED firstOf

(* The other steps of Render and those of the engine's Cleanup. Stopping a *)
(* runtime of the provider's leaves its container up.                      *)
EngineStep ==
  /\ \/ Engine!Lock(Main)
     \/ Engine!Setup(Main)
     \/ Engine!SetupFails(Main)
     \/ Engine!RenderReturns(Main)
     \/ Engine!StopBatch(Main)
     \/ Engine!Forget(Main)
     \/ Engine!RunCleanup(Main)
     \/ Engine!CleanupReturns(Main)
  /\ UNCHANGED <<vars, firstOf>>

(* The deferred Cleanup of the command: first the containers ...           *)
ProviderCleanup ==
  /\ pc[Main] = "idle"
  /\ \/ (\E docker \in BOOLEAN : BeginCleanup(docker)) /\ UNCHANGED running
     \/ \E name \in pending :
          \/ RemoveContainer(name) /\ running' = running \ RuntimesIn({name})
          \/ KeepContainer(name) /\ UNCHANGED running
     \/ EndCleanup /\ UNCHANGED running
  /\ UNCHANGED <<mu, pc, fns, newFns, cleanup, startedNames, addrs, addrsList, cleanups,
                 network, firstOf>>

(* A slip in Cleanup: the engine is cleaned up without waiting for the    *)
(* provider.                                                               *)
EngineCleanupFirst ==
  /\ phase # "cleanup"
  /\ Engine!CallCleanup(Main)
  /\ UNCHANGED <<vars, firstOf>>

(* ... whatever became of them, then the runtimes and the network.         *)
EngineCleanup ==
  /\ phase = "closed"
  /\ Engine!CallCleanup(Main)
  /\ UNCHANGED <<vars, firstOf>>

RunNext ==
  \/ \E c \in Compositions : GetFunctions(c)
  \/ RenderWith
  \/ EngineStarts
  \/ EngineStep
  \/ ProviderCleanup
  \/ EngineCleanup

RunSpec == RunInit /\ [][RunNext]_runVars

-----------------------------------------------------------------------------
(* The functions returned for a composition are "the functions needed to   *)
(* render" it, those of its pipeline, in the first render and in every     *)
(* later one, after failed look-ups too: unless another revision of it was *)
(* fetched first, whose functions it then gets.                            *)
NeededFunctions ==
  returned # NoFunctions /\ firstOf[returned.comp.name] \in {NoFunctions, returned.comp} =>
    [i \in DOMAIN returned.functions |-> returned.functions[i].name] = returned.comp.pipeline

(* When Cleanup releases the network, no container of the run is on it any *)
(* more, except one docker would not remove: a network in use cannot be    *)
(* removed. (A failed start rolls its own network back regardless.)        *)
NetworkReleasedLast ==
  [][pc[Main] = "release" /\ network /\ ~network' => containers \subseteq kept]_runVars
=============================================================================
