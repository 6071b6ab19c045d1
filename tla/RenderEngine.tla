----------------------------- MODULE RenderEngine -----------------------------
(***************************************************************************)
(* EngineRenderFn of diffprocessor/render_engine.go: starts the runtimes   *)
(* of the functions a pipeline needs the first time it needs them, keeps   *)
(* them for the calls that follow, and gives everything back in Cleanup.   *)
(* Threads call Render and Cleanup in any order; a mutex serializes them.  *)
(*                                                                         *)
(* The engine, the function runtimes and the docker network are external:  *)
(* Setup creates the network if the engine wants one that is not there and *)
(* only then returns a cleanup that removes it. A failed Setup leaves      *)
(* nothing behind; a failed startRuntimes may leave orphaned runtimes up.  *)
(***************************************************************************)
EXTENDS Integers, Sequences

CONSTANTS
  Threads,          \* goroutines that share the EngineRenderFn
  Functions,        \* function names
  Pipelines,        \* RenderInputs.Functions of the calls, a function per step
  Orphaned,         \* functions whose runtime StopFunctionRuntimes leaves running
  CreatesNetwork,   \* the docker engine, without CROSSPLANE_DIFF_DOCKER_NETWORK
  Free              \* the mutex is not held

ASSUME RenderEngineAssumption ==
  /\ Pipelines \subseteq Seq(Functions)
  /\ Orphaned \subseteq Functions
  /\ CreatesNetwork \in BOOLEAN
  /\ Free \notin Threads

VARIABLES
  mu,               \* the thread that holds e.mu, or Free
  pc,               \* where each thread is
  fns,              \* in.Functions of each thread's call
  newFns,           \* the steps whose function has not been started (newFns)
  cleanup,          \* what Setup returned to the call: "real", "noop", or "none"
  startedNames,     \* e.startedNames
  addrs,            \* e.addrs: the functions that have an address
  addrsList,        \* e.addrsList: the functions each startRuntimes call started
  cleanups,         \* e.cleanups
  network,          \* the docker network the engine created exists
  running           \* functions whose runtime is up

engineVars == <<startedNames, addrs, addrsList, cleanups, network, running>>
vars == <<mu, pc, fns, newFns, cleanup, startedNames, addrs, addrsList,
          cleanups, network, running>>

-----------------------------------------------------------------------------
(* The functions of a call, those its new steps name, and those of a batch *)
(* StopFunctionRuntimes stops.                                             *)
FunctionsOf(t) == {fns[t][i] : i \in DOMAIN fns[t]}
NewFunctions(t) == {fns[t][i] : i \in newFns[t]}
Stopped(batch) == batch \ Orphaned

(* The lock forgotten.                                                     *)
CanLockAlways == TRUE
CanLock == mu = Free

(* An error path that does not go through the deferred Unlock.             *)
ReturnLocked(t) ==
  /\ pc' = [pc EXCEPT ![t] = "idle"]
  /\ cleanup' = [cleanup EXCEPT ![t] = "none"]
  /\ newFns' = [newFns EXCEPT ![t] = {}]
  /\ UNCHANGED <<mu, fns>>

(* The deferred Unlock: whichever way a call ends.                         *)
Return(t) ==
  /\ mu' = Free
  /\ pc' = [pc EXCEPT ![t] = "idle"]
  /\ cleanup' = [cleanup EXCEPT ![t] = "none"]
  /\ newFns' = [newFns EXCEPT ![t] = {}]
  /\ UNCHANGED fns

(* A cleanup function, called: only a real one releases the network.       *)
NetworkAfter(c) == network /\ c # "real"

Init ==
  /\ mu = Free
  /\ pc = [t \in Threads |-> "idle"]
  /\ fns = [t \in Threads |-> << >>]
  /\ newFns = [t \in Threads |-> {}]
  /\ cleanup = [t \in Threads |-> "none"]
  /\ startedNames = {}
  /\ addrs = {}
  /\ addrsList = << >>
  /\ cleanups = << >>
  /\ network = FALSE
  /\ running = {}

CallRender(t, pipeline) ==
  /\ pc[t] = "idle"
  /\ pc' = [pc EXCEPT ![t] = "render called"]
  /\ fns' = [fns EXCEPT ![t] = pipeline]
  /\ UNCHANGED <<mu, newFns, cleanup, engineVars>>

CallCleanup(t) ==
  /\ pc[t] = "idle"
  /\ pc' = [pc EXCEPT ![t] = "cleanup called"]
  /\ UNCHANGED <<mu, fns, newFns, cleanup, engineVars>>

-----------------------------------------------------------------------------
(* Render has the lock: which functions have not been started?             *)
LockRender(t) ==
  /\ pc[t] = "render called"
  /\ CanLock
  /\ mu' = t
  /\ newFns' = [newFns EXCEPT ![t] = {i \in DOMAIN fns[t] : fns[t][i] \notin startedNames}]
  /\ pc' = [pc EXCEPT ![t] = IF newFns'[t] = {} THEN "render" ELSE "setup"]
  /\ UNCHANGED <<fns, cleanup, engineVars>>

(* engine.Setup(newFns)                                                    *)
Setup(t) ==
  /\ pc[t] = "setup"
  /\ pc' = [pc EXCEPT ![t] = "start"]
  /\ cleanup' = [cleanup EXCEPT ![t] = IF CreatesNetwork /\ ~network THEN "real" ELSE "noop"]
  /\ network' = CreatesNetwork
  /\ UNCHANGED <<mu, fns, newFns, startedNames, addrs, addrsList, cleanups, running>>

SetupFails(t) ==
  /\ pc[t] = "setup"
  /\ Return(t)
  /\ UNCHANGED engineVars

(* startRuntimes(newFns): nothing is recorded before it succeeds.          *)
Start(t) ==
  /\ pc[t] = "start"
  /\ pc' = [pc EXCEPT ![t] = "render"]
  /\ running' = running \cup NewFunctions(t)
  /\ addrsList' = Append(addrsList, NewFunctions(t))
  /\ startedNames' = startedNames \cup NewFunctions(t)
  /\ addrs' = addrs \cup NewFunctions(t)
  /\ cleanups' = Append(cleanups, cleanup[t])
  /\ cleanup' = [cleanup EXCEPT ![t] = "none"]
  /\ UNCHANGED <<mu, fns, newFns, network>>

(* Slips of the error path: the names are recorded all the same; the Setup *)
(* is not rolled back.                                                     *)
StartFailsRecorded(t, left) ==
  /\ pc[t] = "start"
  /\ network' = NetworkAfter(cleanup[t])
  /\ running' = running \cup left
  /\ startedNames' = startedNames \cup NewFunctions(t)
  /\ Return(t)
  /\ UNCHANGED <<addrs, addrsList, cleanups>>
StartFailsNoRollback(t, left) ==
  /\ pc[t] = "start"
  /\ running' = running \cup left
  /\ Return(t)
  /\ UNCHANGED <<startedNames, addrs, addrsList, cleanups, network>>

StartFails(t, left) ==
  /\ pc[t] = "start"
  /\ network' = NetworkAfter(cleanup[t])
  /\ running' = running \cup left
  /\ Return(t)
  /\ UNCHANGED <<startedNames, addrs, addrsList, cleanups>>

(* The request is built and engine.Render called with the addresses of     *)
(* in.Functions; whatever comes of it, the call returns.                   *)
RenderReturns(t) ==
  /\ pc[t] = "render"
  /\ Return(t)
  /\ UNCHANGED engineVars

-----------------------------------------------------------------------------
LockCleanup(t) ==
  /\ pc[t] = "cleanup called"
  /\ CanLock
  /\ mu' = t
  /\ pc' = [pc EXCEPT ![t] = "stop"]
  /\ UNCHANGED <<fns, newFns, cleanup, engineVars>>

(* stopRuntimes(fa), one per startRuntimes call.                           *)
StopBatch(t) ==
  /\ pc[t] = "stop"
  /\ addrsList # << >>
  /\ running' = running \ Stopped(Head(addrsList))
  /\ addrsList' = Tail(addrsList)
  /\ UNCHANGED <<mu, pc, fns, newFns, cleanup, startedNames, addrs, cleanups, network>>

(* Forgetting one thing too many.                                          *)
ForgetCleanups(t) ==
  /\ pc[t] = "stop"
  /\ addrsList = << >>
  /\ pc' = [pc EXCEPT ![t] = "release"]
  /\ startedNames' = {}
  /\ addrs' = {}
  /\ cleanups' = << >>
  /\ UNCHANGED <<mu, fns, newFns, cleanup, addrsList, network, running>>

Forget(t) ==
  /\ pc[t] = "stop"
  /\ addrsList = << >>
  /\ pc' = [pc EXCEPT ![t] = "release"]
  /\ startedNames' = {}
  /\ addrs' = {}
  /\ UNCHANGED <<mu, fns, newFns, cleanup, addrsList, cleanups, network, running>>

(* The cleanups, last first.                                               *)
RunCleanup(t) ==
  /\ pc[t] = "release"
  /\ cleanups # << >>
  /\ network' = NetworkAfter(cleanups[Len(cleanups)])
  /\ cleanups' = SubSeq(cleanups, 1, Len(cleanups) - 1)
  /\ UNCHANGED <<mu, pc, fns, newFns, cleanup, startedNames, addrs, addrsList, running>>

CleanupReturns(t) ==
  /\ pc[t] = "release"
  /\ cleanups = << >>
  /\ Return(t)
  /\ UNCHANGED engineVars

-----------------------------------------------------------------------------
Call(t) == (\E pipeline \in Pipelines : CallRender(t, pipeline)) \/ CallCleanup(t)

Lock(t) == LockRender(t) \/ LockCleanup(t)

(* What a thread that holds the lock does.                                 *)
Holding(t) ==
  \/ Setup(t)
  \/ SetupFails(t)
  \/ Start(t)
  \/ \E left \in SUBSET (NewFunctions(t) \cap Orphaned) : StartFails(t, left)
  \/ RenderReturns(t)
  \/ StopBatch(t)
  \/ Forget(t)
  \/ RunCleanup(t)
  \/ CleanupReturns(t)

Next == \E t \in Threads : Call(t) \/ Lock(t) \/ Holding(t)

Spec == Init /\ [][Next]_vars

(* Calls into the engine return (the context carries --timeout), and a     *)
(* sync.Mutex does not starve a goroutine that waits for it.               *)
FairSpec ==
  /\ Spec
  /\ \A t \in Threads : WF_vars(Holding(t)) /\ SF_vars(Lock(t))

-----------------------------------------------------------------------------
TypeOK ==
  /\ mu \in Threads \cup {Free}
  /\ pc \in [Threads -> {"idle", "render called", "cleanup called", "setup",
                         "start", "render", "stop", "release"}]
  /\ fns \in [Threads -> Seq(Functions)]
  /\ newFns \in [Threads -> SUBSET Nat]
  /\ \A t \in Threads : newFns[t] \subseteq DOMAIN fns[t]
  /\ cleanup \in [Threads -> {"none", "real", "noop"}]
  /\ startedNames \in SUBSET Functions
  /\ addrs \in SUBSET Functions
  /\ addrsList \in Seq(SUBSET Functions)
  /\ cleanups \in Seq({"real", "noop"})
  /\ network \in BOOLEAN
  /\ running \in SUBSET Functions

(* Whenever engine.Render is called, every function of that pipeline has   *)
(* an address and a runtime that is up, and the network the runtimes were  *)
(* joined to exists -- although other calls start, fail to start, roll     *)
(* back and clean up in between.                                           *)
Served ==
  \A t \in Threads : pc[t] = "render" =>
    /\ FunctionsOf(t) \subseteq addrs \cap running
    /\ FunctionsOf(t) # {} /\ CreatesNetwork => network

(* The network exists exactly as long as one cleanup that releases it is   *)
(* held: by the call that created it, until it is in e.cleanups.           *)
NetworkOwned ==
  LET listed == {i \in DOMAIN cleanups : cleanups[i] = "real"}
      held == {t \in Threads : cleanup[t] = "real"}
  IN  /\ network <=> listed # {} \/ held # {}
      /\ listed = {} \/ held = {}
      /\ \A i, j \in listed : i = j
      /\ \A t, u \in held : t = u

(* A function one startRuntimes call started is not started by another     *)
(* while it runs ("so we don't restart a function that's already running") *)
NotRestarted ==
  \A i, j \in DOMAIN addrsList : i # j => addrsList[i] \cap addrsList[j] = {}

(* After Cleanup returns nothing the engine started is left, and the next  *)
(* Render starts from nothing; a second Cleanup has nothing to do.         *)
NothingLeft ==
  [][\A t \in Threads : pc[t] = "release" /\ pc'[t] = "idle" =>
       /\ running' \subseteq Orphaned
       /\ ~network'
       /\ startedNames' = {}
       /\ cleanups' = << >>]_vars

(* Every Render and every Cleanup returns, whichever of its steps fail.    *)
Returns == \A t \in Threads : pc[t] # "idle" ~> pc[t] = "idle"
=============================================================================
