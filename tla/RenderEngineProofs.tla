-------------------------- MODULE RenderEngineProofs --------------------------
(***************************************************************************)
(* Theorems about RenderEngine, for any number of threads, any functions   *)
(* and any pipelines, with or without a network of its own.                *)
(***************************************************************************)
EXTENDS RenderEngine, SequenceTheorems, TLAPS

(* The places where a thread holds the mutex.                              *)
Critical == {"setup", "start", "render", "stop", "release"}

(* Mutual exclusion, and what a call holds besides.                        *)
MutexInv ==
  \A t \in Threads :
    /\ pc[t] \in Critical <=> mu = t
    /\ cleanup[t] = "none" <=> pc[t] # "start"
    /\ newFns[t] # {} => pc[t] \in {"setup", "start", "render"}

(* The records agree with one another: a batch is recorded as a whole, and *)
(* no function is in two of them.                                          *)
RecordInv ==
  /\ addrs = startedNames
  /\ \A i \in DOMAIN addrsList : addrsList[i] \subseteq startedNames
  /\ NotRestarted
  /\ \A t \in Threads :
       /\ pc[t] \in {"setup", "start"} =>
            \A i \in DOMAIN fns[t] : i \in newFns[t] <=> fns[t][i] \notin startedNames
       /\ pc[t] = "render" => FunctionsOf(t) \subseteq startedNames
       /\ pc[t] = "release" => startedNames = {} /\ addrsList = << >>

(* The records agree with the runtimes: what is recorded runs, unless it   *)
(* is being stopped, and what runs is recorded or orphaned.                *)
RuntimeInv ==
  /\ (\A t \in Threads : pc[t] # "stop") => startedNames \subseteq running
  /\ \A f \in running : f \in Orphaned \/ \E i \in DOMAIN addrsList : f \in addrsList[i]

(* The network outlives whatever was joined to it.                         *)
NetworkInv ==
  /\ NetworkOwned
  /\ ~CreatesNetwork => ~network
  /\ CreatesNetwork /\ startedNames # {} => network
  /\ \A t \in Threads :
       /\ pc[t] = "start" /\ CreatesNetwork => network
       /\ cleanup[t] = "real" => startedNames = {}

EngineInv == TypeOK /\ MutexInv /\ RecordInv /\ RuntimeInv /\ NetworkInv

-----------------------------------------------------------------------------
(* Initially nothing is held, started or recorded.                         *)
LEMMA InitInv == Init => EngineInv
<1> SUFFICES ASSUME Init PROVE EngineInv
  OBVIOUS
<1> USE DEF Init
<1>1. TypeOK
  <2>1. << >> \in Seq(Functions) /\ << >> \in Seq(SUBSET Functions) /\ << >> \in Seq({"real", "noop"})
    OBVIOUS
  <2>2. fns \in [Threads -> Seq(Functions)]
    BY <2>1
  <2>3. pc \in [Threads -> {"idle"}] /\ cleanup \in [Threads -> {"none"}]
    OBVIOUS
  <2>4. newFns \in [Threads -> SUBSET Nat] /\ \A t \in Threads : newFns[t] \subseteq DOMAIN fns[t]
    OBVIOUS
  <2> QED
    BY <2>1, <2>2, <2>3, <2>4 DEF TypeOK
<1>2. MutexInv
  BY RenderEngineAssumption DEF MutexInv, Critical
<1>3. RecordInv
  BY DEF RecordInv, NotRestarted
<1>4. RuntimeInv
  BY DEF RuntimeInv
<1>5. NetworkInv
  BY DEF NetworkInv, NetworkOwned
<1> QED
  BY <1>1, <1>2, <1>3, <1>4, <1>5 DEF EngineInv

(* What Append, Tail and dropping the last element do to the indices.      *)
LEMMA AppendFacts ==
  ASSUME NEW S, NEW s \in Seq(S), NEW e \in S
  PROVE  /\ Append(s, e) \in Seq(S)
         /\ DOMAIN Append(s, e) = DOMAIN s \cup {Len(s) + 1}
         /\ Len(s) + 1 \notin DOMAIN s
         /\ \A i \in DOMAIN s : Append(s, e)[i] = s[i]
         /\ Append(s, e)[Len(s) + 1] = e
<1>1. /\ Append(s, e) \in Seq(S)
      /\ Len(Append(s, e)) = Len(s) + 1
      /\ \A i \in 1 .. Len(s) : Append(s, e)[i] = s[i]
      /\ Append(s, e)[Len(s) + 1] = e
  BY AppendProperties
<1>2. DOMAIN s = 1 .. Len(s) /\ Len(s) \in Nat
  BY LenProperties
<1>3. DOMAIN Append(s, e) = 1 .. Len(s) + 1
  BY <1>1, LenProperties
<1> QED
  BY <1>1, <1>2, <1>3

LEMMA TailFacts ==
  ASSUME NEW S, NEW s \in Seq(S), s # << >>
  PROVE  /\ Head(s) = s[1]
         /\ Tail(s) \in Seq(S)
         /\ \A i \in DOMAIN Tail(s) : i + 1 \in DOMAIN s /\ Tail(s)[i] = s[i + 1]
         /\ \A i \in DOMAIN s : i # 1 => i - 1 \in DOMAIN Tail(s) /\ Tail(s)[i - 1] = s[i]
         /\ DOMAIN s \subseteq Nat /\ DOMAIN Tail(s) \subseteq Nat
         /\ 1 \in DOMAIN s
<1>1. /\ Tail(s) \in Seq(S)
      /\ Len(Tail(s)) = Len(s) - 1
      /\ \A i \in 1 .. Len(Tail(s)) : Tail(s)[i] = s[i + 1]
  BY HeadTailProperties
<1>2. DOMAIN s = 1 .. Len(s) /\ Len(s) \in Nat
  BY LenProperties
<1>3. DOMAIN Tail(s) = 1 .. Len(Tail(s))
  BY <1>1, LenProperties
<1>4. Len(s) # 0
  BY <1>2, EmptySeq
<1>5. Head(s) = s[1]
  OBVIOUS
<1> QED
  BY <1>1, <1>2, <1>3, <1>4, <1>5

LEMMA FrontFacts ==
  ASSUME NEW S, NEW s \in Seq(S), s # << >>
  PROVE  /\ SubSeq(s, 1, Len(s) - 1) \in Seq(S)
         /\ DOMAIN SubSeq(s, 1, Len(s) - 1) = DOMAIN s \ {Len(s)}
         /\ \A i \in DOMAIN s \ {Len(s)} : SubSeq(s, 1, Len(s) - 1)[i] = s[i]
         /\ Len(s) \in DOMAIN s
<1> DEFINE front == SubSeq(s, 1, Len(s) - 1)
<1>1. DOMAIN s = 1 .. Len(s) /\ Len(s) \in Nat /\ \A i \in DOMAIN s : s[i] \in S
  BY LenProperties, ElementOfSeq
<1>2. Len(s) # 0
  BY <1>1, EmptySeq
<1>3. \A i \in 1 .. Len(s) - 1 : s[i] \in S
  BY <1>1
<1>4. /\ front \in Seq(S)
      /\ Len(front) = Len(s) - 1
      /\ \A i \in 1 .. Len(s) - 1 : front[i] = s[i]
  <2>1. Len(s) - 1 \in Int /\ 1 \in Int
    BY <1>1
  <2>2. /\ front \in Seq(S)
        /\ Len(front) = IF 1 <= Len(s) - 1 THEN Len(s) - 1 - 1 + 1 ELSE 0
        /\ \A i \in 1 .. Len(s) - 1 - 1 + 1 : front[i] = s[1 + i - 1]
    BY <1>3, <2>1, SubSeqProperties
  <2> QED
    BY <1>1, <1>2, <2>2
<1>5. DOMAIN front = 1 .. Len(front)
  BY <1>4, LenProperties
<1> HIDE DEF front
<1>6. front \in Seq(S) /\ DOMAIN front = DOMAIN s \ {Len(s)} /\ Len(s) \in DOMAIN s
      /\ \A i \in DOMAIN s \ {Len(s)} : front[i] = s[i]
  BY <1>1, <1>2, <1>4, <1>5
<1> QED
  BY <1>6 DEF front

(* The new steps of a call name functions.                                 *)
LEMMA NewFunctionsType ==
  ASSUME TypeOK, NEW t \in Threads
  PROVE  NewFunctions(t) \subseteq Functions
<1>1. fns[t] \in Seq(Functions) /\ newFns[t] \subseteq DOMAIN fns[t]
  BY DEF TypeOK
<1>2. \A i \in DOMAIN fns[t] : fns[t][i] \in Functions
  BY <1>1
<1> QED
  BY <1>1, <1>2 DEF NewFunctions

(* Types and mutual exclusion, first for what all error paths share.       *)
LEMMA ReturnStep ==
  ASSUME TypeOK, MutexInv, NEW t \in Threads, pc[t] \in Critical, Return(t)
  PROVE  /\ mu' \in Threads \cup {Free}
         /\ pc' \in [Threads -> {"idle", "render called", "cleanup called", "setup",
                                 "start", "render", "stop", "release"}]
         /\ fns' \in [Threads -> Seq(Functions)]
         /\ newFns' \in [Threads -> SUBSET Nat]
         /\ \A u \in Threads : newFns'[u] \subseteq DOMAIN fns'[u]
         /\ cleanup' \in [Threads -> {"none", "real", "noop"}]
         /\ MutexInv'
<1> USE RenderEngineAssumption DEF TypeOK, Return
<1>1. MutexInv'
  BY DEF MutexInv, Critical
<1>2. newFns' \in [Threads -> SUBSET Nat]
  OBVIOUS
<1>3. \A u \in Threads : newFns'[u] \subseteq DOMAIN fns'[u]
  OBVIOUS
<1> QED
  BY <1>1, <1>2, <1>3

LEMMA TypeStep == TypeOK /\ MutexInv /\ [Next]_vars => TypeOK' /\ MutexInv'
<1> SUFFICES ASSUME TypeOK, MutexInv, [Next]_vars PROVE TypeOK' /\ MutexInv'
  OBVIOUS
<1> USE RenderEngineAssumption
<1>1. ASSUME NEW t \in Threads, NEW pipeline \in Pipelines, CallRender(t, pipeline)
      PROVE  TypeOK' /\ MutexInv'
  <2>1. pipeline \in Seq(Functions) /\ newFns[t] = {}
    BY <1>1 DEF CallRender, MutexInv
  <2>2. fns' \in [Threads -> Seq(Functions)]
    BY <1>1, <2>1 DEF TypeOK, CallRender
  <2>3. \A u \in Threads : newFns'[u] \subseteq DOMAIN fns'[u]
    BY <1>1, <2>1 DEF TypeOK, CallRender
  <2>4. TypeOK'
    BY <1>1, <2>2, <2>3 DEF TypeOK, CallRender, engineVars
  <2>5. MutexInv'
    BY <1>1 DEF TypeOK, MutexInv, Critical, CallRender
  <2> QED
    BY <2>4, <2>5
<1>2. ASSUME NEW t \in Threads, CallCleanup(t)
      PROVE  TypeOK' /\ MutexInv'
  BY <1>2 DEF TypeOK, MutexInv, Critical, CallCleanup, engineVars
<1>3. ASSUME NEW t \in Threads, LockRender(t)
      PROVE  TypeOK' /\ MutexInv'
  <2>1. mu = Free /\ \A u \in Threads : pc[u] \notin Critical
    BY <1>3 DEF LockRender, CanLock, MutexInv
  <2>2. newFns' \in [Threads -> SUBSET Nat]
    <3>1. DOMAIN fns[t] \subseteq Nat
      <4>1. fns[t] \in Seq(Functions)
        BY DEF TypeOK
      <4> QED
        BY <4>1
    <3> QED
      BY <1>3, <3>1 DEF LockRender, TypeOK
  <2>3. \A u \in Threads : newFns'[u] \subseteq DOMAIN fns'[u]
    BY <1>3 DEF LockRender, TypeOK
  <2>4. pc' \in [Threads -> {"idle", "render called", "cleanup called", "setup",
                              "start", "render", "stop", "release"}]
    BY <1>3 DEF LockRender, TypeOK
  <2>5. TypeOK'
    BY <1>3, <2>2, <2>3, <2>4 DEF LockRender, TypeOK, engineVars
  <2>6. MutexInv'
    BY <1>3, <2>1 DEF LockRender, TypeOK, MutexInv, Critical
  <2> QED
    BY <2>5, <2>6
<1>4. ASSUME NEW t \in Threads, LockCleanup(t)
      PROVE  TypeOK' /\ MutexInv'
  BY <1>4 DEF LockCleanup, CanLock, TypeOK, MutexInv, Critical, engineVars
<1>5. ASSUME NEW t \in Threads, Setup(t)
      PROVE  TypeOK' /\ MutexInv'
  <2>1. TypeOK'
    BY <1>5 DEF Setup, TypeOK
  <2>2. MutexInv'
    BY <1>5 DEF Setup, TypeOK, MutexInv, Critical
  <2> QED
    BY <2>1, <2>2
<1>6. ASSUME NEW t \in Threads, SetupFails(t) \/ RenderReturns(t) \/ CleanupReturns(t)
      PROVE  TypeOK' /\ MutexInv'
  <2>1. pc[t] \in Critical /\ Return(t) /\ UNCHANGED engineVars
    BY <1>6 DEF SetupFails, RenderReturns, CleanupReturns, Critical
  <2> QED
    BY <2>1, ReturnStep DEF TypeOK, engineVars
<1>7. ASSUME NEW t \in Threads, Start(t)
      PROVE  TypeOK' /\ MutexInv'
  <2>1. NewFunctions(t) \subseteq Functions
    BY NewFunctionsType
  <2>2. cleanup[t] \in {"real", "noop"}
    BY <1>7 DEF Start, TypeOK, MutexInv
  <2>3. addrsList' \in Seq(SUBSET Functions) /\ cleanups' \in Seq({"real", "noop"})
    BY <1>7, <2>1, <2>2, AppendFacts DEF Start, TypeOK
  <2>4. TypeOK'
    BY <1>7, <2>1, <2>3 DEF Start, TypeOK
  <2>5. MutexInv'
    BY <1>7 DEF Start, TypeOK, MutexInv, Critical
  <2> QED
    BY <2>4, <2>5
<1>8. ASSUME NEW t \in Threads, NEW left \in SUBSET (NewFunctions(t) \cap Orphaned),
             StartFails(t, left)
      PROVE  TypeOK' /\ MutexInv'
  <2>1. pc[t] \in Critical /\ Return(t) /\ network' \in BOOLEAN
    BY <1>8 DEF StartFails, NetworkAfter, TypeOK, Critical
  <2>2. running' \in SUBSET Functions
    BY <1>8 DEF StartFails, TypeOK
  <2> QED
    BY <1>8, <2>1, <2>2, ReturnStep DEF StartFails, TypeOK
<1>9. ASSUME NEW t \in Threads, StopBatch(t)
      PROVE  TypeOK' /\ MutexInv'
  <2>1. addrsList' \in Seq(SUBSET Functions)
    BY <1>9, TailFacts DEF StopBatch, TypeOK
  <2>2. TypeOK'
    BY <1>9, <2>1 DEF StopBatch, TypeOK
  <2>3. MutexInv'
    BY <1>9 DEF StopBatch, MutexInv
  <2> QED
    BY <2>2, <2>3
<1>10. ASSUME NEW t \in Threads, Forget(t)
       PROVE  TypeOK' /\ MutexInv'
  BY <1>10 DEF Forget, TypeOK, MutexInv, Critical
<1>11. ASSUME NEW t \in Threads, RunCleanup(t)
       PROVE  TypeOK' /\ MutexInv'
  <2>1. cleanups' \in Seq({"real", "noop"})
    BY <1>11, FrontFacts DEF RunCleanup, TypeOK
  <2>2. network' \in BOOLEAN
    BY <1>11 DEF RunCleanup, NetworkAfter, TypeOK
  <2>3. TypeOK'
    BY <1>11, <2>1, <2>2 DEF RunCleanup, TypeOK
  <2>4. MutexInv'
    BY <1>11 DEF RunCleanup, MutexInv
  <2> QED
    BY <2>3, <2>4
<1>12. CASE UNCHANGED vars
  BY <1>12 DEF vars, TypeOK, MutexInv
<1> QED
  BY <1>1, <1>2, <1>3, <1>4, <1>5, <1>6, <1>7, <1>8, <1>9, <1>10, <1>11, <1>12
  DEF Next, Call, Lock, Holding

(* Only the thread that holds the mutex is at a critical place.            *)
LEMMA Alone ==
  ASSUME MutexInv, NEW t \in Threads, pc[t] \in Critical, NEW u \in Threads, u # t
  PROVE  pc[u] \notin Critical /\ cleanup[u] = "none"
BY DEF MutexInv, Critical

(* startRuntimes adds one batch at the end of addrsList.                   *)
LEMMA StartAppends ==
  ASSUME TypeOK, NEW t \in Threads, Start(t)
  PROVE  /\ DOMAIN addrsList' = DOMAIN addrsList \cup {Len(addrsList) + 1}
         /\ \A i \in DOMAIN addrsList : addrsList'[i] = addrsList[i]
         /\ addrsList'[Len(addrsList) + 1] = NewFunctions(t)
<1>1. addrsList \in Seq(SUBSET Functions) /\ NewFunctions(t) \in SUBSET Functions
  BY NewFunctionsType DEF TypeOK
<1>2. addrsList' = Append(addrsList, NewFunctions(t))
  BY DEF Start
<1> HIDE DEF NewFunctions
<1>3. /\ DOMAIN Append(addrsList, NewFunctions(t)) = DOMAIN addrsList \cup {Len(addrsList) + 1}
      /\ \A i \in DOMAIN addrsList : Append(addrsList, NewFunctions(t))[i] = addrsList[i]
      /\ Append(addrsList, NewFunctions(t))[Len(addrsList) + 1] = NewFunctions(t)
  BY <1>1, AppendFacts
<1> QED
  BY <1>2, <1>3

-----------------------------------------------------------------------------
LEMMA RecordStep ==
  ASSUME TypeOK, MutexInv, RecordInv, [Next]_vars
  PROVE  RecordInv'
<1>1. ASSUME UNCHANGED <<startedNames, addrs, addrsList>>,
             NEW t \in Threads,
             \A u \in Threads : u # t =>
               pc'[u] = pc[u] /\ fns'[u] = fns[u] /\ newFns'[u] = newFns[u],
             pc'[t] \in {"setup", "start"} =>
               \A i \in DOMAIN fns'[t] : i \in newFns'[t] <=> fns'[t][i] \notin startedNames,
             pc'[t] = "render" => FunctionsOf(t)' \subseteq startedNames,
             pc'[t] = "release" => startedNames = {} /\ addrsList = << >>
      PROVE  RecordInv'
  BY <1>1 DEF RecordInv, NotRestarted, FunctionsOf
<1>2. ASSUME NEW t \in Threads, NEW pipeline \in Pipelines, CallRender(t, pipeline)
      PROVE  RecordInv'
  BY <1>1, <1>2 DEF CallRender, engineVars, TypeOK
<1>3. ASSUME NEW t \in Threads, CallCleanup(t) \/ LockCleanup(t)
      PROVE  RecordInv'
  BY <1>1, <1>3 DEF CallCleanup, LockCleanup, engineVars, TypeOK
<1>4. ASSUME NEW t \in Threads, LockRender(t)
      PROVE  RecordInv'
  <2>1. \A i \in DOMAIN fns[t] : i \in newFns'[t] <=> fns[t][i] \notin startedNames
    BY <1>4 DEF LockRender, TypeOK
  <2>2. fns' = fns /\ UNCHANGED <<startedNames, addrs, addrsList>>
    BY <1>4 DEF LockRender, engineVars
  <2>3. pc'[t] \in {"render", "setup"} /\ (pc'[t] = "render" => newFns'[t] = {})
    BY <1>4 DEF LockRender, TypeOK
  <2>4. pc'[t] = "render" => FunctionsOf(t)' \subseteq startedNames
    BY <2>1, <2>2, <2>3 DEF FunctionsOf
  <2>5. \A u \in Threads : u # t => pc'[u] = pc[u] /\ newFns'[u] = newFns[u]
    BY <1>4 DEF LockRender, TypeOK
  <2> QED
    BY <1>1, <2>1, <2>2, <2>3, <2>4, <2>5
<1>5. ASSUME NEW t \in Threads, Setup(t)
      PROVE  RecordInv'
  BY <1>1, <1>5 DEF Setup, TypeOK, RecordInv
<1>6. ASSUME NEW t \in Threads,
             \/ SetupFails(t)
             \/ \E left \in SUBSET (NewFunctions(t) \cap Orphaned) : StartFails(t, left)
             \/ RenderReturns(t)
             \/ CleanupReturns(t)
      PROVE  RecordInv'
  <2>1. Return(t) /\ UNCHANGED <<startedNames, addrs, addrsList>>
    BY <1>6 DEF SetupFails, StartFails, RenderReturns, CleanupReturns, engineVars
  <2> QED
    BY <1>1, <2>1 DEF Return, TypeOK
<1>7. ASSUME NEW t \in Threads, Start(t)
      PROVE  RecordInv'
  <2> DEFINE new == NewFunctions(t)
  <2>1. /\ new \in SUBSET Functions
        /\ new \cap startedNames = {}
        /\ FunctionsOf(t) \subseteq startedNames \cup new
    <3>1. newFns[t] \subseteq DOMAIN fns[t]
      BY DEF TypeOK
    <3>2. \A i \in DOMAIN fns[t] : i \in newFns[t] <=> fns[t][i] \notin startedNames
      BY <1>7 DEF Start, RecordInv
    <3> QED
      BY <3>1, <3>2, NewFunctionsType DEF NewFunctions, FunctionsOf
  <2>2. /\ DOMAIN addrsList' = DOMAIN addrsList \cup {Len(addrsList) + 1}
        /\ \A i \in DOMAIN addrsList : addrsList'[i] = addrsList[i]
        /\ addrsList'[Len(addrsList) + 1] = new
    BY <1>7, StartAppends
  <2>3. startedNames' = startedNames \cup new /\ addrs' = addrs \cup new
    BY <1>7 DEF Start
  <2>4. \A i \in DOMAIN addrsList' : addrsList'[i] \subseteq startedNames'
    BY <2>2, <2>3 DEF RecordInv
  <2>5. NotRestarted'
    <3>1. \A i \in DOMAIN addrsList : addrsList[i] \cap new = {}
      BY <2>1 DEF RecordInv
    <3> QED
      BY <2>2, <3>1 DEF RecordInv, NotRestarted
  <2>6. \A u \in Threads : u # t => pc'[u] \notin Critical
    BY <1>7, Alone DEF Start, TypeOK, Critical
  <2>7. pc'[t] = "render" /\ FunctionsOf(t)' \subseteq startedNames'
    BY <1>7, <2>1, <2>3 DEF Start, TypeOK, FunctionsOf
  <2> QED
    BY <2>3, <2>4, <2>5, <2>6, <2>7 DEF RecordInv, Critical
<1>8. ASSUME NEW t \in Threads, StopBatch(t)
      PROVE  RecordInv'
  <2>1. /\ \A i \in DOMAIN addrsList' : i + 1 \in DOMAIN addrsList /\ addrsList'[i] = addrsList[i + 1]
        /\ DOMAIN addrsList' \subseteq Nat
    BY <1>8, TailFacts DEF StopBatch, TypeOK
  <2>2. NotRestarted' /\ \A i \in DOMAIN addrsList' : addrsList'[i] \subseteq startedNames
    BY <2>1 DEF RecordInv, NotRestarted
  <2>3. \A u \in Threads : pc[u] # "release"
    BY <1>8, Alone DEF StopBatch, Critical
  <2> QED
    BY <1>8, <2>2, <2>3 DEF StopBatch, RecordInv, FunctionsOf
<1>9. ASSUME NEW t \in Threads, Forget(t)
      PROVE  RecordInv'
  <2>1. \A u \in Threads : u # t => pc'[u] \notin Critical
    BY <1>9, Alone DEF Forget, TypeOK, Critical
  <2>2. pc'[t] = "release" /\ startedNames' = {} /\ addrs' = {} /\ addrsList' = << >>
    BY <1>9 DEF Forget, TypeOK
  <2> QED
    BY <2>1, <2>2 DEF RecordInv, NotRestarted, Critical
<1>10. ASSUME NEW t \in Threads, RunCleanup(t)
       PROVE  RecordInv'
  BY <1>10 DEF RunCleanup, RecordInv, NotRestarted, FunctionsOf
<1>11. CASE UNCHANGED vars
  BY <1>11 DEF vars, RecordInv, NotRestarted, FunctionsOf
<1> QED
  BY <1>2, <1>3, <1>4, <1>5, <1>6, <1>7, <1>8, <1>9, <1>10, <1>11
  DEF Next, Call, Lock, Holding

-----------------------------------------------------------------------------
LEMMA RuntimeStep ==
  ASSUME TypeOK, MutexInv, RecordInv, RuntimeInv, [Next]_vars
  PROVE  RuntimeInv'
<1>1. ASSUME UNCHANGED <<startedNames, addrsList, running>>,
             NEW t \in Threads,
             \A u \in Threads : u # t => pc'[u] = pc[u],
             pc[t] # "stop" \/ pc'[t] = "stop"
      PROVE  RuntimeInv'
  BY <1>1 DEF RuntimeInv
<1>2. ASSUME NEW t \in Threads,
             \/ \E pipeline \in Pipelines : CallRender(t, pipeline)
             \/ CallCleanup(t)
             \/ LockRender(t)
             \/ LockCleanup(t)
             \/ Setup(t)
             \/ RunCleanup(t)
      PROVE  RuntimeInv'
  <2>1. /\ UNCHANGED <<startedNames, addrsList, running>>
        /\ pc[t] # "stop"
        /\ \A u \in Threads : u # t => pc'[u] = pc[u]
    BY <1>2 DEF CallRender, CallCleanup, LockRender, LockCleanup, Setup, RunCleanup,
                engineVars, TypeOK
  <2> QED
    BY <1>1, <2>1
<1>3. ASSUME NEW t \in Threads,
             SetupFails(t) \/ RenderReturns(t) \/ CleanupReturns(t)
      PROVE  RuntimeInv'
  <2>1. Return(t) /\ pc[t] # "stop" /\ UNCHANGED <<startedNames, addrsList, running>>
    BY <1>3 DEF SetupFails, RenderReturns, CleanupReturns, engineVars
  <2> QED
    BY <1>1, <2>1 DEF Return, TypeOK
<1>4. ASSUME NEW t \in Threads, Start(t)
      PROVE  RuntimeInv'
  <2> DEFINE new == NewFunctions(t)
  <2>1. new \in SUBSET Functions
    BY NewFunctionsType
  <2>2. /\ DOMAIN addrsList' = DOMAIN addrsList \cup {Len(addrsList) + 1}
        /\ \A i \in DOMAIN addrsList : addrsList'[i] = addrsList[i]
        /\ addrsList'[Len(addrsList) + 1] = new
    BY <1>4, StartAppends
  <2>3. running' = running \cup new /\ startedNames' = startedNames \cup new
    BY <1>4 DEF Start
  <2>4. \A u \in Threads : pc[u] # "stop"
    BY <1>4, Alone DEF Start, Critical
  <2> QED
    BY <2>2, <2>3, <2>4 DEF RuntimeInv
<1>5. ASSUME NEW t \in Threads, StopBatch(t)
      PROVE  RuntimeInv'
  <2>1. /\ Head(addrsList) = addrsList[1]
        /\ \A i \in DOMAIN addrsList : i # 1 =>
             i - 1 \in DOMAIN addrsList' /\ addrsList'[i - 1] = addrsList[i]
    BY <1>5, TailFacts DEF StopBatch, TypeOK
  <2>2. ASSUME NEW f \in running', f \notin Orphaned
        PROVE  \E i \in DOMAIN addrsList' : f \in addrsList'[i]
    <3>1. f \in running /\ f \notin addrsList[1]
      BY <1>5, <2>1, <2>2 DEF StopBatch, Stopped
    <3>2. PICK i \in DOMAIN addrsList : f \in addrsList[i]
      BY <3>1, <2>2 DEF RuntimeInv
    <3> QED
      BY <2>1, <3>1, <3>2
  <2>3. pc'[t] = "stop"
    BY <1>5 DEF StopBatch
  <2> QED
    BY <2>2, <2>3 DEF RuntimeInv
<1>6. ASSUME NEW t \in Threads, Forget(t)
      PROVE  RuntimeInv'
  BY <1>6 DEF Forget, RuntimeInv
<1>7. ASSUME NEW t \in Threads, NEW left \in SUBSET (NewFunctions(t) \cap Orphaned),
             StartFails(t, left)
      PROVE  RuntimeInv'
  <2>1. UNCHANGED <<startedNames, addrsList>> /\ running' = running \cup left
    BY <1>7 DEF StartFails
  <2>2. \A u \in Threads : pc[u] # "stop"
    BY <1>7, Alone DEF StartFails, Critical
  <2> QED
    BY <2>1, <2>2 DEF RuntimeInv
<1>8. CASE UNCHANGED vars
  BY <1>8 DEF vars, RuntimeInv
<1> QED
  BY <1>2, <1>3, <1>4, <1>5, <1>6, <1>7, <1>8 DEF Next, Call, Lock, Holding

-----------------------------------------------------------------------------
LEMMA NetworkStep ==
  ASSUME TypeOK, MutexInv, RecordInv, NetworkInv, [Next]_vars
  PROVE  NetworkInv'
<1> USE RenderEngineAssumption
<1>1. ASSUME UNCHANGED <<startedNames, cleanups, network>>, cleanup' = cleanup,
             NEW t \in Threads,
             \A u \in Threads : u # t => pc'[u] = pc[u],
             pc'[t] # "start"
      PROVE  NetworkInv'
  BY <1>1 DEF NetworkInv, NetworkOwned
<1>2. ASSUME NEW t \in Threads,
             \/ \E pipeline \in Pipelines : CallRender(t, pipeline)
             \/ CallCleanup(t)
             \/ LockRender(t)
             \/ LockCleanup(t)
             \/ StopBatch(t)
      PROVE  NetworkInv'
  <2>1. /\ UNCHANGED <<startedNames, cleanups, network>>
        /\ cleanup' = cleanup
        /\ \A u \in Threads : u # t => pc'[u] = pc[u]
        /\ pc'[t] # "start"
    BY <1>2 DEF CallRender, CallCleanup, LockRender, LockCleanup, StopBatch, engineVars, TypeOK
  <2> QED
    BY <1>1, <2>1
<1>3. ASSUME NEW t \in Threads, SetupFails(t) \/ RenderReturns(t) \/ CleanupReturns(t)
      PROVE  NetworkInv'
  <2>1. Return(t) /\ UNCHANGED <<startedNames, cleanups, network>> /\ pc[t] # "start"
    BY <1>3 DEF SetupFails, RenderReturns, CleanupReturns, engineVars
  <2>2. cleanup' = cleanup
    BY <2>1 DEF Return, MutexInv, TypeOK
  <2> QED
    BY <1>1, <2>1, <2>2 DEF Return, TypeOK
<1>4. ASSUME NEW t \in Threads, Setup(t)
      PROVE  NetworkInv'
  <2>1. \A u \in Threads : cleanup[u] = "none"
    BY <1>4, Alone DEF Setup, MutexInv, Critical
  <2>2. /\ \A u \in Threads : u # t => cleanup'[u] = "none" /\ pc'[u] = pc[u] /\ pc[u] # "start"
        /\ cleanup'[t] = IF CreatesNetwork /\ ~network THEN "real" ELSE "noop"
        /\ network' = CreatesNetwork
        /\ UNCHANGED <<startedNames, cleanups>>
    BY <1>4, <2>1 DEF Setup, TypeOK, MutexInv
  <2>3. CASE CreatesNetwork /\ ~network
    <3>1. /\ {i \in DOMAIN cleanups : cleanups[i] = "real"} = {}
          /\ startedNames = {}
      BY <2>3 DEF NetworkInv, NetworkOwned
    <3> QED
      BY <2>2, <2>3, <3>1 DEF NetworkInv, NetworkOwned
  <2>4. CASE ~(CreatesNetwork /\ ~network)
    <3>1. network' = network /\ \A u \in Threads : cleanup'[u] # "real"
      BY <2>2, <2>4 DEF NetworkInv, TypeOK
    <3> QED
      BY <2>1, <2>2, <3>1 DEF NetworkInv, NetworkOwned
  <2> QED
    BY <2>3, <2>4
<1>5. ASSUME NEW t \in Threads, Start(t)
      PROVE  NetworkInv'
  <2>1. \A u \in Threads : u # t => cleanup[u] = "none" /\ pc[u] # "start"
    BY <1>5, Alone DEF Start, Critical
  <2>2. /\ \A u \in Threads : cleanup'[u] = "none" /\ pc'[u] # "start"
        /\ network' = network
        /\ CreatesNetwork => network
    BY <1>5, <2>1 DEF Start, TypeOK, NetworkInv
  <2>3. cleanups \in Seq({"real", "noop"}) /\ cleanup[t] \in {"real", "noop"}
    BY <1>5 DEF Start, TypeOK, MutexInv
  <2>4. /\ DOMAIN cleanups' = DOMAIN cleanups \cup {Len(cleanups) + 1}
        /\ Len(cleanups) + 1 \notin DOMAIN cleanups
        /\ \A i \in DOMAIN cleanups : cleanups'[i] = cleanups[i]
        /\ cleanups'[Len(cleanups) + 1] = cleanup[t]
    BY <1>5, <2>3, AppendFacts DEF Start
  <2>5. CASE cleanup[t] = "real"
    <3>1. network /\ \A i \in DOMAIN cleanups : cleanups[i] # "real"
      BY <2>5 DEF NetworkInv, NetworkOwned
    <3> QED
      BY <2>2, <2>4, <2>5, <3>1 DEF NetworkInv, NetworkOwned
  <2>6. CASE cleanup[t] # "real"
    <3>1. \A u \in Threads : cleanup[u] # "real"
      BY <2>1, <2>6
    <3>2. {i \in DOMAIN cleanups' : cleanups'[i] = "real"} =
          {i \in DOMAIN cleanups : cleanups[i] = "real"}
      BY <2>4, <2>6
    <3> QED
      BY <2>2, <3>1, <3>2 DEF NetworkInv, NetworkOwned
  <2> QED
    BY <2>5, <2>6
<1>6. ASSUME NEW t \in Threads, NEW left \in SUBSET (NewFunctions(t) \cap Orphaned),
             StartFails(t, left)
      PROVE  NetworkInv'
  <2>1. \A u \in Threads : u # t => cleanup[u] = "none" /\ pc[u] # "start"
    BY <1>6, Alone DEF StartFails, Critical
  <2>2. /\ \A u \in Threads : cleanup'[u] = "none" /\ pc'[u] # "start"
        /\ UNCHANGED <<startedNames, cleanups>>
        /\ network' = NetworkAfter(cleanup[t])
    BY <1>6, <2>1 DEF StartFails, Return, TypeOK
  <2>3. CASE cleanup[t] = "real"
    <3>1. startedNames = {} /\ {i \in DOMAIN cleanups : cleanups[i] = "real"} = {} /\ ~network'
      BY <2>2, <2>3 DEF NetworkInv, NetworkOwned, NetworkAfter
    <3> QED
      BY <2>2, <3>1 DEF NetworkInv, NetworkOwned
  <2>4. CASE cleanup[t] # "real"
    <3>1. network' = network /\ \A u \in Threads : cleanup[u] # "real"
      BY <2>1, <2>2, <2>4 DEF NetworkAfter, TypeOK
    <3> QED
      BY <2>2, <3>1 DEF NetworkInv, NetworkOwned
  <2> QED
    BY <2>3, <2>4
<1>7. ASSUME NEW t \in Threads, Forget(t)
      PROVE  NetworkInv'
  <2>1. /\ UNCHANGED <<cleanups, network, cleanup>>
        /\ startedNames' = {}
        /\ \A u \in Threads : pc'[u] = "start" => pc[u] = "start"
    BY <1>7 DEF Forget, TypeOK
  <2> QED
    BY <2>1 DEF NetworkInv, NetworkOwned
<1>8. ASSUME NEW t \in Threads, RunCleanup(t)
      PROVE  NetworkInv'
  <2>1. /\ UNCHANGED <<startedNames, pc, cleanup>>
        /\ startedNames = {}
        /\ cleanups \in Seq({"real", "noop"})
        /\ network' = NetworkAfter(cleanups[Len(cleanups)])
    BY <1>8 DEF RunCleanup, RecordInv, TypeOK
  <2>2. \A u \in Threads : pc[u] # "start" /\ cleanup[u] # "real"
    BY <1>8, Alone DEF RunCleanup, Critical, MutexInv
  <2>3. /\ DOMAIN cleanups' = DOMAIN cleanups \ {Len(cleanups)}
        /\ \A i \in DOMAIN cleanups \ {Len(cleanups)} : cleanups'[i] = cleanups[i]
        /\ Len(cleanups) \in DOMAIN cleanups
    BY <1>8, <2>1, FrontFacts DEF RunCleanup
  <2>4. CASE cleanups[Len(cleanups)] = "real"
    <3>1. \A i \in DOMAIN cleanups : cleanups[i] = "real" => i = Len(cleanups)
      BY <2>3, <2>4 DEF NetworkInv, NetworkOwned
    <3>2. {i \in DOMAIN cleanups' : cleanups'[i] = "real"} = {}
      BY <2>3, <3>1
    <3>3. ~network'
      BY <2>1, <2>4 DEF NetworkAfter
    <3> QED
      BY <2>1, <2>2, <3>2, <3>3 DEF NetworkInv, NetworkOwned
  <2>5. CASE cleanups[Len(cleanups)] # "real"
    <3>1. {i \in DOMAIN cleanups' : cleanups'[i] = "real"} =
          {i \in DOMAIN cleanups : cleanups[i] = "real"}
      BY <2>3, <2>5
    <3>2. network' = network
      BY <2>1, <2>5 DEF NetworkAfter, TypeOK
    <3> QED
      BY <2>1, <2>2, <3>1, <3>2 DEF NetworkInv, NetworkOwned
  <2> QED
    BY <2>4, <2>5
<1>9. CASE UNCHANGED vars
  BY <1>9 DEF vars, NetworkInv, NetworkOwned
<1> QED
  BY <1>2, <1>3, <1>4, <1>5, <1>6, <1>7, <1>8, <1>9 DEF Next, Call, Lock, Holding

-----------------------------------------------------------------------------
(* The inductive invariant: whatever calls Render and Cleanup, in whatever *)
(* order and from however many threads.                                    *)
THEOREM EngineInvariance == Spec => []EngineInv
<1>1. EngineInv /\ [Next]_vars => EngineInv'
  BY TypeStep, RecordStep, RuntimeStep, NetworkStep DEF EngineInv
<1> QED
  BY InitInv, <1>1, PTL DEF Spec

(* Every function of a pipeline is up and reachable when it is rendered.   *)
THEOREM EveryRenderServed == Spec => []Served
<1>1. EngineInv => Served
  <2> SUFFICES ASSUME EngineInv, NEW t \in Threads, pc[t] = "render"
               PROVE  /\ FunctionsOf(t) \subseteq addrs \cap running
                      /\ FunctionsOf(t) # {} /\ CreatesNetwork => network
    BY DEF Served
  <2>1. FunctionsOf(t) \subseteq startedNames /\ addrs = startedNames
    BY DEF EngineInv, RecordInv
  <2>2. \A u \in Threads : pc[u] # "stop"
    BY Alone DEF EngineInv, Critical
  <2>3. startedNames \subseteq running
    BY <2>2 DEF EngineInv, RuntimeInv
  <2>4. CreatesNetwork /\ startedNames # {} => network
    BY DEF EngineInv, NetworkInv
  <2> QED
    BY <2>1, <2>3, <2>4
<1> QED
  BY EngineInvariance, <1>1, PTL

(* Exactly one cleanup releases the network, as long as there is one.      *)
THEOREM NetworkAlwaysOwned == Spec => []NetworkOwned
<1>1. EngineInv => NetworkOwned
  BY DEF EngineInv, NetworkInv
<1> QED
  BY EngineInvariance, <1>1, PTL

(* No startRuntimes call repeats what an earlier one started.              *)
THEOREM NeverRestarted == Spec => []NotRestarted
<1>1. EngineInv => NotRestarted
  BY DEF EngineInv, RecordInv
<1> QED
  BY EngineInvariance, <1>1, PTL

(* A Cleanup that returns leaves nothing of the engine behind.             *)
THEOREM CleanupLeavesNothing == Spec => NothingLeft
<1>1. ASSUME EngineInv, EngineInv', [Next]_vars,
             NEW t \in Threads, pc[t] = "release", pc'[t] = "idle"
      PROVE  /\ running' \subseteq Orphaned
             /\ ~network'
             /\ startedNames' = {}
             /\ cleanups' = << >>
  <2>1. startedNames = {} /\ addrsList = << >>
    BY <1>1 DEF EngineInv, RecordInv
  <2>2. \A u \in Threads : u # t => pc[u] \notin Critical
    BY <1>1, Alone DEF EngineInv, Critical
  <2>3. CleanupReturns(t)
    <3>1. \A u \in Threads : ~Call(u) /\ ~Lock(u)
      <4>1. ASSUME NEW u \in Threads, Call(u) \/ Lock(u)
            PROVE  FALSE
        <5>1. pc[u] \in {"idle", "render called", "cleanup called"} /\ u # t
          BY <1>1, <4>1 DEF Call, Lock, CallRender, CallCleanup, LockRender, LockCleanup
        <5>2. pc'[t] = pc[t]
          BY <1>1, <4>1, <5>1 DEF Call, Lock, CallRender, CallCleanup, LockRender, LockCleanup,
                            EngineInv, TypeOK
        <5> QED
          BY <1>1, <5>2
      <4> QED
        BY <4>1
    <3>2. \A u \in Threads : Holding(u) => u = t
      BY <2>2 DEF Holding, Setup, SetupFails, Start, StartFails, RenderReturns, StopBatch,
                  Forget, RunCleanup, CleanupReturns, Critical
    <3>3. Holding(t)
      <4>1. ~UNCHANGED vars
        BY <1>1 DEF vars
      <4> QED
        BY <1>1, <3>1, <3>2, <4>1 DEF Next
    <3> QED
      BY <1>1, <3>3 DEF Holding, Setup, SetupFails, Start, StartFails, RenderReturns,
                        StopBatch, Forget, RunCleanup, EngineInv, TypeOK
  <2>4. cleanups' = << >> /\ startedNames' = {} /\ addrsList' = << >>
    BY <2>1, <2>3 DEF CleanupReturns, engineVars
  <2>5. running' \subseteq Orphaned
    BY <1>1, <2>4 DEF EngineInv, RuntimeInv
  <2>6. ~network'
    <3>1. \A u \in Threads : pc'[u] # "start"
      BY <1>1, <2>2, <2>3 DEF CleanupReturns, Return, EngineInv, TypeOK, Critical
    <3>2. \A u \in Threads : cleanup'[u] # "real"
      BY <1>1, <3>1 DEF EngineInv, MutexInv
    <3> QED
      BY <1>1, <2>4, <3>2 DEF EngineInv, NetworkInv, NetworkOwned
  <2> QED
    BY <2>4, <2>5, <2>6
<1>2. EngineInv /\ EngineInv' /\ [Next]_vars =>
        [\A t \in Threads : pc[t] = "release" /\ pc'[t] = "idle" =>
           /\ running' \subseteq Orphaned
           /\ ~network'
           /\ startedNames' = {}
           /\ cleanups' = << >>]_vars
  BY <1>1
<1> QED
  BY EngineInvariance, <1>2, PTL DEF Spec, NothingLeft
=============================================================================
