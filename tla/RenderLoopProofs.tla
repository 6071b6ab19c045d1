--------------------------- MODULE RenderLoopProofs ---------------------------
(***************************************************************************)
(* Theorems about RenderLoop, for every set of resources, every set of     *)
(* composed keys and every iteration budget.                               *)
(***************************************************************************)
EXTENDS RenderLoop, FiniteSetTheorems, TLAPS

(* Observed resources are never dropped, and only what the cluster had     *)
(* unready can be observed unready.                                        *)
ObservedInv ==
  /\ observedResources.present \subseteq observed.present
  /\ observed.present \ observed.ready \subseteq
       observedResources.present \ observedResources.ready

(* Every finished iteration discovered something; at "check", so did the   *)
(* current one if it has new requirements.                                 *)
CountInv ==
  /\ pc \in {"render", "resolve", "check"} => iteration - 1 <= Discovered
  /\ pc = "check" /\ newReqs # {} => iteration <= Discovered
  /\ failure = "exhausted" => Discovered >= MaxRenderIterations

(* How the input of the last render relates to what has been gathered.     *)
InputInv ==
  /\ pc = "resolve" =>
       input = [required |-> requiredResources, observed |-> observed]
  /\ pc \in {"check", "stable"} =>
       /\ input.observed = observed
       /\ requiredResources = input.required \cup additionalResources
       /\ newReqs = additionalResources \ input.required
  /\ pc = "stable" => ~output.err /\ IsStable
  /\ pc = "render" /\ iteration > 1 =>
       /\ input.required \subseteq requiredResources
       /\ input.observed.present \subseteq observed.present
       /\ input.observed.ready \subseteq observed.ready
       /\ \/ input.required # requiredResources
          \/ input.observed.present # observed.present

LoopInv == TypeOK /\ ObservedInv /\ CountInv /\ InputInv

-----------------------------------------------------------------------------
(* A finite set that gains an element gains at least one in cardinality.   *)
LEMMA CardinalityGrows ==
  ASSUME NEW T, IsFiniteSet(T), NEW S \in SUBSET T
  PROVE  /\ IsFiniteSet(S)
         /\ Cardinality(S) \in Nat
         /\ Cardinality(T) \in Nat
         /\ Cardinality(S) <= Cardinality(T)
         /\ S # T => Cardinality(S) + 1 <= Cardinality(T)
<1>1. /\ IsFiniteSet(S)
      /\ Cardinality(S) <= Cardinality(T)
      /\ Cardinality(S) = Cardinality(T) => S = T
  BY FS_Subset
<1>2. Cardinality(S) \in Nat /\ Cardinality(T) \in Nat
  BY <1>1, FS_CardinalityType
<1> QED
  BY <1>1, <1>2

(* Discovered is a number, whatever has been gathered.                     *)
LEMMA DiscoveredType ==
  ASSUME TypeOK
  PROVE  /\ Discovered \in Nat
         /\ IsFiniteSet(requiredResources)
         /\ IsFiniteSet(observed.present \ observedResources.present)
<1>1. IsFiniteSet(requiredResources) /\ Cardinality(requiredResources) \in Nat
  BY RenderLoopAssumption, CardinalityGrows DEF TypeOK
<1>2. observed.present \ observedResources.present \in SUBSET Composed
  BY DEF TypeOK, Observed
<1>3. /\ IsFiniteSet(observed.present \ observedResources.present)
      /\ Cardinality(observed.present \ observedResources.present) \in Nat
  BY <1>2, RenderLoopAssumption, CardinalityGrows
<1> QED
  BY <1>1, <1>3 DEF Discovered

(* The same of the next state: a new call starts from what it is given.    *)
LEMMA DiscoveredNextType == ASSUME TypeOK' PROVE Discovered' \in Nat
<1>1. Cardinality(requiredResources') \in Nat
  BY RenderLoopAssumption, CardinalityGrows DEF TypeOK
<1> DEFINE new == observed'.present \ observedResources'.present
<1>2. new \in SUBSET Composed
  BY DEF TypeOK, Observed
<1>3. Cardinality(new) \in Nat
  BY <1>2, RenderLoopAssumption, CardinalityGrows
<1> QED
  BY <1>1, <1>3 DEF Discovered

(* A step that drops nothing it gathered never decreases Discovered, and   *)
(* increases it when it adds a requirement or an observed resource.        *)
LEMMA DiscoveredGrows ==
  ASSUME TypeOK, TypeOK', ObservedInv,
         observedResources' = observedResources,
         requiredResources \subseteq requiredResources',
         observed.present \subseteq observed'.present
  PROVE  /\ Discovered \in Nat
         /\ Discovered' \in Nat
         /\ Discovered <= Discovered'
         /\ requiredResources # requiredResources' => Discovered + 1 <= Discovered'
         /\ observed.present # observed'.present => Discovered + 1 <= Discovered'
<1> DEFINE old == observed.present \ observedResources.present
           new == observed'.present \ observedResources.present
<1>1. /\ Cardinality(requiredResources) \in Nat
      /\ Cardinality(requiredResources') \in Nat
      /\ Cardinality(requiredResources) <= Cardinality(requiredResources')
      /\ requiredResources # requiredResources' =>
           Cardinality(requiredResources) + 1 <= Cardinality(requiredResources')
  <2>1. IsFiniteSet(requiredResources')
    BY RenderLoopAssumption, CardinalityGrows DEF TypeOK
  <2> QED
    BY <2>1, CardinalityGrows
<1>2. /\ Cardinality(old) \in Nat
      /\ Cardinality(new) \in Nat
      /\ Cardinality(old) <= Cardinality(new)
      /\ old # new => Cardinality(old) + 1 <= Cardinality(new)
  <2>1. new \in SUBSET Composed
    BY DEF TypeOK, Observed
  <2>2. IsFiniteSet(new)
    BY <2>1, RenderLoopAssumption, CardinalityGrows
  <2>3. old \in SUBSET new
    OBVIOUS
  <2> QED
    BY <2>2, <2>3, CardinalityGrows
<1>3. observed.present # observed'.present => old # new
  BY DEF ObservedInv
<1>4. Discovered = Cardinality(requiredResources) + Cardinality(old)
  BY DEF Discovered
<1>5. Discovered' = Cardinality(requiredResources') + Cardinality(new)
  BY DEF Discovered
<1> HIDE DEF old, new
<1> QED
  BY <1>1, <1>2, <1>3, <1>4, <1>5

-----------------------------------------------------------------------------
LEMMA LoopInvInit == Init => LoopInv
<1> SUFFICES ASSUME Init PROVE LoopInv
  OBVIOUS
<1>1. TypeOK
  BY DEF Init, TypeOK, Observed, Outputs, Inputs, NoOutput
<1>2. Discovered \in Nat
  BY <1>1, DiscoveredType
<1>3. CountInv
  BY <1>2 DEF Init, CountInv
<1> QED
  BY <1>1, <1>3 DEF Init, LoopInv, ObservedInv, InputInv

(* Every action keeps the types.                                           *)
LEMMA TypeOKStep == TypeOK /\ [Next]_vars => TypeOK'
<1> SUFFICES ASSUME TypeOK, [Next]_vars PROVE TypeOK'
  OBVIOUS
<1> USE DEF TypeOK
<1>1. ASSUME NEW out \in Outputs, Render(out) PROVE TypeOK'
  BY <1>1 DEF Render, Inputs
<1>2. ASSUME NEW found \in SUBSET Resources, Resolve(found) PROVE TypeOK'
  BY <1>2 DEF Resolve, Unseen
<1>3. CASE ResolveFails
  BY <1>3 DEF ResolveFails, Fail
<1>4. CASE RenderFails
  BY <1>4 DEF RenderFails, Fail
<1>5. CASE RetryAfterError
  BY <1>5 DEF RetryAfterError, NextIteration
<1>6. CASE ReachStable
  BY <1>6 DEF ReachStable
<1>7. CASE Continue
  <2>1. output.composed \in SUBSET Composed
    BY DEF Outputs
  <2>2. observed' \in Observed
    BY <1>7, <2>1 DEF Continue, WithReady, Observed
  <2> QED
    BY <1>7, <2>2 DEF Continue, NextIteration
<1>8. CASE SynthesisFails
  BY <1>8 DEF SynthesisFails, Fail
<1>9. CASE Exhaust
  BY <1>9 DEF Exhaust, Fail
<1>10. CASE NewCall
  BY <1>10 DEF NewCall, Inputs, Outputs, NoOutput
<1>11. CASE UNCHANGED vars
  BY <1>11 DEF vars
<1> QED
  BY <1>1, <1>2, <1>3, <1>4, <1>5, <1>6, <1>7, <1>8, <1>9, <1>10, <1>11
     DEF Next, LoopStep

(* Within a call, observed resources and requirements are only added to.                  *)
LEMMA GatheredGrows ==
  ASSUME TypeOK, [LoopStep]_vars
  PROVE  /\ observedResources' = observedResources
         /\ requiredResources \subseteq requiredResources'
         /\ observed.present \subseteq observed'.present
         /\ observed.ready \subseteq observed'.ready
<1>1. ASSUME NEW found \in SUBSET Resources, Resolve(found)
      PROVE  requiredResources \subseteq requiredResources'
  BY <1>1 DEF Resolve
<1>2. CASE Continue
  BY <1>2 DEF Continue, NextIteration, WithReady
<1> QED
  BY <1>1, <1>2 DEF LoopStep, vars, Render, Resolve, ResolveFails, RenderFails,
     RetryAfterError, ReachStable, SynthesisFails, Exhaust, Fail, NextIteration

LEMMA ObservedInvStep == TypeOK /\ ObservedInv /\ [Next]_vars => ObservedInv'
<1>0. CASE NewCall
  BY <1>0 DEF NewCall, ObservedInv
<1> SUFFICES ASSUME TypeOK, ObservedInv, [LoopStep]_vars PROVE ObservedInv'
  BY <1>0 DEF Next
<1>1. observedResources.present \subseteq observed'.present
  BY GatheredGrows DEF ObservedInv
<1>2. observed'.present \ observed'.ready \subseteq observed.present \ observed.ready
  <2>1. CASE Continue
    BY <2>1 DEF Continue, WithReady
  <2>2. CASE observed' = observed
    BY <2>2
  <2> QED
    BY <2>1, <2>2 DEF LoopStep, vars, Render, Resolve, ResolveFails, RenderFails,
       RetryAfterError, ReachStable, SynthesisFails, Exhaust, Fail
<1> QED
  BY <1>1, <1>2, GatheredGrows DEF ObservedInv

LEMMA CountInvStep ==
  TypeOK /\ TypeOK' /\ ObservedInv /\ InputInv /\ CountInv /\ [Next]_vars => CountInv'
<1>n. ASSUME TypeOK', NewCall PROVE CountInv'
  <2>1. Discovered' \in Nat
    BY <1>n, DiscoveredNextType
  <2> QED
    BY <1>n, <2>1 DEF NewCall, CountInv
<1> SUFFICES ASSUME TypeOK, TypeOK', ObservedInv, InputInv, CountInv, [LoopStep]_vars
             PROVE  CountInv'
  BY <1>n DEF Next
<1>0. /\ Discovered \in Nat
      /\ Discovered' \in Nat
      /\ Discovered <= Discovered'
      /\ requiredResources # requiredResources' => Discovered + 1 <= Discovered'
      /\ observed.present # observed'.present => Discovered + 1 <= Discovered'
  BY GatheredGrows, DiscoveredGrows
<1>i. iteration \in Nat /\ MaxRenderIterations \in Int
  BY RenderLoopAssumption DEF TypeOK
<1> USE <1>0, <1>i DEF CountInv
<1>1. ASSUME NEW out \in Outputs, Render(out) PROVE CountInv'
  BY <1>1 DEF Render
<1>2. ASSUME NEW found \in SUBSET Resources, Resolve(found) PROVE CountInv'
  <2>1. newReqs' # {} => requiredResources # requiredResources'
    BY <1>2 DEF Resolve, Unseen
  <2> QED
    BY <1>2, <2>1 DEF Resolve
<1>3. CASE ResolveFails
  BY <1>3 DEF ResolveFails, Fail
<1>4. CASE RenderFails
  BY <1>4 DEF RenderFails, Fail
<1>5. CASE RetryAfterError
  BY <1>5 DEF RetryAfterError, NextIteration
<1>6. CASE ReachStable
  BY <1>6 DEF ReachStable
<1>7. CASE Continue
  <2>1. CASE newReqs # {}
    BY <1>7, <2>1 DEF Continue, NextIteration
  <2>2. CASE newReqs = {}
    <3>1. synthesizeReady /\ NewComposed # {}
      BY <1>7, <2>2 DEF Continue, IsStable
    <3>2. observed'.present = observed.present \cup output.composed
      BY <1>7, <3>1 DEF Continue, WithReady
    <3>3. observed.present # observed'.present
      BY <3>1, <3>2 DEF NewComposed
    <3> QED
      BY <1>7, <3>3 DEF Continue, NextIteration
  <2> QED
    BY <2>1, <2>2
<1>8. CASE SynthesisFails
  BY <1>8 DEF SynthesisFails, Fail
<1>9. CASE Exhaust
  BY <1>9 DEF Exhaust, Fail
<1>10. CASE UNCHANGED vars
  BY <1>10 DEF vars
<1> QED
  BY <1>1, <1>2, <1>3, <1>4, <1>5, <1>6, <1>7, <1>8, <1>9, <1>10 DEF LoopStep

LEMMA InputInvStep ==
  TypeOK /\ InputInv /\ [Next]_vars => InputInv'
<1>0. CASE NewCall
  BY <1>0 DEF NewCall, InputInv
<1> SUFFICES ASSUME TypeOK, InputInv, [LoopStep]_vars PROVE InputInv'
  BY <1>0 DEF Next
<1> USE DEF InputInv
<1>1. ASSUME NEW out \in Outputs, Render(out) PROVE InputInv'
  BY <1>1 DEF Render
<1>2. ASSUME NEW found \in SUBSET Resources, Resolve(found) PROVE InputInv'
  BY <1>2 DEF Resolve, Unseen
<1>3. CASE ResolveFails
  BY <1>3 DEF ResolveFails, Fail
<1>4. CASE RenderFails
  BY <1>4 DEF RenderFails, Fail
<1>5. CASE RetryAfterError
  BY <1>5 DEF RetryAfterError, NextIteration
<1>6. CASE ReachStable
  BY <1>6 DEF ReachStable, IsStable, NewComposed
<1>7. CASE Continue
  <2>1. /\ pc' = "render"
        /\ input' = input
        /\ requiredResources' = requiredResources
        /\ pc = "check"
    BY <1>7 DEF Continue, NextIteration
  <2>2. /\ input.observed.present \subseteq observed'.present
        /\ input.observed.ready \subseteq observed'.ready
    BY <2>1, GatheredGrows
  <2>3. CASE newReqs # {}
    BY <2>1, <2>2, <2>3
  <2>4. CASE newReqs = {}
    <3>1. synthesizeReady /\ NewComposed # {}
      BY <1>7, <2>4 DEF Continue, IsStable
    <3>2. observed'.present = observed.present \cup output.composed
      BY <1>7, <3>1 DEF Continue, WithReady
    <3>3. observed.present # observed'.present
      BY <3>1, <3>2 DEF NewComposed
    <3> QED
      BY <2>1, <2>2, <3>3
  <2> QED
    BY <2>3, <2>4
<1>8. CASE SynthesisFails
  BY <1>8 DEF SynthesisFails, Fail
<1>9. CASE Exhaust
  BY <1>9 DEF Exhaust, Fail
<1>10. CASE UNCHANGED vars
  BY <1>10 DEF vars, IsStable, NewComposed
<1> QED
  BY <1>1, <1>2, <1>3, <1>4, <1>5, <1>6, <1>7, <1>8, <1>9, <1>10 DEF LoopStep

LEMMA LoopInvStep == LoopInv /\ [Next]_vars => LoopInv'
  BY TypeOKStep, ObservedInvStep, CountInvStep, InputInvStep DEF LoopInv

-----------------------------------------------------------------------------
(* The invariant of the loop: RenderToStableState never loses what it      *)
(* gathered, and its counter never runs ahead of its discoveries.          *)
THEOREM LoopInvariant == Spec => []LoopInv
<1> QED
  BY LoopInvInit, LoopInvStep, PTL DEF Spec

(* Type correctness of every variable of the loop, at every step.          *)
THEOREM TypeCorrect == Spec => []TypeOK
<1>1. LoopInv => TypeOK
  BY DEF LoopInv
<1> QED
  BY <1>1, LoopInvariant, PTL

(* RenderToStableState gives up with "did not stabilize" only after a full *)
(* budget of renders each of which discovered something.                   *)
THEOREM ExhaustionEarned == Spec => []ExhaustionIsEarned
<1>1. LoopInv => ExhaustionIsEarned
  BY DEF LoopInv, CountInv, ExhaustionIsEarned
<1> QED
  BY <1>1, LoopInvariant, PTL

(* Hence a --max-iterations above the number of resources there are to     *)
(* discover is always enough.                                              *)
THEOREM EnoughIterations ==
  ASSUME MaxRenderIterations > Cardinality(Resources) + Cardinality(Composed)
  PROVE  Spec => [](failure # "exhausted")
<1>1. ASSUME LoopInv PROVE failure # "exhausted"
  <2>1. TypeOK /\ ExhaustionIsEarned
    BY <1>1 DEF LoopInv, CountInv, ExhaustionIsEarned
  <2>2. /\ Cardinality(requiredResources) \in Nat
        /\ Cardinality(Resources) \in Nat
        /\ Cardinality(requiredResources) <= Cardinality(Resources)
    BY <2>1, RenderLoopAssumption, CardinalityGrows DEF TypeOK
  <2> DEFINE new == observed.present \ observedResources.present
  <2>3. new \in SUBSET Composed
    BY <2>1 DEF TypeOK, Observed
  <2>4. /\ Cardinality(new) \in Nat
        /\ Cardinality(Composed) \in Nat
        /\ Cardinality(new) <= Cardinality(Composed)
    BY <2>3, RenderLoopAssumption, CardinalityGrows
  <2>5. Discovered = Cardinality(requiredResources) + Cardinality(new)
    BY DEF Discovered
  <2> HIDE DEF new
  <2> QED
    BY <2>1, <2>2, <2>4, <2>5, RenderLoopAssumption DEF ExhaustionIsEarned
<1> QED
  BY <1>1, LoopInvariant, PTL

(* The output RenderToStableState returns was rendered, without an error,  *)
(* from an input that already held all it asks for.                        *)
THEOREM StableClosed == Spec => []StableIsClosed
<1>1. ASSUME LoopInv PROVE StableIsClosed
  <2> SUFFICES ASSUME pc = "stable"
               PROVE  /\ ~output.err
                      /\ additionalResources \subseteq input.required
                      /\ synthesizeReady =>
                           /\ output.composed \subseteq input.observed.present
                           /\ output.composed \subseteq input.observed.ready \cup
                                (observedResources.present \ observedResources.ready)
    BY DEF StableIsClosed
  <2>1. /\ input.observed = observed
        /\ newReqs = additionalResources \ input.required
        /\ ~output.err
        /\ IsStable
    BY <1>1 DEF LoopInv, InputInv
  <2>2. newReqs = {} /\ (synthesizeReady => NewComposed = {})
    BY <2>1 DEF IsStable
  <2>3. observed.present \ observed.ready \subseteq
          observedResources.present \ observedResources.ready
    BY <1>1 DEF LoopInv, ObservedInv
  <2> QED
    BY <2>1, <2>2, <2>3 DEF NewComposed
<1> QED
  BY <1>1, LoopInvariant, PTL

(* No two renders of one call are given the same input.                    *)
THEOREM NeverRetriesIdentically == Spec => NoIdenticalRetry
<1> DEFINE Advance ==
      pc = "render" /\ pc' = "resolve" /\ iteration > 1 =>
        /\ input.required \subseteq input'.required
        /\ input.observed.present \subseteq input'.observed.present
        /\ input.observed.ready \subseteq input'.observed.ready
        /\ \/ input.required # input'.required
           \/ input.observed.present # input'.observed.present
<1>1. ASSUME LoopInv, [Next]_vars PROVE [Advance]_vars
  <2>1. ASSUME pc = "render", pc' = "resolve", iteration > 1
        PROVE  input' = [required |-> requiredResources, observed |-> observed]
    BY <1>1, <2>1 DEF Next, LoopStep, NewCall, vars, Render, Resolve, ResolveFails, RenderFails,
       RetryAfterError, ReachStable, Continue, SynthesisFails, Exhaust, Fail,
       NextIteration
  <2> QED
    BY <1>1, <2>1 DEF LoopInv, InputInv
<1>2. Spec => [][Advance]_vars
  BY <1>1, LoopInvariant, PTL DEF Spec
<1> QED
  BY <1>2 DEF NoIdenticalRetry
=============================================================================
