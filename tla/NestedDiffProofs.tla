--------------------------- MODULE NestedDiffProofs ---------------------------
(***************************************************************************)
(* Proofs about NestedDiff: what a successful input reports is exactly the *)
(* truth about its whole tree, and the exit code is the worst outcome, for *)
(* any resources, any pipelines, any cluster and any number of inputs.     *)
(*                                                                         *)
(* The invariant relates every frame of the stack to the tree it is        *)
(* rendering: what the frame has rendered is composed by XRs the frame     *)
(* already knows, lies in every closed set the XR is in, and is closed     *)
(* itself but for the composed XRs that are still to be processed. When    *)
(* none is left the frame holds the smallest closed set: the tree.         *)
(***************************************************************************)
EXTENDS NestedDiff, SequenceTheorems, TLAPS

Diffs == UNION {[S -> DiffTypes] : S \in SUBSET Keys}
Frame == [xr : XRs, diffs : Diffs, rendered : SUBSET Keys, nested : SUBSET XRs]

(* DiffType and Closed, of a given world.                                  *)
Change(w, k) ==
  IF k \notin w.inCluster THEN "added"
  ELSE IF k \in w.changed THEN "modified" ELSE "equal"

ClosedIn(w, S) == \A z \in S \cap XRs : w.composition[z] => w.renders[z] \subseteq S

Known(f) == {f.xr} \cup f.rendered

(* What a frame has rendered: of its XR's tree, and nothing else.          *)
RenderedInv(w, f) ==
  /\ w.composition[f.xr]
  /\ w.renders[f.xr] \subseteq f.rendered
  /\ \A S \in SUBSET Keys : f.xr \in S /\ ClosedIn(w, S) => f.rendered \subseteq S
  /\ \A k \in f.rendered : \E z \in Known(f) \cap XRs : w.composition[z] /\ k \in w.renders[z]

(* Its diffs: each as it is, and every change among what it knows.         *)
DiffsInv(w, f) ==
  /\ DOMAIN f.diffs \subseteq Known(f)
  /\ \A k \in Known(f) : Change(w, k) # "equal" => k \in DOMAIN f.diffs
  /\ \A k \in DOMAIN f.diffs : f.diffs[k] = Change(w, k)

Built(w, f) == RenderedInv(w, f) /\ DiffsInv(w, f) /\ f.nested \subseteq f.rendered

(* The composed XRs whose own resources the frame does not have yet.       *)
Missing(w, f) ==
  {z \in f.rendered \cap XRs : w.composition[z] /\ ~(w.renders[z] \subseteq f.rendered)}

(* A frame below another one waits for it, and for the XRs still listed.   *)
Waits(w, f, g) ==
  /\ Built(w, f)
  /\ g.xr \in f.rendered
  /\ Missing(w, f) \subseteq f.nested \cup {g.xr}

Group == [xr : XRs, err : ErrorKinds, diffs : Diffs]

(* The inputs in their order: those that are in, and the one on the stack. *)
InputsInv ==
  /\ world \in World
  /\ stack \in Seq(Frame)
  /\ groups \in Seq(Group)
  /\ Len(groups) <= Len(Roots)
  /\ \A i \in 1 .. Len(groups) : groups[i].xr = Roots[i]
  /\ phase \in {"root", "enter", "nested", "failed", "exit"}
  /\ error \in ErrorKinds
  /\ exitCode \in -1 .. 3
  /\ phase = "failed" => error # "none"
  /\ phase \in {"enter", "nested", "failed"} =>
       /\ Len(stack) > 0
       /\ Len(groups) < Len(Roots)
       /\ stack[1].xr = Roots[Len(groups) + 1]

TreesInv ==
  /\ \A i \in 1 .. Len(stack) - 1 : Waits(world, stack[i], stack[i + 1])
  /\ phase = "nested" =>
       Built(world, stack[Len(stack)]) /\ Missing(world, stack[Len(stack)]) \subseteq stack[Len(stack)].nested
  /\ phase = "failed" /\ error = "composition" =>
       Len(stack) = 1 \/ ~world.composition[stack[Len(stack)].xr]

DiffInv == InputsInv /\ TreesInv /\ GroupsAreExact /\ ExitCodeIsWorst

-----------------------------------------------------------------------------
LEMMA EmptyDiffs == NoDiffs \in Diffs
<1> DEFINE S == {}
<1>1. NoDiffs \in [S -> DiffTypes]
  BY DEF NoDiffs
<1>2. S \in SUBSET Keys
  OBVIOUS
<1> QED
  BY <1>1, <1>2 DEF Diffs

LEMMA DiffsOf ==
  ASSUME NEW d \in Diffs
  PROVE  DOMAIN d \in SUBSET Keys /\ d \in [DOMAIN d -> DiffTypes]
BY DEF Diffs

LEMMA DiffsWith ==
  ASSUME NEW S \in SUBSET Keys, NEW d \in [S -> DiffTypes]
  PROVE  d \in Diffs
BY DEF Diffs

LEMMA CopyType ==
  ASSUME NEW f \in Diffs, NEW g \in Diffs
  PROVE  Copy(f, g) \in Diffs
<1>1. /\ DOMAIN f \in SUBSET Keys /\ f \in [DOMAIN f -> DiffTypes]
      /\ DOMAIN g \in SUBSET Keys /\ g \in [DOMAIN g -> DiffTypes]
  BY DiffsOf
<1>2. Copy(f, g) \in [DOMAIN f \cup DOMAIN g -> DiffTypes]
  BY <1>1 DEF Copy
<1>3. DOMAIN f \cup DOMAIN g \in SUBSET Keys
  BY <1>1
<1> QED
  BY <1>2, <1>3, DiffsWith

LEMMA NewFrameType ==
  ASSUME NEW x \in XRs
  PROVE  NewFrame(x) \in Frame
BY EmptyDiffs DEF NewFrame, Frame

LEMMA ChangeType ==
  ASSUME NEW w, NEW k
  PROVE  Change(w, k) \in DiffTypes
BY DEF Change, DiffTypes

LEMMA DiffTypeOf == \A k : DiffType(k) = Change(world, k)
BY DEF DiffType, Change

(* What the world says of an XR.                                           *)
LEMMA WorldOf ==
  ASSUME NEW w \in World, NEW x \in XRs
  PROVE  w.renders[x] \in SUBSET Keys /\ w.composition[x] \in BOOLEAN
BY DEF World

(* The frame Enter leaves on the stack.                                    *)
EnteredFrame(x) ==
  [xr |-> x, diffs |-> NonRemovalDiffs(x),
   rendered |-> RenderedKeys(x), nested |-> world.renders[x] \cap XRs]

LEMMA EnteredType ==
  ASSUME NEW x \in XRs, world \in World, XRs \subseteq Keys
  PROVE  EnteredFrame(x) \in Frame
<1> DEFINE S == {x} \cup {c \in world.renders[x] : DiffType(c) # "equal"}
<1>1. world.renders[x] \in SUBSET Keys
  BY WorldOf
<1>2. S \in SUBSET Keys
  BY <1>1
<1>3. NonRemovalDiffs(x) \in [S -> DiffTypes]
  BY DiffTypeOf, ChangeType DEF NonRemovalDiffs
<1> HIDE DEF S
<1>4. NonRemovalDiffs(x) \in Diffs
  BY <1>2, <1>3, DiffsWith
<1> QED
  BY <1>1, <1>4 DEF EnteredFrame, RenderedKeys, Frame

LEMMA EnteredBuilt ==
  ASSUME NEW x \in XRs, world \in World, world.composition[x]
  PROVE  LET f == EnteredFrame(x)
         IN Built(world, f) /\ Missing(world, f) \subseteq f.nested
<1> DEFINE f == EnteredFrame(x)
<1>1. /\ f.xr = x
      /\ f.rendered = world.renders[x]
      /\ f.nested = world.renders[x] \cap XRs
      /\ f.diffs = NonRemovalDiffs(x)
  BY DEF EnteredFrame, RenderedKeys
<1> HIDE DEF f
<1>2. RenderedInv(world, f)
  BY <1>1 DEF RenderedInv, ClosedIn, Known
<1>3. DiffsInv(world, f)
  BY <1>1, DiffTypeOf DEF NonRemovalDiffs, DiffsInv, Known
<1>4. f.nested \subseteq f.rendered /\ Missing(world, f) \subseteq f.nested
  BY <1>1 DEF Missing
<1>5. Built(world, f) /\ Missing(world, f) \subseteq f.nested
  BY <1>2, <1>3, <1>4 DEF Built
<1> QED
  BY <1>5 DEF f

-----------------------------------------------------------------------------
(* A frame that takes in the one it waited for.                            *)
LEMMA MergedFields ==
  ASSUME NEW p \in Frame, NEW c \in Frame
  PROVE  LET m == Merged(p, c)
         IN /\ m \in Frame
            /\ m.xr = p.xr
            /\ m.diffs = Copy(p.diffs, c.diffs)
            /\ m.rendered = p.rendered \cup c.rendered
            /\ m.nested = p.nested
<1>1. Copy(p.diffs, c.diffs) \in Diffs
  BY CopyType DEF Frame
<1> QED
  BY <1>1 DEF Merged, Frame

LEMMA MergedBuilt ==
  ASSUME NEW w \in World, NEW p \in Frame, NEW c \in Frame,
         Waits(w, p, c), Built(w, c), Missing(w, c) \subseteq c.nested, c.nested = {}
  PROVE  LET m == Merged(p, c)
         IN m \in Frame /\ Built(w, m) /\ Missing(w, m) \subseteq m.nested
<1> DEFINE m == Merged(p, c)
<1>1. /\ m \in Frame
      /\ m.xr = p.xr
      /\ m.diffs = Copy(p.diffs, c.diffs)
      /\ m.rendered = p.rendered \cup c.rendered
      /\ m.nested = p.nested
  BY MergedFields
<1> HIDE DEF m
<1>2. /\ Built(w, p)
      /\ c.xr \in p.rendered
      /\ Missing(w, p) \subseteq p.nested \cup {c.xr}
  BY DEF Waits
<1>3. Known(m) = Known(p) \cup Known(c)
  BY <1>1, <1>2 DEF Known
<1>4. RenderedInv(w, m)
  <2>1. w.composition[m.xr] /\ w.renders[m.xr] \subseteq m.rendered
    BY <1>1, <1>2 DEF Built, RenderedInv
  <2>2. ASSUME NEW S \in SUBSET Keys, m.xr \in S, ClosedIn(w, S)
        PROVE  m.rendered \subseteq S
    <3>1. p.rendered \subseteq S
      BY <2>2, <1>1, <1>2 DEF Built, RenderedInv
    <3>2. c.rendered \subseteq S
      BY <3>1, <2>2, <1>2 DEF Built, RenderedInv
    <3> QED
      BY <3>1, <3>2, <1>1
  <2>3. ASSUME NEW k \in m.rendered
        PROVE  \E z \in Known(m) \cap XRs : w.composition[z] /\ k \in w.renders[z]
    <3>1. CASE k \in p.rendered
      BY <3>1, <1>2, <1>3 DEF Built, RenderedInv
    <3>2. CASE k \in c.rendered
      BY <3>2, <1>3 DEF Built, RenderedInv
    <3> QED
      BY <3>1, <3>2, <1>1
  <2> QED
    BY <2>1, <2>2, <2>3 DEF RenderedInv
<1>5. DiffsInv(w, m)
  <2>1. DiffsInv(w, p) /\ DiffsInv(w, c)
    BY <1>2 DEF Built
  <2>2. /\ DOMAIN m.diffs = DOMAIN p.diffs \cup DOMAIN c.diffs
        /\ \A k \in DOMAIN c.diffs : m.diffs[k] = c.diffs[k]
        /\ \A k \in DOMAIN p.diffs \ DOMAIN c.diffs : m.diffs[k] = p.diffs[k]
    BY <1>1 DEF Copy
  <2>3. DOMAIN m.diffs \subseteq Known(m)
    BY <2>1, <2>2, <1>3 DEF DiffsInv
  <2>4. \A k \in Known(m) : Change(w, k) # "equal" => k \in DOMAIN m.diffs
    BY <2>1, <2>2, <1>3 DEF DiffsInv
  <2>5. \A k \in DOMAIN m.diffs : m.diffs[k] = Change(w, k)
    BY <2>1, <2>2 DEF DiffsInv
  <2> QED
    BY <2>3, <2>4, <2>5 DEF DiffsInv
<1>6. Missing(w, m) \subseteq m.nested
  <2>1. w.renders[c.xr] \subseteq c.rendered
    BY DEF Built, RenderedInv
  <2>2. ASSUME NEW z \in m.rendered \cap XRs, w.composition[z],
               ~(w.renders[z] \subseteq m.rendered)
        PROVE  z \in m.nested
    <3>1. z \notin c.rendered
      BY <2>2, <1>1 DEF Missing
    <3>2. z \in Missing(w, p)
      BY <3>1, <2>2, <1>1 DEF Missing
    <3>3. z # c.xr
      BY <2>1, <2>2, <1>1
    <3> QED
      BY <3>2, <3>3, <1>1, <1>2
  <2> QED
    BY <2>2 DEF Missing
<1>7. m.nested \subseteq m.rendered
  BY <1>1, <1>2 DEF Built
<1>8. m \in Frame /\ Built(w, m) /\ Missing(w, m) \subseteq m.nested
  BY <1>1, <1>4, <1>5, <1>6, <1>7 DEF Built
<1> QED
  BY <1>8 DEF m

(* A frame that waits for nothing has the whole tree and only the tree.    *)
LEMMA TreeIsRendered ==
  ASSUME world \in World, XRs \subseteq Keys, NEW f \in Frame,
         Built(world, f), Missing(world, f) = {}
  PROVE  Reached(f.xr) = Known(f) /\ Composed(f.xr) = f.rendered
<1>1. f.xr \in XRs /\ f.rendered \subseteq Keys
  BY DEF Frame
<1>2. RenderedInv(world, f)
  BY DEF Built
<1>3. Known(f) \in SUBSET Keys
  BY <1>1 DEF Known
<1>4. \A S : Closed(S) <=> ClosedIn(world, S)
  BY DEF Closed, ClosedIn
<1>5. \A z \in Known(f) \cap XRs : world.composition[z] => world.renders[z] \subseteq f.rendered
  BY <1>2 DEF RenderedInv, Missing, Known
<1>6. Closed(Known(f)) /\ f.xr \in Known(f)
  BY <1>5 DEF Closed, Known
<1>7. Reached(f.xr) \subseteq Known(f)
  BY <1>3, <1>6 DEF Reached
<1>8. ASSUME NEW k \in Known(f), NEW S \in SUBSET Keys, f.xr \in S, Closed(S)
      PROVE  k \in S
  BY <1>8, <1>2, <1>4 DEF RenderedInv, Known
<1>9. Known(f) \subseteq Reached(f.xr)
  BY <1>3, <1>8 DEF Reached
<1>10. Reached(f.xr) = Known(f)
  BY <1>7, <1>9
<1>11. Composed(f.xr) \subseteq f.rendered
  BY <1>5, <1>10 DEF Composed
<1>12. f.rendered \subseteq Composed(f.xr)
  BY <1>1, <1>2, <1>10 DEF Composed, RenderedInv
<1> QED
  BY <1>10, <1>11, <1>12

-----------------------------------------------------------------------------
(* The group of an input that succeeds.                                    *)
LEMMA RemovedType ==
  ASSUME NEW x, NEW rendered
  PROVE  RemovedDiffs(x, rendered) \in Diffs
<1> DEFINE S == (TreeBelow(x) \ world.unannotated) \ rendered
<1>1. S \in SUBSET Keys
  BY DEF TreeBelow
<1>2. RemovedDiffs(x, rendered) \in [S -> DiffTypes]
  BY DEF RemovedDiffs, DiffTypes
<1> HIDE DEF S
<1> QED
  BY <1>1, <1>2, DiffsWith

(* What FinishRoot appends.                                                *)
FinishedGroup(f) ==
  LET removed == IF f.xr \in world.inCluster THEN RemovedDiffs(f.xr, f.rendered) ELSE NoDiffs
  IN [xr |-> f.xr, err |-> "none", diffs |-> Copy(f.diffs, removed)]

(* GroupsAreExact, of one group.                                           *)
Exact(g) ==
  LET shown == {k \in DOMAIN g.diffs : g.diffs[k] # "equal"}
  IN /\ shown = {k \in Reached(g.xr) : DiffType(k) # "equal"} \cup Lost(g.xr)
     /\ \A k \in shown : g.diffs[k] = IF k \in Lost(g.xr) THEN "removed" ELSE DiffType(k)

LEMMA FinishedIsExact ==
  ASSUME world \in World, XRs \subseteq Keys, NEW f \in Frame,
         Built(world, f), Missing(world, f) = {}
  PROVE  FinishedGroup(f) \in Group /\ Exact(FinishedGroup(f))
<1> DEFINE x == f.xr
           rendered == f.rendered
           removed == IF x \in world.inCluster THEN RemovedDiffs(x, rendered) ELSE NoDiffs
           g == FinishedGroup(f)
<1>1. /\ DOMAIN removed = Lost(x)
      /\ \A k \in DOMAIN removed : removed[k] = "removed"
      /\ removed \in Diffs
  <2>1. Composed(x) = rendered
    BY TreeIsRendered
  <2> HIDE DEF x, rendered
  <2>2. CASE x \in world.inCluster
    <3>1. removed = RemovedDiffs(x, rendered)
      BY <2>2
    <3>2. Lost(x) = (TreeBelow(x) \ world.unannotated) \ rendered
      BY <2>1, <2>2 DEF Lost
    <3> HIDE DEF removed
    <3>3. DOMAIN removed = Lost(x)
      BY <3>1, <3>2 DEF RemovedDiffs
    <3>4. \A k \in DOMAIN removed : removed[k] = "removed"
      BY <3>1 DEF RemovedDiffs
    <3> QED
      BY <3>1, <3>3, <3>4, RemovedType
  <2>3. CASE x \notin world.inCluster
    BY <2>3, EmptyDiffs DEF Lost, NoDiffs
  <2> QED
    BY <2>2, <2>3
<1>2. g.xr = f.xr /\ g.err = "none" /\ g.diffs = Copy(f.diffs, removed)
  BY DEF FinishedGroup
<1>3. f.diffs \in Diffs /\ f.xr \in XRs
  BY DEF Frame
<1>4. Copy(f.diffs, removed) \in Diffs
  BY <1>1, <1>3, CopyType
<1>5. g \in Group
  BY <1>3, <1>4 DEF FinishedGroup, Group, ErrorKinds
<1> HIDE DEF g, removed
<1>6. /\ DOMAIN g.diffs = DOMAIN f.diffs \cup Lost(f.xr)
      /\ \A k \in Lost(f.xr) : g.diffs[k] = "removed"
      /\ \A k \in DOMAIN f.diffs \ Lost(f.xr) : g.diffs[k] = f.diffs[k]
  <2>1. /\ DOMAIN g.diffs = DOMAIN f.diffs \cup DOMAIN removed
        /\ \A k \in DOMAIN removed : g.diffs[k] = removed[k]
        /\ \A k \in DOMAIN f.diffs \ DOMAIN removed : g.diffs[k] = f.diffs[k]
    BY <1>2 DEF Copy
  <2> QED
    BY <1>1, <2>1
<1>7. DiffsInv(world, f) /\ Reached(f.xr) = Known(f) /\ \A k : DiffType(k) = Change(world, k)
  BY TreeIsRendered, DiffTypeOf DEF Built
<1>8. \A k \in DOMAIN f.diffs \ Lost(f.xr) : g.diffs[k] = DiffType(k)
  BY <1>6, <1>7 DEF DiffsInv
<1> DEFINE shown == {k \in DOMAIN g.diffs : g.diffs[k] # "equal"}
<1>9. ASSUME NEW k \in Reached(f.xr), DiffType(k) # "equal"
      PROVE  k \in shown
  <2>1. k \in DOMAIN f.diffs
    BY <1>9, <1>7 DEF DiffsInv
  <2>2. CASE k \in Lost(f.xr)
    BY <2>2, <1>6
  <2>3. CASE k \notin Lost(f.xr)
    BY <2>1, <2>3, <1>6, <1>8, <1>9
  <2> QED
    BY <2>2, <2>3
<1>10. Lost(f.xr) \subseteq shown
  BY <1>6
<1>11. ASSUME NEW k \in shown, k \notin Lost(f.xr)
       PROVE  k \in Reached(f.xr) /\ DiffType(k) # "equal" /\ g.diffs[k] = DiffType(k)
  BY <1>11, <1>6, <1>7, <1>8 DEF DiffsInv
<1>12. shown = {k \in Reached(f.xr) : DiffType(k) # "equal"} \cup Lost(f.xr)
  BY <1>9, <1>10, <1>11
<1>13. \A k \in shown : g.diffs[k] = IF k \in Lost(f.xr) THEN "removed" ELSE DiffType(k)
  BY <1>6, <1>11
<1>14. Exact(g)
  BY <1>2, <1>12, <1>13 DEF Exact
<1> QED
  BY <1>5, <1>14 DEF g

(* The world never changes, and with it what is exact.                     *)
LEMMA ExactStays ==
  ASSUME world' = world
  PROVE  \A g : Exact(g)' <=> Exact(g)
<1>1. \A x : Reached(x)' = Reached(x)
  BY DEF Reached, Closed
<1>2. \A x : Composed(x)' = Composed(x)
  BY <1>1 DEF Composed
<1>3. \A x : TreeBelow(x)' = TreeBelow(x)
  BY DEF TreeBelow
<1>4. \A x : Lost(x)' = Lost(x)
  BY <1>2, <1>3 DEF Lost
<1>5. \A k : DiffType(k)' = DiffType(k)
  BY DEF DiffType
<1> QED
  BY <1>1, <1>4, <1>5 DEF Exact

LEMMA GroupAdded ==
  ASSUME world' = world, GroupsAreExact, NEW g, g.err = "none" => Exact(g),
         Range(groups') = Range(groups) \cup {g}
  PROVE  GroupsAreExact'
<1>1. \A h \in Range(groups) : h.err = "none" => Exact(h)
  BY DEF GroupsAreExact, Exact
<1>2. \A h \in Range(groups') : h.err = "none" => Exact(h)'
  BY <1>1, ExactStays
<1> QED
  BY <1>2 DEF GroupsAreExact, Exact

-----------------------------------------------------------------------------
(* The stack: one frame on top replaced, pushed or popped.                 *)
LEMMA TopFrame ==
  ASSUME NEW s \in Seq(Frame), Len(s) > 0
  PROVE  s[Len(s)] \in Frame /\ Len(s) \in Nat \ {0}
BY LenProperties, ElementOfSeq

LEMMA Replaced ==
  ASSUME NEW s \in Seq(Frame), Len(s) > 0, NEW f \in Frame,
         NEW t, t = [s EXCEPT ![Len(s)] = f]
  PROVE  /\ t \in Seq(Frame) /\ Len(t) = Len(s)
         /\ t[Len(s)] = f
         /\ \A i \in 1 .. Len(s) - 1 : t[i] = s[i]
<1>1. Len(s) \in 1 .. Len(s) /\ Len(s) \in Nat
  BY LenProperties
<1> QED
  BY <1>1, ExceptSeq

LEMMA Pushed ==
  ASSUME NEW s \in Seq(Frame), NEW f \in Frame, NEW t, t = Append(s, f)
  PROVE  /\ t \in Seq(Frame) /\ Len(t) = Len(s) + 1
         /\ t[Len(t)] = f
         /\ \A i \in 1 .. Len(s) : t[i] = s[i]
BY AppendProperties, LenProperties

LEMMA Popped ==
  ASSUME NEW s \in Seq(Frame), NEW n \in 0 .. Len(s), NEW t, t = SubSeq(s, 1, n)
  PROVE  /\ t \in Seq(Frame) /\ Len(t) = n
         /\ \A i \in 1 .. n : t[i] = s[i]
BY LenProperties, SubSeqProperties

LEMMA WaitsForXR ==
  ASSUME NEW w, NEW f, NEW g, NEW h, Waits(w, f, g), h.xr = g.xr
  PROVE  Waits(w, f, h)
BY DEF Waits

LEMMA InvInit == NestedDiffAssumption /\ Init => DiffInv
<1> SUFFICES ASSUME NestedDiffAssumption, Init
             PROVE  DiffInv
  OBVIOUS
<1>1. world \in World
  BY DEF Init, NestedDiffAssumption
<1>2. stack \in Seq(Frame) /\ groups \in Seq(Group) /\ Len(stack) = 0 /\ Len(groups) = 0
  BY DEF Init
<1>3. Len(Roots) \in Nat
  BY <1>1, LenProperties DEF World, Roots
<1>4. InputsInv
  BY <1>1, <1>2, <1>3 DEF Init, InputsInv, ErrorKinds
<1>5. TreesInv
  BY <1>2 DEF Init, TreesInv
<1>6. GroupsAreExact
  BY <1>2 DEF Init, GroupsAreExact, Range
<1>7. ExitCodeIsWorst
  BY DEF Init, ExitCodeIsWorst
<1> QED
  BY <1>4, <1>5, <1>6, <1>7 DEF DiffInv

(* An input starts with a stack of its own.                                *)
LEMMA TreesBegin == InputsInv /\ TreesInv /\ BeginRoot => InputsInv' /\ TreesInv'
<1> SUFFICES ASSUME InputsInv, TreesInv, BeginRoot
             PROVE  InputsInv' /\ TreesInv'
  OBVIOUS
<1>1. Roots \in Seq(XRs) /\ Len(groups) \in Nat /\ Len(Roots) \in Nat
  BY LenProperties DEF InputsInv, World, Roots
<1>2. Roots[Len(groups) + 1] \in XRs
  BY <1>1, ElementOfSeq DEF BeginRoot
<1> DEFINE f == NewFrame(Roots[Len(groups) + 1])
<1>3. f \in Frame /\ f.xr = Roots[Len(groups) + 1]
  BY <1>2, NewFrameType DEF NewFrame
<1>4. stack' = <<f>> /\ world' = world /\ groups' = groups /\ phase' = "enter"
      /\ error' = error /\ exitCode' = exitCode /\ Roots' = Roots
  BY DEF BeginRoot, Roots
<1> HIDE DEF f
<1>5. stack' \in Seq(Frame) /\ Len(stack') = 1 /\ stack'[1] = f
  BY <1>3, <1>4
<1>6. InputsInv'
  BY <1>1, <1>3, <1>4, <1>5 DEF BeginRoot, InputsInv
<1>7. TreesInv'
  BY <1>4, <1>5 DEF TreesInv
<1> QED
  BY <1>6, <1>7

LEMMA TreesEnter ==
  NestedDiffAssumption /\ InputsInv /\ TreesInv /\ Enter => InputsInv' /\ TreesInv'
<1> SUFFICES ASSUME NestedDiffAssumption, InputsInv, TreesInv, Enter
             PROVE  InputsInv' /\ TreesInv'
  OBVIOUS
<1>1. /\ world \in World /\ stack \in Seq(Frame) /\ Len(stack) > 0
      /\ XRs \subseteq Keys /\ world.composition[Top.xr]
  BY DEF Enter, InputsInv, NestedDiffAssumption
<1>2. Top \in Frame /\ Top.xr \in XRs /\ Len(stack) \in Nat \ {0}
  BY <1>1, TopFrame DEF Top, Frame
<1> DEFINE f == EnteredFrame(Top.xr)
<1>3. f \in Frame /\ f.xr = Top.xr
  BY <1>1, <1>2, EnteredType DEF EnteredFrame
<1>4. Built(world, f) /\ Missing(world, f) \subseteq f.nested
  BY <1>1, <1>2, EnteredBuilt
<1>5. /\ stack' = [stack EXCEPT ![Len(stack)] = f]
      /\ world' = world /\ groups' = groups /\ phase' = "nested"
      /\ error' = error /\ exitCode' = exitCode /\ Roots' = Roots
  BY DEF Enter, EnteredFrame, Roots
<1> HIDE DEF f
<1>6. /\ stack' \in Seq(Frame) /\ Len(stack') = Len(stack)
      /\ stack'[Len(stack)] = f
      /\ \A i \in 1 .. Len(stack) - 1 : stack'[i] = stack[i]
  BY <1>1, <1>3, <1>5, Replaced
<1>7. stack'[1].xr = stack[1].xr
  <2>1. CASE Len(stack) = 1
    BY <2>1, <1>3, <1>6 DEF Top
  <2>2. CASE Len(stack) # 1
    BY <2>2, <1>2, <1>6
  <2> QED
    BY <2>1, <2>2
<1>8. InputsInv'
  BY <1>1, <1>5, <1>6, <1>7 DEF Enter, InputsInv
<1>9. ASSUME NEW i \in 1 .. Len(stack') - 1
      PROVE  Waits(world', stack'[i], stack'[i + 1])
  <2>1. Waits(world, stack[i], stack[i + 1]) /\ stack'[i] = stack[i]
    BY <1>6 DEF TreesInv
  <2>2. stack'[i + 1].xr = stack[i + 1].xr
    <3>1. CASE i + 1 = Len(stack)
      BY <3>1, <1>3, <1>6 DEF Top
    <3>2. CASE i + 1 # Len(stack)
      BY <3>2, <1>2, <1>6
    <3> QED
      BY <3>1, <3>2
  <2> QED
    BY <2>1, <2>2, <1>5, WaitsForXR
<1>10. TreesInv'
  BY <1>4, <1>5, <1>6, <1>9 DEF TreesInv
<1> QED
  BY <1>8, <1>10

(* Steps that leave the stack as it is and fail.                           *)
LEMMA TreesFail ==
  ASSUME InputsInv, TreesInv,
         \/ \E kind \in ErrorKinds \ {"none"} : EnterFails(kind)
         \/ RemovalFails
  PROVE  InputsInv' /\ TreesInv'
<1>1. /\ stack' = stack /\ world' = world /\ groups' = groups /\ exitCode' = exitCode
      /\ phase' = "failed" /\ error' \in ErrorKinds \ {"none"} /\ phase \in {"enter", "nested"}
      /\ Roots' = Roots
  BY DEF EnterFails, RemovalFails, ErrorKinds, Roots
<1>2. error' = "composition" => Len(stack) = 1 \/ ~world.composition[Top.xr]
  BY DEF EnterFails, RemovalFails
<1>3. InputsInv'
  BY <1>1 DEF InputsInv
<1>4. TreesInv'
  BY <1>1, <1>2 DEF TreesInv, Top
<1> QED
  BY <1>3, <1>4

(* The frame below keeps all it has, and one XR less to process.           *)
LEMMA TreesDescend ==
  ASSUME NEW y \in XRs, InputsInv, TreesInv, Descend(y)
  PROVE  InputsInv' /\ TreesInv'
<1>1. world \in World /\ stack \in Seq(Frame) /\ Len(stack) > 0
  BY DEF Descend, InputsInv
<1>2. Top \in Frame /\ Len(stack) \in Nat \ {0}
  BY <1>1, TopFrame DEF Top
<1> DEFINE f == [Top EXCEPT !.nested = @ \ {y}]
           waiting == [stack EXCEPT ![Len(stack)].nested = @ \ {y}]
<1>3. /\ f \in Frame /\ f.xr = Top.xr /\ f.diffs = Top.diffs
      /\ f.rendered = Top.rendered /\ f.nested = Top.nested \ {y}
  BY <1>2 DEF Frame
<1>4. waiting = [stack EXCEPT ![Len(stack)] = f]
  BY <1>1 DEF Top
<1>5. /\ stack' = Append(waiting, NewFrame(y))
      /\ world' = world /\ groups' = groups /\ phase' = "enter"
      /\ error' = error /\ exitCode' = exitCode /\ Roots' = Roots
      /\ phase = "nested" /\ y \in Top.nested
  BY DEF Descend, Roots
<1>6. NewFrame(y) \in Frame /\ NewFrame(y).xr = y
  BY NewFrameType DEF NewFrame
<1> HIDE DEF f, waiting
<1>7. /\ waiting \in Seq(Frame) /\ Len(waiting) = Len(stack)
      /\ waiting[Len(stack)] = f
      /\ \A i \in 1 .. Len(stack) - 1 : waiting[i] = stack[i]
  BY <1>1, <1>3, <1>4, Replaced
<1>8. /\ stack' \in Seq(Frame) /\ Len(stack') = Len(waiting) + 1
      /\ stack'[Len(stack')] = NewFrame(y)
      /\ \A i \in 1 .. Len(waiting) : stack'[i] = waiting[i]
  BY <1>5, <1>6, <1>7, Pushed
<1>9. /\ stack'[Len(stack) + 1] = NewFrame(y)
      /\ stack'[Len(stack)] = f
      /\ \A i \in 1 .. Len(stack) - 1 : stack'[i] = stack[i]
  BY <1>2, <1>7, <1>8
<1>10. stack'[1].xr = stack[1].xr
  <2>1. CASE Len(stack) = 1
    BY <2>1, <1>3, <1>9 DEF Top
  <2>2. CASE Len(stack) # 1
    <3>1. 1 \in 1 .. Len(stack) - 1
      <4>1. PICK n : n = Len(stack) /\ n \in Nat /\ n > 0
        BY <1>2
      <4>2. n # 1
        BY <2>2, <4>1
      <4>3. 1 \in 1 .. n - 1
        BY <4>1, <4>2
      <4> QED
        BY <4>1, <4>3
    <3> QED
      BY <3>1, <1>9
  <2> QED
    BY <2>1, <2>2
<1>11. InputsInv'
  BY <1>2, <1>5, <1>7, <1>8, <1>10 DEF InputsInv
<1>12. Built(world, Top) /\ Missing(world, Top) \subseteq Top.nested
  BY <1>5 DEF TreesInv, Top
<1>13. Waits(world, f, NewFrame(y))
  <2>1. Built(world, f)
    BY <1>3, <1>12 DEF Built, RenderedInv, DiffsInv, Known
  <2>2. Missing(world, f) \subseteq f.nested \cup {y}
    BY <1>3, <1>12 DEF Missing
  <2>3. y \in f.rendered
    BY <1>3, <1>5, <1>12 DEF Built
  <2> QED
    BY <2>1, <2>2, <2>3, <1>6 DEF Waits
<1>14. ASSUME NEW i \in 1 .. Len(stack') - 1
       PROVE  Waits(world', stack'[i], stack'[i + 1])
  <2>1. CASE i = Len(stack)
    BY <2>1, <1>5, <1>9, <1>13
  <2>2. CASE i # Len(stack)
    <3>1. i \in 1 .. Len(stack) - 1
      BY <2>2, <1>2, <1>7, <1>8
    <3>2. Waits(world, stack[i], stack[i + 1]) /\ stack'[i] = stack[i]
      BY <3>1, <1>9 DEF TreesInv
    <3>3. stack'[i + 1].xr = stack[i + 1].xr
      <4>1. CASE i + 1 = Len(stack)
        BY <4>1, <1>3, <1>9 DEF Top
      <4>2. CASE i + 1 # Len(stack)
        BY <4>2, <3>1, <1>2, <1>9
      <4> QED
        BY <4>1, <4>2
    <3> QED
      BY <3>2, <3>3, <1>5, WaitsForXR
  <2> QED
    BY <2>1, <2>2
<1>15. TreesInv'
  BY <1>5, <1>14 DEF TreesInv
<1> QED
  BY <1>11, <1>15

(* A complete frame goes into the one that waited for it.                  *)
LEMMA TreesReturn ==
  ASSUME InputsInv, TreesInv, ReturnNested
  PROVE  InputsInv' /\ TreesInv'
<1> DEFINE n == Len(stack)
           p == stack[n - 1]
           m == Merged(p, Top)
           below == SubSeq(stack, 1, n - 2)
<1>1. /\ world \in World /\ stack \in Seq(Frame) /\ n \in Nat /\ n > 1
  BY LenProperties DEF ReturnNested, InputsInv
<1>2. /\ stack' = Append(below, m)
      /\ world' = world /\ groups' = groups /\ phase' = phase
      /\ error' = error /\ exitCode' = exitCode /\ Roots' = Roots
      /\ phase = "nested" /\ Top.nested = {}
  BY DEF ReturnNested, Roots
<1>3. p \in Frame /\ Top \in Frame
  BY <1>1, ElementOfSeq DEF Top
<1>4. Built(world, Top) /\ Missing(world, Top) \subseteq Top.nested
  BY <1>2 DEF TreesInv, Top
<1>5. Waits(world, p, Top)
  <2>1. n - 1 \in 1 .. Len(stack) - 1 /\ (n - 1) + 1 = Len(stack)
    BY <1>1
  <2> QED
    BY <2>1 DEF TreesInv, Top
<1>6. m \in Frame /\ Built(world, m) /\ Missing(world, m) \subseteq m.nested
  BY <1>1, <1>2, <1>3, <1>4, <1>5, MergedBuilt
<1>7. m.xr = p.xr
  BY <1>3, MergedFields
<1>8. n - 2 \in 0 .. Len(stack)
  BY <1>1
<1> HIDE DEF below, m
<1>9. below \in Seq(Frame) /\ Len(below) = n - 2 /\ \A i \in 1 .. n - 2 : below[i] = stack[i]
  BY <1>1, <1>8, Popped DEF below
<1>10. /\ stack' \in Seq(Frame) /\ Len(stack') = n - 1
       /\ stack'[n - 1] = m
       /\ \A i \in 1 .. n - 2 : stack'[i] = stack[i]
  <2>1. /\ stack' \in Seq(Frame) /\ Len(stack') = Len(below) + 1
        /\ stack'[Len(stack')] = m
        /\ \A i \in 1 .. Len(below) : stack'[i] = below[i]
    BY <1>2, <1>6, <1>9, Pushed
  <2> QED
    BY <2>1, <1>1, <1>9
<1>11. stack'[1].xr = stack[1].xr
  <2>1. CASE n = 2
    <3>1. n - 1 = 1
      BY <2>1
    <3>2. stack'[1] = m /\ p = stack[1]
      BY <3>1, <1>10
    <3> QED
      BY <3>2, <1>7
  <2>2. CASE n # 2
    BY <2>2, <1>1, <1>10
  <2> QED
    BY <2>1, <2>2
<1>12. InputsInv'
  BY <1>1, <1>2, <1>10, <1>11 DEF InputsInv
<1>13. ASSUME NEW i \in 1 .. Len(stack') - 1
       PROVE  Waits(world', stack'[i], stack'[i + 1])
  <2>1. i \in 1 .. n - 2 /\ i \in 1 .. Len(stack) - 1
    BY <1>1, <1>10
  <2>2. Waits(world, stack[i], stack[i + 1]) /\ stack'[i] = stack[i]
    BY <2>1, <1>10 DEF TreesInv
  <2>3. stack'[i + 1].xr = stack[i + 1].xr
    <3>1. CASE i + 1 = n - 1
      BY <3>1, <1>7, <1>10
    <3>2. CASE i + 1 # n - 1
      BY <3>2, <2>1, <1>1, <1>10
    <3> QED
      BY <3>1, <3>2
  <2> QED
    BY <2>2, <2>3, <1>2, WaitsForXR
<1>14. TreesInv'
  BY <1>2, <1>6, <1>10, <1>13 DEF TreesInv
<1> QED
  BY <1>12, <1>14

(* An XR without a composition renders nothing its parent would miss.      *)
LEMMA TreesSkip ==
  ASSUME InputsInv, TreesInv, SkipNested
  PROVE  InputsInv' /\ TreesInv'
<1> DEFINE n == Len(stack)
           p == stack[n - 1]
<1>1. /\ world \in World /\ stack \in Seq(Frame) /\ n \in Nat /\ n > 1
  BY LenProperties DEF SkipNested, InputsInv
<1>2. /\ stack' = SubSeq(stack, 1, n - 1)
      /\ world' = world /\ groups' = groups /\ phase' = "nested"
      /\ error' = "none" /\ exitCode' = exitCode /\ Roots' = Roots
      /\ phase = "failed" /\ error = "composition"
  BY DEF SkipNested, Front, Roots
<1>3. n - 1 \in 0 .. Len(stack)
  BY <1>1
<1>4. /\ stack' \in Seq(Frame) /\ Len(stack') = n - 1
      /\ \A i \in 1 .. n - 1 : stack'[i] = stack[i]
  BY <1>1, <1>2, <1>3, Popped
<1>5. stack'[1] = stack[1]
  BY <1>1, <1>4
<1>6. InputsInv'
  BY <1>1, <1>2, <1>4, <1>5 DEF InputsInv, ErrorKinds
<1>7. Waits(world, p, stack[n]) /\ ~world.composition[stack[n].xr]
  <2>1. n - 1 \in 1 .. Len(stack) - 1 /\ (n - 1) + 1 = Len(stack) /\ Len(stack) # 1
    BY <1>1
  <2> QED
    BY <2>1, <1>2 DEF TreesInv
<1>8. Built(world, p) /\ Missing(world, p) \subseteq p.nested
  BY <1>7 DEF Waits, Missing
<1>9. ASSUME NEW i \in 1 .. Len(stack') - 1
      PROVE  Waits(world', stack'[i], stack'[i + 1])
  <2>1. i \in 1 .. Len(stack) - 1 /\ stack'[i] = stack[i] /\ stack'[i + 1] = stack[i + 1]
    BY <1>1, <1>4
  <2> QED
    BY <2>1, <1>2 DEF TreesInv
<1>10. stack'[Len(stack')] = p
  BY <1>1, <1>4
<1>11. TreesInv'
  BY <1>2, <1>8, <1>9, <1>10 DEF TreesInv
<1> QED
  BY <1>6, <1>11

(* An input ends: its group is appended, and the stack is empty again.     *)
LEMMA InputEnds ==
  ASSUME InputsInv, TreesInv, phase \in {"nested", "failed"},
         NEW g \in Group, g.xr = stack[1].xr,
         groups' = Append(groups, g), stack' = <<>>, world' = world, phase' = "root",
         error' \in ErrorKinds, exitCode' = exitCode
  PROVE  InputsInv' /\ TreesInv' /\ Range(groups') = Range(groups) \cup {g}
<1>1. Roots' = Roots
  BY DEF Roots
<1>2. /\ groups \in Seq(Group) /\ Len(groups) \in Nat /\ Len(groups) < Len(Roots)
      /\ stack[1].xr = Roots[Len(groups) + 1] /\ world \in World
  BY LenProperties DEF InputsInv
<1>3. Len(Roots) \in Nat
  BY <1>2, LenProperties DEF World, Roots
<1>4. /\ groups' \in Seq(Group) /\ Len(groups') = Len(groups) + 1
      /\ groups'[Len(groups) + 1] = g
      /\ \A i \in 1 .. Len(groups) : groups'[i] = groups[i]
  BY <1>2, AppendProperties
<1>5. \A i \in 1 .. Len(groups') : groups'[i].xr = Roots[i]
  <2> SUFFICES ASSUME NEW i \in 1 .. Len(groups')
               PROVE  groups'[i].xr = Roots[i]
    OBVIOUS
  <2>1. CASE i = Len(groups) + 1
    BY <2>1, <1>2, <1>4
  <2>2. CASE i # Len(groups) + 1
    <3>1. i \in 1 .. Len(groups)
      BY <2>2, <1>2, <1>4
    <3> QED
      BY <3>1, <1>4 DEF InputsInv
  <2> QED
    BY <2>1, <2>2
<1>6. stack' \in Seq(Frame) /\ Len(stack') = 0
  OBVIOUS
<1>7. Len(groups') <= Len(Roots)
  BY <1>2, <1>3, <1>4
<1>8. InputsInv'
  BY <1>1, <1>2, <1>4, <1>5, <1>6, <1>7 DEF InputsInv
<1>9. TreesInv'
  BY <1>6 DEF TreesInv
<1>10. DOMAIN groups' = 1 .. Len(groups) + 1 /\ DOMAIN groups = 1 .. Len(groups)
  BY <1>2, <1>4, LenProperties
<1>11. Range(groups') = Range(groups) \cup {g}
  <2>1. \A r \in Range(groups) : r \in Range(groups')
    BY <1>2, <1>4, <1>10 DEF Range
  <2>2. g \in Range(groups')
    BY <1>2, <1>4, <1>10 DEF Range
  <2>3. ASSUME NEW i \in 1 .. Len(groups) + 1
        PROVE  groups'[i] \in Range(groups) \cup {g}
    <3>1. CASE i = Len(groups) + 1
      BY <3>1, <1>4
    <3>2. CASE i # Len(groups) + 1
      <4>1. i \in 1 .. Len(groups)
        BY <3>2, <1>2
      <4> QED
        BY <4>1, <1>4, <1>10 DEF Range
    <3> QED
      BY <3>1, <3>2
  <2>4. \A r \in Range(groups') : r \in Range(groups) \cup {g}
    BY <2>3, <1>10 DEF Range
  <2> QED
    BY <2>1, <2>2, <2>4
<1> QED
  BY <1>8, <1>9, <1>11

LEMMA StackXR ==
  ASSUME InputsInv, phase \in {"nested", "failed"}
  PROVE  stack[1] \in Frame /\ stack[1].xr \in XRs
<1>1. stack \in Seq(Frame) /\ Len(stack) > 0
  BY DEF InputsInv
<1>2. 1 \in 1 .. Len(stack)
  BY <1>1, LenProperties
<1>3. stack[1] \in Frame
  BY <1>1, <1>2, ElementOfSeq
<1> QED
  BY <1>3 DEF Frame

(* A failed input claims nothing.                                          *)
LEMMA TreesFailRoot ==
  ASSUME InputsInv, TreesInv, GroupsAreExact, FailRoot
  PROVE  InputsInv' /\ TreesInv' /\ GroupsAreExact'
<1> DEFINE g == FailedGroup
<1>1. phase = "failed" /\ error \in ErrorKinds \ {"none"} /\ world' = world
  BY DEF FailRoot, InputsInv
<1>2. g \in Group /\ g.xr = stack[1].xr /\ g.err = error
  BY <1>1, StackXR, EmptyDiffs DEF FailedGroup, Group
<1>3. /\ groups' = Append(groups, g) /\ stack' = <<>> /\ phase' = "root"
      /\ error' \in ErrorKinds /\ exitCode' = exitCode
  BY DEF FailRoot, ErrorKinds
<1> HIDE DEF g
<1>4. InputsInv' /\ TreesInv' /\ Range(groups') = Range(groups) \cup {g}
  BY <1>1, <1>2, <1>3, InputEnds
<1> QED
  BY <1>1, <1>2, <1>4, GroupAdded

(* A successful one claims what is so.                                     *)
LEMMA TreesFinish ==
  ASSUME NestedDiffAssumption, InputsInv, TreesInv, GroupsAreExact, FinishRoot
  PROVE  InputsInv' /\ TreesInv' /\ GroupsAreExact'
<1> DEFINE g == FinishedGroup(Top)
<1>1. /\ phase = "nested" /\ Top.nested = {} /\ Len(stack) = 1 /\ Top = stack[1]
      /\ world' = world /\ error \in ErrorKinds /\ XRs \subseteq Keys /\ world \in World
  BY DEF FinishRoot, InputsInv, Top, NestedDiffAssumption
<1>2. Top \in Frame
  BY <1>1, StackXR
<1>3. Built(world, Top) /\ Missing(world, Top) = {}
  BY <1>1 DEF TreesInv
<1>4. g \in Group /\ Exact(g)
  BY <1>1, <1>2, <1>3, FinishedIsExact
<1>5. g.xr = stack[1].xr
  BY <1>1 DEF FinishedGroup
<1>6. /\ groups' = Append(groups, g) /\ stack' = <<>> /\ phase' = "root"
      /\ error' = error /\ exitCode' = exitCode
  BY DEF FinishRoot, FinishedGroup
<1> HIDE DEF g
<1>7. InputsInv' /\ TreesInv' /\ Range(groups') = Range(groups) \cup {g}
  BY <1>1, <1>4, <1>5, <1>6, InputEnds
<1> QED
  BY <1>1, <1>4, <1>7, GroupAdded

(* The end of the run.                                                     *)
LEMMA ExitCodes ==
  ASSUME NEW errs, NEW hasDiffs \in BOOLEAN
  PROVE  LET code == DetermineExitCode(errs, hasDiffs)
         IN /\ code \in 0 .. 3
            /\ code = 3 <=> errs = {} /\ hasDiffs
            /\ code = 2 <=> errs = {"schema"}
            /\ code = 0 <=> errs = {} /\ ~hasDiffs
BY DEF DetermineExitCode

LEMMA TreesExit ==
  ASSUME NEW renderFails \in BOOLEAN, InputsInv, TreesInv, Exit(renderFails)
  PROVE  InputsInv' /\ TreesInv' /\ ExitCodeIsWorst'
<1> DEFINE errs == GroupErrors \cup (IF renderFails THEN {"tool"} ELSE {})
<1>1. /\ stack' = stack /\ world' = world /\ groups' = groups /\ phase' = "exit"
      /\ error' = (IF renderFails THEN "tool" ELSE "none")
      /\ exitCode' = DetermineExitCode(errs, HasDiffs)
      /\ Roots' = Roots /\ GroupErrors' = GroupErrors /\ HasDiffs' = HasDiffs
  BY DEF Exit, Roots, GroupErrors, HasDiffs
<1>2. HasDiffs \in BOOLEAN
  BY DEF HasDiffs
<1>3. /\ exitCode' \in 0 .. 3
      /\ exitCode' = 3 <=> errs = {} /\ HasDiffs
      /\ exitCode' = 2 <=> errs = {"schema"}
      /\ exitCode' = 0 <=> errs = {} /\ ~HasDiffs
  BY <1>1, <1>2, ExitCodes
<1>4. /\ errs = {} <=> GroupErrors = {} /\ error' = "none"
      /\ errs = {"schema"} <=> GroupErrors = {"schema"} /\ error' = "none"
  BY <1>1
<1> HIDE DEF errs
<1>5. ExitCodeIsWorst'
  BY <1>1, <1>3, <1>4 DEF ExitCodeIsWorst
<1>6. InputsInv'
  BY <1>1, <1>3 DEF InputsInv, ErrorKinds
<1>7. TreesInv'
  BY <1>1 DEF TreesInv
<1> QED
  BY <1>5, <1>6, <1>7

-----------------------------------------------------------------------------
LEMMA InvStep == NestedDiffAssumption /\ DiffInv /\ [Next]_vars => DiffInv'
<1> SUFFICES ASSUME NestedDiffAssumption, InputsInv, TreesInv, GroupsAreExact, ExitCodeIsWorst,
                    [Next]_vars
             PROVE  InputsInv' /\ TreesInv' /\ GroupsAreExact' /\ ExitCodeIsWorst'
  BY DEF DiffInv
<1>1. ASSUME world' = world, groups' = groups
      PROVE  GroupsAreExact'
  <2>1. \A h \in Range(groups) : h.err = "none" => Exact(h)
    BY DEF GroupsAreExact, Exact
  <2>2. \A h \in Range(groups') : h.err = "none" => Exact(h)'
    BY <2>1, <1>1, ExactStays
  <2> QED
    BY <2>2 DEF GroupsAreExact, Exact
<1>2. ASSUME phase' # "exit"
      PROVE  ExitCodeIsWorst'
  BY <1>2 DEF ExitCodeIsWorst
<1>3. CASE BeginRoot
  BY <1>3, <1>1, <1>2, TreesBegin DEF BeginRoot
<1>4. CASE Enter
  BY <1>4, <1>1, <1>2, TreesEnter DEF Enter
<1>5. CASE RemovalFails \/ \E kind \in ErrorKinds \ {"none"} : EnterFails(kind)
  BY <1>5, <1>1, <1>2, TreesFail DEF RemovalFails, EnterFails
<1>6. ASSUME NEW y \in XRs, Descend(y)
      PROVE  InputsInv' /\ TreesInv' /\ GroupsAreExact' /\ ExitCodeIsWorst'
  BY <1>6, <1>1, <1>2, TreesDescend DEF Descend
<1>7. CASE ReturnNested
  BY <1>7, <1>1, <1>2, TreesReturn DEF ReturnNested
<1>8. CASE SkipNested
  BY <1>8, <1>1, <1>2, TreesSkip DEF SkipNested
<1>9. CASE FailRoot
  BY <1>9, <1>2, TreesFailRoot DEF FailRoot
<1>10. CASE FinishRoot
  BY <1>10, <1>2, TreesFinish DEF FinishRoot
<1>11. ASSUME NEW renderFails \in BOOLEAN, Exit(renderFails)
       PROVE  InputsInv' /\ TreesInv' /\ GroupsAreExact' /\ ExitCodeIsWorst'
  BY <1>11, <1>1, TreesExit DEF Exit
<1>12. CASE UNCHANGED vars
  <2>1. /\ world' = world /\ stack' = stack /\ groups' = groups /\ phase' = phase
        /\ error' = error /\ exitCode' = exitCode
    BY <1>12 DEF vars
  <2>2. InputsInv'
    BY <2>1 DEF InputsInv, Roots
  <2>3. TreesInv'
    BY <2>1 DEF TreesInv
  <2>4. GroupErrors' = GroupErrors /\ HasDiffs' = HasDiffs
    BY <2>1 DEF GroupErrors, HasDiffs
  <2>5. ExitCodeIsWorst'
    BY <2>1, <2>4 DEF ExitCodeIsWorst
  <2> QED
    BY <2>1, <2>2, <2>3, <2>5, <1>1
<1> QED
  BY <1>3, <1>4, <1>5, <1>6, <1>7, <1>8, <1>9, <1>10, <1>11, <1>12 DEF Next

(* DiffInv is an invariant of the nested diff: each frame of the recursion *)
(* of diffSingleResourceInternal has rendered what it should, and each     *)
(* input has its outcome.                                                  *)
THEOREM DiffInvariance == Spec => []DiffInv
<1>1. Init => DiffInv
  BY NestedDiffAssumption, InvInit
<1>2. DiffInv /\ [Next]_vars => DiffInv'
  BY NestedDiffAssumption, InvStep
<1> QED
  BY <1>1, <1>2, PTL DEF Spec

(* PerformDiff's variables have their types, and the outcomes are those of *)
(* the inputs in their order.                                              *)
THEOREM TypesHold == Spec => []TypeOK
<1>1. DiffInv => TypeOK
  <2> SUFFICES ASSUME DiffInv
               PROVE  TypeOK
    OBVIOUS
  <2>1. InputsInv
    BY DEF DiffInv
  <2>2. DOMAIN stack = 1 .. Len(stack) /\ DOMAIN groups = 1 .. Len(groups)
    BY <2>1, LenProperties DEF InputsInv
  <2>3. \A i \in DOMAIN stack : stack[i] \in Frame
    BY <2>1, <2>2, ElementOfSeq DEF InputsInv
  <2>4. \A i \in DOMAIN groups : groups[i] \in Group
    BY <2>1, <2>2, ElementOfSeq DEF InputsInv
  <2>5. \A d \in Diffs : IsDiffs(d)
    BY DiffsOf DEF IsDiffs
  <2> QED
    BY <2>1, <2>2, <2>3, <2>4, <2>5 DEF InputsInv, TypeOK, Frame, Group
<1> QED
  BY <1>1, DiffInvariance, PTL

(* Whatever XRs compose whatever XRs, an input that succeeds reports every *)
(* rendered resource that would change and every lost one, each with its   *)
(* kind of change, and nothing else (diffSingleResourceInternal,           *)
(* ProcessNestedXRs and CalculateRemovedResourceDiffs).                    *)
THEOREM Exactness == Spec => []GroupsAreExact
<1>1. DiffInv => GroupsAreExact
  BY DEF DiffInv
<1> QED
  BY <1>1, DiffInvariance, PTL

(* DetermineExitCode of what the run collected is the worst outcome of any *)
(* of its inputs and of the rendering of the diffs.                        *)
THEOREM WorstOutcome == Spec => []ExitCodeIsWorst
<1>1. DiffInv => ExitCodeIsWorst
  BY DEF DiffInv
<1> QED
  BY <1>1, DiffInvariance, PTL
=============================================================================
