----------------------- MODULE ResourceIdentityProofs -----------------------
(***************************************************************************)
(* Proofs about ResourceIdentity: no object of the cluster that a resource *)
(* was compared with is reported as removed, nor one of a resource that    *)
(* was shown as new; nothing is reported as removed unless everything      *)
(* rendered was diffed; and the labels and owner references of what is     *)
(* diffed are admissible.                                                  *)
(***************************************************************************)
EXTENDS ResourceIdentity, FiniteSetTheorems, SequenceTheorems, TLAPS

(* What a look-up recorded is right, for a composite w and the objects     *)
(* known then: the object settled on is one of the matches, if there were  *)
(* any.                                                                    *)
LookSound(l) ==
    /\ l.current \in Objects \cup {Nobody}
    /\ l.matches \subseteq Objects
    /\ l.matches # {} => l.current \in l.matches

(* As long as nobody else touches the cluster, a look-up by labels that    *)
(* saw its answer and settled on nothing leaves nothing that matches.      *)
NothingMissed(k, l) ==
    changes = 0 /\ l.current = Nobody /\ ~l.blind /\ LooksByLabel(Desired[k])
        => Matching(Desired[k]) = {}

LookInv ==
    /\ LookSound(look)
    /\ pc = "apply" => NothingMissed(next, look)

(* What a result records is right, and still is.                           *)
ResultSound(r) ==
    /\ r.of \in DOMAIN Desired /\ r.of < next
    /\ ~Nameless(Desired[r.of])
    /\ LookSound(r.look)
    /\ NothingMissed(r.of, r.look)
    /\ r.look.current # Nobody =>
          /\ r.look.current.name \in rendered
          /\ r.label = LabelOf(r.look.current)
    /\ r.refs = OwnerRefs(Desired[r.of].refs)

ResultsInv == \A i \in DOMAIN results : ResultSound(results[i])

(* Every resource so far was diffed, skipped for want of a name, or failed.*)
NoneLeftOut ==
    ~failed => \A k \in DOMAIN Desired :
        k < next /\ ~Nameless(Desired[k]) => \E i \in DOMAIN results : results[i].of = k

RemovedInv ==
    /\ pc = "done" => next = Len(Desired) + 1
    /\ removed # {} => pc = "done" /\ ~failed /\ world.exists
    /\ \A o \in removed : o \in cluster /\ o.owner # "stranger" /\ o.name \notin rendered

BaseInv ==
    /\ world \in Worlds
    /\ cluster \subseteq Objects
    /\ next \in 1 .. Len(Desired) + 1
    /\ results \in Seq({results[i] : i \in DOMAIN results})
    /\ changes \in 0 .. MaxChanges
    /\ DOMAIN diffs \subseteq rendered
    /\ pc \in {"get", "list", "apply", "done"}

IdentityInv == BaseInv /\ LookInv /\ ResultsInv /\ NoneLeftOut /\ RemovedInv
-----------------------------------------------------------------------------
LEMMA DesiredIsSequence ==
    ASSUME BaseInv
    PROVE  Len(Desired) \in Nat /\ DOMAIN Desired = 1 .. Len(Desired)
BY WorldsAssumption DEF BaseInv, Desired

LEMMA AppendIsSequence ==
    ASSUME NEW s, s \in Seq({s[i] : i \in DOMAIN s}), NEW e
    PROVE  /\ Append(s, e) \in Seq({Append(s, e)[i] : i \in DOMAIN Append(s, e)})
           /\ Len(s) \in Nat
           /\ DOMAIN s = 1 .. Len(s)
           /\ DOMAIN Append(s, e) = 1 .. Len(s) + 1
           /\ \A i \in DOMAIN s : Append(s, e)[i] = s[i]
           /\ Append(s, e)[Len(s) + 1] = e
<1> DEFINE S == {s[i] : i \in DOMAIN s} \cup {e}
<1>1. s \in Seq(S) /\ e \in S /\ Len(s) \in Nat /\ DOMAIN s = 1 .. Len(s)
    OBVIOUS
<1> HIDE DEF S
<1>2. /\ Append(s, e) \in Seq(S)
      /\ Len(Append(s, e)) = Len(s) + 1
      /\ \A i \in 1 .. Len(s) : Append(s, e)[i] = s[i]
      /\ Append(s, e)[Len(s) + 1] = e
    BY <1>1, AppendProperties
<1>3. DOMAIN Append(s, e) = 1 .. Len(s) + 1
    BY <1>1, <1>2
<1>4. Append(s, e) \in Seq({Append(s, e)[i] : i \in DOMAIN Append(s, e)})
    <2> DEFINE t == Append(s, e)
    <2> HIDE DEF t
    <2>1. t \in Seq(S)
        BY <1>2 DEF t
    <2>2. t \in Seq({t[i] : i \in DOMAIN t})
        BY <2>1
    <2> QED
        BY <2>2 DEF t
<1> QED
    BY <1>1, <1>2, <1>3, <1>4

LEMMA SameOwnerRefs ==
    ASSUME world' = world, NEW refs
    PROVE  OwnerRefs(refs)' = OwnerRefs(refs)
BY DEF OwnerRefs, HasComposite, RefsForClaim, RefsForXR, ParentName, ParentUID

(* What was missed depends on the composite and the cluster alone.         *)
LEMMA StillNothingMissed ==
    ASSUME NEW k, NEW l, NothingMissed(k, l), world' = world,
           changes' = 0 => cluster' = cluster /\ changes' = changes
    PROVE  NothingMissed(k, l)'
BY DEF NothingMissed, LooksByLabel, HasComposite, Desired, Matching, Labelled, LabelOf, ParentName

LEMMA StillSound ==
    ASSUME NEW r, ResultSound(r), world' = world, next \in Nat, next' \in Nat, next <= next',
           DOMAIN Desired \subseteq Nat,
           rendered \subseteq rendered',
           changes' = 0 => cluster' = cluster /\ changes' = changes
    PROVE  ResultSound(r)'
<1>1. NothingMissed(r.of, r.look)'
    BY StillNothingMissed DEF ResultSound
<1>2. OwnerRefs(Desired[r.of].refs)' = OwnerRefs(Desired[r.of].refs)
    BY SameOwnerRefs DEF Desired
<1>3. r.of \in (DOMAIN Desired)' /\ r.of < next' /\ ~Nameless(Desired[r.of])'
    BY DEF ResultSound, Desired, Nameless
<1>4. LookSound(r.look)'
    BY DEF ResultSound, LookSound
<1> QED
    BY <1>1, <1>2, <1>3, <1>4 DEF ResultSound

(* Skip, and every failure to diff the resource under way.                 *)
LEMMA LeftOut ==
    ASSUME IdentityInv, pc # "done", next <= Len(Desired), NextResource,
           UNCHANGED <<results, diffs, rendered>>,
           failed' = TRUE \/ (failed' = failed /\ Nameless(Current))
    PROVE  IdentityInv'
<1>1. /\ world' = world /\ cluster' = cluster /\ removed' = removed /\ changes' = changes
      /\ next' = next + 1 /\ pc' = "get" /\ look' = Unseen
    BY DEF NextResource
<1>2. BaseInv /\ Len(Desired) \in Nat /\ DOMAIN Desired = 1 .. Len(Desired)
    BY DesiredIsSequence DEF IdentityInv
<1>3. BaseInv'
    BY <1>1, <1>2 DEF BaseInv, Desired
<1>4. LookInv'
    BY <1>1 DEF LookInv, LookSound, Unseen
<1>5. ResultsInv'
    <2> SUFFICES ASSUME NEW i \in DOMAIN results PROVE ResultSound(results[i])'
        BY DEF ResultsInv
    <2>1. PICK r : r = results[i] /\ ResultSound(r)
        BY DEF IdentityInv, ResultsInv
    <2>2. ResultSound(r)'
        BY <1>1, <1>2, <2>1, StillSound DEF BaseInv
    <2> QED
        BY <2>1, <2>2
<1>6. NoneLeftOut'
    BY <1>1, <1>2 DEF IdentityInv, BaseInv, NoneLeftOut, Desired, Current, Nameless
<1>7. RemovedInv'
    BY <1>1 DEF IdentityInv, RemovedInv
<1> QED
    BY <1>3, <1>4, <1>5, <1>6, <1>7 DEF IdentityInv

(* The results of before, as the steps that touch none of them leave them. *)
LEMMA ResultsUnchanged ==
    ASSUME IdentityInv, UNCHANGED <<world, next, results, rendered>>,
           changes' = 0 => cluster' = cluster /\ changes' = changes
    PROVE  ResultsInv'
<1>1. BaseInv /\ Len(Desired) \in Nat /\ DOMAIN Desired = 1 .. Len(Desired)
    BY DesiredIsSequence DEF IdentityInv
<1> SUFFICES ASSUME NEW i \in DOMAIN results PROVE ResultSound(results[i])'
    BY DEF ResultsInv
<1>2. PICK r : r = results[i] /\ ResultSound(r)
    BY DEF IdentityInv, ResultsInv
<1>3. ResultSound(r)'
    BY <1>1, <1>2, StillSound DEF BaseInv
<1> QED
    BY <1>2, <1>3

LEMMA Settles ==
    ASSUME IdentityInv, pc # "done",
           NEW current \in Objects \cup {Nobody}, NEW matches \in SUBSET Objects, NEW blind,
           matches # {} => current \in matches,
           current = Nobody /\ ~blind /\ LooksByLabel(Current) => Matching(Current) = {},
           Settle(current, matches, blind)
    PROVE  IdentityInv'
<1> DEFINE l == [current |-> current, matches |-> matches, blind |-> blind]
<1>1. /\ UNCHANGED <<world, cluster, next, results, diffs, rendered, failed, removed, changes>>
      /\ look' = l /\ pc' = "apply"
    BY DEF Settle
<1>2. l.current = current /\ l.matches = matches /\ l.blind = blind
    OBVIOUS
<1> HIDE DEF l
<1>3. BaseInv'
    BY <1>1 DEF IdentityInv, BaseInv, Desired
<1>4. LookSound(l) /\ NothingMissed(next, l)
    BY <1>2 DEF LookSound, NothingMissed, Current
<1>5. PICK k : k = next /\ NothingMissed(k, l)
    BY <1>4
<1>6. NothingMissed(k, l)' /\ LookSound(l)'
    BY <1>1, <1>4, <1>5, StillNothingMissed DEF LookSound
<1>7. LookInv'
    BY <1>1, <1>5, <1>6 DEF LookInv
<1>8. ResultsInv'
    BY <1>1, ResultsUnchanged
<1>9. NoneLeftOut' /\ RemovedInv'
    BY <1>1 DEF IdentityInv, NoneLeftOut, RemovedInv, Desired
<1> QED
    BY <1>3, <1>7, <1>8, <1>9 DEF IdentityInv

LEMMA Compares == IdentityInv /\ Compare => IdentityInv'
<1> SUFFICES ASSUME IdentityInv, Compare PROVE IdentityInv'
    OBVIOUS
<1>1. BaseInv /\ Len(Desired) \in Nat /\ DOMAIN Desired = 1 .. Len(Desired)
    BY DesiredIsSequence DEF IdentityInv
<1>2. PICK key, label, refs, l, of, e :
        /\ key = DisplayName(Current, look.current)
        /\ label = OwnerLabel(PreservedLabel(Current, look.current))
        /\ refs = OwnerRefs(Current.refs) /\ l = look /\ of = next
        /\ e = [of |-> of, look |-> l, refs |-> refs, label |-> label]
    OBVIOUS
<1>3. e.of = of /\ e.look = l /\ e.refs = refs /\ e.label = label
    BY <1>2
<1>4. /\ rendered' = rendered \cup {key} /\ results' = Append(results, e)
      /\ DOMAIN diffs' \subseteq DOMAIN diffs \cup {key}
      /\ world' = world /\ cluster' = cluster /\ removed' = removed /\ changes' = changes
      /\ next' = next + 1 /\ pc' = "get" /\ look' = Unseen /\ failed' = failed
    BY <1>2 DEF Compare, NextResource
<1>5. pc = "apply" /\ next <= Len(Desired) /\ ~Nameless(Current) /\ next \in DOMAIN Desired
    BY <1>1 DEF Compare, Working, BaseInv
<1>6. /\ results' \in Seq({results'[i] : i \in DOMAIN results'})
      /\ Len(results) \in Nat
      /\ DOMAIN results = 1 .. Len(results)
      /\ DOMAIN results' = 1 .. Len(results) + 1
      /\ \A i \in DOMAIN results : results'[i] = results[i]
      /\ results'[Len(results) + 1] = e
    <2>1. PICK s : s = results /\ s \in Seq({s[i] : i \in DOMAIN s})
        BY <1>1 DEF BaseInv
    <2>2. /\ Append(s, e) \in Seq({Append(s, e)[i] : i \in DOMAIN Append(s, e)})
          /\ Len(s) \in Nat
          /\ DOMAIN s = 1 .. Len(s)
          /\ DOMAIN Append(s, e) = 1 .. Len(s) + 1
          /\ \A i \in DOMAIN s : Append(s, e)[i] = s[i]
          /\ Append(s, e)[Len(s) + 1] = e
        BY <2>1, AppendIsSequence
    <2>3. results' = Append(s, e)
        BY <1>4, <2>1
    <2> QED
        BY <2>1, <2>2, <2>3
<1>7. BaseInv'
    <2>1. results' \in Seq({results'[i] : i \in DOMAIN results'})
        BY <1>6
    <2>2. world' \in Worlds /\ cluster' \subseteq Objects /\ changes' \in 0 .. MaxChanges
          /\ Desired' = Desired /\ pc' \in {"get", "list", "apply", "done"}
        BY <1>1, <1>4 DEF BaseInv, Desired
    <2>3. next' \in 1 .. Len(Desired) + 1
        BY <1>1, <1>4, <1>5 DEF BaseInv
    <2>4. DOMAIN diffs' \subseteq rendered'
        BY <1>1, <1>4 DEF BaseInv
    <2> QED
        BY <2>1, <2>2, <2>3, <2>4 DEF BaseInv
<1>8. LookInv'
    BY <1>4 DEF LookInv, LookSound, Unseen
<1>9. ResultSound(e)'
    <2>1. LookSound(l) /\ NothingMissed(of, l)
        BY <1>2, <1>5 DEF IdentityInv, LookInv
    <2>2. LookSound(l)' /\ NothingMissed(of, l)'
        BY <1>4, <2>1, StillNothingMissed DEF LookSound
    <2>3. l.current # Nobody => l.current.name \in rendered' /\ label = LabelOf(l.current)
        <3>1. l.current # Nobody => key = l.current.name
            BY <1>2 DEF DisplayName
        <3>2. l.current # Nobody => label = OwnerLabel(LabelOf(l.current))
            BY <1>2 DEF PreservedLabel
        <3>3. l.current # Nobody => LabelOf(l.current) # Nobody
            BY NobodyAssumption DEF LabelOf, NobodyAssumption
        <3> QED
            BY <1>4, <3>1, <3>2, <3>3 DEF OwnerLabel
    <2>4. refs = OwnerRefs(Desired[of].refs)
        BY <1>2 DEF Current
    <2>5. refs = OwnerRefs(Desired[of].refs)'
        BY <1>4, <2>4, SameOwnerRefs DEF Desired
    <2>6. of \in (DOMAIN Desired)' /\ of < next' /\ ~Nameless(Desired[of])'
        BY <1>1, <1>2, <1>4, <1>5 DEF Desired, Current, Nameless, BaseInv
    <2> QED
        BY <1>3, <2>2, <2>3, <2>5, <2>6 DEF ResultSound, LabelOf
<1>10. ResultsInv'
    <2> SUFFICES ASSUME NEW i \in DOMAIN results' PROVE ResultSound(results[i])'
        BY DEF ResultsInv
    <2>1. CASE i = Len(results) + 1
        BY <1>6, <1>9, <2>1
    <2>2. CASE i \in DOMAIN results
        <3>1. PICK r : r = results[i] /\ ResultSound(r)
            BY <2>2 DEF IdentityInv, ResultsInv
        <3>2. ResultSound(r)'
            BY <1>1, <1>4, <3>1, StillSound DEF BaseInv
        <3> QED
            BY <1>6, <2>2, <3>1, <3>2
    <2> QED
        BY <1>6, <2>1, <2>2
<1>11. NoneLeftOut'
    <2> SUFFICES ASSUME ~failed, NEW k \in DOMAIN Desired, k < next + 1, ~Nameless(Desired[k])
                 PROVE  \E i \in DOMAIN results' : results'[i].of = k
        BY <1>4 DEF NoneLeftOut, Desired, Nameless
    <2>1. CASE k = next
        BY <1>2, <1>3, <1>6, <2>1
    <2>2. CASE k < next
        BY <1>6, <2>2 DEF IdentityInv, NoneLeftOut
    <2> QED
        BY <1>1, <2>1, <2>2 DEF BaseInv
<1>12. RemovedInv'
    BY <1>4, <1>5 DEF IdentityInv, RemovedInv
<1> QED
    BY <1>7, <1>8, <1>10, <1>11, <1>12 DEF IdentityInv

LEMMA Finishes == IdentityInv /\ (Finish \/ TreeFails) => IdentityInv'
<1> SUFFICES ASSUME IdentityInv, Finish \/ TreeFails PROVE IdentityInv'
    OBVIOUS
<1>1. BaseInv /\ Len(Desired) \in Nat /\ DOMAIN Desired = 1 .. Len(Desired)
    BY DesiredIsSequence DEF IdentityInv
<1>2. /\ UNCHANGED <<world, cluster, next, look, results, diffs, rendered, changes>>
      /\ pc = "get" /\ next = Len(Desired) + 1 /\ pc' = "done"
      /\ failed' = failed \/ failed' = TRUE
    BY <1>1 DEF Finish, TreeFails, BaseInv
<1>3. BaseInv' /\ LookInv' /\ NoneLeftOut'
    BY <1>1, <1>2 DEF IdentityInv, BaseInv, LookInv, LookSound, NoneLeftOut, Desired
<1>4. ResultsInv'
    BY <1>2, ResultsUnchanged
<1>5. /\ removed' # {} => ~failed' /\ world.exists
      /\ \A o \in removed' : o \in cluster /\ o.owner # "stranger" /\ o.name \notin rendered
    BY <1>2 DEF IdentityInv, RemovedInv, Finish, TreeFails, NotRendered
<1>6. RemovedInv'
    BY <1>2, <1>5 DEF RemovedInv, Desired
<1> QED
    BY <1>3, <1>4, <1>6 DEF IdentityInv

LEMMA Changes == IdentityInv /\ Change => IdentityInv'
<1> SUFFICES ASSUME IdentityInv, Change PROVE IdentityInv'
    OBVIOUS
<1>1. /\ UNCHANGED <<world, next, pc, look, results, diffs, rendered, failed, removed>>
      /\ pc # "done" /\ changes' = changes + 1 /\ changes < MaxChanges
      /\ cluster' \subseteq Objects
    BY DEF Change, IdentityInv, BaseInv
<1>2. changes' # 0 /\ changes' \in 0 .. MaxChanges
    BY <1>1, ChangesAssumption DEF IdentityInv, BaseInv, ChangesAssumption
<1>3. BaseInv' /\ NoneLeftOut' /\ RemovedInv'
    BY <1>1, <1>2 DEF IdentityInv, BaseInv, NoneLeftOut, RemovedInv, Desired
<1>4. LookInv'
    BY <1>1, <1>2 DEF IdentityInv, LookInv, LookSound, NothingMissed
<1>5. ResultsInv'
    BY <1>1, <1>2, ResultsUnchanged
<1> QED
    BY <1>3, <1>4, <1>5 DEF IdentityInv

LEMMA LooksUp == IdentityInv /\ (GetFound \/ GetNotFound \/ List \/ ListFails) => IdentityInv'
<1> SUFFICES ASSUME IdentityInv PROVE GetFound \/ GetNotFound \/ List \/ ListFails => IdentityInv'
    OBVIOUS
<1>1. cluster \subseteq Objects /\ \A d : Matching(d) \subseteq cluster
    BY DEF IdentityInv, BaseInv, Matching, Labelled
<1>2. ASSUME GetFound PROVE IdentityInv'
    <2>1. PICK o \in Named : Settle(o, {}, FALSE) /\ pc # "done" /\ o \in Objects /\ o # Nobody
        BY <1>1, <1>2, NobodyAssumption DEF GetFound, Working, Named, NobodyAssumption
    <2> QED
        BY <2>1, Settles
<1>3. ASSUME GetNotFound PROVE IdentityInv'
    <2>1. CASE LooksByLabel(Current)
        <3>1. /\ UNCHANGED <<world, cluster, next, look, results, diffs, rendered, failed, removed, changes>>
              /\ pc = "get" /\ pc' = "list"
            BY <1>3, <2>1 DEF GetNotFound, Working
        <3>2. ResultsInv'
            BY <3>1, ResultsUnchanged
        <3> QED
            BY <3>1, <3>2 DEF IdentityInv, BaseInv, LookInv, LookSound, NoneLeftOut, RemovedInv, Desired
    <2>2. CASE ~LooksByLabel(Current)
        <3>1. Settle(Nobody, {}, FALSE) /\ pc # "done"
            BY <1>3, <2>2 DEF GetNotFound, Working
        <3> QED
            BY <2>2, <3>1, Settles
    <2> QED
        BY <2>1, <2>2
<1>4. ASSUME List PROVE IdentityInv'
    <2>1. PICK matches : matches = Matching(Current) /\ matches \subseteq Objects
        BY <1>1
    <2>2. /\ pc # "done"
          /\ \/ \E o \in matches : Settle(o, matches, FALSE)
             \/ matches = {} /\ Settle(Nobody, {}, FALSE)
        BY <1>4, <2>1 DEF List, Working
    <2>3. CASE \E o \in matches : Settle(o, matches, FALSE)
        <3>1. PICK o \in matches : Settle(o, matches, FALSE) /\ o \in Objects /\ o # Nobody
            BY <2>1, <2>3, NobodyAssumption DEF NobodyAssumption
        <3> QED
            BY <2>1, <2>2, <3>1, Settles
    <2>4. CASE matches = {} /\ Settle(Nobody, {}, FALSE)
        BY <2>1, <2>2, <2>4, Settles
    <2> QED
        BY <2>2, <2>3, <2>4
<1>5. ASSUME ListFails PROVE IdentityInv'
    <2>1. CASE Settle(Nobody, {}, TRUE)
        <3>1. pc # "done"
            BY <1>5 DEF ListFails, Working
        <3> QED
            BY <2>1, <3>1, Settles
    <2>2. CASE Fail
        BY <1>5, <2>2, LeftOut DEF ListFails, Working, Fail
    <2> QED
        BY <1>5, <2>1, <2>2 DEF ListFails
<1> QED
    BY <1>2, <1>3, <1>4, <1>5

(* Every comparison so far was with the right object, and what is removed  *)
(* was compared with nothing.                                              *)
THEOREM IdentityInvariance == Spec => []IdentityInv
<1>1. Init => IdentityInv
    <2> SUFFICES ASSUME Init PROVE IdentityInv
        OBVIOUS
    <2>1. world \in Worlds /\ cluster \subseteq Objects /\ next = 1 /\ pc = "get" /\ look = Unseen
          /\ results = <<>> /\ DOMAIN diffs = {} /\ removed = {} /\ changes = 0
        BY DEF Init
    <2>2. Len(Desired) \in Nat
        BY <2>1, WorldsAssumption DEF Desired
    <2>3. BaseInv
        BY <2>1, <2>2, ChangesAssumption DEF BaseInv, ChangesAssumption
    <2>4. LookInv /\ ResultsInv /\ RemovedInv
        BY <2>1 DEF LookInv, LookSound, Unseen, ResultsInv, RemovedInv
    <2>5. NoneLeftOut
        BY <2>1, <2>3, DesiredIsSequence DEF NoneLeftOut
    <2> QED
        BY <2>3, <2>4, <2>5 DEF IdentityInv
<1>2. IdentityInv /\ [Next]_vars => IdentityInv'
    <2> SUFFICES ASSUME IdentityInv, [Next]_vars PROVE IdentityInv'
        OBVIOUS
    <2>1. CASE Skip
        BY <2>1, LeftOut DEF Skip
    <2>2. CASE GetFails \/ ApplyFails
        BY <2>2, LeftOut DEF GetFails, ApplyFails, Fail, Working
    <2>3. CASE GetFound \/ GetNotFound \/ List \/ ListFails
        BY <2>3, LooksUp
    <2>4. CASE UNCHANGED vars
        <3>1. UNCHANGED <<world, cluster, next, pc, look, results, diffs, rendered, failed, removed, changes>>
            BY <2>4 DEF vars
        <3>2. ResultsInv'
            BY <3>1, ResultsUnchanged
        <3>3. PICK k : k = next
            OBVIOUS
        <3>4. NothingMissed(k, look) => NothingMissed(k, look)'
            BY <3>1 DEF NothingMissed, LooksByLabel, HasComposite, Desired, Matching, Labelled, LabelOf, ParentName
        <3>5. LookInv'
            BY <3>1, <3>3, <3>4 DEF IdentityInv, LookInv, LookSound
        <3> QED
            BY <3>1, <3>2, <3>5 DEF IdentityInv, BaseInv, NoneLeftOut, RemovedInv, Desired
    <2> QED
        BY <2>1, <2>2, <2>3, <2>4, Compares, Finishes, Changes DEF Next, Done
<1> QED
    BY <1>1, <1>2, PTL DEF Spec

-----------------------------------------------------------------------------
(* An object a resource was compared with, or would have been, is not      *)
(* reported as removed (FetchCurrentObject, CalculateRemovedResourceDiffs).*)
THEOREM ChangesAreNotReplacements == Spec => []ChangedNotReplaced
<1>1. IdentityInv => ChangedNotReplaced
    <2> SUFFICES ASSUME IdentityInv, NEW i \in DOMAIN results, NEW o \in removed
                 PROVE  LET d == Result(i)
                            found == results[i].look
                        IN  /\ found.matches # {o}
                            /\ o.owner = "self" /\ o.rname = d.rname /\ found.current = Nobody =>
                                 found.blind \/ (d.gen # Nobody /\ ~HasPrefix(o.name, d.gen)) \/ changes > 0
        BY DEF ChangedNotReplaced
    <2>1. PICK k, d, l : k = results[i].of /\ d = Desired[k] /\ l = results[i].look
        OBVIOUS
    <2>2. /\ k \in DOMAIN Desired /\ LookSound(l) /\ NothingMissed(k, l)
          /\ l.current # Nobody => l.current.name \in rendered
        BY <2>1 DEF IdentityInv, ResultsInv, ResultSound
    <2>3. o \in cluster /\ o \in Objects /\ o.name \notin rendered /\ world.exists
        BY DEF IdentityInv, RemovedInv, BaseInv
    <2>4. l.matches # {o}
        BY <2>2, <2>3, NobodyAssumption DEF LookSound, NobodyAssumption
    <2>5. ASSUME o.owner = "self", o.rname = d.rname, l.current = Nobody, ~l.blind, changes = 0
          PROVE  d.gen # Nobody /\ ~HasPrefix(o.name, d.gen)
        <3>1. d.rname # Nobody
            BY <2>3, <2>5, ObjectsAssumption, NobodyAssumption DEF ObjectsAssumption, NobodyAssumption
        <3>2. Matching(d) = {}
            BY <2>1, <2>2, <2>3, <2>5, <3>1 DEF NothingMissed, LooksByLabel, HasComposite
        <3>3. o \in Labelled(d)
            <4>1. LabelOf(o) = Root
                BY <2>5 DEF LabelOf
            <4>2. /\ world.kind \in {"root", "nested", "claim"}
                  /\ world.kind = "claim" \/ d.label = Root \/ (d.label = Nobody /\ world.kind = "root")
                BY <2>1, <2>2, WorldsAssumption DEF IdentityInv, BaseInv, Desired, WorldsAssumption, AsRendered
            <4>3. world.kind = "root" => ParentName = Root
                BY DEF ParentName
            <4> QED
                BY <2>3, <2>5, <4>1, <4>2, <4>3, NobodyAssumption DEF Labelled, NobodyAssumption
        <3> QED
            BY <2>5, <3>2, <3>3 DEF Matching
    <2>6. changes = 0 \/ changes > 0
        BY ChangesAssumption DEF IdentityInv, BaseInv, ChangesAssumption
    <2>7. Result(i) = d /\ results[i].look = l
        BY <2>1 DEF Result
    <2> QED
        BY <2>4, <2>5, <2>6, <2>7
<1> QED
    BY <1>1, IdentityInvariance, PTL

(* Objects are reported as removed only if every rendered resource was     *)
(* diffed (diffSingleResourceInternal gives up on a failure before that).  *)
THEOREM NoRemovalOnFailure == Spec => []RemovalsAreComplete
<1>1. IdentityInv => RemovalsAreComplete
    <2> SUFFICES ASSUME IdentityInv, removed # {}
                 PROVE  {results[i].of : i \in DOMAIN results} = {k \in DOMAIN Desired : ~Nameless(Desired[k])}
        BY DEF RemovalsAreComplete
    <2>1. ~failed /\ next = Len(Desired) + 1
        BY DEF IdentityInv, RemovedInv
    <2>2. Len(Desired) \in Nat /\ DOMAIN Desired = 1 .. Len(Desired)
        BY DesiredIsSequence DEF IdentityInv
    <2>3. \A k \in DOMAIN Desired : ~Nameless(Desired[k]) => \E i \in DOMAIN results : results[i].of = k
        BY <2>1, <2>2 DEF IdentityInv, NoneLeftOut
    <2>4. \A i \in DOMAIN results : results[i].of \in DOMAIN Desired /\ ~Nameless(Desired[results[i].of])
        BY DEF IdentityInv, ResultsInv, ResultSound
    <2> QED
        BY <2>3, <2>4
<1> QED
    BY <1>1, IdentityInvariance, PTL

(* A resource keeps the composite label its object has                     *)
(* (preserveExistingResourceIdentity, updateCompositeOwnerLabel).          *)
THEOREM LabelsStay == Spec => []LabelKept
<1>1. IdentityInv => LabelKept
    BY DEF IdentityInv, ResultsInv, ResultSound, LabelKept
<1> QED
    BY <1>1, IdentityInvariance, PTL

LEMMA AtMostOne ==
    ASSUME NEW S, \A j, k \in S : j = k
    PROVE  Cardinality(S) <= 1
<1>1. CASE S = {}
    BY <1>1, FS_EmptySet
<1>2. CASE S # {}
    <2>1. PICK x : S = {x}
        BY <1>2
    <2> QED
        BY <2>1, FS_Singleton
<1> QED
    BY <1>1, <1>2

(* What updateOwnerRefsForXR makes of references to one controller.        *)
LEMMA RefsOfXR ==
    ASSUME NEW refs \in Seq(Refs), world.kind # "claim",
           \A j, k \in DOMAIN refs : refs[j].controller /\ refs[k].controller => refs[j].owner = refs[k].owner
    PROVE  LET rs == RefsForXR(refs)
           IN  /\ \A j, k \in {i \in DOMAIN rs : rs[i].controller} : j = k
               /\ \A k \in DOMAIN rs : /\ rs[k].uid # ""
                                       /\ rs[k].owner = ParentName => ParentUID \in {"", rs[k].uid}
<1> DEFINE rs == RefsForXR(refs)
<1>1. \A k \in DOMAIN rs : k \in DOMAIN refs /\ k \in Nat /\ \A j \in 1 .. k - 1 : refs[j].owner # refs[k].owner
    BY DEF RefsForXR
<1>2. \A k \in DOMAIN refs : refs[k] \in Refs /\ k \in 1 .. Len(refs)
    OBVIOUS
<1>3. \A k \in DOMAIN rs :
        rs[k] = [refs[k] EXCEPT !.uid = IF refs[k].owner = ParentName /\ ParentUID # "" THEN ParentUID
                                        ELSE IF @ = "" THEN "random" ELSE @]
    BY DEF RefsForXR
<1> HIDE DEF rs
<1>4. \A k \in DOMAIN rs :
        /\ rs[k].controller <=> refs[k].controller
        /\ rs[k].owner = refs[k].owner
        /\ rs[k].uid = IF refs[k].owner = ParentName /\ ParentUID # "" THEN ParentUID
                       ELSE IF refs[k].uid = "" THEN "random" ELSE refs[k].uid
    <2> TAKE k \in DOMAIN rs
    <2>1. refs[k] \in Refs
        BY <1>1, <1>2
    <2> QED
        BY <1>3, <2>1 DEF Refs
<1>5. \A k \in DOMAIN rs : rs[k].uid # "" /\ (rs[k].owner = ParentName => ParentUID \in {"", rs[k].uid})
    BY <1>4
<1>6. ASSUME NEW j \in DOMAIN rs, NEW k \in DOMAIN rs, rs[j].controller, rs[k].controller
      PROVE  j = k
    <2>1. refs[j].owner = refs[k].owner
        BY <1>1, <1>4, <1>6
    <2>2. j \in 1 .. Len(refs) /\ k \in 1 .. Len(refs) /\ Len(refs) \in Nat
        BY <1>1, <1>2
    <2>3. ~(j < k) /\ ~(k < j)
        BY <1>1, <2>1, <2>2
    <2> QED
        BY <2>2, <2>3
<1> QED
    BY <1>5, <1>6 DEF rs

(* What updateOwnerRefsForClaim makes of references to the claim and one   *)
(* other controller.                                                       *)
LEMMA RefsOfClaim ==
    ASSUME NEW refs \in Seq(Refs), world.kind = "claim",
           \A j, k \in DOMAIN refs : refs[j].controller /\ refs[k].controller =>
               "claim" \in {refs[j].owner, refs[k].owner} \/ j = k
    PROVE  LET rs == RefsForClaim(refs)
           IN  /\ \A j, k \in {i \in DOMAIN rs : rs[i].controller} : j = k
               /\ \A k \in DOMAIN rs : /\ rs[k].uid # ""
                                       /\ rs[k].owner = ParentName => ~rs[k].controller
<1> DEFINE rs == RefsForClaim(refs)
<1>1. ParentName = "claim"
    BY DEF ParentName
<1>2. DOMAIN rs = DOMAIN refs /\ \A k \in DOMAIN refs : refs[k] \in Refs
    BY DEF RefsForClaim
<1>3. \A k \in DOMAIN rs :
        rs[k] = [refs[k] EXCEPT !.uid = IF @ = "" THEN "random" ELSE @,
                                !.controller = @ /\ refs[k].owner # ParentName]
    BY DEF RefsForClaim
<1> HIDE DEF rs
<1>4. \A k \in DOMAIN rs :
        /\ rs[k].controller <=> refs[k].controller /\ refs[k].owner # ParentName
        /\ rs[k].owner = refs[k].owner
        /\ rs[k].uid = IF refs[k].uid = "" THEN "random" ELSE refs[k].uid
    <2> TAKE k \in DOMAIN rs
    <2>1. refs[k] \in Refs
        BY <1>2
    <2> QED
        BY <1>3, <2>1 DEF Refs
<1>5. \A k \in DOMAIN rs : rs[k].uid # "" /\ (rs[k].owner = ParentName => ~rs[k].controller)
    BY <1>4
<1>6. \A j, k \in {i \in DOMAIN rs : rs[i].controller} : j = k
    BY <1>1, <1>2, <1>4
<1> QED
    BY <1>5, <1>6 DEF rs

(* The API server would admit the owner references a resource is given     *)
(* (UpdateOwnerRefs).                                                      *)
THEOREM AdmissibleRefs == Spec => []RefsAreAdmissible
<1>1. IdentityInv => RefsAreAdmissible
    <2> SUFFICES ASSUME IdentityInv, HasComposite, NEW i \in DOMAIN results
                 PROVE  LET refs == results[i].refs
                            controllers == {k \in DOMAIN refs : refs[k].controller}
                        IN  /\ Cardinality(controllers) <= 1
                            /\ \A k \in DOMAIN refs :
                                  /\ refs[k].uid # ""
                                  /\ refs[k].owner = ParentName =>
                                       IF world.kind = "claim" THEN k \notin controllers
                                       ELSE ParentUID \in {"", refs[k].uid}
        BY DEF RefsAreAdmissible
    <2>1. PICK n, d, given, refs :
            n = results[i].of /\ d = world.desired[n] /\ given = d.refs /\ refs = results[i].refs
        OBVIOUS
    <2>2. n \in DOMAIN world.desired /\ world \in Worlds /\ refs = OwnerRefs(given)
        BY <2>1 DEF IdentityInv, ResultsInv, ResultSound, BaseInv, Desired
    <2>3. AsRendered(world.kind, d.label, given)
        BY <2>1, <2>2, WorldsAssumption DEF WorldsAssumption
    <2> DEFINE controllers == {k \in DOMAIN refs : refs[k].controller}
    <2>4. /\ \A j, k \in controllers : j = k
          /\ \A k \in DOMAIN refs :
                /\ refs[k].uid # ""
                /\ refs[k].owner = ParentName =>
                     IF world.kind = "claim" THEN k \notin controllers ELSE ParentUID \in {"", refs[k].uid}
        <3>1. CASE world.kind = "claim"
            <4>1. refs = RefsForClaim(given)
                BY <2>2, <3>1 DEF OwnerRefs
            <4>2. /\ given \in Seq(Refs)
                  /\ \A j, k \in DOMAIN given : given[j].controller /\ given[k].controller =>
                       "claim" \in {given[j].owner, given[k].owner} \/ j = k
                BY <2>3, <3>1 DEF AsRendered
            <4> DEFINE rs == RefsForClaim(given)
            <4>3. /\ \A j, k \in {l \in DOMAIN rs : rs[l].controller} : j = k
                  /\ \A k \in DOMAIN rs : /\ rs[k].uid # ""
                                          /\ rs[k].owner = ParentName => ~rs[k].controller
                BY <3>1, <4>2, RefsOfClaim
            <4> HIDE DEF rs
            <4>4. refs = rs
                BY <4>1 DEF rs
            <4> QED
                BY <3>1, <4>3, <4>4
        <3>2. CASE world.kind # "claim"
            <4>1. refs = RefsForXR(given)
                BY <2>2, <3>2 DEF OwnerRefs
            <4>2. /\ given \in Seq(Refs)
                  /\ \A j, k \in DOMAIN given : given[j].controller /\ given[k].controller =>
                       given[j].owner = given[k].owner
                BY <2>3, <3>2 DEF AsRendered
            <4> DEFINE rs == RefsForXR(given)
            <4>3. /\ \A j, k \in {l \in DOMAIN rs : rs[l].controller} : j = k
                  /\ \A k \in DOMAIN rs : /\ rs[k].uid # ""
                                          /\ rs[k].owner = ParentName => ParentUID \in {"", rs[k].uid}
                BY <3>2, <4>2, RefsOfXR
            <4> HIDE DEF rs
            <4>4. refs = rs
                BY <4>1 DEF rs
            <4> QED
                BY <3>2, <4>3, <4>4
        <3> QED
            BY <3>1, <3>2
    <2>5. Cardinality(controllers) <= 1
        <3> HIDE DEF controllers
        <3> QED
            BY <2>4, AtMostOne
    <2> QED
        BY <2>1, <2>4, <2>5
<1> QED
    BY <1>1, IdentityInvariance, PTL

(* The calculator's state stays what its types promise.                    *)
THEOREM TypesHold == Spec => []TypeOK
<1>1. IdentityInv => TypeOK
    BY DEF IdentityInv, BaseInv, LookInv, LookSound, ResultsInv, ResultSound, RemovedInv, TypeOK
<1> QED
    BY <1>1, IdentityInvariance, PTL
=============================================================================
