-------------------------- MODULE ProvisionProofs --------------------------
(***************************************************************************)
(* What holds of provisioning and decommissioning for every provider, every *)
(* set of stacks, pools and objects, every sequence of configurations, and  *)
(* any number of failures, rounds, crashes and cancellations.              *)
(***************************************************************************)
EXTENDS Provision, FiniteSetTheorems, SequenceTheorems, TLAPS

Things == Stack \cup Objects \cup KarpenterPools

ProvisionDos == {"prepare", "hook", "apply", "ready", "updateNodes", "deleteObjects", "delete",
                 "applyObject", "applyKarpenter", "reconcile", "prepareForRemoval",
                 "removeNodePools", "prepareObsolete", "removeNodeClasses"}
DecommissionDos == {"details", "downscale", "terminate", "awaitTerminated", "deleteStacks",
                    "deleteRound", "stacksLeft", "interfaces", "delete", "removeVolumes"}

ListedSet == UNION {[S -> Statuses \cup {""}] : S \in SUBSET Things}
StepSet == [do : ProvisionDos \cup DecommissionDos, on : SUBSET Things, listed : ListedSet]

\* The pools that the attempt applies, and all the stacks that it does.
AppliedPools == C.pools \cap (Workers \cup (IF provider = "aws" THEN Masters ELSE {}))
Managed == {MainStack} \cup Range(InfraStacks) \cup AppliedPools
           \cup (IF provider = "aws" THEN {EtcdStack} ELSE {})

\* The steps that Provision begins with: what is configured is applied, and
\* only stacks that the deletions name are deleted.
FirstSteps == {st \in StepSet :
                  /\ st.do \in ProvisionDos
                  /\ st.do = "delete" => st.on \subseteq C.preStacks \cup C.postStacks
                  /\ st.do = "apply" => st.on \subseteq Managed
                  /\ st.do = "applyKarpenter" => st.on \subseteq C.karpenter}

\* What is left of a decommissioning, from its last step to its first.
T0 == <<Step("removeVolumes", {})>>
T1 == <<Step("delete", {MainStack})>> \o T0
T2 == IF provider = "eks" THEN <<Step("interfaces", {})>> \o T1 ELSE T1
T3 == <<Step("stacksLeft", {})>> \o T2
T4 == <<Step("deleteStacks", {})>> \o T3
T5 == <<Step("awaitTerminated", {})>> \o T4
T6 == <<Step("terminate", {})>> \o T5
T7 == <<Step("downscale", {})>> \o T6
T8 == IF provider = "eks" THEN <<Step("details", {})>> \o T7 ELSE T7

-----------------------------------------------------------------------------
(* Sequences of steps *)

LEMMA SetToSeqElement ==
    ASSUME NEW S, IsFiniteSet(S), NEW i \in 1..Cardinality(S)
    PROVE  SetToSeq(S)[i] \in S
<1>1. PICK f : f \in Bijection(1..Cardinality(S), S)
  BY FS_CardinalityType DEF ExistsBijection
<1>2. f \in [1..Cardinality(S) -> S] /\ IsInjective(f)
  BY <1>1 DEF Bijection, Injection, IsInjective
<1> QED
  BY <1>2 DEF SetToSeq

LEMMA SetToSeqAll ==
    ASSUME NEW S, IsFiniteSet(S), NEW x \in S
    PROVE  \E i \in 1..Cardinality(S) : SetToSeq(S)[i] = x
<1> DEFINE n == Cardinality(S)
<1>1. n \in Nat
  BY FS_CardinalityType
<1>2. PICK f : f \in Bijection(1..n, S)
  BY FS_CardinalityType DEF ExistsBijection
<1>3. f \in [1..n -> S] /\ IsInjective(f)
  BY <1>2 DEF Bijection, Injection, IsInjective
<1>4. SetToSeq(S) \in [1..n -> S] /\ IsInjective(SetToSeq(S))
  BY <1>3 DEF SetToSeq
<1> HIDE DEF n
<1>5. SetToSeq(S) \in Injection(1..n, S)
  BY <1>4 DEF Injection, IsInjective
<1>6. IsFiniteSet(1..n) /\ Cardinality(1..n) = n
  BY <1>1, FS_Interval
<1>7. Cardinality(1..n) = Cardinality(S)
  BY <1>6 DEF n
<1>8. SetToSeq(S) \in Surjection(1..n, S)
  BY <1>5, <1>6, <1>7, FS_Injection
<1> QED
  BY <1>8 DEF Surjection, n

LEMMA FiniteFacts ==
    /\ IsFiniteSet(Stack) /\ IsFiniteSet(Objects) /\ IsFiniteSet(KarpenterPools)
    /\ EtcdStack \in Stack /\ MainStack \in Stack /\ Pools \subseteq Stack
    /\ EtcdStack \notin Pools /\ InfraStacks \in Seq(Stack) /\ IngressStacks \subseteq Stack
BY ProvisionAssumption

LEMMA StepType ==
    ASSUME NEW do \in ProvisionDos \cup DecommissionDos, NEW on \in SUBSET Things
    PROVE  Step(do, on) \in StepSet /\ Step(do, on).do = do /\ Step(do, on).on = on
<1>1. [s \in on |-> ""] \in ListedSet
  BY DEF ListedSet
<1> HIDE DEF ListedSet
<1> QED
  BY <1>1 DEF Step, StepSet

LEMMA ListedType ==
    ASSUME NEW on \in SUBSET Things, NEW l \in [on -> Statuses \cup {""}] PROVE l \in ListedSet
BY DEF ListedSet

LEMMA EachSeq ==
    ASSUME NEW do, NEW S, IsFiniteSet(S), NEW T, \A x \in S : Step(do, {x}) \in T
    PROVE  Each(do, S) \in Seq(T)
<1>1. Cardinality(S) \in Nat
  BY FS_CardinalityType
<1>2. \A i \in 1..Cardinality(S) : Step(do, {SetToSeq(S)[i]}) \in T
  BY SetToSeqElement
<1>3. Each(do, S) \in [1..Cardinality(S) -> T]
  BY <1>2 DEF Each
<1> QED
  BY <1>1, <1>3, SeqDef

\* Taking the first step of a sequence.
LEMMA Prepend ==
    ASSUME NEW a \in StepSet, NEW s \in Seq(StepSet)
    PROVE  LET t == <<a>> \o s
           IN  t \in Seq(StepSet) /\ t # <<>> /\ t[1] = a /\ Tail(t) = s
<1>1. <<a>> \in Seq(StepSet) /\ Len(<<a>>) = 1 /\ <<a>>[1] = a
  OBVIOUS
<1>2. Len(s) \in Nat
  BY LenProperties
<1> DEFINE t == <<a>> \o s
<1>3. t \in Seq(StepSet) /\ Len(t) = 1 + Len(s)
      /\ \A i \in 1..(1 + Len(s)) : t[i] = IF i <= 1 THEN <<a>>[i] ELSE s[i - 1]
  BY <1>1, ConcatProperties
<1> HIDE DEF t
<1>4. t # <<>>
  BY <1>2, <1>3, EmptySeq
<1>5. Tail(t) \in Seq(StepSet) /\ Len(Tail(t)) = Len(s)
      /\ \A i \in 1..Len(Tail(t)) : Tail(t)[i] = t[i + 1]
  BY <1>2, <1>3, <1>4, HeadTailProperties
<1>6. \A i \in 1..Len(Tail(t)) : Tail(t)[i] = s[i]
  BY <1>2, <1>3, <1>5
<1>7. Tail(t) = s
  BY <1>5, <1>6, SeqEqual
<1>8. t[1] = a
  BY <1>1, <1>2, <1>3
<1> QED
  BY <1>3, <1>4, <1>7, <1>8 DEF t

LEMMA Joined ==
    ASSUME NEW p \in Seq(StepSet), NEW q \in Seq(StepSet)
    PROVE  /\ Len(p) \in Nat /\ Len(q) \in Nat /\ Len(p \o q) = Len(p) + Len(q)
           /\ p \o q \in Seq(StepSet)
           /\ \A i \in 1..Len(p) : (p \o q)[i] = p[i]
           /\ \A i \in 1..Len(q) : (p \o q)[Len(p) + i] = q[i]
           /\ \A k \in 1..Len(p \o q) : k \notin 1..Len(p) => k - Len(p) \in 1..Len(q) /\ k = Len(p) + (k - Len(p))
<1>1. Len(p) \in Nat /\ Len(q) \in Nat
  BY LenProperties
<1>2. /\ p \o q \in Seq(StepSet) /\ Len(p \o q) = Len(p) + Len(q)
      /\ \A i \in 1..(Len(p) + Len(q)) : (p \o q)[i] = IF i <= Len(p) THEN p[i] ELSE q[i - Len(p)]
  BY ConcatProperties
<1>3. \A i \in 1..Len(p) : (p \o q)[i] = p[i]
  BY <1>1, <1>2
<1>4. ASSUME NEW i \in 1..Len(q) PROVE (p \o q)[Len(p) + i] = q[i]
  <2>1. Len(p) + i \in 1..(Len(p) + Len(q)) /\ ~(Len(p) + i <= Len(p)) /\ (Len(p) + i) - Len(p) = i
    BY <1>1
  <2> QED
    BY <1>2, <2>1
<1>5. \A k \in 1..Len(p \o q) : k \notin 1..Len(p) => k - Len(p) \in 1..Len(q) /\ k = Len(p) + (k - Len(p))
  BY <1>1, <1>2
<1> QED
  BY <1>1, <1>2, <1>3, <1>4, <1>5

LEMMA Proceeds ==
    ASSUME NEW s \in Seq(StepSet)
    PROVE  <<>> \o s = s
BY ConcatEmptySeq

\* The steps of a decommissioning in their order.
LEMMA DecommissionOrder ==
    /\ T0 \in Seq(StepSet) /\ T0 # <<>> /\ T0[1] = Step("removeVolumes", {}) /\ Tail(T0) = <<>>
    /\ T1 \in Seq(StepSet) /\ T1 # <<>> /\ T1[1] = Step("delete", {MainStack}) /\ Tail(T1) = T0
    /\ T2 \in Seq(StepSet) /\ T2 # <<>>
    /\ provider = "eks" => T2[1] = Step("interfaces", {}) /\ Tail(T2) = T1
    /\ provider # "eks" => T2 = T1
    /\ T3 \in Seq(StepSet) /\ T3 # <<>> /\ T3[1] = Step("stacksLeft", {}) /\ Tail(T3) = T2
    /\ T4 \in Seq(StepSet) /\ T4 # <<>> /\ T4[1] = Step("deleteStacks", {}) /\ Tail(T4) = T3
    /\ T5 \in Seq(StepSet) /\ T5 # <<>> /\ T5[1] = Step("awaitTerminated", {}) /\ Tail(T5) = T4
    /\ T6 \in Seq(StepSet) /\ T6 # <<>> /\ T6[1] = Step("terminate", {}) /\ Tail(T6) = T5
    /\ T7 \in Seq(StepSet) /\ T7 # <<>> /\ T7[1] = Step("downscale", {}) /\ Tail(T7) = T6
    /\ T8 \in Seq(StepSet) /\ T8 # <<>>
    /\ provider = "eks" => T8[1] = Step("details", {}) /\ Tail(T8) = T7
    /\ provider # "eks" => T8 = T7
<1>0. /\ Step("removeVolumes", {}) \in StepSet /\ Step("delete", {MainStack}) \in StepSet
      /\ Step("interfaces", {}) \in StepSet /\ Step("stacksLeft", {}) \in StepSet
      /\ Step("deleteStacks", {}) \in StepSet /\ Step("awaitTerminated", {}) \in StepSet
      /\ Step("terminate", {}) \in StepSet /\ Step("downscale", {}) \in StepSet
      /\ Step("details", {}) \in StepSet
  <2>1. {} \in SUBSET Things /\ {MainStack} \in SUBSET Things
    BY FiniteFacts DEF Things
  <2> QED
    BY <2>1, StepType DEF DecommissionDos
<1>1. T0 \in Seq(StepSet) /\ T0 # <<>> /\ T0[1] = Step("removeVolumes", {}) /\ Tail(T0) = <<>>
  <2>1. <<>> \in Seq(StepSet) /\ <<Step("removeVolumes", {})>> \in Seq(StepSet)
    BY <1>0
  <2>2. T0 = <<Step("removeVolumes", {})>> \o <<>>
    BY <2>1, ConcatEmptySeq DEF T0
  <2> QED
    BY <1>0, <2>1, <2>2, Prepend
<1>2. T1 \in Seq(StepSet) /\ T1 # <<>> /\ T1[1] = Step("delete", {MainStack}) /\ Tail(T1) = T0
  BY <1>0, <1>1, Prepend DEF T1
<1>3. /\ T2 \in Seq(StepSet) /\ T2 # <<>>
      /\ provider = "eks" => T2[1] = Step("interfaces", {}) /\ Tail(T2) = T1
      /\ provider # "eks" => T2 = T1
  BY <1>0, <1>2, Prepend DEF T2
<1>4. T3 \in Seq(StepSet) /\ T3 # <<>> /\ T3[1] = Step("stacksLeft", {}) /\ Tail(T3) = T2
  BY <1>0, <1>3, Prepend DEF T3
<1>5. T4 \in Seq(StepSet) /\ T4 # <<>> /\ T4[1] = Step("deleteStacks", {}) /\ Tail(T4) = T3
  BY <1>0, <1>4, Prepend DEF T4
<1>6. T5 \in Seq(StepSet) /\ T5 # <<>> /\ T5[1] = Step("awaitTerminated", {}) /\ Tail(T5) = T4
  BY <1>0, <1>5, Prepend DEF T5
<1>7. T6 \in Seq(StepSet) /\ T6 # <<>> /\ T6[1] = Step("terminate", {}) /\ Tail(T6) = T5
  BY <1>0, <1>6, Prepend DEF T6
<1>8. T7 \in Seq(StepSet) /\ T7 # <<>> /\ T7[1] = Step("downscale", {}) /\ Tail(T7) = T6
  BY <1>0, <1>7, Prepend DEF T7
<1>9. /\ T8 \in Seq(StepSet) /\ T8 # <<>>
      /\ provider = "eks" => T8[1] = Step("details", {}) /\ Tail(T8) = T7
      /\ provider # "eks" => T8 = T7
  BY <1>0, <1>8, Prepend DEF T8
<1> QED
  BY <1>1, <1>2, <1>3, <1>4, <1>5, <1>6, <1>7, <1>8, <1>9

LEMMA TupleOfTwo ==
    ASSUME NEW S, NEW a \in S, NEW b \in S
    PROVE  <<a, b>> = <<a>> \o <<b>>
<1>1. <<a>> \in Seq(S) /\ <<b>> \in Seq(S) /\ <<a, b>> \in Seq(S)
      /\ Len(<<a>>) = 1 /\ Len(<<b>>) = 1 /\ Len(<<a, b>>) = 2
  OBVIOUS
<1> DEFINE c == <<a>> \o <<b>>
<1>2. c \in Seq(S) /\ Len(c) = 2
      /\ \A i \in 1..2 : c[i] = IF i <= 1 THEN <<a>>[i] ELSE <<b>>[i - 1]
  BY <1>1, ConcatProperties
<1> HIDE DEF c
<1>3. c[1] = a /\ c[2] = b
  BY <1>2
<1>4. \A i \in 1..Len(<<a, b>>) : <<a, b>>[i] = c[i]
  BY <1>3
<1> QED
  BY <1>1, <1>2, <1>4, SeqEqual DEF c

LEMMA DecommissionBegins == DecommissionSteps = T8
<1> DEFINE v == Step("removeVolumes", {})
           m == Step("delete", {MainStack})
           n == Step("interfaces", {})
           l == Step("stacksLeft", {})
           d == Step("deleteStacks", {})
           a == Step("awaitTerminated", {})
           t == Step("terminate", {})
           x == Step("downscale", {})
           e == Step("details", {})
           S == {v, m, n, l, d, a, t, x, e}
           w == IF provider = "eks" THEN <<e>> ELSE <<>>
           o == IF provider = "eks" THEN <<n>> ELSE <<>>
<1>1. DecommissionSteps = ((w \o <<x, t, a, d, l>>) \o o) \o <<m, v>>
  BY DEF DecommissionSteps
<1>2. T1 = <<m>> \o <<v>>
  BY DEF T1, T0
<1>3. T7 = <<x>> \o (<<t>> \o (<<a>> \o (<<d>> \o (<<l>> \o T2))))
  BY DEF T7, T6, T5, T4, T3
<1>4. T2 = IF provider = "eks" THEN <<n>> \o T1 ELSE T1
  BY DEF T2
<1>5. T8 = IF provider = "eks" THEN <<e>> \o T7 ELSE T7
  BY DEF T8
<1> HIDE DEF v, m, n, l, d, a, t, x, e
<1>6. v \in S /\ m \in S /\ n \in S /\ l \in S /\ d \in S /\ a \in S /\ t \in S /\ x \in S /\ e \in S
  OBVIOUS
<1> HIDE DEF S
<1>7. T1 = <<m, v>> /\ T1 \in Seq(S)
  <2>1. <<m, v>> = <<m>> \o <<v>>
    BY <1>6, TupleOfTwo
  <2>2. <<m, v>> \in Seq(S)
    BY <1>6
  <2> QED
    BY <1>2, <2>1, <2>2
<1>8. T2 = o \o T1 /\ T2 \in Seq(S) /\ o \in Seq(S) /\ w \in Seq(S)
  <2>1. <<n>> \in Seq(S) /\ <<e>> \in Seq(S) /\ <<>> \in Seq(S)
    BY <1>6
  <2>2. o \in Seq(S) /\ w \in Seq(S)
    BY <2>1
  <2>3. T2 = o \o T1
    BY <1>4, <1>7, ConcatEmptySeq
  <2> QED
    BY <1>7, <2>2, <2>3, ConcatProperties
<1> DEFINE q == <<x, t, a, d, l>>
<1>9. T7 = q \o T2 /\ q \in Seq(S) /\ T7 \in Seq(S)
  <2>0. T2 \in Seq(S)
    BY <1>8
  <2> HIDE DEF o, w
  <2>1. /\ <<x>> \in Seq(S) /\ <<t>> \in Seq(S) /\ <<a>> \in Seq(S) /\ <<d>> \in Seq(S) /\ <<l>> \in Seq(S)
        /\ <<d, l>> \in Seq(S) /\ <<a, d, l>> \in Seq(S) /\ <<t, a, d, l>> \in Seq(S)
        /\ <<x, t, a, d, l>> \in Seq(S)
    BY <1>6
  <2>2. <<d, l>> \o T2 = <<d>> \o (<<l>> \o T2)
    <3>1. <<d, l>> = <<d>> \o <<l>>
      BY <1>6, TupleOfTwo
    <3>2. (<<d>> \o <<l>>) \o T2 = <<d>> \o (<<l>> \o T2)
      <4>1. <<d>> \in Seq(S) /\ <<l>> \in Seq(S)
        BY <2>1
      <4> QED
        BY <2>0, <4>1, ConcatAssociative
    <3> QED
      BY <3>1, <3>2
  <2>3. <<a, d, l>> \o T2 = <<a>> \o (<<d, l>> \o T2)
    <3>1. <<a, d, l>> = <<a>> \o <<d, l>>
      BY <1>6
    <3>2. (<<a>> \o <<d, l>>) \o T2 = <<a>> \o (<<d, l>> \o T2)
      <4>1. <<a>> \in Seq(S) /\ <<d, l>> \in Seq(S)
        BY <2>1
      <4> QED
        BY <2>0, <4>1, ConcatAssociative
    <3> QED
      BY <3>1, <3>2
  <2>4. <<t, a, d, l>> \o T2 = <<t>> \o (<<a, d, l>> \o T2)
    <3>1. <<t, a, d, l>> = <<t>> \o <<a, d, l>>
      BY <1>6
    <3>2. (<<t>> \o <<a, d, l>>) \o T2 = <<t>> \o (<<a, d, l>> \o T2)
      <4>1. <<t>> \in Seq(S) /\ <<a, d, l>> \in Seq(S)
        BY <2>1
      <4> QED
        BY <2>0, <4>1, ConcatAssociative
    <3> QED
      BY <3>1, <3>2
  <2>5. <<x, t, a, d, l>> \o T2 = <<x>> \o (<<t, a, d, l>> \o T2)
    <3>1. <<x, t, a, d, l>> = <<x>> \o <<t, a, d, l>>
      BY <1>6
    <3>2. (<<x>> \o <<t, a, d, l>>) \o T2 = <<x>> \o (<<t, a, d, l>> \o T2)
      <4>1. <<x>> \in Seq(S) /\ <<t, a, d, l>> \in Seq(S)
        BY <2>1
      <4> QED
        BY <2>0, <4>1, ConcatAssociative
    <3> QED
      BY <3>1, <3>2
  <2>6. T7 = q \o T2
    BY <1>3, <2>2, <2>3, <2>4, <2>5
  <2> QED
    BY <1>8, <2>1, <2>6, ConcatProperties
<1>10. T8 = w \o T7
  BY <1>5, <1>9, ConcatEmptySeq
<1> HIDE DEF o, w, q
<1>11. ((w \o q) \o o) \o T1 = w \o (q \o (o \o T1))
  <2>1. w \o q \in Seq(S) /\ o \o T1 \in Seq(S) /\ q \in Seq(S)
    BY <1>7, <1>8, <1>9, ConcatProperties DEF q
  <2>2. w \in Seq(S) /\ o \in Seq(S) /\ T1 \in Seq(S)
    BY <1>7, <1>8
  <2> DEFINE wq == w \o q
             ot == o \o T1
  <2>3. wq \in Seq(S) /\ ot \in Seq(S)
    BY <2>1
  <2> HIDE DEF wq, ot
  <2>4. (wq \o o) \o T1 = wq \o (o \o T1)
    BY <2>2, <2>3, ConcatAssociative, SMTT(60)
  <2>5. (w \o q) \o ot = w \o (q \o ot)
    BY <2>1, <2>2, <2>3, ConcatAssociative, SMTT(60)
  <2> QED
    BY <2>4, <2>5 DEF wq, ot
<1> QED
  BY <1>1, <1>7, <1>8, <1>9, <1>10, <1>11 DEF q

\* The parts of a provisioning.
LEMMA ProvisionParts ==
    ASSUME C \in Config
    PROVE  /\ <<Step("prepare", {})>> \in Seq(FirstSteps)
           /\ createOrUpdateEtcdStack \in Seq(FirstSteps) /\ createOrUpdateClusterStack \in Seq(FirstSteps)
           /\ (IF P.hook THEN <<Step("hook", {})>> ELSE <<>>) \in Seq(FirstSteps)
           /\ applyCFManifests \in Seq(FirstSteps)
           /\ (IF P.masters THEN NodePoolGroup("apply", C.pools \cap Masters) ELSE <<>>) \in Seq(FirstSteps)
           /\ NodePoolGroup("apply", C.pools \cap Workers) \in Seq(FirstSteps)
           /\ <<Step("deleteObjects", C.preDelete)>> \in Seq(FirstSteps)
           /\ Each("delete", C.preStacks) \in Seq(FirstSteps)
           /\ Each("applyObject", C.objects) \in Seq(FirstSteps)
           /\ <<Step("deleteObjects", C.postDelete)>> \in Seq(FirstSteps)
           /\ Each("delete", C.postStacks) \in Seq(FirstSteps)
           /\ ApplySteps \in Seq(FirstSteps)
           /\ NodePoolGroup("applyKarpenter", C.karpenter) \in Seq(FirstSteps)
           /\ ReconcileSteps \in Seq(FirstSteps)
<1>1. /\ C.pools \subseteq Pools /\ C.karpenter \subseteq KarpenterPools /\ C.objects \subseteq Objects
      /\ C.preDelete \subseteq Objects /\ C.postDelete \subseteq Objects
      /\ C.preStacks \subseteq Stack /\ C.postStacks \subseteq Stack
  BY DEF Config
<1>2. ASSUME NEW do \in ProvisionDos \ {"delete"}, NEW on \in SUBSET Things,
             do = "apply" => on \subseteq Managed, do = "applyKarpenter" => on \subseteq C.karpenter
      PROVE  Step(do, on) \in FirstSteps
  BY <1>2, StepType DEF FirstSteps
<1>3. ASSUME NEW s \in C.preStacks \cup C.postStacks
      PROVE  Step("delete", {s}) \in FirstSteps
  <2>1. "delete" \in ProvisionDos /\ {s} \in SUBSET Things
    BY <1>1, <1>3 DEF ProvisionDos, Things
  <2>2. /\ Step("delete", {s}) \in StepSet /\ Step("delete", {s}).do = "delete"
        /\ Step("delete", {s}).on = {s}
    BY <2>1, StepType
  <2> QED
    BY <2>1, <2>2 DEF FirstSteps
<1>4. ASSUME NEW do \in ProvisionDos \ {"delete"}, NEW on \in SUBSET Things,
             do = "apply" => on \subseteq Managed, do = "applyKarpenter" => on \subseteq C.karpenter
      PROVE  <<Step(do, on)>> \in Seq(FirstSteps)
  BY <1>2, <1>4
<1>5. ASSUME NEW S \in SUBSET Things, IsFiniteSet(S),
             NEW do \in ProvisionDos \ {"delete", "apply", "applyKarpenter"}
      PROVE  Each(do, S) \in Seq(FirstSteps)
  <2>1. \A x \in S : Step(do, {x}) \in FirstSteps
    BY <1>2
  <2> QED
    BY <1>5, <2>1, EachSeq
<1>6. /\ Each("delete", C.preStacks) \in Seq(FirstSteps)
      /\ Each("delete", C.postStacks) \in Seq(FirstSteps)
  <2>1. IsFiniteSet(C.preStacks) /\ IsFiniteSet(C.postStacks)
    BY <1>1, FiniteFacts, FS_Subset
  <2> QED
    BY <1>3, <2>1, EachSeq
<1>7. \A s, t \in Seq(FirstSteps) : s \o t \in Seq(FirstSteps)
  BY ConcatProperties
<1>8. ASSUME NEW S \in SUBSET Things, IsFiniteSet(S), NEW do \in {"apply", "applyKarpenter"},
             do = "apply" => S \subseteq Managed, do = "applyKarpenter" => S \subseteq C.karpenter
      PROVE  NodePoolGroup(do, S) \in Seq(FirstSteps)
  <2>1. <<Step(do, S), Step("ready", {})>> \in Seq(FirstSteps)
    <3>1. Step(do, S) \in FirstSteps /\ Step("ready", {}) \in FirstSteps
      BY <1>2, <1>8 DEF ProvisionDos
    <3> QED
      BY <3>1
  <2>2. Each("updateNodes", S) \in Seq(FirstSteps)
    BY <1>5, <1>8 DEF ProvisionDos
  <2>3. <<>> \in Seq(FirstSteps)
    BY EmptySeq
  <2> QED
    BY <1>7, <2>1, <2>2, <2>3 DEF NodePoolGroup
<1>9. /\ <<Step("deleteObjects", C.preDelete)>> \in Seq(FirstSteps)
      /\ <<Step("deleteObjects", C.postDelete)>> \in Seq(FirstSteps)
      /\ Each("applyObject", C.objects) \in Seq(FirstSteps)
      /\ ApplySteps \in Seq(FirstSteps)
  <2>1. <<Step("deleteObjects", C.preDelete)>> \in Seq(FirstSteps)
    BY <1>1, <1>4 DEF ProvisionDos, Things
  <2>2. <<Step("deleteObjects", C.postDelete)>> \in Seq(FirstSteps)
    BY <1>1, <1>4 DEF ProvisionDos, Things
  <2>3. Each("applyObject", C.objects) \in Seq(FirstSteps)
    <3>1. IsFiniteSet(C.objects)
      BY <1>1, FiniteFacts, FS_Subset
    <3> QED
      BY <1>1, <1>5, <3>1 DEF ProvisionDos, Things
  <2> QED
    BY <1>6, <1>7, <2>1, <2>2, <2>3 DEF ApplySteps
<1>10. ReconcileSteps \in Seq(FirstSteps)
  <2>1. /\ Step("reconcile", {}) \in FirstSteps /\ Step("removeNodePools", {}) \in FirstSteps
        /\ Step("prepareObsolete", {}) \in FirstSteps /\ Step("removeNodeClasses", {}) \in FirstSteps
    BY <1>2 DEF ProvisionDos
  <2> QED
    BY <2>1 DEF ReconcileSteps
<1>11. <<>> \in Seq(FirstSteps)
  BY EmptySeq
<1>12. /\ createOrUpdateEtcdStack \in Seq(FirstSteps) /\ createOrUpdateClusterStack \in Seq(FirstSteps)
       /\ <<Step("prepare", {})>> \in Seq(FirstSteps) /\ <<Step("hook", {})>> \in Seq(FirstSteps)
  <2>1. {EtcdStack} \in SUBSET Things /\ {MainStack} \in SUBSET Things /\ {} \in SUBSET Things
    BY FiniteFacts DEF Things
  <2>2. {MainStack} \subseteq Managed /\ (P.etcd => {EtcdStack} \subseteq Managed)
    BY DEF Managed, P, ZalandoAWSProvisioner, ZalandoEKSProvisioner
  <2> QED
    BY <1>4, <1>11, <2>1, <2>2 DEF createOrUpdateEtcdStack, createOrUpdateClusterStack, ProvisionDos
<1>13. applyCFManifests \in Seq(FirstSteps)
  <2>1. DOMAIN InfraStacks = 1..Len(InfraStacks) /\ Len(InfraStacks) \in Nat
        /\ \A i \in 1..Len(InfraStacks) : InfraStacks[i] \in Stack
    BY FiniteFacts, LenProperties, ElementOfSeq
  <2>2. \A i \in DOMAIN InfraStacks : Step("apply", {InfraStacks[i]}) \in FirstSteps
    <3>1. \A i \in DOMAIN InfraStacks : {InfraStacks[i]} \subseteq Managed
      BY DEF Managed, Range
    <3> QED
      BY <1>2, <2>1, <3>1 DEF ProvisionDos, Things
  <2>3. applyCFManifests \in [1..Len(InfraStacks) -> FirstSteps]
    BY <2>1, <2>2 DEF applyCFManifests
  <2> QED
    BY <2>1, <2>3, SeqDef
<1>14. /\ P.masters => NodePoolGroup("apply", C.pools \cap Masters) \in Seq(FirstSteps)
       /\ NodePoolGroup("apply", C.pools \cap Workers) \in Seq(FirstSteps)
       /\ NodePoolGroup("applyKarpenter", C.karpenter) \in Seq(FirstSteps)
  <2>1. IsFiniteSet(C.pools \cap Masters) /\ IsFiniteSet(C.pools \cap Workers) /\ IsFiniteSet(C.karpenter)
    <3>1. C.pools \cap Masters \subseteq Stack /\ C.pools \cap Workers \subseteq Stack
      BY <1>1, FiniteFacts
    <3> QED
      BY <1>1, <3>1, FiniteFacts, FS_Subset
  <2>2. C.pools \cap Masters \in SUBSET Things /\ C.pools \cap Workers \in SUBSET Things
        /\ C.karpenter \in SUBSET Things
    BY <1>1, FiniteFacts DEF Things
  <2> QED
    <3>1. C.pools \cap Workers \subseteq Managed /\ (P.masters => C.pools \cap Masters \subseteq Managed)
      BY DEF Managed, AppliedPools, P, ZalandoAWSProvisioner, ZalandoEKSProvisioner
    <3> QED
      BY <1>8, <2>1, <2>2, <3>1
<1> QED
  BY <1>6, <1>9, <1>10, <1>11, <1>12, <1>13, <1>14

\* A provisioning begins with these steps.
LEMMA ProvisionBegins == C \in Config => ProvisionSteps \in Seq(FirstSteps)
<1> SUFFICES ASSUME C \in Config PROVE ProvisionSteps \in Seq(FirstSteps)
  OBVIOUS
<1>0. \A s, t \in Seq(FirstSteps) : s \o t \in Seq(FirstSteps)
  BY ConcatProperties
<1> DEFINE a == <<Step("prepare", {})>>
           b == createOrUpdateEtcdStack
           c == createOrUpdateClusterStack
           d == IF P.hook THEN <<Step("hook", {})>> ELSE <<>>
           e == applyCFManifests
           f == IF P.masters THEN NodePoolGroup("apply", C.pools \cap Masters) ELSE <<>>
           g == NodePoolGroup("apply", C.pools \cap Workers)
           h == ApplySteps
           k == NodePoolGroup("applyKarpenter", C.karpenter)
           l == ReconcileSteps
<1>1. /\ a \in Seq(FirstSteps) /\ b \in Seq(FirstSteps) /\ c \in Seq(FirstSteps)
      /\ d \in Seq(FirstSteps) /\ e \in Seq(FirstSteps) /\ f \in Seq(FirstSteps)
      /\ g \in Seq(FirstSteps) /\ h \in Seq(FirstSteps) /\ k \in Seq(FirstSteps)
      /\ l \in Seq(FirstSteps)
  BY ProvisionParts
<1>2. ProvisionSteps = a \o b \o c \o d \o e \o f \o g \o h \o k \o l
  BY DEF ProvisionSteps
<1> HIDE DEF a, b, c, d, e, f, g, h, k, l
<1>3. a \o b \o c \o d \o e \in Seq(FirstSteps)
  <2>1. a \o b \in Seq(FirstSteps)
    BY <1>0, <1>1
  <2>2. a \o b \o c \in Seq(FirstSteps)
    BY <1>0, <1>1, <2>1
  <2>3. a \o b \o c \o d \in Seq(FirstSteps)
    BY <1>0, <1>1, <2>2
  <2> QED
    BY <1>0, <1>1, <2>3
<1>4. a \o b \o c \o d \o e \o f \in Seq(FirstSteps)
  BY <1>0, <1>1, <1>3
<1>5. a \o b \o c \o d \o e \o f \o g \in Seq(FirstSteps)
  BY <1>0, <1>1, <1>4
<1>6. a \o b \o c \o d \o e \o f \o g \o h \in Seq(FirstSteps)
  BY <1>0, <1>1, <1>5
<1>7. a \o b \o c \o d \o e \o f \o g \o h \o k \in Seq(FirstSteps)
  BY <1>0, <1>1, <1>6
<1> QED
  BY <1>0, <1>1, <1>2, <1>7

-----------------------------------------------------------------------------
(* The inductive invariant *)

StackRecord == [st : Statuses, tmpl : Nat, goal : Nat, protected : BOOLEAN,
                updated : {"never", "before", "after"}, requested : BOOLEAN]
JobStates == {"idle"} \cup Applying \cup Deleting \cup Ended

TypeOK ==
    /\ cf \in [Stack -> StackRecord] /\ job \in [Stack -> JobStates]
    /\ provider \in {"aws", "eks"} /\ plan \in Seq(Config) /\ todo \in Seq(StepSet)
    /\ nodes \in [Pools -> Nat] /\ controllers \in BOOLEAN /\ roundFailed \in BOOLEAN

\* The configuration only advances, and never after the cluster is to be removed;
\* only a decommissioning stops the cluster's controllers.
PlanInv ==
    /\ applied \in Nat /\ current \in Nat /\ 1 <= applied /\ applied <= current
    /\ current <= Len(plan)
    /\ \A i \in 1..(current - 1) : ~plan[i].gone
    /\ controllers \/ C.gone

\* What is not there is not asked to go.
NoneInv == \A s \in Stack : cf[s].st = "NONE" => ~cf[s].requested

\* Goroutines work on the stacks of the step at hand, and on what it does; a
\* stack that one has deleted does not come back when only deletions are left.
JobInv ==
    \A s \in Stack : job[s] # "idle" =>
        /\ Working /\ s \in Now.on
        /\ job[s] \in Applying => Now.do = "apply"
        /\ job[s] \in Deleting => Now.do \in {"delete", "deleteRound"}
        /\ job[s] = "ok" /\ C.gone /\ ~controllers => cf[s].st = "NONE"

\* Before a pool's stack is deleted, the pool has been emptied or will be.
Emptied(p, i) ==
    \/ nodes[p] = 0
    \/ \E j \in 1..(i - 1) : todo[j].do = "prepareForRemoval" /\ p \in todo[j].on

ProvisionInv ==
    outcome = "active" /\ ~C.gone =>
        \A i \in 1..Len(todo) :
            /\ todo[i].do \in ProvisionDos
            /\ \A p \in Pools \ (C.preStacks \cup C.postStacks) :
                  todo[i].do = "delete" /\ p \in todo[i].on => p \notin C.pools /\ Emptied(p, i)

NoneLeft == \A s \in Owned : cf[s].st = "NONE"
MainGone == cf[MainStack].st = "NONE"

\* What is left of a decommissioning is one of these, and a round of deletions
\* covers every stack there still is.
Round ==
    /\ todo # <<>> /\ Now.do = "deleteRound" /\ Tail(todo) = T3 /\ Now.on \subseteq Owned
    /\ controllers \/ ClusterStacks \subseteq Now.on
GoneShape ==
    \/ todo = <<>> \/ todo = T0 \/ todo = T1 \/ todo = T2 \/ todo = T3 \/ todo = T4
    \/ todo = T5 \/ todo = T6 \/ todo = T7 \/ todo = T8 \/ Round

\* What its steps have achieved, unless the controllers still run.
AllGone == provider = "aws" => NoneLeft /\ MainGone /\ volumes = "none"
GoneFacts ==
    /\ At("stacksLeft") /\ ~roundFailed => NoneLeft
    /\ At("interfaces") \/ At("delete") \/ At("removeVolumes") => NoneLeft
    /\ At("removeVolumes") => MainGone
    /\ todo = <<>> => AllGone
GoneInv ==
    /\ outcome = "active" /\ C.gone => GoneShape
    /\ outcome = "active" /\ C.gone /\ ~controllers => GoneFacts
    /\ outcome = "decommissioned" => C.gone /\ (~controllers => AllGone)

Stages == ProvisionInv /\ GoneInv
IInv == TypeOK /\ PlanInv /\ NoneInv /\ JobInv /\ Stages

-----------------------------------------------------------------------------
(* Shapes *)

LEMMA CurrentConfig == ASSUME TypeOK, PlanInv PROVE C \in Config /\ plan[current] \in Config
<1>1. Len(plan) \in Nat
  BY LenProperties DEF TypeOK
<1>2. applied \in 1..Len(plan) /\ current \in 1..Len(plan)
  BY <1>1 DEF PlanInv
<1> QED
  BY <1>2, ElementOfSeq DEF TypeOK, C

LEMMA StepDo == \A do, on : Step(do, on).do = do /\ Step(do, on).on = on
BY DEF Step

\* The step at hand tells which ones follow it.
LEMMA Shapes ==
    ASSUME TypeOK, GoneShape, todo # <<>>
    PROVE  /\ Now.do \in DecommissionDos
           /\ Now.do = "removeVolumes" => Tail(todo) = <<>>
           /\ Now.do = "delete" => Tail(todo) = T0 /\ Now.on = {MainStack}
           /\ Now.do = "interfaces" => Tail(todo) = T1
           /\ Now.do = "stacksLeft" => Tail(todo) = T2
           /\ Now.do = "deleteRound" => Round
           /\ Now.do = "deleteStacks" => Tail(todo) = T3
           /\ Now.do = "awaitTerminated" => Tail(todo) = T4
           /\ Now.do = "terminate" => Tail(todo) = T5
           /\ Now.do = "downscale" => Tail(todo) = T6
           /\ Now.do = "details" => Tail(todo) = T7
<1>0. CASE Round
  BY <1>0 DEF Round, DecommissionDos
<1>1. CASE todo = T0
  <2>1. Now.do = "removeVolumes" /\ Tail(todo) = <<>>
    <3>1. T0[1] = Step("removeVolumes", {}) /\ Tail(T0) = <<>>
      BY DecommissionOrder
    <3> QED
      BY <1>1, <3>1, StepDo DEF Now
  <2> QED
    BY <2>1 DEF DecommissionDos
<1>2. CASE todo = T1
  <2>1. Now.do = "delete" /\ Tail(todo) = T0 /\ Now.on = {MainStack}
    <3>1. T1[1] = Step("delete", {MainStack}) /\ Tail(T1) = T0
      BY DecommissionOrder
    <3> QED
      BY <1>2, <3>1, StepDo DEF Now
  <2> QED
    BY <2>1 DEF DecommissionDos
<1>3. CASE todo = T3
  <2>1. Now.do = "stacksLeft" /\ Tail(todo) = T2
    <3>1. T3[1] = Step("stacksLeft", {}) /\ Tail(T3) = T2
      BY DecommissionOrder
    <3> QED
      BY <1>3, <3>1, StepDo DEF Now
  <2> QED
    BY <2>1 DEF DecommissionDos
<1>4. CASE todo = T4
  <2>1. Now.do = "deleteStacks" /\ Tail(todo) = T3
    <3>1. T4[1] = Step("deleteStacks", {}) /\ Tail(T4) = T3
      BY DecommissionOrder
    <3> QED
      BY <1>4, <3>1, StepDo DEF Now
  <2> QED
    BY <2>1 DEF DecommissionDos
<1>5. CASE todo = T5
  <2>1. Now.do = "awaitTerminated" /\ Tail(todo) = T4
    <3>1. T5[1] = Step("awaitTerminated", {}) /\ Tail(T5) = T4
      BY DecommissionOrder
    <3> QED
      BY <1>5, <3>1, StepDo DEF Now
  <2> QED
    BY <2>1 DEF DecommissionDos
<1>6. CASE todo = T6
  <2>1. Now.do = "terminate" /\ Tail(todo) = T5
    <3>1. T6[1] = Step("terminate", {}) /\ Tail(T6) = T5
      BY DecommissionOrder
    <3> QED
      BY <1>6, <3>1, StepDo DEF Now
  <2> QED
    BY <2>1 DEF DecommissionDos
<1>7. CASE todo = T7
  <2>1. Now.do = "downscale" /\ Tail(todo) = T6
    <3>1. T7[1] = Step("downscale", {}) /\ Tail(T7) = T6
      BY DecommissionOrder
    <3> QED
      BY <1>7, <3>1, StepDo DEF Now
  <2> QED
    BY <2>1 DEF DecommissionDos
<1>8. CASE todo = T2
  <2>1. CASE provider = "eks"
    <3>1. Now.do = "interfaces" /\ Tail(todo) = T1
      <4>1. T2[1] = Step("interfaces", {}) /\ Tail(T2) = T1
        BY <2>1, DecommissionOrder
      <4> QED
        BY <1>8, <2>1, <4>1, StepDo DEF Now
    <3> QED
      BY <3>1 DEF DecommissionDos
  <2>2. CASE provider # "eks"
    BY <1>8, <2>2, <1>2, DecommissionOrder
  <2> QED
    BY <2>1, <2>2
<1>9. CASE todo = T8
  <2>1. CASE provider = "eks"
    <3>1. Now.do = "details" /\ Tail(todo) = T7
      <4>1. T8[1] = Step("details", {}) /\ Tail(T8) = T7
        BY <2>1, DecommissionOrder
      <4> QED
        BY <1>9, <2>1, <4>1, StepDo DEF Now
    <3> QED
      BY <3>1 DEF DecommissionDos
  <2>2. CASE provider # "eks"
    BY <1>9, <2>2, <1>7, DecommissionOrder
  <2> QED
    BY <2>1, <2>2
<1> QED
  BY <1>0, <1>1, <1>2, <1>3, <1>4, <1>5, <1>6, <1>7, <1>8, <1>9 DEF GoneShape

\* The first steps of what is left.
LEMMA Firsts ==
    /\ T0[1].do = "removeVolumes"
    /\ T1[1].do = "delete"
    /\ T2[1].do \in {"interfaces", "delete"}
    /\ T3[1].do = "stacksLeft"
    /\ T4[1].do = "deleteStacks"
    /\ T5[1].do = "awaitTerminated"
    /\ T6[1].do = "terminate"
    /\ T7[1].do = "downscale"
    /\ T8[1].do \in {"details", "downscale"}
<1>1. /\ T0[1] = Step("removeVolumes", {}) /\ T1[1] = Step("delete", {MainStack})
      /\ T3[1] = Step("stacksLeft", {}) /\ T4[1] = Step("deleteStacks", {})
      /\ T5[1] = Step("awaitTerminated", {}) /\ T6[1] = Step("terminate", {})
      /\ T7[1] = Step("downscale", {})
  BY DecommissionOrder
<1>2. T2[1] = Step("interfaces", {}) \/ T2 = T1
  BY DecommissionOrder
<1>3. T8[1] = Step("details", {}) \/ T8 = T7
  BY DecommissionOrder
<1> QED
  BY <1>1, <1>2, <1>3, StepDo

LEMMA NotDone ==
    /\ T0 # <<>> /\ T1 # <<>> /\ T2 # <<>> /\ T3 # <<>> /\ T4 # <<>> /\ T5 # <<>>
    /\ T6 # <<>> /\ T7 # <<>> /\ T8 # <<>>
BY DecommissionOrder

LEMMA SameShapes ==
    ASSUME provider' = provider
    PROVE  T0' = T0 /\ T1' = T1 /\ T2' = T2 /\ T3' = T3 /\ T4' = T4 /\ T5' = T5 /\ T6' = T6
           /\ T7' = T7 /\ T8' = T8
BY DEF T0, T1, T2, T3, T4, T5, T6, T7, T8

LEMMA FirstShapes == (DecommissionSteps = T8)' /\ (C \in Config => ProvisionSteps \in Seq(FirstSteps))'
BY DecommissionBegins, ProvisionBegins, PTL

LEMMA TailOfTodo ==
    ASSUME TypeOK, todo # <<>>
    PROVE  /\ Tail(todo) \in Seq(StepSet) /\ <<>> \o Tail(todo) = Tail(todo)
           /\ Len(todo) \in Nat \ {0} /\ Len(Tail(todo)) = Len(todo) - 1
           /\ \A i \in 1..Len(Tail(todo)) : Tail(todo)[i] = todo[i + 1]
BY HeadTailProperties, ConcatEmptySeq, EmptySeq DEF TypeOK

-----------------------------------------------------------------------------
(* Steps of the adapter and of CloudFormation *)

\* What a goroutine may do to its stack: a stack appears only when it is
\* created, is asked to go only by DeleteStack, and a deletion ends well only
\* when the stack is gone.
JobMove(s, pc, rec) ==
    /\ rec \in StackRecord /\ job[s] \in Applying \cup Deleting
    /\ job[s] \in Applying => pc \in Applying \cup Ended
    /\ job[s] \in Deleting => pc \in Deleting \cup Ended
    /\ cf[s].st = "NONE" /\ job[s] # "create" => rec.st = "NONE"
    /\ rec.st = "NONE" => ~rec.requested
    /\ ~cf[s].requested /\ rec.requested => job[s] = "delete"
    /\ job[s] \in Deleting /\ pc = "ok" => cf[s].st = "NONE" /\ rec.st = "NONE"

LEMMA JobMoves ==
    ASSUME TypeOK, NoneInv, NEW s \in Stack, NEW t \in Nat,
           JobStep(s, t) \/ DeletionTimesOut(s) \/ JobFails(s)
    PROVE  \E pc, rec : /\ job' = [job EXCEPT ![s] = pc] /\ cf' = [cf EXCEPT ![s] = rec]
                        /\ JobMove(s, pc, rec)
<1>1. cf[s] \in StackRecord /\ (cf[s].st = "NONE" => ~cf[s].requested)
      /\ cf = [cf EXCEPT ![s] = cf[s]]
  BY DEF TypeOK, NoneInv
<1> SUFFICES \E pc, rec : /\ job' = [job EXCEPT ![s] = pc] /\ cf' = [cf EXCEPT ![s] = rec]
                          /\ JobMove(s, pc, rec)
  OBVIOUS
<1> USE DEF Answer, Call, Goto, Exists
<1>2. ASSUME NEW pc, Answer(s, pc), JobMove(s, pc, cf[s])
      PROVE  \E p, rec : /\ job' = [job EXCEPT ![s] = p] /\ cf' = [cf EXCEPT ![s] = rec]
                         /\ JobMove(s, p, rec)
  <2>1. job' = [job EXCEPT ![s] = pc] /\ cf' = [cf EXCEPT ![s] = cf[s]]
    BY <1>1, <1>2
  <2> QED
    BY <1>2, <2>1
<1>3. ASSUME NEW pc, NEW rec, Call(s, pc, rec), JobMove(s, pc, rec)
      PROVE  \E p, r : /\ job' = [job EXCEPT ![s] = p] /\ cf' = [cf EXCEPT ![s] = r]
                       /\ JobMove(s, p, r)
  BY <1>3
<1>4. CASE CreateStack(s, t)
  <2>1. CASE Exists(s)
    <3>1. Answer(s, "protect") /\ JobMove(s, "protect", cf[s])
      BY <1>1, <1>4, <2>1 DEF CreateStack, JobMove, Applying, Deleting, Ended
    <3> QED
      BY <1>2, <3>1
  <2>2. CASE ~Exists(s)
    <3> DEFINE rec == [NoStack EXCEPT !.st = "CREATE_IN_PROGRESS", !.tmpl = t, !.protected = TRUE]
    <3>1. Call(s, "wait", rec) /\ JobMove(s, "wait", rec)
      BY <1>1, <1>4, <2>2 DEF CreateStack, JobMove, Applying, Deleting, Ended, NoStack,
         StackRecord, Statuses
    <3> QED
      BY <1>3, <3>1
  <2> QED
    BY <2>1, <2>2
<1>5. CASE ProtectStack(s)
  <2>1. CASE cf[s].st \in {"NONE", "DELETE_IN_PROGRESS"}
    <3>1. Answer(s, "failed") /\ JobMove(s, "failed", cf[s])
      BY <1>1, <1>5, <2>1 DEF ProtectStack, JobMove, Applying, Deleting, Ended
    <3> QED
      BY <1>2, <3>1
  <2>2. CASE cf[s].st \notin {"NONE", "DELETE_IN_PROGRESS"}
    <3> DEFINE rec == [cf[s] EXCEPT !.protected = TRUE]
    <3>1. Call(s, "update", rec) /\ JobMove(s, "update", rec)
      BY <1>1, <1>5, <2>2 DEF ProtectStack, JobMove, Applying, Deleting, Ended, StackRecord
    <3> QED
      BY <1>3, <3>1
  <2> QED
    BY <2>1, <2>2
<1>6. CASE UpdateStack(s, t)
  <2>1. CASE cf[s].st \in Stable /\ ~NoUpdateNeeded(s, t)
    <3> DEFINE rec == [cf[s] EXCEPT !.st = "UPDATE_IN_PROGRESS", !.goal = t, !.updated = "before"]
    <3>1. Call(s, "wait", rec) /\ JobMove(s, "wait", rec)
      BY <1>1, <1>6, <2>1 DEF UpdateStack, JobMove, Applying, Deleting, Ended, StackRecord, Stable,
         Statuses
    <3> QED
      BY <1>3, <3>1
  <2>2. CASE ~(cf[s].st \in Stable /\ ~NoUpdateNeeded(s, t))
    <3>1. PICK pc \in {"waitUnchanged", "failed"} : Answer(s, pc)
      BY <1>6, <2>2 DEF UpdateStack
    <3>2. JobMove(s, pc, cf[s])
      BY <1>1, <1>6 DEF UpdateStack, JobMove, Applying, Deleting, Ended
    <3> QED
      BY <1>2, <3>1, <3>2
  <2> QED
    BY <2>1, <2>2
<1>7. CASE WaitForStack(s)
  <2>1. PICK pc \in {"ok", "failed"} : Answer(s, pc)
    BY <1>7 DEF WaitForStack, WaitResult
  <2>2. JobMove(s, pc, cf[s])
    BY <1>1, <1>7 DEF WaitForStack, JobMove, Applying, Deleting, Ended
  <2> QED
    BY <1>2, <2>1, <2>2
<1>8. CASE UnprotectStack(s)
  <2>1. CASE Exists(s) /\ cf[s].st # "DELETE_IN_PROGRESS"
    <3> DEFINE rec == [cf[s] EXCEPT !.protected = FALSE]
    <3>1. Call(s, "delete", rec) /\ JobMove(s, "delete", rec)
      BY <1>1, <1>8, <2>1 DEF UnprotectStack, JobMove, Applying, Deleting, Ended, StackRecord
    <3> QED
      BY <1>3, <3>1
  <2>2. CASE ~(Exists(s) /\ cf[s].st # "DELETE_IN_PROGRESS")
    <3>1. PICK pc \in Ended : Answer(s, pc) /\ (pc = "ok" => ~Exists(s))
      BY <1>8, <2>2 DEF UnprotectStack, Ended
    <3>2. JobMove(s, pc, cf[s])
      BY <1>1, <1>8, <3>1 DEF UnprotectStack, JobMove, Applying, Deleting, Ended
    <3> QED
      BY <1>2, <3>1, <3>2
  <2> QED
    BY <2>1, <2>2
<1>9. CASE DeleteStack(s)
  <2> DEFINE rec == [cf[s] EXCEPT !.requested = cf[s].st # "DELETE_IN_PROGRESS",
                                  !.updated = IF @ = "after" THEN "before" ELSE @]
  <2>1. CASE Exists(s) /\ Call(s, "waitDeletion", rec)
    <3>1. JobMove(s, "waitDeletion", rec)
      BY <1>1, <1>9, <2>1 DEF DeleteStack, JobMove, Applying, Deleting, Ended, StackRecord
    <3> QED
      BY <1>3, <2>1, <3>1
  <2>2. CASE ~(Exists(s) /\ Call(s, "waitDeletion", rec))
    <3>1. PICK pc \in Ended : Answer(s, pc) /\ (pc = "ok" => ~Exists(s))
      <4> HIDE DEF Answer, Call
      <4> QED
        BY <1>9, <2>2 DEF DeleteStack, Ended
    <3>2. JobMove(s, pc, cf[s])
      BY <1>1, <1>9, <3>1 DEF DeleteStack, JobMove, Applying, Deleting, Ended
    <3> QED
      BY <1>2, <3>1, <3>2
  <2> QED
    BY <2>1, <2>2
<1>10. CASE WaitForStackDeletion(s) \/ DeletionTimesOut(s)
  <2>1. PICK pc \in Ended : Answer(s, pc) /\ (pc = "ok" => ~Exists(s))
    BY <1>10 DEF WaitForStackDeletion, DeletionTimesOut, Ended
  <2>2. JobMove(s, pc, cf[s])
    BY <1>1, <1>10, <2>1 DEF WaitForStackDeletion, DeletionTimesOut, JobMove, Applying, Deleting, Ended
  <2> QED
    BY <1>2, <2>1, <2>2
<1>11. CASE JobFails(s)
  <2>1. JobMove(s, "failed", cf[s])
    BY <1>1, <1>11 DEF JobFails, JobMove, Applying, Deleting, Ended
  <2> QED
    BY <1>2, <1>11, <2>1 DEF JobFails
<1> QED
  BY <1>4, <1>5, <1>6, <1>7, <1>8, <1>9, <1>10, <1>11 DEF JobStep

\* CloudFormation changes only stacks that exist and asks for no deletion.
LEMMA CloudMoves ==
    ASSUME TypeOK, NoneInv, NEW s \in Stack, StackProgresses(s) \/ StackBreaks(s)
    PROVE  /\ job' = job /\ cf[s].st # "NONE"
           /\ \E rec \in StackRecord :
                 /\ cf' = [cf EXCEPT ![s] = rec]
                 /\ rec.requested => cf[s].requested
                 /\ rec.st = "NONE" => ~rec.requested
<1>1. cf[s] \in StackRecord /\ (cf[s].st = "NONE" => ~cf[s].requested)
  BY DEF TypeOK, NoneInv
<1>2. \A to : <<"NONE", to>> \notin Begins \cup Breaks /\ <<cf[s].st, "NONE">> \notin Begins \cup Breaks
  BY DEF Begins, Breaks
<1>3. cf[s].st # "NONE" /\ job' = job
  BY <1>1, <1>2 DEF StackProgresses, StackBreaks
<1>4. CASE StackProgresses(s)
  <2>1. CASE ~cf[s].requested /\ \E to \in Statuses :
              /\ <<cf[s].st, to>> \in Begins
              /\ cf' = [cf EXCEPT ![s].st = to, ![s].tmpl =
                           IF cf[s].st = "UPDATE_IN_PROGRESS" THEN cf[s].goal ELSE @]
    <3>1. PICK to \in Statuses :
              /\ <<cf[s].st, to>> \in Begins
              /\ cf' = [cf EXCEPT ![s].st = to, ![s].tmpl =
                           IF cf[s].st = "UPDATE_IN_PROGRESS" THEN cf[s].goal ELSE @]
      BY <2>1
    <3> DEFINE rec == [cf[s] EXCEPT !.st = to, !.tmpl =
                           IF cf[s].st = "UPDATE_IN_PROGRESS" THEN cf[s].goal ELSE @]
    <3>2. cf' = [cf EXCEPT ![s] = rec]
      BY <3>1 DEF TypeOK, StackRecord
    <3>3. rec \in StackRecord /\ rec.requested = cf[s].requested
      BY <1>1 DEF StackRecord
    <3> QED
      BY <1>3, <2>1, <3>2, <3>3
  <2>2. CASE cf' = [cf EXCEPT ![s] = NoStack]
    <3>1. NoStack \in StackRecord /\ ~NoStack.requested
      BY DEF NoStack, StackRecord, Statuses
    <3> QED
      BY <1>3, <2>2, <3>1
  <2>3. CASE cf[s].requested /\ cf' = [cf EXCEPT ![s].st = "DELETE_IN_PROGRESS", ![s].requested = FALSE]
    <3> DEFINE rec == [cf[s] EXCEPT !.st = "DELETE_IN_PROGRESS", !.requested = FALSE]
    <3>1. cf' = [cf EXCEPT ![s] = rec]
      BY <2>3 DEF TypeOK, StackRecord
    <3>2. rec \in StackRecord /\ ~rec.requested
      BY <1>1 DEF StackRecord, Statuses
    <3> QED
      BY <1>3, <3>1, <3>2
  <2> QED
    BY <1>4, <2>1, <2>2, <2>3 DEF StackProgresses
<1>5. CASE StackBreaks(s)
  <2>1. CASE ~cf[s].requested /\ \E to \in Statuses :
                <<cf[s].st, to>> \in Breaks /\ cf' = [cf EXCEPT ![s].st = to]
    <3>1. PICK to \in Statuses : cf' = [cf EXCEPT ![s].st = to]
      BY <2>1
    <3> DEFINE rec == [cf[s] EXCEPT !.st = to]
    <3>2. cf' = [cf EXCEPT ![s] = rec]
      BY <3>1 DEF TypeOK, StackRecord
    <3>3. rec \in StackRecord /\ rec.requested = cf[s].requested
      BY <1>1 DEF StackRecord
    <3> QED
      BY <1>3, <2>1, <3>2, <3>3
  <2>2. CASE cf' = [cf EXCEPT ![s].requested = FALSE, ![s].updated = "after"]
    <3> DEFINE rec == [cf[s] EXCEPT !.requested = FALSE, !.updated = "after"]
    <3>1. cf' = [cf EXCEPT ![s] = rec]
      BY <2>2 DEF TypeOK, StackRecord
    <3>2. rec \in StackRecord /\ ~rec.requested
      BY <1>1 DEF StackRecord
    <3> QED
      BY <1>3, <3>1, <3>2
  <2> QED
    BY <1>5, <2>1, <2>2 DEF StackBreaks
<1> QED
  BY <1>4, <1>5

-----------------------------------------------------------------------------
(* What the steps of an attempt have in common *)

LEMMA PlanKept ==
    ASSUME PlanInv, UNCHANGED <<provider, plan, current, applied, controllers>>
    PROVE  PlanInv' /\ C' = C
BY DEF PlanInv, C

LEMMA NobodyWorks == ASSUME TypeOK, JobInv, ~Working PROVE \A s \in Stack : job[s] = "idle"
BY DEF JobInv

\* An attempt that has failed promises nothing.
LEMMA FailedKeeps ==
    ASSUME IInv, todo' = <<>>, outcome' = "failed", job' \in [Stack -> {"idle"}],
           UNCHANGED <<cf, provider, plan, current, applied, controllers, nodes, roundFailed>>
    PROVE  IInv'
<1>1. PlanInv' /\ C' = C
  BY PlanKept DEF IInv
<1>2. TypeOK'
  <2>1. <<>> \in Seq(StepSet)
    BY EmptySeq
  <2>2. job' \in [Stack -> JobStates]
    BY DEF JobStates
  <2> QED
    BY <2>1, <2>2 DEF IInv, TypeOK
<1>3. NoneInv' /\ JobInv'
  BY DEF IInv, NoneInv, JobInv
<1>4. Stages'
  BY DEF Stages, ProvisionInv, GoneInv
<1> QED
  BY <1>1, <1>2, <1>3, <1>4 DEF IInv

\* Nodes stay away from a pool that is not configured.
StillEmpty == \A p \in Pools : p \notin C.pools /\ nodes[p] = 0 => nodes'[p] = 0

\* The first step of a provisioning is done.
LEMMA ProvisionProceeds ==
    ASSUME TypeOK, ProvisionInv, outcome = "active", todo # <<>>, todo' = Tail(todo), C' = C,
           StillEmpty,
           Now.do = "prepareForRemoval" => \A p \in Pools \cap Now.on : nodes'[p] = 0
    PROVE  ProvisionInv'
<1> SUFFICES ASSUME outcome' = "active", ~C.gone, NEW i \in 1..Len(todo')
             PROVE  /\ todo'[i].do \in ProvisionDos
                    /\ \A p \in Pools \ (C.preStacks \cup C.postStacks) :
                          todo'[i].do = "delete" /\ p \in todo'[i].on
                              => p \notin C.pools /\ Emptied(p, i)'
  BY DEF ProvisionInv
<1>1. /\ Len(todo) \in Nat \ {0} /\ Len(todo') = Len(todo) - 1
      /\ \A k \in 1..Len(todo') : todo'[k] = todo[k + 1]
  BY TailOfTodo
<1>2. i \in Nat /\ i + 1 \in 1..Len(todo) /\ todo'[i] = todo[i + 1]
  BY <1>1
<1>3. todo[i + 1].do \in ProvisionDos
  BY <1>2 DEF ProvisionInv
<1>4. ASSUME NEW p \in Pools \ (C.preStacks \cup C.postStacks),
             todo[i + 1].do = "delete", p \in todo[i + 1].on
      PROVE  p \notin C.pools /\ Emptied(p, i)'
  <2>1. p \notin C.pools /\ Emptied(p, i + 1)
    BY <1>2, <1>4 DEF ProvisionInv
  <2>2. CASE nodes[p] = 0
    BY <2>1, <2>2 DEF StillEmpty, Emptied
  <2>3. ASSUME NEW j \in 1..i, todo[j].do = "prepareForRemoval", p \in todo[j].on
        PROVE  Emptied(p, i)'
    <3>1. CASE j = 1
      <4>1. nodes'[p] = 0
        BY <2>3, <3>1 DEF Now
      <4> QED
        BY <4>1 DEF Emptied
    <3>2. CASE j # 1
      <4>1. j - 1 \in 1..(i - 1) /\ j - 1 \in 1..Len(todo') /\ todo'[j - 1] = todo[(j - 1) + 1]
            /\ (j - 1) + 1 = j
        BY <1>1, <1>2, <3>2
      <4>2. todo'[j - 1].do = "prepareForRemoval" /\ p \in todo'[j - 1].on
        BY <2>3, <4>1
      <4> QED
        BY <4>1, <4>2 DEF Emptied
    <3> QED
      BY <3>1, <3>2
  <2> QED
    BY <1>2, <2>1, <2>2, <2>3 DEF Emptied
<1> QED
  BY <1>2, <1>3, <1>4

\* Nothing but the state of the stacks, the nodes and the volumes changes.
LEMMA AttemptWaits ==
    ASSUME IInv, UNCHANGED <<provider, plan, applied, todo, outcome, roundFailed, controllers>>,
           \A s \in Stack : cf[s].st = "NONE" => cf'[s].st = "NONE" \/ controllers \/ ~C.gone,
           StillEmpty,
           \/ volumes' = volumes \/ volumes = "in-use"
           \/ \E p \in Pools : cf[p].st # "NONE"
    PROVE  Stages'
<1>1. C' = C
  BY DEF C
<1>2. ProvisionInv'
  <2> SUFFICES ASSUME outcome = "active", ~C.gone, NEW i \in 1..Len(todo)
               PROVE  /\ todo[i].do \in ProvisionDos
                      /\ \A p \in Pools \ (C.preStacks \cup C.postStacks) :
                            todo[i].do = "delete" /\ p \in todo[i].on
                                => p \notin C.pools /\ Emptied(p, i)'
    BY <1>1 DEF ProvisionInv
  <2>1. /\ todo[i].do \in ProvisionDos
        /\ \A p \in Pools \ (C.preStacks \cup C.postStacks) :
              todo[i].do = "delete" /\ p \in todo[i].on => p \notin C.pools /\ Emptied(p, i)
    BY DEF IInv, Stages, ProvisionInv
  <2> QED
    BY <2>1 DEF StillEmpty, Emptied
<1>3. C.gone /\ ~controllers => (NoneLeft => NoneLeft') /\ (MainGone => MainGone')
  BY FiniteFacts DEF NoneLeft, MainGone, Owned
<1>4. C.gone /\ ~controllers /\ NoneLeft /\ MainGone /\ volumes = "none" => volumes' = "none"
  <2>1. Pools \subseteq Owned \cup {MainStack}
    BY FiniteFacts DEF Owned
  <2> QED
    BY <2>1 DEF NoneLeft, MainGone
<1>5. C.gone /\ ~controllers => (AllGone => AllGone')
  BY <1>3, <1>4 DEF AllGone
<1>6. C.gone /\ GoneShape => GoneShape'
  <2>1. C.gone /\ ~controllers => ClusterStacks' \subseteq ClusterStacks
    BY DEF ClusterStacks, ListStacks, Owned, Exists
  <2>2. C.gone /\ Round => Round'
    BY <2>1, SameShapes DEF Round, Now
  <2> QED
    BY <2>2, SameShapes DEF GoneShape
<1>7. C.gone /\ ~controllers /\ GoneFacts => GoneFacts'
  BY <1>3, <1>5 DEF GoneFacts, At, Now
<1>8. GoneInv'
  BY <1>1, <1>5, <1>6, <1>7 DEF IInv, Stages, GoneInv
<1> QED
  BY <1>2, <1>8 DEF Stages

\* A step is done and the next one is at hand.
LEMMA Proceeded ==
    ASSUME IInv, outcome = "active", todo # <<>>, todo' = Tail(todo),
           UNCHANGED <<cf, provider, plan, current, applied, outcome>>,
           job' \in [Stack -> {"idle"}], nodes' \in [Pools -> Nat], roundFailed' \in BOOLEAN,
           StillEmpty,
           Now.do = "prepareForRemoval" => \A p \in Pools \cap Now.on : nodes'[p] = 0,
           controllers' = controllers \/ (Now.do = "downscale" /\ controllers' = FALSE),
           C.gone /\ ~controllers' =>
               /\ Now.do \in {"deleteStacks", "deleteRound"} => roundFailed' \/ NoneLeft
               /\ Now.do = "stacksLeft" => NoneLeft
               /\ Now.do = "delete" => MainGone
               /\ Now.do = "removeVolumes" => volumes' = "none"
    PROVE  IInv'
<1>1. C' = C
  BY DEF C
<1>2. C.gone => GoneShape /\ (~controllers => GoneFacts)
  BY DEF IInv, Stages, GoneInv
<1>3. C.gone \/ Now.do \in ProvisionDos
  <2>1. 1 \in 1..Len(todo)
    BY TailOfTodo DEF IInv
  <2> QED
    BY <2>1 DEF IInv, Stages, ProvisionInv, Now
<1>4. PlanInv'
  <2>1. controllers' \/ C.gone
    BY <1>3 DEF IInv, PlanInv, ProvisionDos
  <2> QED
    BY <1>1, <2>1 DEF IInv, PlanInv
<1>5. TypeOK'
  <2>1. todo' \in Seq(StepSet)
    BY TailOfTodo DEF IInv
  <2>2. job' \in [Stack -> JobStates]
    BY DEF JobStates
  <2>3. controllers' \in BOOLEAN
    BY DEF IInv, TypeOK
  <2> QED
    BY <2>1, <2>2, <2>3 DEF IInv, TypeOK
<1>6. NoneInv' /\ JobInv'
  BY DEF IInv, NoneInv, JobInv
<1>7. ProvisionInv'
  BY <1>1, ProvisionProceeds DEF IInv, Stages
<1>8. ASSUME C.gone PROVE GoneShape' /\ (~controllers' => GoneFacts')
  <2>1. /\ T0' = T0 /\ T1' = T1 /\ T2' = T2 /\ T3' = T3 /\ T4' = T4 /\ T5' = T5 /\ T6' = T6
        /\ T7' = T7
    BY SameShapes
  <2>2. NoneLeft' = NoneLeft /\ MainGone' = MainGone
    BY DEF NoneLeft, MainGone
  <2>3. (controllers' = controllers) \/ (Now.do = "downscale" /\ controllers' = FALSE)
    OBVIOUS
  <2> DEFINE d == Now.do
  <2>4. /\ d \in DecommissionDos
        /\ d = "removeVolumes" => todo' = <<>>
        /\ d = "delete" => todo' = T0
        /\ d = "interfaces" => todo' = T1
        /\ d = "stacksLeft" => todo' = T2
        /\ d \in {"deleteRound", "deleteStacks"} => todo' = T3
        /\ d = "awaitTerminated" => todo' = T4
        /\ d = "terminate" => todo' = T5
        /\ d = "downscale" => todo' = T6
        /\ d = "details" => todo' = T7
    BY <1>2, <1>8, Shapes DEF IInv, Round
  <2>5. GoneShape'
    BY <2>1, <2>4 DEF GoneShape, DecommissionDos
  <2>6. ASSUME ~controllers' PROVE GoneFacts'
    <3>1. d # "downscale" => ~controllers
      BY <2>3, <2>6
    <3>2. d # "downscale" =>
             /\ d \in {"interfaces", "delete", "removeVolumes"} => NoneLeft
             /\ d = "removeVolumes" => MainGone
      BY <1>2, <1>8, <3>1 DEF GoneFacts, At
    <3>3. /\ d \in {"deleteStacks", "deleteRound"} => roundFailed' \/ NoneLeft
          /\ d = "stacksLeft" => NoneLeft
          /\ d = "delete" => MainGone
          /\ d = "removeVolumes" => volumes' = "none"
      BY <1>8, <2>6
    <3> HIDE DEF d
    <3>4. CASE d = "removeVolumes"
      <4>1. AllGone'
        BY <2>2, <3>2, <3>3, <3>4 DEF AllGone
      <4> QED
        BY <2>4, <3>4, <4>1 DEF GoneFacts, At
    <3>5. CASE d = "delete"
      <4>1. todo' # <<>> /\ todo'[1].do = "removeVolumes"
        BY <2>4, <3>5, NotDone, Firsts
      <4> QED
        BY <2>2, <3>2, <3>3, <3>5, <4>1 DEF GoneFacts, At, Now
    <3>6. CASE d = "interfaces"
      <4>1. todo' # <<>> /\ todo'[1].do = "delete"
        BY <2>4, <3>6, NotDone, Firsts
      <4> QED
        BY <2>2, <3>2, <3>6, <4>1 DEF GoneFacts, At, Now
    <3>7. CASE d = "stacksLeft"
      <4>1. todo' # <<>> /\ todo'[1].do \in {"interfaces", "delete"}
        BY <2>4, <3>7, NotDone, Firsts
      <4> QED
        BY <2>2, <3>3, <3>7, <4>1 DEF GoneFacts, At, Now
    <3>8. CASE d \in {"deleteRound", "deleteStacks"}
      <4>1. todo' # <<>> /\ todo'[1].do = "stacksLeft"
        BY <2>4, <3>8, NotDone, Firsts
      <4> QED
        BY <2>2, <3>3, <3>8, <4>1 DEF GoneFacts, At, Now
    <3>9. CASE d \in {"awaitTerminated", "terminate", "downscale", "details"}
      <4>1. todo' \in {T4, T5, T6, T7}
        BY <2>4, <3>9
      <4>2. todo' # <<>>
        BY <4>1, NotDone
      <4>3. todo'[1].do \in {"deleteStacks", "awaitTerminated", "terminate", "downscale"}
        BY <4>1, Firsts
      <4> QED
        BY <4>2, <4>3 DEF GoneFacts, At, Now
    <3> QED
      BY <2>4, <3>4, <3>5, <3>6, <3>7, <3>8, <3>9 DEF DecommissionDos
  <2> QED
    BY <2>5, <2>6
<1>9. GoneInv'
  BY <1>1, <1>8 DEF GoneInv
<1> QED
  BY <1>4, <1>5, <1>6, <1>7, <1>9 DEF IInv, Stages

-----------------------------------------------------------------------------
(* One action after the other *)

\* The step at hand is one of the provider's.
LEMMA WhatIsAtHand ==
    ASSUME IInv, outcome = "active", todo # <<>>
    PROVE  /\ C.gone => Now.do \in DecommissionDos
           /\ ~C.gone => Now.do \in ProvisionDos
<1>1. 1 \in 1..Len(todo)
  BY TailOfTodo DEF IInv
<1>2. ~C.gone => Now.do \in ProvisionDos
  BY <1>1 DEF IInv, Stages, ProvisionInv, Now
<1>3. C.gone => Now.do \in DecommissionDos
  BY Shapes DEF IInv, Stages, GoneInv
<1> QED
  BY <1>2, <1>3

\* Steps that change no stack and that nothing in the invariant is about.
LEMMA PlainKeeps ==
    ASSUME IInv, NEW d, At(d),
           d \notin {"apply", "delete", "deleteRound", "prepareForRemoval", "downscale",
                     "deleteStacks", "stacksLeft", "removeVolumes"},
           Proceed(<<>>), SameAttempt,
           UNCHANGED <<cf, job, provider, plan, current, controllers>>,
           nodes' \in [Pools -> Nat], StillEmpty
    PROVE  IInv'
<1>1. outcome = "active" /\ todo # <<>> /\ Now.do = d /\ ~Working
  BY DEF At, Working
<1>2. todo' = Tail(todo)
  BY <1>1, TailOfTodo DEF IInv, Proceed
<1>3. job' \in [Stack -> {"idle"}]
  BY <1>1, NobodyWorks DEF IInv, TypeOK
<1>4. roundFailed' \in BOOLEAN
  BY DEF IInv, TypeOK, SameAttempt
<1> QED
  BY <1>1, <1>2, <1>3, <1>4, Proceeded DEF SameAttempt

LEMMA PlainStepsKeep ==
    ASSUME IInv,
           \/ Prepare \/ CreationHook \/ WaitForAPIServer \/ DeleteLeakedENIs \/ DeleteObjects
           \/ ApplyObject \/ ApplyKarpenter \/ ReconcileKarpenter \/ Terminate \/ AwaitTerminated
    PROVE  IInv'
<1>1. PICK d \in {"prepare", "hook", "ready", "interfaces", "deleteObjects", "applyObject",
                  "applyKarpenter", "removeNodePools", "prepareObsolete", "removeNodeClasses",
                  "terminate", "awaitTerminated"} :
          /\ At(d) /\ Proceed(<<>>) /\ SameAttempt
          /\ UNCHANGED <<cf, job, provider, plan, current, controllers, nodes>>
  BY DEF Prepare, CreationHook, WaitForAPIServer, DeleteLeakedENIs, Plain, DeleteObjects,
     ApplyObject, ApplyKarpenter, ReconcileKarpenter, Terminate, AwaitTerminated, config, world
<1>2. nodes' \in [Pools -> Nat] /\ StillEmpty
  BY <1>1 DEF IInv, TypeOK, StillEmpty
<1> QED
  BY <1>1, <1>2, PlainKeeps

LEMMA UpdateNodesKeeps == ASSUME IInv, UpdateNodes PROVE IInv'
<1>1. nodes' \in [Pools -> Nat]
  <2>1. \A p \in Pools : cf[p].tmpl \in Nat /\ nodes[p] \in Nat
    BY FiniteFacts DEF IInv, TypeOK, StackRecord
  <2> QED
    BY <2>1 DEF UpdateNodes
<1>2. StillEmpty
  BY DEF UpdateNodes, StillEmpty
<1>3. /\ At("updateNodes") /\ Proceed(<<>>) /\ SameAttempt
      /\ UNCHANGED <<cf, job, provider, plan, current, controllers>>
  BY DEF UpdateNodes, config
<1> QED
  BY <1>1, <1>2, <1>3, PlainKeeps

LEMMA PrepareForRemovalKeeps == ASSUME IInv, PrepareForRemoval PROVE IInv'
<1>1. outcome = "active" /\ todo # <<>> /\ Now.do = "prepareForRemoval" /\ ~Working
      /\ Proceed(<<>>) /\ SameAttempt
      /\ UNCHANGED <<cf, job, provider, plan, current, controllers>>
  BY DEF PrepareForRemoval, At, Working, config
<1>2. nodes' \in [Pools -> Nat] /\ StillEmpty /\ \A p \in Pools \cap Now.on : nodes'[p] = 0
  BY DEF PrepareForRemoval, IInv, TypeOK, StillEmpty
<1>3. todo' = Tail(todo)
  BY <1>1, TailOfTodo DEF IInv, Proceed
<1>4. job' \in [Stack -> {"idle"}] /\ roundFailed' \in BOOLEAN
  BY <1>1, NobodyWorks DEF IInv, TypeOK, SameAttempt
<1> QED
  BY <1>1, <1>2, <1>3, <1>4, Proceeded DEF SameAttempt

LEMMA DownscaleKeeps == ASSUME IInv, Downscale PROVE IInv'
<1>1. outcome = "active" /\ todo # <<>> /\ Now.do = "downscale" /\ ~Working
      /\ Proceed(<<>>) /\ SameAttempt
      /\ UNCHANGED <<cf, job, provider, plan, current, nodes>>
  BY DEF Downscale, At, Working, config
<1>2. controllers' = controllers \/ (Now.do = "downscale" /\ controllers' = FALSE)
  BY <1>1 DEF Downscale
<1>3. todo' = Tail(todo)
  BY <1>1, TailOfTodo DEF IInv, Proceed
<1>4. job' \in [Stack -> {"idle"}] /\ roundFailed' \in BOOLEAN /\ nodes' \in [Pools -> Nat] /\ StillEmpty
  BY <1>1, NobodyWorks DEF IInv, TypeOK, SameAttempt, StillEmpty
<1> QED
  BY <1>1, <1>2, <1>3, <1>4, Proceeded DEF SameAttempt

LEMMA RemoveVolumesKeeps == ASSUME IInv, RemoveVolumes PROVE IInv'
<1>1. outcome = "active" /\ todo # <<>> /\ Now.do = "removeVolumes" /\ ~Working
      /\ Proceed(<<>>) /\ SameAttempt /\ volumes' = "none"
      /\ UNCHANGED <<cf, job, provider, plan, current, nodes, controllers>>
  BY DEF RemoveVolumes, At, Working, config
<1>2. todo' = Tail(todo)
  BY <1>1, TailOfTodo DEF IInv, Proceed
<1>3. job' \in [Stack -> {"idle"}] /\ roundFailed' \in BOOLEAN /\ nodes' \in [Pools -> Nat] /\ StillEmpty
  BY <1>1, NobodyWorks DEF IInv, TypeOK, SameAttempt, StillEmpty
<1> QED
  BY <1>1, <1>2, <1>3, Proceeded DEF SameAttempt

\* The steps of a decommissioning that do more than take the next one.
LEMMA GoneMoves ==
    ASSUME IInv, outcome = "active", C.gone, ~Working,
           GoneShape', ~controllers => GoneFacts', todo' \in Seq(StepSet), roundFailed' \in BOOLEAN,
           UNCHANGED <<cf, job, provider, plan, current, applied, outcome, controllers, nodes>>
    PROVE  IInv'
<1>1. PlanInv' /\ C' = C
  BY PlanKept DEF IInv
<1>2. TypeOK' /\ NoneInv'
  BY DEF IInv, TypeOK, NoneInv
<1>3. JobInv'
  BY NobodyWorks DEF IInv, JobInv
<1>4. Stages'
  BY <1>1 DEF Stages, ProvisionInv, GoneInv
<1> QED
  BY <1>1, <1>2, <1>3, <1>4 DEF IInv

LEMMA DetailsKeeps == ASSUME IInv, Details PROVE IInv'
<1>1. At("details") /\ UNCHANGED <<cf, job, provider, plan, current, controllers, nodes>>
  BY DEF Details, config, world
<1>2. CASE Proceed(<<>>) /\ SameAttempt
  <2>1. nodes' \in [Pools -> Nat] /\ StillEmpty
    BY <1>1 DEF IInv, TypeOK, StillEmpty
  <2> QED
    BY <1>1, <1>2, <2>1, PlainKeeps
<1>3. CASE Succeed
  <2>1. outcome = "active" /\ todo # <<>> /\ Now.do = "details" /\ ~Working
    BY <1>1 DEF At, Working
  <2>2. C.gone
    BY <2>1, WhatIsAtHand DEF ProvisionDos
  <2>3. provider # "aws"
    <3>1. GoneShape
      BY <2>1, <2>2 DEF IInv, Stages, GoneInv
    <3>2. CASE provider # "eks"
      BY <2>1, <3>1, <3>2, DecommissionOrder, StepDo DEF GoneShape, Now, Round
    <3> QED
      BY <3>2
  <2>4. todo' = <<>> /\ UNCHANGED <<applied, outcome, roundFailed>>
    BY <1>3 DEF Succeed, SameAttempt
  <2>5. GoneShape' /\ GoneFacts'
    BY <1>1, <2>3, <2>4 DEF GoneShape, GoneFacts, AllGone, At
  <2>6. todo' \in Seq(StepSet) /\ roundFailed' \in BOOLEAN
    BY <2>4, EmptySeq DEF IInv, TypeOK
  <2> QED
    BY <1>1, <2>1, <2>2, <2>4, <2>5, <2>6, GoneMoves
<1> QED
  BY <1>2, <1>3 DEF Details

LEMMA TerminateFailsKeeps == ASSUME IInv, TerminateFails PROVE IInv'
<1>1. /\ outcome = "active" /\ todo # <<>> /\ Now.do \in {"terminate", "awaitTerminated"} /\ ~Working
      /\ UNCHANGED <<cf, job, provider, plan, current, controllers, nodes>> /\ SameAttempt
      /\ todo' = IF Now.do = "terminate" THEN Tail(Tail(todo)) ELSE Tail(todo)
  BY DEF TerminateFails, At, Working, config, world
<1>2. C.gone
  BY <1>1, WhatIsAtHand DEF ProvisionDos
<1>3. todo' = T4
  <2>1. GoneShape
    BY <1>1, <1>2 DEF IInv, Stages, GoneInv
  <2>2. /\ Now.do = "terminate" => Tail(todo) = T5
        /\ Now.do = "awaitTerminated" => Tail(todo) = T4
    BY <1>1, <2>1, Shapes DEF IInv
  <2>3. Tail(T5) = T4
    BY DecommissionOrder
  <2> QED
    BY <1>1, <2>2, <2>3
<1>4. GoneShape' /\ GoneFacts'
  <2>1. T4' = T4
    BY <1>1, SameShapes
  <2>2. todo' # <<>> /\ todo'[1].do = "deleteStacks"
    BY <1>3, Firsts, DecommissionOrder
  <2> QED
    BY <1>3, <2>1, <2>2 DEF GoneShape, GoneFacts, At, Now
<1>5. todo' \in Seq(StepSet) /\ roundFailed' \in BOOLEAN
  BY <1>1, <1>3, DecommissionOrder DEF IInv, TypeOK, SameAttempt
<1> QED
  BY <1>1, <1>2, <1>4, <1>5, GoneMoves DEF SameAttempt

LEMMA DeleteClusterStacksKeeps == ASSUME IInv, DeleteClusterStacks PROVE IInv'
<1> DEFINE r == [Step("deleteRound", ClusterStacks) EXCEPT !.listed = Listed(ClusterStacks)]
<1>1. /\ outcome = "active" /\ todo # <<>> /\ Now.do = "deleteStacks" /\ ~Working
      /\ UNCHANGED <<cf, job, provider, plan, current, controllers, nodes>> /\ SameAttempt
      /\ todo' = <<r>> \o Tail(todo)
  BY DEF DeleteClusterStacks, At, Working, config, world, Proceed
<1>2. C.gone
  BY <1>1, WhatIsAtHand DEF ProvisionDos
<1>3. Tail(todo) = T3
  BY <1>1, <1>2, Shapes DEF IInv, Stages, GoneInv
<1>4. ClusterStacks \subseteq Owned /\ Owned \subseteq Things
  BY DEF ClusterStacks, ListStacks, Owned, Things
<1>5. r \in StepSet /\ r.do = "deleteRound" /\ r.on = ClusterStacks
  <2>1. Listed(ClusterStacks) \in [ClusterStacks -> Statuses \cup {""}]
    <3>1. \A s \in ClusterStacks : s \in Stack
      BY <1>4 DEF Owned
    <3>2. \A s \in Stack : cf[s].st \in Statuses
      BY DEF IInv, TypeOK, StackRecord
    <3> QED
      BY <3>1, <3>2 DEF Listed
  <2>2. "deleteRound" \in ProvisionDos \cup DecommissionDos /\ ClusterStacks \in SUBSET Things
    BY <1>4 DEF DecommissionDos
  <2>3. Listed(ClusterStacks) \in ListedSet
    BY <2>1, <2>2, ListedType
  <2> QED
    BY <2>2, <2>3 DEF Step, StepSet
<1>6. todo' \in Seq(StepSet) /\ todo' # <<>> /\ todo'[1] = r /\ Tail(todo') = T3
  <2>1. T3 \in Seq(StepSet)
    BY DecommissionOrder
  <2>2. todo' = <<r>> \o T3 /\ r \in StepSet
    BY <1>1, <1>3, <1>5
  <2> HIDE DEF r
  <2> QED
    BY <2>1, <2>2, Prepend
<1> HIDE DEF r
<1>7. GoneShape' /\ GoneFacts'
  <2>1. T3' = T3 /\ ClusterStacks' = ClusterStacks
    BY <1>1, SameShapes DEF ClusterStacks, ListStacks, Exists, Owned
  <2>2. Round'
    BY <1>4, <1>5, <1>6, <2>1 DEF Round, Now
  <2> QED
    BY <1>5, <1>6, <2>2 DEF GoneShape, GoneFacts, At, Now
<1>8. roundFailed' \in BOOLEAN
  BY <1>1 DEF IInv, TypeOK, SameAttempt
<1> QED
  BY <1>1, <1>2, <1>6, <1>7, <1>8, GoneMoves DEF SameAttempt

LEMMA StacksLeftKeeps == ASSUME IInv, StacksLeft PROVE IInv'
<1> DEFINE a == Step("deleteStacks", {})
           b == Step("stacksLeft", {})
<1>1. /\ outcome = "active" /\ todo # <<>> /\ Now.do = "stacksLeft" /\ At("stacksLeft") /\ ~Working
      /\ UNCHANGED <<cf, job, provider, plan, current, controllers, nodes>>
  BY DEF StacksLeft, At, Working, config, world
<1>2. C.gone
  BY <1>1, WhatIsAtHand DEF ProvisionDos
<1>3. Tail(todo) = T2 /\ (~controllers => GoneFacts)
  BY <1>1, <1>2, Shapes DEF IInv, Stages, GoneInv
<1>4. job' \in [Stack -> {"idle"}]
  BY <1>1, NobodyWorks DEF IInv, TypeOK
<1>5. CASE Proceed(<<a, b>>) /\ UNCHANGED <<applied, outcome, roundFailed>>
  <2>1. todo' = T4
    <3>1. a \in StepSet /\ b \in StepSet /\ T2 \in Seq(StepSet)
      BY StepType, DecommissionOrder DEF DecommissionDos, Things
    <3>2. T4 = <<a>> \o (<<b>> \o T2)
      BY DEF T4, T3
    <3>3. todo' = <<a, b>> \o T2
      BY <1>3, <1>5 DEF Proceed
    <3> HIDE DEF a, b
    <3>4. <<a, b>> = <<a>> \o <<b>>
      BY <3>1, TupleOfTwo
    <3>5. (<<a>> \o <<b>>) \o T2 = <<a>> \o (<<b>> \o T2)
      <4>1. <<a>> \in Seq(StepSet) /\ <<b>> \in Seq(StepSet)
        BY <3>1
      <4> QED
        BY <3>1, <4>1, ConcatAssociative
    <3> QED
      BY <3>2, <3>3, <3>4, <3>5
  <2>2. GoneShape' /\ GoneFacts'
    <3>1. T4' = T4
      BY <1>1, SameShapes
    <3>2. todo' # <<>> /\ todo'[1].do = "deleteStacks"
      BY <2>1, Firsts, DecommissionOrder
    <3> QED
      BY <2>1, <3>1, <3>2 DEF GoneShape, GoneFacts, At, Now
  <2>3. todo' \in Seq(StepSet) /\ roundFailed' \in BOOLEAN
    BY <1>5, <2>1, DecommissionOrder DEF IInv, TypeOK
  <2> QED
    BY <1>1, <1>2, <1>5, <2>2, <2>3, GoneMoves
<1>6. CASE Fail
  BY <1>1, <1>4, <1>6, FailedKeeps DEF Fail
<1>7. CASE ~roundFailed /\ Proceed(<<>>) /\ SameAttempt
  <2>1. ~controllers => NoneLeft
    BY <1>1, <1>3, <1>7 DEF GoneFacts
  <2>2. todo' = Tail(todo)
    BY <1>1, <1>7, TailOfTodo DEF IInv, Proceed
  <2>3. nodes' \in [Pools -> Nat] /\ roundFailed' \in BOOLEAN /\ StillEmpty
    BY <1>1, <1>7 DEF IInv, TypeOK, SameAttempt, StillEmpty
  <2> QED
    BY <1>1, <1>4, <1>7, <2>1, <2>2, <2>3, Proceeded DEF SameAttempt
<1> QED
  BY <1>5, <1>6, <1>7 DEF StacksLeft

LEMMA Halves ==
    ASSUME NEW n \in Nat, NEW i \in 1..(2 * n)
    PROVE  /\ (i + 1) \div 2 \in 1..n
           /\ i % 2 # 1 => /\ i - 1 \in 1..(2 * n) /\ (i - 1) % 2 = 1
                           /\ ((i - 1) + 1) \div 2 = (i + 1) \div 2
<1>1. PICK k \in Nat : i = 2 * k \/ i = 2 * k + 1
  <2>1. i = (2 * (i \div 2)) + (i % 2) /\ i \div 2 \in Nat /\ i % 2 \in {0, 1}
    OBVIOUS
  <2> QED
    BY <2>1
<1>2. CASE i = 2 * k
  <2>1. i % 2 = 0 /\ (i + 1) \div 2 = k /\ ((i - 1) + 1) \div 2 = k /\ (i - 1) % 2 = 1 /\ k >= 1 /\ k <= n
    BY <1>2
  <2> QED
    BY <1>2, <2>1
<1>3. CASE i = 2 * k + 1
  <2>1. i % 2 = 1 /\ (i + 1) \div 2 = k + 1 /\ k + 1 <= n
    BY <1>3
  <2> QED
    BY <2>1
<1> QED
  BY <1>1, <1>2, <1>3

\* The steps that remove the stacks of removed pools: each pool is emptied, then
\* its stack deleted.
LEMMA Removals ==
    ASSUME IInv, Reconcile
    PROVE  \E L \in Seq(StepSet) :
              /\ todo' = L \o Tail(todo)
              /\ \A i \in 1..Len(L) : \E p \in Orphaned :
                    /\ L[i].on = {p}
                    /\ \/ L[i].do = "prepareForRemoval"
                       \/ /\ L[i].do = "delete" /\ i - 1 \in 1..Len(L)
                          /\ L[i - 1].do = "prepareForRemoval" /\ L[i - 1].on = {p}
              /\ \A p \in Orphaned : \E i \in 1..Len(L) : L[i].do = "delete" /\ L[i].on = {p}
<1> DEFINE n == Cardinality(Orphaned)
           q(i) == SetToSeq(Orphaned)[(i + 1) \div 2]
           prep(p) == Step("prepareForRemoval", {p})
           del(p) == [Step("delete", {p}) EXCEPT !.listed = Listed({p})]
           L == [i \in 1..(2 * n) |-> IF i % 2 = 1 THEN prep(q(i)) ELSE del(q(i))]
<1>1. todo' = L \o Tail(todo)
  <2>1. todo' = [i \in 1..(2 * n) |-> RemovePool(q(i))[IF i % 2 = 1 THEN 1 ELSE 2]] \o Tail(todo)
    BY DEF Reconcile, Proceed
  <2>2. \A p : RemovePool(p)[1] = prep(p) /\ RemovePool(p)[2] = del(p)
    BY DEF RemovePool
  <2> QED
    BY <2>1, <2>2
<1>2. Orphaned \subseteq Pools \ C.pools /\ IsFiniteSet(Orphaned) /\ n \in Nat
  <2>1. Orphaned \subseteq Pools \ C.pools /\ Orphaned \subseteq Stack
    BY FiniteFacts DEF Orphaned, ListStacks
  <2> QED
    BY <2>1, FiniteFacts, FS_Subset, FS_CardinalityType
<1>3. \A i \in 1..(2 * n) : q(i) \in Orphaned
  BY <1>2, Halves, SetToSeqElement
<1>4. ASSUME NEW p \in Orphaned
      PROVE  /\ prep(p) \in StepSet /\ prep(p).do = "prepareForRemoval" /\ prep(p).on = {p}
             /\ del(p) \in StepSet /\ del(p).do = "delete" /\ del(p).on = {p}
  <2>1. {p} \in SUBSET Things /\ p \in Stack
    BY <1>2, FiniteFacts DEF Things
  <2>2. "prepareForRemoval" \in ProvisionDos /\ "delete" \in ProvisionDos
    BY DEF ProvisionDos
  <2>3. Listed({p}) \in [{p} -> Statuses \cup {""}]
    BY <2>1 DEF Listed, IInv, TypeOK, StackRecord
  <2>4. Listed({p}) \in ListedSet
    BY <2>1, <2>3, ListedType
  <2>5. prep(p) \in StepSet /\ prep(p).do = "prepareForRemoval" /\ prep(p).on = {p}
    BY <2>1, <2>2, StepType
  <2>6. del(p) \in StepSet /\ del(p).do = "delete" /\ del(p).on = {p}
    BY <2>1, <2>2, <2>4 DEF Step, StepSet
  <2> QED
    BY <2>5, <2>6
<1>5. \A i \in 1..(2 * n) : L[i] = IF i % 2 = 1 THEN prep(q(i)) ELSE del(q(i))
  OBVIOUS
<1> HIDE DEF prep, del
<1>6. L \in Seq(StepSet) /\ Len(L) = 2 * n
  <2>1. L \in [1..(2 * n) -> StepSet]
    BY <1>3, <1>4
  <2>2. 2 * n \in Nat
    BY <1>2
  <2>3. L \in Seq(StepSet)
    <3>1. PICK k \in Nat : k = 2 * n
      BY <2>2
    <3>2. L \in [1..k -> StepSet]
      BY <2>1, <3>1
    <3> HIDE DEF L
    <3> QED
      BY <3>2, SeqDef
  <2>4. DOMAIN L = 1..(2 * n) /\ DOMAIN L = 1..Len(L) /\ Len(L) \in Nat
    BY <2>3, LenProperties
  <2> QED
    BY <2>2, <2>3, <2>4
<1>7. \A i \in 1..(2 * n) :
         L[i].do = (IF i % 2 = 1 THEN "prepareForRemoval" ELSE "delete") /\ L[i].on = {q(i)}
  BY <1>3, <1>4, <1>5
<1>8. \A i \in 1..(2 * n) : i % 2 # 1 => i - 1 \in 1..(2 * n) /\ (i - 1) % 2 = 1 /\ q(i - 1) = q(i)
  BY <1>2, Halves
<1>9. ASSUME NEW p \in Orphaned PROVE \E i \in 1..(2 * n) : L[i].do = "delete" /\ L[i].on = {p}
  <2>1. PICK k \in 1..n : SetToSeq(Orphaned)[k] = p
    BY <1>2, SetToSeqAll
  <2>2. 2 * k \in 1..(2 * n) /\ (2 * k) % 2 = 0 /\ (2 * k + 1) \div 2 = k
    BY <1>2
  <2>3. L[2 * k].do = "delete" /\ L[2 * k].on = {p}
    BY <1>7, <2>1, <2>2
  <2> QED
    BY <2>2, <2>3
<1> HIDE DEF n, q, L
<1>10. ASSUME NEW i \in 1..(2 * n)
       PROVE  \E p \in Orphaned :
                 /\ L[i].on = {p}
                 /\ \/ L[i].do = "prepareForRemoval"
                    \/ /\ L[i].do = "delete" /\ i - 1 \in 1..(2 * n)
                       /\ L[i - 1].do = "prepareForRemoval" /\ L[i - 1].on = {p}
  <2>1. q(i) \in Orphaned /\ L[i].on = {q(i)}
    BY <1>3, <1>7
  <2>2. CASE i % 2 = 1
    BY <1>7, <2>1, <2>2
  <2>3. CASE i % 2 # 1
    <3>1. L[i].do = "delete" /\ i - 1 \in 1..(2 * n) /\ (i - 1) % 2 = 1 /\ q(i - 1) = q(i)
      BY <1>7, <1>8, <2>3
    <3>2. L[i - 1].do = "prepareForRemoval" /\ L[i - 1].on = {q(i)}
      BY <1>7, <3>1
    <3> QED
      BY <2>1, <3>1, <3>2
  <2> QED
    BY <2>2, <2>3
<1>11. /\ \A i \in 1..Len(L) : \E p \in Orphaned :
             /\ L[i].on = {p}
             /\ \/ L[i].do = "prepareForRemoval"
                \/ /\ L[i].do = "delete" /\ i - 1 \in 1..Len(L)
                   /\ L[i - 1].do = "prepareForRemoval" /\ L[i - 1].on = {p}
       /\ \A p \in Orphaned : \E i \in 1..Len(L) : L[i].do = "delete" /\ L[i].on = {p}
  <2>1. Len(L) = 2 * n
    BY <1>6
  <2> QED
    BY <1>9, <1>10, <2>1, Zenon
<1> QED
  BY <1>1, <1>6, <1>11

LEMMA ReconcileKeeps == ASSUME IInv, Reconcile PROVE IInv'
<1>1. /\ outcome = "active" /\ todo # <<>> /\ Now.do = "reconcile" /\ ~Working /\ SameAttempt
      /\ UNCHANGED <<cf, job, provider, plan, current, controllers, nodes>>
  BY DEF Reconcile, At, Working, config, world
<1>2. ~C.gone /\ C \in Config
  BY <1>1, WhatIsAtHand, CurrentConfig DEF DecommissionDos, IInv
<1>3. PICK L \in Seq(StepSet) :
         /\ todo' = L \o Tail(todo)
         /\ \A i \in 1..Len(L) : \E p \in Orphaned :
               /\ L[i].on = {p}
               /\ \/ L[i].do = "prepareForRemoval"
                  \/ /\ L[i].do = "delete" /\ i - 1 \in 1..Len(L)
                     /\ L[i - 1].do = "prepareForRemoval" /\ L[i - 1].on = {p}
  BY Removals
<1>4. Orphaned \subseteq Pools \ C.pools
  BY DEF Orphaned, ListStacks
<1>5. /\ Tail(todo) \in Seq(StepSet) /\ Len(todo) \in Nat \ {0} /\ Len(Tail(todo)) = Len(todo) - 1
      /\ \A i \in 1..Len(Tail(todo)) : Tail(todo)[i] = todo[i + 1]
  BY <1>1, TailOfTodo DEF IInv
<1> DEFINE n == Len(L)
           t == Tail(todo)
<1>6. /\ n \in Nat /\ todo' \in Seq(StepSet) /\ Len(todo') = n + Len(t)
      /\ \A i \in 1..n : todo'[i] = L[i]
      /\ \A i \in 1..Len(todo') : i \notin 1..n => i - n \in 1..Len(t) /\ i = n + (i - n)
      /\ \A m \in 1..Len(t) : todo'[n + m] = t[m]
  <2>1. t \in Seq(StepSet) /\ todo' = L \o t
    BY <1>3, <1>5
  <2> HIDE DEF t
  <2> QED
    BY <2>1, Joined
<1>7. C' = C /\ PlanInv'
  BY <1>1, PlanKept DEF IInv, SameAttempt
<1>8. ASSUME NEW i \in 1..Len(todo')
      PROVE  /\ todo'[i].do \in ProvisionDos
             /\ \A p \in Pools \ (C.preStacks \cup C.postStacks) :
                   todo'[i].do = "delete" /\ p \in todo'[i].on => p \notin C.pools /\ Emptied(p, i)'
  <2>1. CASE i \in 1..n
    <3>1. PICK p \in Orphaned :
             /\ L[i].on = {p}
             /\ \/ L[i].do = "prepareForRemoval"
                \/ /\ L[i].do = "delete" /\ i - 1 \in 1..n
                   /\ L[i - 1].do = "prepareForRemoval" /\ L[i - 1].on = {p}
      BY <1>3, <2>1
    <3>2. CASE L[i].do = "prepareForRemoval"
      BY <1>6, <2>1, <3>2 DEF ProvisionDos
    <3>3. CASE /\ L[i].do = "delete" /\ i - 1 \in 1..n
               /\ L[i - 1].do = "prepareForRemoval" /\ L[i - 1].on = {p}
      <4>1. todo'[i].do = "delete" /\ todo'[i].on = {p}
        BY <1>6, <2>1, <3>1, <3>3
      <4>2. todo'[i - 1].do = "prepareForRemoval" /\ todo'[i - 1].on = {p} /\ i - 1 \in 1..(i - 1)
        BY <1>6, <3>3
      <4>3. Emptied(p, i)'
        BY <4>2 DEF Emptied
      <4> QED
        BY <1>4, <4>1, <4>3 DEF ProvisionDos
    <3> QED
      BY <3>1, <3>2, <3>3
  <2>2. CASE i \notin 1..n
    <3> DEFINE m == i - n
    <3>1. m \in 1..Len(t) /\ i = n + m
      BY <1>6, <2>2
    <3> HIDE DEF m
    <3>2. todo'[i] = todo[m + 1] /\ m + 1 \in 1..Len(todo) /\ m \in Nat
      BY <1>5, <1>6, <3>1
    <3>3. /\ todo[m + 1].do \in ProvisionDos
          /\ \A p \in Pools \ (C.preStacks \cup C.postStacks) :
                todo[m + 1].do = "delete" /\ p \in todo[m + 1].on
                    => p \notin C.pools /\ Emptied(p, m + 1)
      BY <1>1, <1>2, <3>2 DEF IInv, Stages, ProvisionInv
    <3>4. ASSUME NEW p, Emptied(p, m + 1) PROVE Emptied(p, i)'
      <4>1. CASE nodes[p] = 0
        BY <1>1, <4>1 DEF Emptied
      <4>2. ASSUME NEW j \in 1..((m + 1) - 1), todo[j].do = "prepareForRemoval", p \in todo[j].on
            PROVE  Emptied(p, i)'
        <5>1. j # 1
          BY <1>1, <4>2 DEF Now
        <5>2. j - 1 \in 1..Len(t) /\ (j - 1) + 1 = j /\ n + (j - 1) \in 1..(i - 1)
          BY <1>5, <1>6, <3>1, <3>2, <5>1
        <5>3. todo'[n + (j - 1)] = todo[j]
          BY <1>5, <1>6, <5>2
        <5> QED
          BY <4>2, <5>2, <5>3 DEF Emptied
      <4> QED
        BY <3>4, <4>1, <4>2 DEF Emptied
    <3> QED
      BY <3>2, <3>3, <3>4
  <2> QED
    BY <2>1, <2>2
<1>9. Stages'
  BY <1>1, <1>2, <1>7, <1>8 DEF Stages, ProvisionInv, GoneInv, SameAttempt
<1>10. TypeOK' /\ NoneInv'
  BY <1>1, <1>6 DEF IInv, TypeOK, NoneInv, SameAttempt
<1>11. JobInv'
  BY <1>1, NobodyWorks DEF IInv, JobInv
<1> QED
  BY <1>7, <1>9, <1>10, <1>11 DEF IInv

\* The goroutine of a stack takes a step.
LEMMA JobKeeps ==
    ASSUME IInv, NEW s \in Stack, NEW pc, NEW rec, JobMove(s, pc, rec),
           job' = [job EXCEPT ![s] = pc], cf' = [cf EXCEPT ![s] = rec],
           UNCHANGED <<config, attempt, world>>
    PROVE  IInv'
<1>0. UNCHANGED <<provider, plan, current, applied, todo, outcome, roundFailed, controllers, nodes, volumes>>
  BY DEF config, attempt, world
<1>1. PlanInv' /\ C' = C
  BY <1>0, PlanKept DEF IInv
<1>2. job'[s] = pc /\ cf'[s] = rec /\ \A r \in Stack \ {s} : job'[r] = job[r] /\ cf'[r] = cf[r]
  BY DEF IInv, TypeOK
<1>3. pc \in Applying \cup Deleting \cup Ended
  BY DEF JobMove
<1>4. TypeOK'
  <2>1. job' \in [Stack -> JobStates]
    BY <1>3 DEF IInv, TypeOK, JobStates
  <2>2. cf' \in [Stack -> StackRecord]
    BY DEF IInv, TypeOK, JobMove
  <2> QED
    BY <1>0, <2>1, <2>2 DEF IInv, TypeOK
<1>5. NoneInv'
  BY <1>2 DEF IInv, NoneInv, JobMove
<1>6. job[s] # "idle" /\ Working /\ s \in Now.on
      /\ (job[s] \in Applying => Now.do = "apply")
      /\ (job[s] \in Deleting => Now.do \in {"delete", "deleteRound"})
  <2>1. job[s] # "idle"
    BY DEF JobMove, Applying, Deleting
  <2> QED
    BY <2>1 DEF IInv, JobInv
<1>7. C.gone => job[s] \in Deleting
  <2>1. outcome = "active" /\ todo # <<>>
    BY <1>6 DEF Working, At
  <2>2. C.gone => Now.do # "apply"
    BY <2>1, WhatIsAtHand DEF DecommissionDos
  <2> QED
    BY <1>6, <2>2 DEF JobMove
<1>8. Now' = Now /\ Working' = Working /\ controllers' = controllers
  BY <1>0 DEF Now, Working, At
<1>9. JobInv'
  <2> SUFFICES ASSUME NEW r \in Stack, job'[r] # "idle"
               PROVE  /\ Working /\ r \in Now.on
                      /\ job'[r] \in Applying => Now.do = "apply"
                      /\ job'[r] \in Deleting => Now.do \in {"delete", "deleteRound"}
                      /\ job'[r] = "ok" /\ C.gone /\ ~controllers => cf'[r].st = "NONE"
    BY <1>1, <1>8 DEF JobInv
  <2>1. CASE r # s
    BY <1>2, <2>1 DEF IInv, JobInv
  <2>2. CASE r = s
    <3>1. /\ pc \in Applying => job[s] \in Applying
          /\ pc \in Deleting => job[s] \in Deleting
      BY DEF JobMove, Applying, Deleting, Ended
    <3>2. pc = "ok" /\ C.gone => rec.st = "NONE"
      BY <1>7 DEF JobMove
    <3> QED
      BY <1>2, <1>6, <2>2, <3>1, <3>2
  <2> QED
    BY <2>1, <2>2
<1>10. Stages'
  <2>1. \A r \in Stack : cf[r].st = "NONE" => cf'[r].st = "NONE" \/ controllers \/ ~C.gone
    <3>1. C.gone => job[s] # "create"
      BY <1>7 DEF Deleting
    <3> QED
      BY <1>2, <3>1 DEF JobMove
  <2>2. StillEmpty
    BY <1>0 DEF StillEmpty
  <2> QED
    BY <1>0, <2>1, <2>2, AttemptWaits
<1> QED
  BY <1>1, <1>4, <1>5, <1>9, <1>10 DEF IInv

LEMMA RunJobKeeps == ASSUME IInv, RunJob \/ AnyJobFails PROVE IInv'
<1>1. C.version \in Nat
  BY CurrentConfig DEF IInv, Config, Templates
<1>2. PICK s \in Stack : JobStep(s, C.version) \/ DeletionTimesOut(s) \/ JobFails(s)
  BY DEF RunJob, AnyJobFails
<1>3. PICK pc, rec : /\ job' = [job EXCEPT ![s] = pc] /\ cf' = [cf EXCEPT ![s] = rec]
                     /\ JobMove(s, pc, rec)
  BY <1>1, <1>2, JobMoves DEF IInv
<1>4. UNCHANGED <<config, attempt, world>>
  BY DEF RunJob, AnyJobFails
<1> QED
  BY <1>3, <1>4, JobKeeps

LEMMA BeginJobsKeeps == ASSUME IInv, BeginJobs PROVE IInv'
<1>0. /\ Working
      /\ UNCHANGED <<cf, provider, plan, current, applied, todo, outcome, roundFailed, controllers, nodes, volumes>>
  BY DEF BeginJobs, config, attempt, world
<1>1. PlanInv' /\ C' = C
  BY <1>0, PlanKept DEF IInv
<1>2. \A s \in Stack : job'[s] = IF s \notin Now.on THEN "idle"
                                 ELSE IF Now.do = "apply" THEN "create" ELSE DeleteEntry(Now.listed[s])
  BY DEF BeginJobs
<1>3. \A l : DeleteEntry(l) \in {"waitForeignDeletion", "unprotect"}
  BY DEF DeleteEntry
<1>4. TypeOK' /\ NoneInv'
  <2>1. job' \in [Stack -> JobStates]
    BY <1>3 DEF BeginJobs, JobStates, Applying, Deleting
  <2> QED
    BY <1>0, <2>1 DEF IInv, TypeOK, NoneInv
<1>5. Now' = Now /\ Working'
  BY <1>0 DEF Now, Working, At
<1>6. JobInv'
  <2> SUFFICES ASSUME NEW s \in Stack, job'[s] # "idle"
               PROVE  /\ s \in Now.on
                      /\ job'[s] \in Applying => Now.do = "apply"
                      /\ job'[s] \in Deleting => Now.do \in {"delete", "deleteRound"}
                      /\ job'[s] # "ok"
    BY <1>5 DEF JobInv
  <2>1. Now.do \in {"apply", "delete", "deleteRound"}
    BY <1>0 DEF Working, At
  <2>2. s \in Now.on
    BY <1>2
  <2>3. CASE Now.do = "apply"
    BY <1>2, <2>2, <2>3 DEF Deleting
  <2>4. CASE Now.do # "apply"
    BY <1>2, <1>3, <2>1, <2>2, <2>4 DEF Applying
  <2> QED
    BY <2>3, <2>4
<1>7. Stages'
  BY <1>0, AttemptWaits DEF StillEmpty
<1> QED
  BY <1>1, <1>4, <1>6, <1>7 DEF IInv

LEMMA EndJobsKeeps == ASSUME IInv, EndJobs PROVE IInv'
<1> DEFINE bad == \E s \in Now.on : job[s] = "failed"
<1>1. /\ outcome = "active" /\ todo # <<>> /\ Now.do \in {"apply", "delete", "deleteRound"}
      /\ UNCHANGED <<cf, provider, plan, current, controllers, nodes, volumes>>
  BY DEF EndJobs, Working, At, config, world
<1>2. \A s \in Stack : job[s] # "idle" => s \in Now.on /\ job[s] \in Ended
  <2>1. \A s \in Stack : job[s] # "idle" => s \in Now.on
    BY DEF IInv, JobInv
  <2>2. \A s \in Now.on : job[s] \in Ended
    BY DEF EndJobs, AwaitAll
  <2> QED
    BY <2>1, <2>2
<1>3. job' \in [Stack -> {"idle"}]
  BY <1>2 DEF EndJobs
<1>4. nodes' \in [Pools -> Nat] /\ StillEmpty
  BY <1>1 DEF IInv, TypeOK, StillEmpty
<1>5. ~bad /\ C.gone /\ ~controllers => \A s \in Now.on \cap Stack : cf[s].st = "NONE"
  <2> SUFFICES ASSUME ~bad, C.gone, ~controllers, NEW s \in Now.on \cap Stack
               PROVE  cf[s].st = "NONE"
    OBVIOUS
  <2>1. job[s] \in Ended
    BY DEF EndJobs, AwaitAll
  <2>2. job[s] = "ok"
    BY <2>1 DEF Ended
  <2> QED
    BY <2>2 DEF IInv, JobInv
<1>6. C.gone => GoneShape
  BY <1>1 DEF IInv, Stages, GoneInv
<1>7. CASE Now.do = "deleteRound"
  <2>1. roundFailed' = bad /\ Proceed(<<>>) /\ UNCHANGED <<applied, outcome>>
    BY <1>7 DEF EndJobs
  <2>2. todo' = Tail(todo)
    BY <1>1, <2>1, TailOfTodo DEF IInv, Proceed
  <2>3. C.gone /\ ~controllers /\ ~bad => NoneLeft
    <3>1. C.gone /\ ~controllers => ClusterStacks \subseteq Now.on
      BY <1>1, <1>6, <1>7, Shapes DEF IInv, Round
    <3> QED
      BY <1>5, <3>1 DEF NoneLeft, ClusterStacks, ListStacks, Exists, Owned
  <2>4. roundFailed' \in BOOLEAN
    BY <2>1
  <2> QED
    BY <1>1, <1>3, <1>4, <1>7, <2>1, <2>2, <2>3, <2>4, Proceeded
<1>8. CASE Now.do # "deleteRound" /\ bad
  <2>1. Fail
    BY <1>8 DEF EndJobs
  <2> QED
    BY <1>1, <1>3, <2>1, FailedKeeps DEF Fail
<1>9. CASE Now.do # "deleteRound" /\ ~bad
  <2>1. Proceed(<<>>) /\ SameAttempt
    BY <1>9 DEF EndJobs
  <2>2. todo' = Tail(todo)
    BY <1>1, <2>1, TailOfTodo DEF IInv, Proceed
  <2>3. C.gone /\ ~controllers /\ Now.do = "delete" => MainGone
    BY <1>1, <1>5, <1>6, <1>9, Shapes, FiniteFacts DEF IInv, MainGone
  <2>4. roundFailed' \in BOOLEAN /\ UNCHANGED <<applied, outcome>>
    BY <2>1 DEF SameAttempt, IInv, TypeOK
  <2> QED
    BY <1>1, <1>3, <1>4, <1>9, <2>2, <2>3, <2>4, Proceeded
<1> QED
  BY <1>7, <1>8, <1>9

LEMMA StepFailsKeeps == ASSUME IInv, StepFails PROVE IInv'
<1>1. /\ outcome = "active" /\ todo # <<>>
      /\ UNCHANGED <<cf, job, provider, plan, current, controllers, nodes, volumes>>
  BY DEF StepFails, config, world
<1>2. job' \in [Stack -> {"idle"}]
  BY <1>1 DEF StepFails, Idle, IInv, TypeOK
<1>3. CASE Now.do = "deleteStacks"
  <2>1. roundFailed' = TRUE /\ Proceed(<<>>) /\ UNCHANGED <<applied, outcome>>
    BY <1>3 DEF StepFails
  <2>2. todo' = Tail(todo)
    BY <1>1, <2>1, TailOfTodo DEF IInv, Proceed
  <2>3. nodes' \in [Pools -> Nat] /\ StillEmpty /\ roundFailed' \in BOOLEAN
    BY <1>1, <2>1 DEF IInv, TypeOK, StillEmpty
  <2> QED
    BY <1>1, <1>2, <1>3, <2>1, <2>2, <2>3, Proceeded
<1>4. CASE Now.do # "deleteStacks"
  <2>1. Fail
    BY <1>4 DEF StepFails
  <2> QED
    BY <1>1, <1>2, <2>1, FailedKeeps DEF Fail
<1> QED
  BY <1>3, <1>4

LEMMA CrashKeeps == ASSUME IInv, Crash PROVE IInv'
BY FailedKeeps DEF Crash, config, world

LEMMA ReconfigureKeeps == ASSUME IInv, Reconfigure PROVE IInv'
<1>1. UNCHANGED <<cf, job, provider, plan, applied, todo, outcome, roundFailed, controllers, nodes, volumes>>
  BY DEF Reconfigure, world
<1>2. C' = C
  BY <1>1 DEF C
<1>3. PlanInv'
  <2>1. current \in Nat /\ current' = current + 1 /\ current < Len(plan) /\ Len(plan) \in Nat
    BY LenProperties DEF Reconfigure, IInv, PlanInv, TypeOK
  <2>2. \A i \in 1..(current' - 1) : ~plan[i].gone
    BY <2>1 DEF Reconfigure, IInv, PlanInv
  <2> QED
    BY <1>1, <1>2, <2>1, <2>2 DEF IInv, PlanInv
<1>4. TypeOK' /\ NoneInv'
  BY <1>1 DEF IInv, TypeOK, NoneInv
<1>5. JobInv'
  BY <1>1, <1>2 DEF IInv, JobInv, Working, At, Now
<1>6. Stages'
  BY <1>1, AttemptWaits DEF StillEmpty
<1> QED
  BY <1>3, <1>4, <1>5, <1>6 DEF IInv

LEMMA StartKeeps == ASSUME IInv, Start PROVE IInv'
<1>1. /\ outcome # "active" /\ applied' = current /\ outcome' = "active" /\ roundFailed' = FALSE
      /\ UNCHANGED <<cf, job, provider, plan, current, controllers, nodes, volumes>>
  BY DEF Start, config, world
<1>2. C' = plan[current] /\ C' \in Config
  BY <1>1, CurrentConfig DEF IInv, C
<1>3. todo' = IF C'.gone THEN DecommissionSteps' ELSE ProvisionSteps'
  BY DEF Start
<1>4. \A s \in Stack : job'[s] = "idle"
  <2>1. ~Working
    BY <1>1 DEF Working, At
  <2> QED
    BY <1>1, <2>1, NobodyWorks DEF IInv
<1>5. PlanInv'
  <2>1. controllers' \/ C'.gone
    <3>1. CASE ~controllers
      <4>1. C.gone /\ applied <= current /\ applied \in Nat /\ current \in Nat /\ 1 <= applied
        BY <3>1 DEF IInv, PlanInv
      <4>2. applied = current
        BY <4>1 DEF IInv, PlanInv, C
      <4> QED
        BY <1>2, <4>1, <4>2 DEF C
    <3> QED
      BY <1>1, <3>1
  <2> QED
    BY <1>1, <2>1 DEF IInv, PlanInv
<1>6. CASE C'.gone
  <2>1. todo' = T8
    BY <1>1, <1>3, <1>6, FirstShapes, SameShapes
  <2>2. todo' \in Seq(StepSet) /\ todo' # <<>> /\ todo'[1].do \in {"details", "downscale"}
    BY <2>1, DecommissionOrder, Firsts
  <2>3. GoneShape' /\ GoneFacts'
    <3>1. T8' = T8
      BY <1>1, SameShapes
    <3> QED
      BY <2>1, <2>2, <3>1 DEF GoneShape, GoneFacts, At, Now
  <2>4. Stages'
    BY <1>1, <1>6, <2>3 DEF Stages, ProvisionInv, GoneInv
  <2>5. TypeOK' /\ NoneInv'
    BY <1>1, <2>2 DEF IInv, TypeOK, NoneInv
  <2>6. JobInv'
    BY <1>4 DEF JobInv
  <2> QED
    BY <1>5, <2>4, <2>5, <2>6 DEF IInv
<1>7. CASE ~C'.gone
  <2> DEFINE F == FirstSteps'
  <2>1. todo' \in Seq(F)
    BY <1>2, <1>3, <1>7, FirstShapes
  <2>2. F \subseteq StepSet
        /\ \A st \in F : /\ st.do \in ProvisionDos
                         /\ st.do = "delete" => st.on \subseteq C'.preStacks \cup C'.postStacks
    BY DEF FirstSteps
  <2> HIDE DEF F
  <2>3. todo' \in Seq(StepSet) /\ \A i \in 1..Len(todo') : todo'[i] \in F
    BY <2>1, <2>2, SeqMonotonic, ElementOfSeq
  <2>4. ProvisionInv'
    BY <2>2, <2>3 DEF ProvisionInv
  <2>5. GoneInv'
    BY <1>1, <1>7 DEF GoneInv
  <2>6. TypeOK' /\ NoneInv'
    BY <1>1, <2>3 DEF IInv, TypeOK, NoneInv
  <2>7. JobInv'
    BY <1>4 DEF JobInv
  <2> QED
    BY <1>5, <2>4, <2>5, <2>6, <2>7 DEF IInv, Stages
<1> QED
  BY <1>6, <1>7

LEMMA EndKeeps == ASSUME IInv, End PROVE IInv'
<1>1. /\ outcome = "active" /\ todo = <<>>
      /\ outcome' = IF C.gone THEN "decommissioned" ELSE "provisioned"
      /\ UNCHANGED <<cf, job, provider, plan, current, applied, todo, roundFailed, controllers, nodes, volumes>>
  BY DEF End, config, world
<1>2. PlanInv' /\ C' = C
  BY <1>1, PlanKept DEF IInv
<1>3. TypeOK' /\ NoneInv'
  BY <1>1 DEF IInv, TypeOK, NoneInv
<1>4. JobInv'
  <2>1. ~Working
    BY <1>1 DEF Working, At
  <2> QED
    BY <1>1, <2>1, NobodyWorks DEF IInv, JobInv
<1>5. C.gone /\ ~controllers => AllGone /\ AllGone'
  <2>1. C.gone /\ ~controllers => AllGone
    BY <1>1 DEF IInv, Stages, GoneInv, GoneFacts
  <2>2. AllGone' = AllGone
    BY <1>1 DEF AllGone, NoneLeft, MainGone
  <2> QED
    BY <2>1, <2>2
<1>6. Stages'
  BY <1>1, <1>2, <1>5 DEF Stages, ProvisionInv, GoneInv
<1> QED
  BY <1>2, <1>3, <1>4, <1>6 DEF IInv

\* Everybody else, while the attempt waits.
LEMMA OthersKeep ==
    ASSUME IInv, UNCHANGED <<job, config, attempt, controllers>>,
           cf' \in [Stack -> StackRecord], NoneInv', nodes' \in [Pools -> Nat], StillEmpty,
           \A s \in Stack : cf[s].st = "NONE" => cf'[s].st = "NONE" \/ controllers,
           \/ volumes' = volumes \/ volumes = "in-use"
           \/ \E p \in Pools : cf[p].st # "NONE"
    PROVE  IInv'
<1>1. UNCHANGED <<provider, plan, current, applied, todo, outcome, roundFailed>>
  BY DEF config, attempt
<1>2. PlanInv' /\ C' = C
  BY <1>1, PlanKept DEF IInv
<1>3. TypeOK'
  BY <1>1 DEF IInv, TypeOK
<1>4. JobInv'
  BY <1>1, <1>2 DEF IInv, JobInv, Working, At, Now
<1>5. Stages'
  BY <1>1, AttemptWaits
<1> QED
  BY <1>2, <1>3, <1>4, <1>5 DEF IInv

LEMMA CloudFormationKeeps == ASSUME IInv, CloudFormation \/ CloudFormationFails PROVE IInv'
<1>1. PICK s \in Stack : StackProgresses(s) \/ StackBreaks(s)
  BY DEF CloudFormation, CloudFormationFails
<1>2. /\ job' = job /\ cf[s].st # "NONE"
      /\ \E rec \in StackRecord :
            /\ cf' = [cf EXCEPT ![s] = rec]
            /\ rec.requested => cf[s].requested
            /\ rec.st = "NONE" => ~rec.requested
  BY <1>1, CloudMoves DEF IInv
<1>3. PICK rec \in StackRecord : cf' = [cf EXCEPT ![s] = rec] /\ (rec.st = "NONE" => ~rec.requested)
  BY <1>2
<1>4. cf'[s] = rec /\ \A r \in Stack \ {s} : cf'[r] = cf[r]
  BY <1>3 DEF IInv, TypeOK
<1>5. cf' \in [Stack -> StackRecord] /\ NoneInv'
  BY <1>3, <1>4 DEF IInv, TypeOK, NoneInv
<1>6. \A r \in Stack : cf[r].st = "NONE" => cf'[r].st = "NONE"
  BY <1>2, <1>4
<1>7. nodes' \in [Pools -> Nat] /\ StillEmpty /\ volumes' = volumes
  BY DEF CloudFormation, CloudFormationFails, StackEffects, world, IInv, TypeOK, StillEmpty
<1>8. UNCHANGED <<config, attempt, controllers>>
  BY DEF CloudFormation, CloudFormationFails, StackEffects, world
<1> QED
  BY <1>2, <1>5, <1>6, <1>7, <1>8, OthersKeep

LEMMA WorldKeeps ==
    ASSUME IInv, \/ EksDeleted \/ VolumesDetach \/ \E p \in Pools : PoolStarts(p)
                 \/ \E k \in KarpenterPools : KarpenterLaunches(k)
    PROVE  IInv'
<1>1. UNCHANGED <<cf, job, config, attempt, controllers>>
  BY DEF EksDeleted, VolumesDetach, PoolStarts, KarpenterLaunches
<1>2. cf' \in [Stack -> StackRecord] /\ NoneInv' /\ \A s \in Stack : cf[s].st = "NONE" => cf'[s].st = "NONE"
  BY <1>1 DEF IInv, TypeOK, NoneInv
<1>3. CASE EksDeleted \/ VolumesDetach \/ \E k \in KarpenterPools : KarpenterLaunches(k)
  <2>1. nodes' = nodes /\ (volumes' = volumes \/ volumes = "in-use")
    BY <1>3 DEF EksDeleted, VolumesDetach, KarpenterLaunches
  <2>2. nodes' \in [Pools -> Nat] /\ StillEmpty
    BY <2>1 DEF IInv, TypeOK, StillEmpty
  <2> QED
    BY <1>1, <1>2, <2>1, <2>2, OthersKeep
<1>4. CASE \E p \in Pools : PoolStarts(p)
  <2>1. PICK p \in Pools : PoolStarts(p)
    BY <1>4
  <2>2. cf[p].st # "NONE" /\ p \in C.pools
    BY <2>1 DEF PoolStarts, Complete
  <2>3. nodes' \in [Pools -> Nat] /\ StillEmpty
    <3>1. cf[p].tmpl \in Nat
      BY FiniteFacts DEF IInv, TypeOK, StackRecord
    <3> QED
      BY <2>1, <2>2, <3>1 DEF PoolStarts, IInv, TypeOK, StillEmpty
  <2> QED
    BY <1>1, <1>2, <2>2, <2>3, OthersKeep
<1> QED
  BY <1>3, <1>4

LEMMA IngressKeeps == ASSUME IInv, NEW s \in IngressStacks, IngressCreates(s) PROVE IInv'
<1> DEFINE rec == [NoStack EXCEPT !.st = "CREATE_COMPLETE", !.tmpl = 1]
<1>1. /\ controllers /\ cf' = [cf EXCEPT ![s] = rec]
      /\ UNCHANGED <<job, config, attempt, controllers, nodes, volumes>>
  BY DEF IngressCreates, world
<1>2. rec \in StackRecord /\ ~rec.requested
  BY DEF NoStack, StackRecord, Statuses, Stable
<1> HIDE DEF rec
<1>3. s \in Stack
  BY FiniteFacts
<1>4. cf' \in [Stack -> StackRecord] /\ NoneInv'
  BY <1>1, <1>2, <1>3 DEF IInv, TypeOK, NoneInv
<1>5. nodes' \in [Pools -> Nat] /\ StillEmpty
  BY <1>1 DEF IInv, TypeOK, StillEmpty
<1> QED
  BY <1>1, <1>4, <1>5, OthersKeep

LEMMA ProvisionInit == Init => IInv
<1> SUFFICES ASSUME Init PROVE IInv
  OBVIOUS
<1> USE DEF Init
<1>1. NoStack \in StackRecord /\ ~NoStack.requested
  BY DEF NoStack, StackRecord, Statuses
<1>2. provider \in {"aws", "eks"} /\ plan \in Seq(Config) /\ plan # <<>>
  BY ProvisionAssumption
<1>3. TypeOK
  <2>1. todo \in Seq(StepSet)
    BY EmptySeq
  <2>2. cf \in [Stack -> StackRecord] /\ job \in [Stack -> JobStates]
    BY <1>1 DEF JobStates
  <2> QED
    BY <1>2, <2>1, <2>2 DEF TypeOK
<1>4. PlanInv
  <2>1. Len(plan) \in Nat \ {0}
    BY <1>2, EmptySeq
  <2> QED
    BY <2>1 DEF PlanInv
<1>5. NoneInv /\ JobInv
  BY <1>1 DEF NoneInv, JobInv
<1>6. Stages
  BY DEF Stages, ProvisionInv, GoneInv
<1> QED
  BY <1>3, <1>4, <1>5, <1>6 DEF IInv

LEMMA ProvisionNext == IInv /\ [Next]_vars => IInv'
<1> SUFFICES ASSUME IInv, [Next]_vars PROVE IInv'
  OBVIOUS
<1>1. CASE Attempt
  BY <1>1, StartKeeps, EndKeeps, BeginJobsKeeps, RunJobKeeps, EndJobsKeeps, PlainStepsKeep,
     UpdateNodesKeeps, ReconcileKeeps, PrepareForRemovalKeeps, DetailsKeeps, DownscaleKeeps,
     DeleteClusterStacksKeeps, StacksLeftKeeps, RemoveVolumesKeeps DEF Attempt
<1>2. CASE StepFails \/ AnyJobFails \/ TerminateFails \/ Crash \/ Reconfigure
  BY <1>2, StepFailsKeeps, RunJobKeeps, TerminateFailsKeeps, CrashKeeps, ReconfigureKeeps
<1>3. CASE \/ CloudFormation \/ CloudFormationFails \/ EksDeleted \/ VolumesDetach
           \/ (\E p \in Pools : PoolStarts(p)) \/ (\E k \in KarpenterPools : KarpenterLaunches(k))
  BY <1>3, CloudFormationKeeps, WorldKeeps
<1>4. CASE \E s \in IngressStacks : IngressCreates(s)
  BY <1>4, IngressKeeps
<1>5. CASE UNCHANGED vars
  <2>1. UNCHANGED <<cf, job, config, attempt, controllers, nodes, volumes>>
    BY <1>5 DEF vars, world
  <2>2. cf' \in [Stack -> StackRecord] /\ NoneInv' /\ nodes' \in [Pools -> Nat] /\ StillEmpty
    BY <2>1 DEF IInv, TypeOK, NoneInv, StillEmpty
  <2> QED
    BY <2>1, <2>2, OthersKeep
<1> QED
  BY <1>1, <1>2, <1>3, <1>4, <1>5 DEF Next

-----------------------------------------------------------------------------
(* The theorems *)

\* In every state: the goroutines work on the stacks of the step at hand, the
\* steps that are left are those of the configuration that was read, and what
\* earlier steps have achieved still holds.
THEOREM ProvisionInvariant == Spec => []IInv
BY ProvisionInit, ProvisionNext, PTL DEF Spec

\* When Decommission of a zalando-aws cluster returns no error and the cluster's
\* controllers had been stopped, no stack of the cluster and no volume is left,
\* however many rounds, failures, crashes and earlier attempts it took.
THEOREM DecommissionLeavesNothing == Spec => []NothingLeftOnAWS
<1>1. IInv => NothingLeftOnAWS
  BY DEF IInv, Stages, GoneInv, AllGone, NoneLeft, MainGone, NothingLeftOnAWS, NothingLeft, Exists
<1> QED
  BY <1>1, ProvisionInvariant, PTL

\* Who changes a goroutine or asks for a deletion.
LEMMA WhoMoves ==
    ASSUME IInv, [Next]_vars
    PROVE  \/ \E s \in Stack : \E pc, rec :
                 /\ job' = [job EXCEPT ![s] = pc] /\ cf' = [cf EXCEPT ![s] = rec]
                 /\ JobMove(s, pc, rec)
           \/ /\ \A s \in Stack : job[s] \in Deleting => job'[s] # "ok"
              /\ \A s \in Stack : ~Requested(s)
<1>1. CASE RunJob \/ AnyJobFails
  <2>1. C.version \in Nat
    BY CurrentConfig DEF IInv, Config, Templates
  <2>2. PICK s \in Stack : JobStep(s, C.version) \/ DeletionTimesOut(s) \/ JobFails(s)
    BY <1>1 DEF RunJob, AnyJobFails
  <2> QED
    BY <2>1, <2>2, JobMoves DEF IInv
<1>2. CASE CloudFormation \/ CloudFormationFails
  <2>1. PICK s \in Stack : StackProgresses(s) \/ StackBreaks(s)
    BY <1>2 DEF CloudFormation, CloudFormationFails
  <2>2. /\ job' = job
        /\ \E rec \in StackRecord : cf' = [cf EXCEPT ![s] = rec] /\ (rec.requested => cf[s].requested)
    BY <2>1, CloudMoves DEF IInv
  <2>3. \A r \in Stack : ~Requested(r)
    BY <2>2 DEF Requested, IInv, TypeOK
  <2> QED
    BY <2>2, <2>3 DEF Deleting
<1>3. CASE \E s \in IngressStacks : IngressCreates(s)
  <2>1. PICK s \in IngressStacks : IngressCreates(s)
    BY <1>3
  <2>2. job' = job /\ cf' = [cf EXCEPT ![s] = [NoStack EXCEPT !.st = "CREATE_COMPLETE", !.tmpl = 1]]
    BY <2>1 DEF IngressCreates
  <2>3. \A r \in Stack : ~Requested(r)
    BY <2>2 DEF Requested, IInv, TypeOK, NoStack
  <2> QED
    BY <2>2, <2>3 DEF Deleting
<1>4. CASE cf' = cf
  <2>1. \A r \in Stack : ~Requested(r)
    BY <1>4 DEF Requested
  <2>2. CASE job' = job
    BY <2>1, <2>2 DEF Deleting
  <2>3. CASE BeginJobs
    <3>1. \A s \in Stack : job'[s] # "ok"
      BY <2>3 DEF BeginJobs, DeleteEntry
    <3> QED
      BY <2>1, <3>1
  <2>4. CASE EndJobs
    <3>1. \A s \in Stack : job[s] \in Deleting => job'[s] # "ok"
      BY <2>4 DEF EndJobs, Deleting, Ended
    <3> QED
      BY <2>1, <3>1
  <2>5. CASE Crash
    <3>1. \A s \in Stack : job'[s] # "ok"
      BY <2>5 DEF Crash
    <3> QED
      BY <2>1, <3>1
  <2>6. job' = job \/ BeginJobs \/ EndJobs \/ Crash \/ RunJob \/ AnyJobFails
        \/ CloudFormation \/ CloudFormationFails \/ (\E s \in IngressStacks : IngressCreates(s))
    BY DEF Next, Attempt, Start, End, Prepare, CreationHook, WaitForAPIServer, DeleteLeakedENIs, Plain,
       UpdateNodes, DeleteObjects, ApplyObject, Reconcile, PrepareForRemoval, ApplyKarpenter,
       ReconcileKarpenter, Details, Downscale, Terminate, AwaitTerminated, DeleteClusterStacks,
       StacksLeft, RemoveVolumes, StepFails, TerminateFails, Reconfigure, EksDeleted, VolumesDetach,
       PoolStarts, KarpenterLaunches, vars
  <2> QED
    BY <1>1, <1>2, <1>3, <2>2, <2>3, <2>4, <2>5, <2>6
<1>5. cf' = cf \/ RunJob \/ AnyJobFails \/ CloudFormation \/ CloudFormationFails
      \/ (\E s \in IngressStacks : IngressCreates(s))
  BY DEF Next, Attempt, Start, End, BeginJobs, EndJobs, Prepare, CreationHook, WaitForAPIServer,
     DeleteLeakedENIs, Plain, UpdateNodes, DeleteObjects, ApplyObject, Reconcile, PrepareForRemoval,
     ApplyKarpenter, ReconcileKarpenter, Details, Downscale, Terminate, AwaitTerminated,
     DeleteClusterStacks, StacksLeft, RemoveVolumes, StepFails, TerminateFails, Crash, Reconfigure,
     EksDeleted, VolumesDetach, PoolStarts, KarpenterLaunches, vars
<1> QED
  BY <1>1, <1>2, <1>3, <1>4, <1>5

\* A deletion is asked for by the goroutine that deletes the stack, while the
\* step at hand deletes it.
LEMMA WhoAsks ==
    ASSUME IInv, [Next]_vars, NEW s \in Stack, Requested(s)
    PROVE  /\ outcome = "active" /\ todo # <<>> /\ s \in Now.on
           /\ Now.do \in {"delete", "deleteRound"}
<1>1. PICK r \in Stack : \E pc, rec :
         cf' = [cf EXCEPT ![r] = rec] /\ JobMove(r, pc, rec)
  BY WhoMoves
<1>2. PICK pc, rec : cf' = [cf EXCEPT ![r] = rec] /\ JobMove(r, pc, rec)
  BY <1>1
<1>3. s = r /\ cf'[s] = rec
  BY <1>2 DEF Requested, IInv, TypeOK
<1>4. job[s] = "delete"
  BY <1>2, <1>3 DEF Requested, JobMove
<1>5. Working /\ s \in Now.on /\ Now.do \in {"delete", "deleteRound"}
  BY <1>4 DEF IInv, JobInv, Deleting
<1> QED
  BY <1>5 DEF Working, At

\* DeleteStack reports a stack as deleted only when it is gone: for every order
\* of the calls, for every skew of the clocks, and whoever else deletes it.
THEOREM DeletionsAreTrue == Spec => DeletedIsGone
<1>1. IInv /\ [Next]_vars => DeletedStep
  <2> SUFFICES ASSUME IInv, [Next]_vars, NEW s \in Stack, job[s] \in Deleting, job'[s] = "ok"
               PROVE  cf[s].st = "NONE"
    BY DEF DeletedStep, Exists
  <2>1. PICK r \in Stack : \E pc, rec : job' = [job EXCEPT ![r] = pc] /\ JobMove(r, pc, rec)
    BY WhoMoves
  <2>2. PICK pc, rec : job' = [job EXCEPT ![r] = pc] /\ JobMove(r, pc, rec)
    BY <2>1
  <2>3. s = r /\ pc = "ok"
    BY <2>2 DEF IInv, TypeOK, Deleting
  <2> QED
    BY <2>2, <2>3 DEF JobMove
<1> QED
  BY <1>1, ProvisionInvariant, PTL DEF Spec, DeletedIsGone

\* While a cluster is provisioned, the stack of a pool is deleted only when the
\* pool is not configured any more and has been emptied.
THEOREM PoolsEmptiedFirst == Spec => OnlyEmptyPoolsRemoved
<1>1. IInv /\ [Next]_vars => EmptyPoolStep
  <2> SUFFICES ASSUME IInv, [Next]_vars, NEW p \in Pools \ (C.preStacks \cup C.postStacks),
                      Requested(p), ~C.gone
               PROVE  p \notin C.pools /\ nodes[p] = 0
    BY DEF EmptyPoolStep
  <2>1. p \in Stack
    BY FiniteFacts
  <2>2. outcome = "active" /\ todo # <<>> /\ p \in Now.on /\ Now.do \in {"delete", "deleteRound"}
    BY <2>1, WhoAsks
  <2>3. Now.do = "delete"
    BY <2>2, WhatIsAtHand DEF ProvisionDos
  <2>4. 1 \in 1..Len(todo)
    BY <2>2, TailOfTodo DEF IInv
  <2>5. p \notin C.pools /\ Emptied(p, 1)
    BY <2>2, <2>3, <2>4 DEF IInv, Stages, ProvisionInv, Now
  <2> QED
    BY <2>5 DEF Emptied
<1> QED
  BY <1>1, ProvisionInvariant, PTL DEF Spec, OnlyEmptyPoolsRemoved

\* The main stack, which everything else uses, is deleted only when no other
\* stack of the cluster is left, if the cluster's controllers have been stopped.
THEOREM MainStackGoesLast == Spec => MainStackLast
<1>1. IInv /\ [Next]_vars => MainStackStep
  <2> SUFFICES ASSUME IInv, [Next]_vars, Requested(MainStack), ~controllers PROVE NoneLeft
    BY DEF MainStackStep, NoneLeft, Exists
  <2>1. MainStack \in Stack /\ MainStack \notin Owned
    BY FiniteFacts DEF Owned
  <2>2. /\ outcome = "active" /\ todo # <<>> /\ MainStack \in Now.on
        /\ Now.do \in {"delete", "deleteRound"}
    BY <2>1, WhoAsks
  <2>3. C.gone /\ GoneShape /\ GoneFacts
    BY <2>2 DEF IInv, PlanInv, Stages, GoneInv
  <2>4. Now.do = "delete"
    BY <2>1, <2>2, <2>3, Shapes DEF IInv, Round
  <2> QED
    BY <2>2, <2>3, <2>4 DEF GoneFacts, At
<1> QED
  BY <1>1, ProvisionInvariant, PTL DEF Spec, MainStackLast

-----------------------------------------------------------------------------
(* What a success says *)

\* What an attempt may delete.
Removable == C.preStacks \cup C.postStacks \cup (Pools \ C.pools)

Removes(i, s) ==
    \/ s \in plan[i].preStacks \cup plan[i].postStacks
    \/ s \in Pools \ plan[i].pools /\ \E h \in 1..i : s \in plan[h].pools

\* What earlier attempts have left: pools of configurations so far, of which
\* only those are being deleted that one of them removed.
HistoryInv ==
    /\ \E sc \in Scenarios : plan = sc.plan
    /\ ~C.gone =>
          /\ \A p \in Pools : cf[p].st = "NONE" => nodes[p] = 0
          /\ kube \in [Objects -> Nat]
          /\ karpenter \in [nodePools : SUBSET KarpenterPools, nodeClasses : SUBSET KarpenterPools,
                            instances : SUBSET KarpenterPools]
          /\ \A p \in Pools : Exists(p) =>
                \E h \in 1..applied : p \in plan[h].pools /\ (provider = "aws" \/ p \in Workers)
          /\ \A s \in Stack : cf[s].requested => \E i \in 1..applied : Removes(i, s)

Current(s) == /\ cf[s].st \in Complete /\ cf[s].tmpl = C.version /\ cf[s].protected
              /\ ~cf[s].requested

\* If the operation that a goroutine waits for goes well, the stack is current.
Comes(s) ==
    /\ ~cf[s].requested
    /\ cf[s].st # "NONE" => cf[s].protected
    /\ cf[s].st = "UPDATE_IN_PROGRESS" => cf[s].goal = C.version
    /\ cf[s].st \in Complete \cup {"CREATE_IN_PROGRESS", "UPDATE_COMPLETE_CLEANUP_IN_PROGRESS"} =>
          cf[s].tmpl = C.version

\* What a goroutine says of its stack.
Told(s) ==
    /\ Now.do = "apply" /\ job[s] = "update" /\ Exists(s) => cf[s].protected
    /\ Now.do = "apply" /\ job[s] \in {"wait", "waitUnchanged"} => Comes(s)
    /\ Now.do = "apply" /\ job[s] = "ok" => Current(s)
    /\ Now.do = "delete" /\ job[s] = "ok" /\ s \in Pools \ C.pools => cf[s].st = "NONE"
WorkInv == outcome = "active" /\ ~C.gone /\ todo # <<>> => \A s \in Stack : Told(s)

\* F holds and no step of q spoils it, or a step of q achieves it and no later
\* one spoils it.
LastWord(q, G, B, F) ==
    \/ F /\ \A k \in 1..Len(q) : q[k] \notin B
    \/ \E j \in 1..Len(q) : q[j] \in G /\ \A k \in (j + 1)..Len(q) : q[k] \notin B

Doing(do, x) == {st \in StepSet : st.do = do /\ x \in st.on}
Being(do) == {st \in StepSet : st.do = do}

Allowed(st) ==
    /\ st.do = "apply" => st.on \subseteq Managed
    /\ st.do = "delete" => st.on \subseteq Removable
    /\ st.do = "applyKarpenter" => st.on \subseteq C.karpenter

NodesCurrent(p) == nodes[p] \in {0, C.version}
Applied(o) == kube[o] = C.version
Dropped(o) == kube[o] = 0
HasKarpenter(k) == k \in karpenter.nodePools
OnlyKarpenter == karpenter.nodePools \subseteq C.karpenter
PoolGone(p) == cf[p].st = "NONE"

StacksGoal(q) == \A s \in Managed : LastWord(q, Doing("apply", s), {}, Current(s))
PoolsGoal(q) == \A p \in Pools \ C.pools :
    LastWord(q, Being("reconcile") \cup Doing("delete", p), {}, PoolGone(p))
NodesGoal(q) == ~isNew => \A p \in AppliedPools :
    LastWord(q, Doing("updateNodes", p), Doing("apply", p), NodesCurrent(p))
ObjectsGoal(q) ==
    /\ \A o \in C.objects \ C.postDelete :
          LastWord(q, Doing("applyObject", o), Doing("deleteObjects", o), Applied(o))
    /\ \A o \in C.postDelete :
          LastWord(q, Doing("deleteObjects", o), Doing("applyObject", o), Dropped(o))
KarpenterGoal(q) ==
    /\ \A k \in C.karpenter : LastWord(q, Doing("applyKarpenter", k), {}, HasKarpenter(k))
    /\ LastWord(q, Being("removeNodePools"), {}, OnlyKarpenter)
StepsAllowed(q) == \A i \in 1..Len(q) : Allowed(q[i])

\* The attempt has achieved, or its remaining steps will, what a success says.
Goals(q) ==
    StepsAllowed(q) /\ StacksGoal(q) /\ PoolsGoal(q) /\ NodesGoal(q) /\ ObjectsGoal(q) /\ KarpenterGoal(q)
GoalInv ==
    outcome \in {"active", "provisioned"} /\ ~C.gone =>
        Goals(todo) /\ (outcome = "provisioned" => todo = <<>>)

ResultInv == outcome = "provisioned" => ~C.gone

SuccessInv == HistoryInv /\ WorkInv /\ GoalInv /\ ResultInv

-----------------------------------------------------------------------------
(* Steps that have the last word *)

LEMMA WordStays ==
    ASSUME NEW q, NEW G, NEW B, NEW F \in BOOLEAN, NEW E \in BOOLEAN,
           LastWord(q, G, B, F), F /\ (\A k \in 1..Len(q) : q[k] \notin B) => E
    PROVE  LastWord(q, G, B, E)
BY DEF LastWord

\* The first step is done.
LEMMA WordPasses ==
    ASSUME NEW q \in Seq(StepSet), q # <<>>, NEW G, NEW B, NEW F \in BOOLEAN, NEW E \in BOOLEAN,
           LastWord(q, G, B, F),
           F /\ (\A k \in 1..Len(q) : q[k] \notin B) => E,
           q[1] \in G /\ (\A k \in 2..Len(q) : q[k] \notin B) => E
    PROVE  LastWord(Tail(q), G, B, E)
<1>1. /\ Len(q) \in Nat \ {0} /\ Len(Tail(q)) = Len(q) - 1
      /\ \A i \in 1..Len(Tail(q)) : Tail(q)[i] = q[i + 1]
  BY HeadTailProperties, EmptySeq
<1>2. ASSUME NEW m \in 1..Len(q), \A k \in (m + 1)..Len(q) : q[k] \notin B
      PROVE  \A k \in m..Len(Tail(q)) : k \in 1..Len(Tail(q)) => Tail(q)[k] \notin B
  BY <1>1, <1>2
<1>3. CASE F /\ \A k \in 1..Len(q) : q[k] \notin B
  <2>1. E /\ 1 \in 1..Len(q) /\ \A k \in (1 + 1)..Len(q) : q[k] \notin B
    BY <1>1, <1>3
  <2>2. \A k \in 1..Len(Tail(q)) : Tail(q)[k] \notin B
    BY <1>2, <2>1
  <2> QED
    BY <2>1, <2>2 DEF LastWord
<1>4. ASSUME NEW j \in 1..Len(q), q[j] \in G, \A k \in (j + 1)..Len(q) : q[k] \notin B
      PROVE  LastWord(Tail(q), G, B, E)
  <2>1. CASE j = 1
    <3>1. E
      BY <1>4, <2>1
    <3>2. \A k \in 1..Len(Tail(q)) : Tail(q)[k] \notin B
      BY <1>2, <1>4, <2>1
    <3> QED
      BY <3>1, <3>2 DEF LastWord
  <2>2. CASE j # 1
    <3>1. j - 1 \in 1..Len(Tail(q)) /\ Tail(q)[j - 1] = q[j]
      BY <1>1, <2>2
    <3>2. \A k \in ((j - 1) + 1)..Len(Tail(q)) : Tail(q)[k] \notin B
      BY <1>1, <1>4
    <3> QED
      BY <1>4, <3>1, <3>2 DEF LastWord
  <2> QED
    BY <2>1, <2>2
<1> QED
  BY <1>3, <1>4 DEF LastWord

\* q ends with a step of G that no later one spoils.
Ends(q, G, B) == \E j \in 1..Len(q) : q[j] \in G /\ \A k \in (j + 1)..Len(q) : q[k] \notin B
Free(q, B) == \A k \in 1..Len(q) : q[k] \notin B

LEMMA EndsRight ==
    ASSUME NEW p \in Seq(StepSet), NEW q \in Seq(StepSet), NEW G, NEW B, Ends(q, G, B)
    PROVE  Ends(p \o q, G, B)
<1> DEFINE r == p \o q
<1>1. /\ Len(p) \in Nat /\ Len(q) \in Nat /\ Len(r) = Len(p) + Len(q)
      /\ \A i \in 1..Len(q) : r[Len(p) + i] = q[i]
  BY Joined
<1> HIDE DEF r
<1>2. PICK j \in 1..Len(q) : q[j] \in G /\ \A k \in (j + 1)..Len(q) : q[k] \notin B
  BY DEF Ends
<1>3. Len(p) + j \in 1..Len(r) /\ r[Len(p) + j] \in G
  BY <1>1, <1>2
<1>4. ASSUME NEW k \in (Len(p) + j + 1)..Len(r) PROVE r[k] \notin B
  <2>1. k - Len(p) \in (j + 1)..Len(q) /\ k - Len(p) \in 1..Len(q) /\ Len(p) + (k - Len(p)) = k
    BY <1>1
  <2>2. r[k] = q[k - Len(p)]
    BY <1>1, <2>1
  <2> QED
    BY <1>2, <2>1, <2>2
<1> QED
  BY <1>3, <1>4 DEF Ends, r

LEMMA EndsLeft ==
    ASSUME NEW p \in Seq(StepSet), NEW q \in Seq(StepSet), NEW G, NEW B,
           Ends(p, G, B), Free(q, B)
    PROVE  Ends(p \o q, G, B)
<1> DEFINE r == p \o q
<1>1. /\ Len(p) \in Nat /\ Len(q) \in Nat /\ Len(r) = Len(p) + Len(q)
      /\ \A i \in 1..Len(p) : r[i] = p[i]
      /\ \A i \in 1..Len(q) : r[Len(p) + i] = q[i]
      /\ \A k \in 1..Len(r) : k \notin 1..Len(p) => k - Len(p) \in 1..Len(q) /\ k = Len(p) + (k - Len(p))
  BY Joined
<1> HIDE DEF r
<1>2. PICK j \in 1..Len(p) : p[j] \in G /\ \A k \in (j + 1)..Len(p) : p[k] \notin B
  BY DEF Ends
<1>3. j \in 1..Len(r) /\ r[j] \in G
  BY <1>1, <1>2
<1>4. ASSUME NEW k \in (j + 1)..Len(r) PROVE r[k] \notin B
  <2>1. k \in 1..Len(r)
    BY <1>1
  <2>2. CASE k \in 1..Len(p)
    <3>1. k \in (j + 1)..Len(p)
      BY <1>1, <2>2
    <3> QED
      BY <1>1, <1>2, <2>2, <3>1
  <2>3. CASE k \notin 1..Len(p)
    BY <1>1, <2>1, <2>3 DEF Free
  <2> QED
    BY <2>2, <2>3
<1> QED
  BY <1>3, <1>4 DEF Ends, r

LEMMA FreeJoined ==
    ASSUME NEW p \in Seq(StepSet), NEW q \in Seq(StepSet), NEW B, Free(p, B), Free(q, B)
    PROVE  Free(p \o q, B)
<1> DEFINE r == p \o q
<1>1. /\ \A i \in 1..Len(p) : r[i] = p[i]
      /\ \A i \in 1..Len(q) : r[Len(p) + i] = q[i]
      /\ \A k \in 1..Len(r) : k \notin 1..Len(p) => k - Len(p) \in 1..Len(q) /\ k = Len(p) + (k - Len(p))
  BY Joined
<1> HIDE DEF r
<1>2. \A k \in 1..Len(r) : r[k] \notin B
  BY <1>1 DEF Free
<1> QED
  BY <1>2 DEF Free, r

\* Other steps come first.
LEMMA WordDelayed ==
    ASSUME NEW p \in Seq(StepSet), NEW q \in Seq(StepSet), NEW G, NEW B, NEW F \in BOOLEAN,
           Free(p, B), LastWord(q, G, B, F)
    PROVE  LastWord(p \o q, G, B, F)
<1>1. CASE F /\ Free(q, B)
  BY <1>1, FreeJoined DEF LastWord, Free
<1>2. CASE Ends(q, G, B)
  BY <1>2, EndsRight DEF LastWord, Ends
<1> QED
  BY <1>1, <1>2 DEF LastWord, Ends, Free

LEMMA EndsWord ==
    ASSUME NEW q, NEW G, NEW B, NEW F, Ends(q, G, B) PROVE LastWord(q, G, B, F)
BY DEF Ends, LastWord

LEMMA EndsOne == ASSUME NEW a \in StepSet, NEW G, NEW B, a \in G PROVE Ends(<<a>>, G, B)
<1>1. Len(<<a>>) = 1 /\ <<a>>[1] = a
  OBVIOUS
<1> QED
  BY <1>1 DEF Ends

LEMMA EndsJoined ==
    ASSUME NEW p \in Seq(StepSet), NEW q \in Seq(StepSet), NEW G, NEW B,
           Ends(q, G, B) \/ (Ends(p, G, B) /\ Free(q, B))
    PROVE  Ends(p \o q, G, B)
BY EndsLeft, EndsRight

\* Each of a finite set, with no spoiling step among them.
LEMMA EachEnds ==
    ASSUME NEW do, NEW S, IsFiniteSet(S), NEW x \in S, NEW G, NEW B,
           Step(do, {x}) \in G, \A y \in S : Step(do, {y}) \notin B
    PROVE  Ends(Each(do, S), G, B)
<1>1. Cardinality(S) \in Nat /\ Len(Each(do, S)) = Cardinality(S)
  BY FS_CardinalityType DEF Each
<1>2. \A i \in 1..Cardinality(S) : Each(do, S)[i] = Step(do, {SetToSeq(S)[i]})
  BY DEF Each
<1>3. PICK i \in 1..Cardinality(S) : SetToSeq(S)[i] = x
  BY SetToSeqAll
<1>4. i \in 1..Len(Each(do, S)) /\ Each(do, S)[i] \in G
  BY <1>1, <1>2, <1>3
<1>5. \A k \in 1..Cardinality(S) : Each(do, S)[k] \notin B
  BY <1>2, SetToSeqElement
<1>6. \A k \in (i + 1)..Len(Each(do, S)) : Each(do, S)[k] \notin B
  BY <1>1, <1>3, <1>5
<1> QED
  BY <1>4, <1>6 DEF Ends

LEMMA EachFree ==
    ASSUME NEW do, NEW S, IsFiniteSet(S), NEW B, \A y \in S : Step(do, {y}) \notin B
    PROVE  Free(Each(do, S), B)
<1>1. Cardinality(S) \in Nat /\ Len(Each(do, S)) = Cardinality(S)
  BY FS_CardinalityType DEF Each
<1>2. \A i \in 1..Cardinality(S) : Each(do, S)[i] = Step(do, {SetToSeq(S)[i]})
  BY DEF Each
<1> QED
  BY <1>1, <1>2, SetToSeqElement DEF Free

LEMMA StepIn ==
    ASSUME NEW do \in ProvisionDos, NEW on \in SUBSET Things
    PROVE  /\ Step(do, on) \in StepSet /\ Step(do, on) \in Being(do)
           /\ \A x \in on : Step(do, on) \in Doing(do, x)
BY StepType DEF Being, Doing

LEMMA StepNotIn ==
    ASSUME NEW do, NEW on, NEW other, NEW x, do # other \/ x \notin on
    PROVE  Step(do, on) \notin Doing(other, x)
BY StepDo DEF Doing

\* Stacks, objects and Karpenter pools of a configuration are finite sets of things.
LEMMA ConfigSets ==
    ASSUME C \in Config
    PROVE  /\ C.pools \subseteq Pools /\ C.karpenter \subseteq Things /\ C.objects \subseteq Things
           /\ C.preStacks \subseteq Stack /\ C.postStacks \subseteq Stack /\ C.postDelete \subseteq Objects
           /\ C.objects \subseteq Objects /\ C.karpenter \subseteq KarpenterPools
           /\ C.pools \subseteq Things /\ C.preDelete \subseteq Things /\ C.postDelete \subseteq Things
           /\ IsFiniteSet(C.karpenter) /\ IsFiniteSet(C.objects)
           /\ IsFiniteSet(C.preStacks) /\ IsFiniteSet(C.postStacks)
           /\ IsFiniteSet(C.pools \cap Masters) /\ IsFiniteSet(C.pools \cap Workers)
<1>1. /\ C.pools \subseteq Pools /\ C.karpenter \subseteq KarpenterPools /\ C.objects \subseteq Objects
      /\ C.preDelete \subseteq Objects /\ C.postDelete \subseteq Objects
      /\ C.preStacks \subseteq Stack /\ C.postStacks \subseteq Stack
  BY DEF Config
<1>2. C.pools \cap Masters \subseteq Stack /\ C.pools \cap Workers \subseteq Stack
  BY <1>1, FiniteFacts
<1>3. /\ IsFiniteSet(C.karpenter) /\ IsFiniteSet(C.objects)
      /\ IsFiniteSet(C.preStacks) /\ IsFiniteSet(C.postStacks)
      /\ IsFiniteSet(C.pools \cap Masters) /\ IsFiniteSet(C.pools \cap Workers)
  BY <1>1, <1>2, FiniteFacts, FS_Subset
<1>4. Pools \subseteq Things /\ Objects \subseteq Things /\ KarpenterPools \subseteq Things
  BY FiniteFacts DEF Things
<1> QED
  BY <1>1, <1>3, <1>4

LEMMA EachSteps ==
    ASSUME NEW do \in ProvisionDos, NEW S \in SUBSET Things, IsFiniteSet(S)
    PROVE  Each(do, S) \in Seq(StepSet)
<1>1. \A x \in S : Step(do, {x}) \in StepSet
  BY StepIn
<1> QED
  BY <1>1, EachSeq

LEMMA TwoFree ==
    ASSUME NEW a, NEW b, NEW B, a \notin B, b \notin B
    PROVE  Free(<<a, b>>, B)
BY DEF Free

LEMMA OneFree == ASSUME NEW a, NEW B, a \notin B PROVE Free(<<a>>, B)
BY DEF Free

LEMMA GroupParts ==
    ASSUME NEW do \in ProvisionDos, NEW S \in SUBSET Things, IsFiniteSet(S)
    PROVE  /\ <<Step(do, S), Step("ready", {})>> \in Seq(StepSet)
           /\ (IF isNew THEN <<>> ELSE Each("updateNodes", S)) \in Seq(StepSet)
<1>1. "ready" \in ProvisionDos /\ "updateNodes" \in ProvisionDos
  BY DEF ProvisionDos
<1>2. Step(do, S) \in StepSet /\ Step("ready", {}) \in StepSet /\ Each("updateNodes", S) \in Seq(StepSet)
  BY <1>1, StepIn, EachSteps
<1> QED
  BY <1>2

LEMMA GroupFree ==
    ASSUME NEW do \in ProvisionDos, NEW S \in SUBSET Things, IsFiniteSet(S), NEW B,
           Step(do, S) \notin B, Step("ready", {}) \notin B, \A y \in S : Step("updateNodes", {y}) \notin B
    PROVE  Free(NodePoolGroup(do, S), B)
<1>1. Free(<<Step(do, S), Step("ready", {})>>, B)
  BY TwoFree
<1>2. Free(Each("updateNodes", S), B)
  BY EachFree
<1>3. Free(<<>>, B)
  BY DEF Free
<1> QED
  BY <1>1, <1>2, <1>3, GroupParts, FreeJoined DEF NodePoolGroup

\* What a group does first, and what it does with the nodes of each pool.
LEMMA GroupEnds ==
    ASSUME NEW do \in ProvisionDos, NEW S \in SUBSET Things, IsFiniteSet(S), NEW x \in S
    PROVE  /\ Ends(NodePoolGroup(do, S), Doing(do, x), {})
           /\ ~isNew /\ do # "updateNodes" =>
                 Ends(NodePoolGroup(do, S), Doing("updateNodes", x), Doing(do, x))
<1> DEFINE a == <<Step(do, S), Step("ready", {})>>
           b == IF isNew THEN <<>> ELSE Each("updateNodes", S)
<1>1. a \in Seq(StepSet) /\ b \in Seq(StepSet) /\ NodePoolGroup(do, S) = a \o b
  BY GroupParts DEF NodePoolGroup
<1>2. Ends(a, Doing(do, x), {})
  <2>1. Len(a) = 2 /\ a[1] = Step(do, S)
    OBVIOUS
  <2>2. Step(do, S) \in Doing(do, x)
    BY StepIn
  <2> QED
    BY <2>1, <2>2 DEF Ends
<1>3. Free(b, {})
  BY DEF Free
<1>4. ~isNew /\ do # "updateNodes" => Ends(b, Doing("updateNodes", x), Doing(do, x))
  <2>1. "updateNodes" \in ProvisionDos
    BY DEF ProvisionDos
  <2>2. Step("updateNodes", {x}) \in Doing("updateNodes", x)
    BY <2>1, StepIn
  <2>3. do # "updateNodes" => \A y \in S : Step("updateNodes", {y}) \notin Doing(do, x)
    BY StepNotIn
  <2> QED
    BY <2>2, <2>3, EachEnds
<1> HIDE DEF a, b
<1> QED
  BY <1>1, <1>2, <1>3, <1>4, EndsJoined

LEMMA OfProvision ==
    ASSUME C \in Config, NEW G, NEW B,
           \/ Ends(ReconcileSteps, G, B)
           \/ Ends(NodePoolGroup("applyKarpenter", C.karpenter), G, B) /\ Free(ReconcileSteps, B)
           \/ /\ Ends(ApplySteps, G, B)
              /\ Free(NodePoolGroup("applyKarpenter", C.karpenter), B) /\ Free(ReconcileSteps, B)
           \/ /\ Ends(NodePoolGroup("apply", C.pools \cap Workers), G, B) /\ Free(ApplySteps, B)
              /\ Free(NodePoolGroup("applyKarpenter", C.karpenter), B) /\ Free(ReconcileSteps, B)
           \/ /\ P.masters /\ Ends(NodePoolGroup("apply", C.pools \cap Masters), G, B)
              /\ Free(NodePoolGroup("apply", C.pools \cap Workers), B) /\ Free(ApplySteps, B)
              /\ Free(NodePoolGroup("applyKarpenter", C.karpenter), B) /\ Free(ReconcileSteps, B)
           \/ /\ Ends(applyCFManifests, G, B) \/ Ends(createOrUpdateClusterStack, G, B)
                 \/ Ends(createOrUpdateEtcdStack, G, B)
              /\ B = {}
    PROVE  Ends(ProvisionSteps, G, B)
<1> DEFINE a == <<Step("prepare", {})>>
           b == createOrUpdateEtcdStack
           c == createOrUpdateClusterStack
           d == IF P.hook THEN <<Step("hook", {})>> ELSE <<>>
           e == applyCFManifests
           f == IF P.masters THEN NodePoolGroup("apply", C.pools \cap Masters) ELSE <<>>
           g == NodePoolGroup("apply", C.pools \cap Workers)
           h == ApplySteps
           k == NodePoolGroup("applyKarpenter", C.karpenter)
           l == ReconcileSteps
<1>1. Seq(FirstSteps) \subseteq Seq(StepSet)
  BY SeqMonotonic DEF FirstSteps
<1>2. /\ a \in Seq(StepSet) /\ b \in Seq(StepSet) /\ c \in Seq(StepSet)
      /\ d \in Seq(StepSet) /\ e \in Seq(StepSet) /\ f \in Seq(StepSet)
      /\ g \in Seq(StepSet) /\ h \in Seq(StepSet) /\ k \in Seq(StepSet)
      /\ l \in Seq(StepSet)
  BY <1>1, ProvisionParts
<1>3. \/ Ends(l, G, B)
      \/ Ends(k, G, B) /\ Free(l, B)
      \/ Ends(h, G, B) /\ Free(k, B) /\ Free(l, B)
      \/ Ends(g, G, B) /\ Free(h, B) /\ Free(k, B) /\ Free(l, B)
      \/ Ends(f, G, B) /\ Free(g, B) /\ Free(h, B) /\ Free(k, B) /\ Free(l, B)
      \/ (Ends(e, G, B) \/ Ends(c, G, B) \/ Ends(b, G, B)) /\ B = {}
  OBVIOUS
<1>4. ProvisionSteps = a \o b \o c \o d \o e \o f \o g \o h \o k \o l
  BY DEF ProvisionSteps
<1> DEFINE q2 == a \o b
           q3 == q2 \o c
           q4 == q3 \o d
           q5 == q4 \o e
           q6 == q5 \o f
           q7 == q6 \o g
           q8 == q7 \o h
           q9 == q8 \o k
           q10 == q9 \o l
<1> HIDE DEF a, b, c, d, e, f, g, h, k, l
<1>5. B = {} => \A q : Free(q, B)
  BY DEF Free
<1>6. \A p, q \in Seq(StepSet) :
         p \o q \in Seq(StepSet) /\ (Ends(q, G, B) \/ (Ends(p, G, B) /\ Free(q, B)) => Ends(p \o q, G, B))
  BY Joined, EndsJoined
<1>7. q2 \in Seq(StepSet) /\ (Ends(b, G, B) => Ends(q2, G, B))
  BY <1>2, <1>6
<1> HIDE DEF q2
<1>8. q3 \in Seq(StepSet) /\ (Ends(c, G, B) \/ (Ends(q2, G, B) /\ Free(c, B)) => Ends(q3, G, B))
  BY <1>2, <1>6, <1>7
<1> HIDE DEF q3
<1>9. q4 \in Seq(StepSet) /\ (Ends(d, G, B) \/ (Ends(q3, G, B) /\ Free(d, B)) => Ends(q4, G, B))
  BY <1>2, <1>6, <1>8
<1> HIDE DEF q4
<1>10. q5 \in Seq(StepSet) /\ (Ends(e, G, B) \/ (Ends(q4, G, B) /\ Free(e, B)) => Ends(q5, G, B))
  BY <1>2, <1>6, <1>9
<1> HIDE DEF q5
<1>11. q6 \in Seq(StepSet) /\ (Ends(f, G, B) \/ (Ends(q5, G, B) /\ Free(f, B)) => Ends(q6, G, B))
  BY <1>2, <1>6, <1>10
<1> HIDE DEF q6
<1>12. q7 \in Seq(StepSet) /\ (Ends(g, G, B) \/ (Ends(q6, G, B) /\ Free(g, B)) => Ends(q7, G, B))
  BY <1>2, <1>6, <1>11
<1> HIDE DEF q7
<1>13. q8 \in Seq(StepSet) /\ (Ends(h, G, B) \/ (Ends(q7, G, B) /\ Free(h, B)) => Ends(q8, G, B))
  BY <1>2, <1>6, <1>12
<1> HIDE DEF q8
<1>14. q9 \in Seq(StepSet) /\ (Ends(k, G, B) \/ (Ends(q8, G, B) /\ Free(k, B)) => Ends(q9, G, B))
  BY <1>2, <1>6, <1>13
<1> HIDE DEF q9
<1>15. Ends(l, G, B) \/ (Ends(q9, G, B) /\ Free(l, B)) => Ends(q10, G, B)
  BY <1>2, <1>6, <1>14
<1>16. Ends(q10, G, B)
  BY <1>3, <1>5, <1>7, <1>8, <1>9, <1>10, <1>11, <1>12, <1>13, <1>14, <1>15
<1> QED
  BY <1>4, <1>16 DEF q2, q3, q4, q5, q6, q7, q8, q9

\* What the last parts do not do.
LEMMA LastParts ==
    ASSUME C \in Config, NEW x
    PROVE  /\ \A do \in {"apply", "deleteObjects", "applyObject"} :
                 /\ Free(NodePoolGroup("applyKarpenter", C.karpenter), Doing(do, x))
                 /\ Free(ReconcileSteps, Doing(do, x))
           /\ Free(ApplySteps, Doing("apply", x))
           /\ x \notin C.pools \cap Workers =>
                 Free(NodePoolGroup("apply", C.pools \cap Workers), Doing("apply", x))
<1>1. C.karpenter \in SUBSET Things /\ IsFiniteSet(C.karpenter)
      /\ C.pools \cap Workers \in SUBSET Things /\ IsFiniteSet(C.pools \cap Workers)
  BY ConfigSets
<1>2. "applyKarpenter" \in ProvisionDos /\ "apply" \in ProvisionDos /\ "delete" \in ProvisionDos
      /\ "applyObject" \in ProvisionDos
  BY DEF ProvisionDos
<1>3. ASSUME NEW do \in {"apply", "deleteObjects", "applyObject"}
      PROVE  Free(NodePoolGroup("applyKarpenter", C.karpenter), Doing(do, x))
  <2>1. /\ Step("applyKarpenter", C.karpenter) \notin Doing(do, x)
        /\ Step("ready", {}) \notin Doing(do, x)
        /\ \A y \in C.karpenter : Step("updateNodes", {y}) \notin Doing(do, x)
    BY StepNotIn
  <2> HIDE DEF Doing
  <2> QED
    BY <1>1, <1>2, <2>1, GroupFree
<1>4. ASSUME NEW do \in {"apply", "deleteObjects", "applyObject"}
      PROVE  Free(ReconcileSteps, Doing(do, x))
  <2>1. /\ Step("reconcile", {}) \notin Doing(do, x) /\ Step("removeNodePools", {}) \notin Doing(do, x)
        /\ Step("prepareObsolete", {}) \notin Doing(do, x)
        /\ Step("removeNodeClasses", {}) \notin Doing(do, x)
    BY StepNotIn
  <2> QED
    BY <2>1 DEF Free, ReconcileSteps
<1>5. Free(ApplySteps, Doing("apply", x))
  <2> DEFINE B == Doing("apply", x)
             a == <<Step("deleteObjects", C.preDelete)>>
             b == Each("delete", C.preStacks)
             c == Each("applyObject", C.objects)
             d == <<Step("deleteObjects", C.postDelete)>>
             e == Each("delete", C.postStacks)
  <2>1. Free(a, B) /\ Free(d, B)
    BY StepNotIn, OneFree
  <2>2. Free(b, B) /\ Free(c, B) /\ Free(e, B)
    <3>1. /\ \A y \in C.preStacks : Step("delete", {y}) \notin B
          /\ \A y \in C.objects : Step("applyObject", {y}) \notin B
          /\ \A y \in C.postStacks : Step("delete", {y}) \notin B
      BY StepNotIn
    <3> HIDE DEF B
    <3> QED
      BY <3>1, ConfigSets, EachFree
  <2>3. Seq(FirstSteps) \subseteq Seq(StepSet)
    BY SeqMonotonic DEF FirstSteps
  <2>4. /\ a \in Seq(StepSet) /\ b \in Seq(StepSet) /\ c \in Seq(StepSet) /\ d \in Seq(StepSet)
        /\ e \in Seq(StepSet)
    BY <2>3, ProvisionParts
  <2>5. ApplySteps = a \o b \o c \o d \o e
    BY DEF ApplySteps
  <2> HIDE DEF a, b, c, d, e, B
  <2>6. \A p, q \in Seq(StepSet) : Free(p, B) /\ Free(q, B) => p \o q \in Seq(StepSet) /\ Free(p \o q, B)
    BY Joined, FreeJoined
  <2>7. a \o b \in Seq(StepSet) /\ Free(a \o b, B)
    BY <2>1, <2>2, <2>4, <2>6
  <2>8. a \o b \o c \in Seq(StepSet) /\ Free(a \o b \o c, B)
    BY <2>1, <2>2, <2>4, <2>6, <2>7
  <2>9. a \o b \o c \o d \in Seq(StepSet) /\ Free(a \o b \o c \o d, B)
    BY <2>1, <2>2, <2>4, <2>6, <2>8
  <2>10. Free(ApplySteps, B)
    BY <2>1, <2>2, <2>4, <2>5, <2>6, <2>9
  <2> QED
    BY <2>10 DEF B
<1>6. ASSUME x \notin C.pools \cap Workers
      PROVE  Free(NodePoolGroup("apply", C.pools \cap Workers), Doing("apply", x))
  <2>1. /\ Step("apply", C.pools \cap Workers) \notin Doing("apply", x)
        /\ Step("ready", {}) \notin Doing("apply", x)
        /\ \A y \in C.pools \cap Workers : Step("updateNodes", {y}) \notin Doing("apply", x)
    BY <1>6, StepNotIn
  <2> QED
    BY <1>1, <1>2, <2>1, GroupFree
<1> QED
  BY <1>3, <1>4, <1>5, <1>6

\* A provisioning applies every stack,
LEMMA FirstStacks == C \in Config => StacksGoal(ProvisionSteps)
<1> SUFFICES ASSUME C \in Config, NEW s \in Managed
             PROVE  Ends(ProvisionSteps, Doing("apply", s), {})
  BY EndsWord DEF StacksGoal
<1>1. "apply" \in ProvisionDos
  BY DEF ProvisionDos
<1>2. \A q : Free(q, {})
  BY DEF Free
<1>3. ASSUME NEW x \in Stack PROVE Ends(<<Step("apply", {x})>>, Doing("apply", x), {})
  <2>1. Step("apply", {x}) \in StepSet /\ Step("apply", {x}) \in Doing("apply", x)
    BY <1>1, StepIn DEF Things
  <2> QED
    BY <2>1, EndsOne
<1>4. CASE s = MainStack
  <2>1. Ends(createOrUpdateClusterStack, Doing("apply", s), {})
    BY <1>3, <1>4, FiniteFacts DEF createOrUpdateClusterStack
  <2> QED
    BY <2>1, OfProvision
<1>5. CASE provider = "aws" /\ s = EtcdStack
  <2>1. Ends(createOrUpdateEtcdStack, Doing("apply", s), {})
    BY <1>3, <1>5, FiniteFacts DEF createOrUpdateEtcdStack, P, ZalandoAWSProvisioner
  <2> QED
    BY <2>1, OfProvision
<1>6. CASE s \in Range(InfraStacks)
  <2>1. InfraStacks \in Seq(Stack) /\ DOMAIN InfraStacks = 1..Len(InfraStacks) /\ Len(InfraStacks) \in Nat
    BY FiniteFacts, LenProperties
  <2>2. PICK i \in 1..Len(InfraStacks) : s = InfraStacks[i]
    BY <1>6, <2>1 DEF Range
  <2>3. s \in Stack
    BY <2>1, <2>2, ElementOfSeq
  <2>4. Len(applyCFManifests) = Len(InfraStacks) /\ applyCFManifests[i] = Step("apply", {s})
    BY <2>1, <2>2 DEF applyCFManifests
  <2>5. Step("apply", {s}) \in Doing("apply", s)
    BY <1>1, <2>3, StepIn DEF Things
  <2>6. Ends(applyCFManifests, Doing("apply", s), {})
    BY <2>2, <2>4, <2>5 DEF Ends
  <2> QED
    BY <2>6, OfProvision
<1>7. CASE s \in C.pools \cap Workers
  <2>1. Ends(NodePoolGroup("apply", C.pools \cap Workers), Doing("apply", s), {})
    BY <1>1, <1>7, ConfigSets, GroupEnds
  <2> QED
    BY <1>2, <2>1, OfProvision
<1>8. CASE provider = "aws" /\ s \in C.pools \cap Masters
  <2>1. Ends(NodePoolGroup("apply", C.pools \cap Masters), Doing("apply", s), {})
    BY <1>1, <1>8, ConfigSets, GroupEnds
  <2>2. P.masters
    BY <1>8 DEF P, ZalandoAWSProvisioner
  <2> QED
    BY <1>2, <2>1, <2>2, OfProvision
<1> QED
  BY <1>4, <1>5, <1>6, <1>7, <1>8 DEF Managed, AppliedPools

\* the nodes of every pool after its stack,
LEMMA FirstNodes == C \in Config => NodesGoal(ProvisionSteps)
<1> SUFFICES ASSUME C \in Config, ~isNew, NEW p \in AppliedPools
             PROVE  Ends(ProvisionSteps, Doing("updateNodes", p), Doing("apply", p))
  BY EndsWord DEF NodesGoal
<1>1. "apply" \in ProvisionDos
  BY DEF ProvisionDos
<1>2. /\ Free(NodePoolGroup("applyKarpenter", C.karpenter), Doing("apply", p))
      /\ Free(ReconcileSteps, Doing("apply", p)) /\ Free(ApplySteps, Doing("apply", p))
  BY LastParts
<1>3. CASE p \in C.pools \cap Workers
  <2>1. Ends(NodePoolGroup("apply", C.pools \cap Workers), Doing("updateNodes", p), Doing("apply", p))
    BY <1>1, <1>3, ConfigSets, GroupEnds
  <2> QED
    BY <1>2, <2>1, OfProvision
<1>4. CASE provider = "aws" /\ p \in C.pools \cap Masters /\ p \notin C.pools \cap Workers
  <2>1. Ends(NodePoolGroup("apply", C.pools \cap Masters), Doing("updateNodes", p), Doing("apply", p))
    BY <1>1, <1>4, ConfigSets, GroupEnds
  <2>2. P.masters
    BY <1>4 DEF P, ZalandoAWSProvisioner
  <2>3. Free(NodePoolGroup("apply", C.pools \cap Workers), Doing("apply", p))
    BY <1>4, LastParts
  <2> QED
    BY <1>2, <2>1, <2>2, <2>3, OfProvision
<1> QED
  BY <1>3, <1>4 DEF AppliedPools

\* the objects, and the deletions that come after them,
LEMMA FirstObjects == C \in Config => ObjectsGoal(ProvisionSteps)
<1> SUFFICES ASSUME C \in Config PROVE ObjectsGoal(ProvisionSteps)
  OBVIOUS
<1> DEFINE a == <<Step("deleteObjects", C.preDelete)>>
           b == Each("delete", C.preStacks)
           c == Each("applyObject", C.objects)
           d == <<Step("deleteObjects", C.postDelete)>>
           e == Each("delete", C.postStacks)
<1>1. Seq(FirstSteps) \subseteq Seq(StepSet)
  BY SeqMonotonic DEF FirstSteps
<1>2. /\ a \in Seq(StepSet) /\ b \in Seq(StepSet) /\ c \in Seq(StepSet) /\ d \in Seq(StepSet)
      /\ e \in Seq(StepSet)
  BY <1>1, ProvisionParts
<1>3. ApplySteps = a \o b \o c \o d \o e
  BY DEF ApplySteps
<1>4. \A o : Free(e, Doing("deleteObjects", o)) /\ Free(e, Doing("applyObject", o))
  BY ConfigSets, StepNotIn, EachFree
<1>5. \A o : o \notin C.postDelete => Free(d, Doing("deleteObjects", o))
  BY StepNotIn, OneFree
<1>6. "applyObject" \in ProvisionDos /\ "deleteObjects" \in ProvisionDos
  BY DEF ProvisionDos
<1>7. \A o \in C.objects : Ends(c, Doing("applyObject", o), Doing("deleteObjects", o))
  <2> SUFFICES ASSUME NEW o \in C.objects
               PROVE  Ends(c, Doing("applyObject", o), Doing("deleteObjects", o))
    OBVIOUS
  <2>1. {o} \in SUBSET Things
    BY ConfigSets
  <2>2. Step("applyObject", {o}) \in Doing("applyObject", o)
    BY <1>6, <2>1, StepIn
  <2>3. \A y \in C.objects : Step("applyObject", {y}) \notin Doing("deleteObjects", o)
    BY StepNotIn
  <2> QED
    BY <2>2, <2>3, ConfigSets, EachEnds
<1>8. \A o \in C.postDelete : Ends(d, Doing("deleteObjects", o), Doing("applyObject", o))
  <2> SUFFICES ASSUME NEW o \in C.postDelete
               PROVE  Ends(d, Doing("deleteObjects", o), Doing("applyObject", o))
    OBVIOUS
  <2>1. Step("deleteObjects", C.postDelete) \in StepSet
        /\ Step("deleteObjects", C.postDelete) \in Doing("deleteObjects", o)
    BY <1>6, ConfigSets, StepIn
  <2> QED
    BY <2>1, EndsOne
<1> HIDE DEF a, b, c, d, e
<1>9. /\ a \o b \in Seq(StepSet) /\ a \o b \o c \in Seq(StepSet) /\ a \o b \o c \o d \in Seq(StepSet)
  <2>1. \A p, q \in Seq(StepSet) : p \o q \in Seq(StepSet)
    BY Joined
  <2> QED
    BY <1>2, <2>1
<1>10. ASSUME NEW o \in C.objects \ C.postDelete
       PROVE  Ends(ProvisionSteps, Doing("applyObject", o), Doing("deleteObjects", o))
  <2>1. Ends(a \o b \o c, Doing("applyObject", o), Doing("deleteObjects", o))
    BY <1>2, <1>7, <1>9, EndsJoined
  <2>2. Ends(a \o b \o c \o d, Doing("applyObject", o), Doing("deleteObjects", o))
    BY <1>2, <1>5, <1>9, <2>1, EndsJoined
  <2>3. Ends(ApplySteps, Doing("applyObject", o), Doing("deleteObjects", o))
    BY <1>2, <1>3, <1>4, <1>9, <2>2, EndsJoined
  <2> QED
    BY <2>3, LastParts, OfProvision
<1>11. ASSUME NEW o \in C.postDelete
       PROVE  Ends(ProvisionSteps, Doing("deleteObjects", o), Doing("applyObject", o))
  <2>1. Ends(a \o b \o c \o d, Doing("deleteObjects", o), Doing("applyObject", o))
    BY <1>2, <1>8, <1>9, EndsJoined
  <2>2. Ends(ApplySteps, Doing("deleteObjects", o), Doing("applyObject", o))
    BY <1>2, <1>3, <1>4, <1>9, <2>1, EndsJoined
  <2> QED
    BY <2>2, LastParts, OfProvision
<1> QED
  BY <1>10, <1>11, EndsWord DEF ObjectsGoal

\* Karpenter's pools, and the removal of what is not configured.
LEMMA FirstKarpenter == C \in Config => KarpenterGoal(ProvisionSteps) /\ PoolsGoal(ProvisionSteps)
<1> SUFFICES ASSUME C \in Config PROVE KarpenterGoal(ProvisionSteps) /\ PoolsGoal(ProvisionSteps)
  OBVIOUS
<1>1. \A q : Free(q, {})
  BY DEF Free
<1>2. "applyKarpenter" \in ProvisionDos /\ "reconcile" \in ProvisionDos /\ "removeNodePools" \in ProvisionDos
  BY DEF ProvisionDos
<1>3. ASSUME NEW k \in C.karpenter PROVE Ends(ProvisionSteps, Doing("applyKarpenter", k), {})
  <2>1. Ends(NodePoolGroup("applyKarpenter", C.karpenter), Doing("applyKarpenter", k), {})
    BY <1>2, ConfigSets, GroupEnds
  <2> QED
    BY <1>1, <2>1, OfProvision
<1>4. /\ Len(ReconcileSteps) = 4 /\ ReconcileSteps[1] = Step("reconcile", {})
      /\ ReconcileSteps[2] = Step("removeNodePools", {})
  BY DEF ReconcileSteps
<1>5. Step("reconcile", {}) \in Being("reconcile") /\ Step("removeNodePools", {}) \in Being("removeNodePools")
  BY <1>2, StepIn
<1>6. Ends(ReconcileSteps, Being("removeNodePools"), {})
  BY <1>4, <1>5 DEF Ends
<1>7. ASSUME NEW p PROVE Ends(ReconcileSteps, Being("reconcile") \cup Doing("delete", p), {})
  BY <1>4, <1>5 DEF Ends
<1>8. Ends(ProvisionSteps, Being("removeNodePools"), {})
  BY <1>6, OfProvision
<1>9. ASSUME NEW p PROVE Ends(ProvisionSteps, Being("reconcile") \cup Doing("delete", p), {})
  BY <1>7, OfProvision
<1> QED
  BY <1>3, <1>8, <1>9, EndsWord DEF KarpenterGoal, PoolsGoal

\* A provisioning begins with steps that will achieve everything,
LEMMA FirstGoals == C \in Config => Goals(ProvisionSteps)
<1>1. C \in Config => StepsAllowed(ProvisionSteps)
  <2> SUFFICES ASSUME C \in Config, NEW i \in 1..Len(ProvisionSteps) PROVE Allowed(ProvisionSteps[i])
    BY DEF StepsAllowed
  <2>1. ProvisionSteps[i] \in FirstSteps
    BY ProvisionBegins, ElementOfSeq
  <2> QED
    BY <2>1 DEF FirstSteps, Allowed, Removable
<1> QED
  BY <1>1, FirstStacks, FirstNodes, FirstObjects, FirstKarpenter DEF Goals

LEMMA NextGoals == (C \in Config => Goals(ProvisionSteps))'
BY FirstGoals, PTL

-----------------------------------------------------------------------------
(* What happens while a cluster is provisioned *)

PassStep ==
    \/ Prepare \/ CreationHook \/ WaitForAPIServer \/ UpdateNodes \/ DeleteObjects \/ ApplyObject
    \/ PrepareForRemoval \/ ApplyKarpenter \/ ReconcileKarpenter
GiveUp == (StepFails /\ Fail) \/ Crash
OtherStep ==
    \/ Reconfigure \/ EksDeleted \/ VolumesDetach \/ (\E p \in Pools : PoolStarts(p))
    \/ (\E k \in KarpenterPools : KarpenterLaunches(k)) \/ UNCHANGED vars
StackStep ==
    \/ RunJob \/ AnyJobFails \/ CloudFormation \/ CloudFormationFails
    \/ (\E s \in IngressStacks : IngressCreates(s))

LEMMA Provisioning ==
    ASSUME IInv, [Next]_vars, ~C'.gone
    PROVE  /\ ~C.gone
           /\ Start \/ End \/ BeginJobs \/ EndJobs \/ Reconcile \/ PassStep \/ GiveUp \/ OtherStep \/ StackStep
           /\ ~Start => UNCHANGED <<applied, plan, provider, isNew>> /\ C' = C
<1>1. ~Start => UNCHANGED <<applied, plan, provider, isNew>>
  BY DEF Next, Attempt, End, BeginJobs, EndJobs, Prepare, CreationHook, WaitForAPIServer,
     DeleteLeakedENIs, Plain, UpdateNodes, DeleteObjects, ApplyObject, Reconcile, PrepareForRemoval,
     ApplyKarpenter, ReconcileKarpenter, Details, Downscale, Terminate, AwaitTerminated,
     DeleteClusterStacks, StacksLeft, RemoveVolumes, StepFails, TerminateFails, Crash, Reconfigure,
     EksDeleted, VolumesDetach, PoolStarts, KarpenterLaunches, RunJob, AnyJobFails, CloudFormation,
     CloudFormationFails, IngressCreates, StackEffects, vars, config, attempt, SameAttempt, Succeed, Fail
<1>2. ~Start => C' = C
  BY <1>1 DEF C
<1>3. Start => ~C.gone
  <2> SUFFICES ASSUME Start PROVE ~C.gone
    OBVIOUS
  <2>1. C' = plan[current]
    BY DEF Start, C, config
  <2>2. applied = current \/ applied \in 1..(current - 1)
    BY DEF IInv, PlanInv
  <2> QED
    BY <2>1, <2>2 DEF IInv, PlanInv, C
<1>4. ~C.gone
  BY <1>2, <1>3
<1>5. At("details") \/ At("downscale") \/ At("terminate") \/ At("awaitTerminated") \/ At("deleteStacks")
      \/ At("stacksLeft") \/ At("interfaces") \/ At("removeVolumes") => FALSE
  BY <1>4, WhatIsAtHand DEF At, ProvisionDos
<1>6. ~(Details \/ Downscale \/ Terminate \/ AwaitTerminated \/ DeleteLeakedENIs \/ DeleteClusterStacks
        \/ StacksLeft \/ RemoveVolumes \/ TerminateFails)
  BY <1>5 DEF Details, Downscale, Terminate, AwaitTerminated, DeleteLeakedENIs, Plain,
     DeleteClusterStacks, StacksLeft, RemoveVolumes, TerminateFails
<1>7. StepFails => Fail
  BY <1>5 DEF StepFails, At
<1> QED
  BY <1>1, <1>2, <1>4, <1>6, <1>7 DEF Next, Attempt, PassStep, GiveUp, OtherStep, StackStep

LEMMA AtHandAllowed ==
    ASSUME IInv, GoalInv, outcome = "active", ~C.gone, todo # <<>>
    PROVE  Allowed(Now) /\ Now.do \in ProvisionDos
<1>1. 1 \in 1..Len(todo)
  BY TailOfTodo DEF IInv
<1>2. Allowed(Now)
  BY <1>1 DEF GoalInv, Goals, StepsAllowed, Now
<1> QED
  BY <1>2, WhatIsAtHand

\* The stacks of the configuration are not among those that anybody deletes.
LEMMA ManagedApart ==
    ASSUME IInv, NamesApart, NamesNotReused, HistoryInv, ~C.gone
    PROVE  /\ Managed \subseteq Stack /\ Managed \cap Removable = {} /\ Managed \cap IngressStacks = {}
           /\ Managed \cap Pools \subseteq C.pools
           /\ \A s \in Managed : ~cf[s].requested
<1>1. C \in Config
  BY CurrentConfig DEF IInv
<1>2. C.pools \subseteq Pools /\ Pools \subseteq Stack
  BY <1>1, FiniteFacts DEF Config
<1>3. Range(InfraStacks) \subseteq Stack
  BY FiniteFacts, LenProperties, ElementOfSeq DEF Range
<1>4. Managed \subseteq {EtcdStack, MainStack} \cup Range(InfraStacks) \cup C.pools
  BY DEF Managed, AppliedPools
<1>5. Managed \subseteq Stack
  BY <1>2, <1>3, <1>4, FiniteFacts
<1>6. EtcdStack \notin Pools /\ MainStack \notin Pools /\ Range(InfraStacks) \cap Pools = {}
  BY ProvisionAssumption DEF NamesApart
<1>7. Managed \cap Pools \subseteq C.pools
  BY <1>4, <1>6
<1>8. Managed \cap IngressStacks = {}
  BY <1>2, <1>4 DEF NamesApart
<1>9. applied \in 1..Len(plan) /\ applied \in Nat
  BY LenProperties DEF IInv, TypeOK, PlanInv
<1>10. ASSUME NEW i \in 1..applied
       PROVE  /\ (plan[i].preStacks \cup plan[i].postStacks)
                    \cap ({EtcdStack, MainStack} \cup Range(InfraStacks) \cup C.pools) = {}
              /\ \A h \in 1..i : plan[h].pools \cap C.pools \subseteq plan[i].pools
  <2>1. PICK sc \in Scenarios : plan = sc.plan
    BY DEF HistoryInv
  <2>2. i \in 1..Len(plan) /\ i <= applied
    BY <1>9
  <2> QED
    BY <1>9, <2>1, <2>2 DEF NamesNotReused, C
<1>11. Managed \cap Removable = {}
  <2>1. applied \in 1..applied
    BY <1>9
  <2>2. (C.preStacks \cup C.postStacks) \cap Managed = {}
    BY <1>4, <1>10, <2>1 DEF C
  <2> QED
    BY <1>7, <2>2 DEF Removable
<1>12. ASSUME NEW s \in Managed PROVE ~cf[s].requested
  <2> SUFFICES ASSUME cf[s].requested PROVE FALSE
    OBVIOUS
  <2>1. PICK i \in 1..applied : Removes(i, s)
    BY <1>5 DEF HistoryInv
  <2>2. s \notin plan[i].preStacks \cup plan[i].postStacks
    BY <1>4, <1>10
  <2>3. PICK h \in 1..i : s \in Pools \ plan[i].pools /\ s \in plan[h].pools
    BY <2>1, <2>2 DEF Removes
  <2> QED
    BY <1>7, <1>10, <2>3
<1> QED
  BY <1>5, <1>7, <1>8, <1>11, <1>12

\* What a step may make of a stack and of its goroutine.
Turn(s) ==
    /\ s \in Managed /\ Current(s) => Current(s)'
    /\ cf[s].st = "NONE" /\ cf'[s].st # "NONE" => s \in Managed \cup IngressStacks
    /\ ~cf[s].requested /\ cf'[s].requested => s \in Removable /\ cf[s].st # "NONE"
    /\ outcome = "active" /\ todo # <<>> => Told(s)'

LEMMA JobTurns ==
    ASSUME IInv, NamesApart, NamesNotReused, SuccessInv, ~C.gone, NEW s \in Stack,
           JobStep(s, C.version) \/ DeletionTimesOut(s) \/ JobFails(s),
           UNCHANGED <<applied, plan, provider, todo, outcome>>
    PROVE  /\ Turn(s) /\ (cf'[s].st = "NONE" => cf[s].st = "NONE")
           /\ \A r \in Stack \ {s} : cf'[r] = cf[r] /\ job'[r] = job[r]
<1>0. \A r \in Stack \ {s} : cf'[r] = cf[r] /\ job'[r] = job[r]
  <2>1. C.version \in Nat
    BY CurrentConfig DEF IInv, Config, Templates
  <2>2. PICK pc, rec : job' = [job EXCEPT ![s] = pc] /\ cf' = [cf EXCEPT ![s] = rec]
    BY <2>1, JobMoves DEF IInv
  <2> QED
    BY <2>2 DEF IInv, TypeOK
<1> SUFFICES Turn(s) /\ (cf'[s].st = "NONE" => cf[s].st = "NONE")
  BY <1>0
<1>1. /\ cf \in [Stack -> StackRecord] /\ cf[s] \in StackRecord /\ job \in [Stack -> JobStates]
      /\ cf[s].st = "NONE" => ~cf[s].requested
  BY DEF IInv, TypeOK, NoneInv
<1>2. job[s] \in Applying \cup Deleting
  BY DEF JobStep, CreateStack, ProtectStack, UpdateStack, WaitForStack, UnprotectStack, DeleteStack,
     WaitForStackDeletion, DeletionTimesOut, JobFails, Applying, Deleting
<1>3. /\ outcome = "active" /\ todo # <<>> /\ s \in Now.on
      /\ job[s] \in Applying => Now.do = "apply"
      /\ job[s] \in Deleting => Now.do \in {"delete", "deleteRound"}
  BY <1>2 DEF IInv, JobInv, Applying, Deleting, Working, At
<1>4. Allowed(Now) /\ Now.do \in ProvisionDos
  BY <1>3, AtHandAllowed DEF SuccessInv
<1>5. /\ job[s] \in Applying => s \in Managed /\ ~cf[s].requested
      /\ job[s] \in Deleting => s \in Removable /\ s \notin Managed /\ Now.do = "delete"
  BY <1>3, <1>4, ManagedApart DEF Allowed, SuccessInv, ProvisionDos
<1>6. Told(s)
  BY <1>3 DEF SuccessInv, WorkInv
<1>7. C' = C /\ Now' = Now
  BY DEF C, Now
<1>8. ASSUME NEW pc, Answer(s, pc), pc \in {"protect", "failed"}
      PROVE  Turn(s) /\ cf'[s] = cf[s]
  <2>1. cf' = cf /\ job'[s] = pc
    BY <1>1, <1>8 DEF Answer, Goto
  <2> QED
    BY <1>7, <1>8, <2>1 DEF Turn, Told, Current
<1>9. CASE CreateStack(s, C.version)
  <2>1. job[s] = "create" /\ s \in Managed
    BY <1>5, <1>9 DEF CreateStack, Applying
  <2>2. CASE Exists(s)
    BY <1>8, <1>9, <2>2 DEF CreateStack
  <2>3. CASE ~Exists(s)
    <3>1. /\ cf'[s] = [NoStack EXCEPT !.st = "CREATE_IN_PROGRESS", !.tmpl = C.version, !.protected = TRUE]
          /\ job'[s] = "wait"
      BY <1>1, <1>9, <2>3 DEF CreateStack, Call, Goto
    <3>2. /\ cf'[s].st = "CREATE_IN_PROGRESS" /\ cf'[s].tmpl = C.version /\ cf'[s].protected
          /\ ~cf'[s].requested
      BY <3>1 DEF NoStack
    <3> QED
      BY <1>7, <2>1, <2>3, <3>1, <3>2 DEF Turn, Told, Current, Comes, Exists, Complete
  <2> QED
    BY <2>2, <2>3
<1>10. CASE ProtectStack(s)
  <2>1. job[s] = "protect" /\ s \in Managed /\ ~cf[s].requested
    BY <1>5, <1>10 DEF ProtectStack, Applying
  <2>2. CASE cf[s].st \in {"NONE", "DELETE_IN_PROGRESS"}
    BY <1>8, <1>10, <2>2 DEF ProtectStack
  <2>3. CASE cf[s].st \notin {"NONE", "DELETE_IN_PROGRESS"}
    <3>1. cf'[s] = [cf[s] EXCEPT !.protected = TRUE] /\ job'[s] = "update"
      BY <1>1, <1>10, <2>3 DEF ProtectStack, Call, Goto
    <3>2. /\ cf'[s].st = cf[s].st /\ cf'[s].tmpl = cf[s].tmpl /\ cf'[s].protected
          /\ cf'[s].requested = cf[s].requested
      BY <1>1, <3>1 DEF StackRecord
    <3> QED
      BY <1>7, <2>1, <2>3, <3>1, <3>2 DEF Turn, Told, Current, Exists, Complete
  <2> QED
    BY <2>2, <2>3
<1>11. CASE UpdateStack(s, C.version)
  <2>1. job[s] = "update" /\ s \in Managed /\ ~cf[s].requested /\ Now.do = "apply"
    BY <1>3, <1>5, <1>11 DEF UpdateStack, Applying
  <2>2. cf[s].st \in Stable => cf[s].protected
    BY <1>6, <2>1 DEF Told, Exists, Stable
  <2>3. CASE cf[s].st \in Stable /\ cf[s].tmpl # C.version
    <3>1. cf'[s] = [cf[s] EXCEPT !.st = "UPDATE_IN_PROGRESS", !.goal = C.version, !.updated = "before"]
          /\ job'[s] = "wait"
      BY <1>1, <1>11, <2>3 DEF UpdateStack, NoUpdateNeeded, Call, Goto
    <3>2. /\ cf'[s].st = "UPDATE_IN_PROGRESS" /\ cf'[s].goal = C.version
          /\ cf'[s].protected = cf[s].protected /\ cf'[s].requested = cf[s].requested
      BY <1>1, <3>1 DEF StackRecord
    <3>3. ~Current(s)
      BY <2>3 DEF Current
    <3>4. Comes(s)'
      BY <1>7, <2>1, <2>2, <2>3, <3>2 DEF Comes, Complete
    <3> QED
      BY <1>7, <2>1, <2>3, <3>1, <3>2, <3>3, <3>4 DEF Turn, Told, Stable
  <2>4. CASE cf[s].st \in Stable /\ cf[s].tmpl = C.version
    <3>1. cf' = cf /\ job'[s] = "waitUnchanged"
      BY <1>1, <1>11, <2>4 DEF UpdateStack, NoUpdateNeeded, Answer, Goto
    <3>2. Comes(s)'
      BY <1>7, <2>1, <2>2, <2>4, <3>1 DEF Comes, Stable
    <3> QED
      BY <1>7, <3>1, <3>2 DEF Turn, Told, Current
  <2>5. CASE cf[s].st \notin Stable
    BY <1>8, <1>11, <2>5 DEF UpdateStack, NoUpdateNeeded
  <2> QED
    BY <2>3, <2>4, <2>5
<1>12. CASE WaitForStack(s)
  <2>1. CASE cf[s].st \in Complete
    <3>1. cf' = cf /\ job'[s] = "ok" /\ Now.do = "apply"
      BY <1>1, <1>3, <1>12, <2>1 DEF WaitForStack, WaitResult, Answer, Goto, Applying
    <3>2. Comes(s)
      BY <1>3, <1>6, <1>12 DEF WaitForStack, Told, Applying
    <3>3. Current(s) /\ Current(s)'
      BY <1>7, <2>1, <3>1, <3>2 DEF Comes, Current, Complete
    <3> QED
      BY <1>7, <3>1, <3>3 DEF Turn, Told
  <2>2. CASE cf[s].st \notin Complete
    BY <1>8, <1>12, <2>2 DEF WaitForStack, WaitResult
  <2> QED
    BY <2>1, <2>2
<1>13. ASSUME job[s] \in Deleting, Answer(s, "ok"), cf[s].st = "NONE"
       PROVE  Turn(s) /\ cf'[s] = cf[s]
  <2>1. cf' = cf /\ job'[s] = "ok" /\ Now.do = "delete"
    BY <1>1, <1>5, <1>13 DEF Answer, Goto
  <2> QED
    BY <1>7, <1>13, <2>1 DEF Turn, Told, Current
<1>14. CASE UnprotectStack(s)
  <2>1. job[s] \in Deleting
    BY <1>14 DEF UnprotectStack, Deleting
  <2>2. CASE ~Exists(s)
    BY <1>13, <1>14, <2>1, <2>2 DEF UnprotectStack, Exists
  <2>3. CASE Exists(s) /\ cf[s].st = "DELETE_IN_PROGRESS"
    BY <1>8, <1>14, <2>3 DEF UnprotectStack
  <2>4. CASE Exists(s) /\ cf[s].st # "DELETE_IN_PROGRESS"
    <3>1. cf'[s] = [cf[s] EXCEPT !.protected = FALSE] /\ job'[s] = "delete"
      BY <1>1, <1>14, <2>4 DEF UnprotectStack, Call, Goto
    <3>2. cf'[s].st = cf[s].st /\ cf'[s].requested = cf[s].requested
      BY <1>1, <3>1 DEF StackRecord
    <3> QED
      BY <1>5, <1>7, <2>1, <2>4, <3>1, <3>2 DEF Turn, Told, Exists
  <2> QED
    BY <2>2, <2>3, <2>4
<1>15. CASE DeleteStack(s)
  <2>1. job[s] \in Deleting
    BY <1>15 DEF DeleteStack, Deleting
  <2>2. CASE ~Exists(s)
    BY <1>13, <1>15, <2>1, <2>2 DEF DeleteStack, Exists
  <2>3. CASE Exists(s)
    <3>1. CASE Answer(s, "failed")
      BY <1>8, <3>1
    <3>2. CASE ~Answer(s, "failed")
      <4>1. /\ cf'[s] = [cf[s] EXCEPT !.requested = cf[s].st # "DELETE_IN_PROGRESS",
                                      !.updated = IF @ = "after" THEN "before" ELSE @]
            /\ job'[s] = "waitDeletion"
        BY <1>1, <1>15, <2>3, <3>2 DEF DeleteStack, Call, Goto
      <4>2. cf'[s].st = cf[s].st
        BY <1>1, <4>1 DEF StackRecord
      <4> QED
        BY <1>5, <1>7, <2>1, <2>3, <4>1, <4>2 DEF Turn, Told, Exists
    <3> QED
      BY <3>1, <3>2
  <2> QED
    BY <2>2, <2>3
<1>16. CASE WaitForStackDeletion(s) \/ DeletionTimesOut(s) \/ JobFails(s)
  <2>1. CASE Answer(s, "failed")
    BY <1>8, <2>1
  <2>2. CASE ~Answer(s, "failed")
    <3>1. job[s] \in Deleting /\ Answer(s, "ok") /\ cf[s].st = "NONE"
      BY <1>16, <2>2 DEF WaitForStackDeletion, DeletionTimesOut, JobFails, Deleting, Exists
    <3> QED
      BY <1>13, <3>1
  <2> QED
    BY <2>1, <2>2
<1>17. Turn(s) /\ (cf'[s].st = "NONE" => cf[s].st = "NONE")
  <2>1. CASE CreateStack(s, C.version) \/ ProtectStack(s) \/ UpdateStack(s, C.version) \/ WaitForStack(s)
    BY <1>9, <1>10, <1>11, <1>12, <2>1
  <2> QED
    BY <1>14, <1>15, <1>16, <2>1 DEF JobStep
<1> QED
  BY <1>17

\* What does not change turns into itself.
LEMMA SameTurns ==
    ASSUME SuccessInv, ~C.gone, NEW s \in Stack, cf'[s] = cf[s], job'[s] = job[s],
           UNCHANGED <<applied, plan, todo, outcome>>
    PROVE  Turn(s)
<1>1. C' = C /\ Now' = Now
  BY DEF C, Now
<1>2. (Current(s) <=> Current(s)') /\ (Comes(s) <=> Comes(s)')
  BY <1>1 DEF Current, Comes
<1>3. outcome = "active" /\ todo # <<>> => Told(s)
  BY DEF SuccessInv, WorkInv
<1> QED
  BY <1>1, <1>2, <1>3 DEF Turn, Told, Exists

\* CloudFormation leaves complete stacks alone, and what it began with the
\* configured template it ends with it.
LEMMA CloudTurns ==
    ASSUME IInv, NamesApart, NamesNotReused, SuccessInv, ~C.gone, NEW s \in Stack,
           StackProgresses(s) \/ StackBreaks(s),
           UNCHANGED <<applied, plan, provider, todo, outcome>>
    PROVE  Turn(s)
<1>1. /\ cf \in [Stack -> StackRecord] /\ cf[s] \in StackRecord /\ job' = job
      /\ cf[s].st = "NONE" => ~cf[s].requested
  BY DEF IInv, TypeOK, NoneInv, StackProgresses, StackBreaks
<1>2. C' = C /\ Now' = Now
  BY DEF C, Now
<1>3. /\ outcome = "active" /\ todo # <<>> => Told(s)
      /\ s \in Managed => ~cf[s].requested
      /\ outcome = "active" /\ todo # <<>> /\ job[s] # "idle" /\ Now.do = "apply" => s \in Managed
  <2>1. outcome = "active" /\ todo # <<>> => Told(s)
    BY DEF SuccessInv, WorkInv
  <2>2. s \in Managed => ~cf[s].requested
    BY ManagedApart DEF SuccessInv
  <2>3. outcome = "active" /\ todo # <<>> /\ job[s] # "idle" /\ Now.do = "apply" => s \in Managed
    BY AtHandAllowed DEF SuccessInv, IInv, JobInv, Allowed
  <2> QED
    BY <2>1, <2>2, <2>3
<1>4. ASSUME cf[s].st # "NONE", s \notin Managed, ~cf'[s].requested \/ cf[s].requested
      PROVE  Turn(s)
  <2> SUFFICES ASSUME outcome = "active", todo # <<>> PROVE Told(s)'
    BY <1>4 DEF Turn
  <2>1. CASE job[s] = "idle"
    BY <1>1, <2>1 DEF Told
  <2>2. CASE job[s] # "idle" /\ Now.do # "apply"
    BY <1>1, <1>2, <1>3, <1>4, <2>2 DEF Told
  <2> QED
    BY <1>3, <1>4, <2>1, <2>2
<1>5. CASE cf[s].requested
  <2>1. ~cf'[s].requested /\ s \notin Managed /\ cf[s].st # "NONE"
    BY <1>1, <1>3, <1>5 DEF StackProgresses, StackBreaks, StackRecord
  <2> QED
    BY <1>4, <2>1
<1>6. ASSUME ~cf[s].requested, NEW to \in Statuses, <<cf[s].st, to>> \in Begins \cup Breaks,
             cf'[s] = [cf[s] EXCEPT !.st = to,
                          !.tmpl = IF cf[s].st = "UPDATE_IN_PROGRESS" /\ to = "UPDATE_COMPLETE_CLEANUP_IN_PROGRESS"
                                   THEN cf[s].goal ELSE @]
      PROVE  Turn(s)
  <2>1. /\ cf'[s].st = to /\ ~cf'[s].requested /\ cf'[s].protected = cf[s].protected
        /\ cf'[s].goal = cf[s].goal
        /\ cf'[s].tmpl = IF cf[s].st = "UPDATE_IN_PROGRESS" /\ to = "UPDATE_COMPLETE_CLEANUP_IN_PROGRESS"
                         THEN cf[s].goal ELSE cf[s].tmpl
    BY <1>1, <1>6 DEF StackRecord
  <2>2. cf[s].st \notin Complete \cup {"NONE"} /\ to # "NONE"
    BY <1>6 DEF Begins, Breaks, Complete
  <2>3. CASE s \notin Managed
    BY <1>4, <2>1, <2>2, <2>3
  <2>4. CASE s \in Managed
    <3>1. Comes(s) => Comes(s)'
      <4> SUFFICES ASSUME Comes(s) PROVE Comes(s)'
        OBVIOUS
      <4>1. cf[s].protected
        BY <2>2 DEF Comes
      <4>2. to # "UPDATE_IN_PROGRESS"
        BY <1>6 DEF Begins, Breaks
      <4>3. to \in Complete \cup {"CREATE_IN_PROGRESS", "UPDATE_COMPLETE_CLEANUP_IN_PROGRESS"} =>
               cf'[s].tmpl = C.version
        BY <1>6, <2>1 DEF Comes, Begins, Breaks, Complete
      <4> QED
        BY <1>2, <2>1, <4>1, <4>2, <4>3 DEF Comes
    <3>2. ~Current(s)
      BY <2>2 DEF Current
    <3>3. outcome = "active" /\ todo # <<>> => Told(s)'
      BY <1>1, <1>2, <1>3, <2>1, <2>2, <3>1, <3>2 DEF Told, Exists
    <3> QED
      BY <2>1, <2>2, <3>2, <3>3 DEF Turn
  <2> QED
    BY <2>3, <2>4
<1>7. CASE ~cf[s].requested /\ cf[s].st = "DELETE_IN_PROGRESS" /\ cf' = [cf EXCEPT ![s] = NoStack]
  <2>1. cf'[s].st = "NONE" /\ ~cf'[s].requested
    BY <1>1, <1>7 DEF NoStack
  <2>2. Comes(s)' /\ ~Current(s)
    BY <1>7, <2>1 DEF Comes, Complete, Current
  <2>3. outcome = "active" /\ todo # <<>> => Told(s)'
    BY <1>1, <1>2, <1>3, <2>1, <2>2 DEF Told, Exists
  <2> QED
    BY <2>1, <2>2, <2>3 DEF Turn
<1>8. CASE ~cf[s].requested /\ ~(cf[s].st = "DELETE_IN_PROGRESS" /\ cf' = [cf EXCEPT ![s] = NoStack])
  <2>1. ASSUME StackProgresses(s)
        PROVE  \E to \in Statuses : /\ <<cf[s].st, to>> \in Begins
                                    /\ cf' = [cf EXCEPT ![s].st = to, ![s].tmpl =
                                           IF cf[s].st = "UPDATE_IN_PROGRESS" THEN cf[s].goal ELSE @]
    BY <1>8, <2>1 DEF StackProgresses
  <2>2. ASSUME StackBreaks(s)
        PROVE  \E to \in Statuses : <<cf[s].st, to>> \in Breaks /\ cf' = [cf EXCEPT ![s].st = to]
    BY <1>8, <2>2 DEF StackBreaks
  <2>3. CASE StackProgresses(s)
    <3>1. PICK to \in Statuses : /\ <<cf[s].st, to>> \in Begins
                                 /\ cf' = [cf EXCEPT ![s].st = to, ![s].tmpl =
                                        IF cf[s].st = "UPDATE_IN_PROGRESS" THEN cf[s].goal ELSE @]
      BY <2>1, <2>3
    <3>2. cf[s].st = "UPDATE_IN_PROGRESS" => to = "UPDATE_COMPLETE_CLEANUP_IN_PROGRESS"
      BY <3>1 DEF Begins
    <3>3. cf'[s] = [cf[s] EXCEPT !.st = to,
                       !.tmpl = IF cf[s].st = "UPDATE_IN_PROGRESS" /\ to = "UPDATE_COMPLETE_CLEANUP_IN_PROGRESS"
                                THEN cf[s].goal ELSE @]
      BY <1>1, <3>1, <3>2 DEF StackRecord
    <3> QED
      BY <1>6, <1>8, <3>1, <3>3
  <2>4. CASE StackBreaks(s)
    <3>1. PICK to \in Statuses : <<cf[s].st, to>> \in Breaks /\ cf' = [cf EXCEPT ![s].st = to]
      BY <2>2, <2>4
    <3>2. to # "UPDATE_COMPLETE_CLEANUP_IN_PROGRESS"
      BY <3>1 DEF Breaks
    <3>3. cf'[s] = [cf[s] EXCEPT !.st = to,
                       !.tmpl = IF cf[s].st = "UPDATE_IN_PROGRESS" /\ to = "UPDATE_COMPLETE_CLEANUP_IN_PROGRESS"
                                THEN cf[s].goal ELSE @]
      BY <1>1, <3>1, <3>2 DEF StackRecord
    <3> QED
      BY <1>6, <1>8, <3>1, <3>3
  <2> QED
    BY <2>3, <2>4
<1> QED
  BY <1>5, <1>7, <1>8

LEMMA StacksTurn ==
    ASSUME IInv, NamesApart, NamesNotReused, SuccessInv, ~C.gone, StackStep
    PROVE  /\ UNCHANGED <<applied, plan, provider, todo, outcome, isNew, kube, karpenter>>
           /\ \A s \in Stack : Turn(s)
           /\ \A p \in Pools : /\ cf'[p].st = "NONE" /\ cf[p].st # "NONE" => nodes'[p] = 0
                               /\ nodes'[p] \in {nodes[p], 0}
<1>1. UNCHANGED <<applied, plan, provider, todo, outcome, isNew, kube, karpenter>>
  BY DEF StackStep, RunJob, AnyJobFails, CloudFormation, CloudFormationFails, StackEffects,
     IngressCreates, attempt, config, world
<1>2. cf \in [Stack -> StackRecord] /\ Pools \subseteq Stack /\ nodes \in [Pools -> Nat]
  BY FiniteFacts DEF IInv, TypeOK
<1>3. CASE RunJob \/ AnyJobFails
  <2>1. PICK s \in Stack : JobStep(s, C.version) \/ DeletionTimesOut(s) \/ JobFails(s)
    BY <1>3 DEF RunJob, AnyJobFails
  <2>2. /\ Turn(s) /\ (cf'[s].st = "NONE" => cf[s].st = "NONE")
        /\ \A r \in Stack \ {s} : cf'[r] = cf[r] /\ job'[r] = job[r]
    BY <1>1, <2>1, JobTurns
  <2>3. \A r \in Stack : Turn(r)
    BY <1>1, <2>2, SameTurns
  <2>4. nodes' = nodes
    BY <1>3 DEF RunJob, AnyJobFails, world
  <2> QED
    BY <1>1, <1>2, <2>2, <2>3, <2>4
<1>4. CASE CloudFormation \/ CloudFormationFails
  <2>1. PICK s \in Stack : StackProgresses(s) \/ StackBreaks(s)
    BY <1>4 DEF CloudFormation, CloudFormationFails
  <2>2. Turn(s)
    BY <1>1, <2>1, CloudTurns
  <2>3. job' = job /\ \E rec : cf' = [cf EXCEPT ![s] = rec]
    BY <2>1, CloudMoves DEF IInv
  <2>4. \A r \in Stack \ {s} : cf'[r] = cf[r] /\ job'[r] = job[r]
    BY <1>2, <2>3
  <2>5. \A r \in Stack : Turn(r)
    BY <1>1, <2>2, <2>4, SameTurns
  <2>6. ASSUME NEW p \in Pools
        PROVE  /\ cf'[p].st = "NONE" /\ cf[p].st # "NONE" => nodes'[p] = 0
               /\ nodes'[p] \in {nodes[p], 0}
    <3>1. CASE CloudFormation
      BY <3>1 DEF CloudFormation, StackEffects
    <3>2. CASE CloudFormationFails
      <4>1. nodes' = nodes
        BY <3>2 DEF CloudFormationFails, world
      <4>2. PICK r \in Stack : StackBreaks(r)
        BY <3>2 DEF CloudFormationFails
      <4>3. cf'[p].st = "NONE" => cf[p].st = "NONE"
        BY <1>2, <4>2 DEF StackBreaks, Breaks, StackRecord
      <4> QED
        BY <4>1, <4>3
    <3> QED
      BY <1>4, <3>1, <3>2
  <2> QED
    BY <1>1, <2>5, <2>6
<1>5. CASE \E s \in IngressStacks : IngressCreates(s)
  <2>1. PICK s \in IngressStacks : IngressCreates(s)
    BY <1>5
  <2>2. s \in Stack /\ s \notin Pools /\ s \notin Managed
    BY FiniteFacts, ManagedApart DEF NamesApart, SuccessInv
  <2>3. /\ job' = job /\ nodes' = nodes /\ cf[s].st = "NONE"
        /\ cf' = [cf EXCEPT ![s] = [NoStack EXCEPT !.st = "CREATE_COMPLETE", !.tmpl = 1]]
    BY <2>1 DEF IngressCreates, Exists, world
  <2>4. /\ cf'[s].st # "NONE" /\ ~cf'[s].requested
        /\ \A r \in Stack \ {s} : cf'[r] = cf[r] /\ job'[r] = job[r]
    BY <1>2, <2>2, <2>3 DEF NoStack
  <2>5. outcome = "active" /\ todo # <<>> /\ Now.do = "apply" => job[s] = "idle"
    <3>1. outcome = "active" /\ todo # <<>> /\ Now.do = "apply" /\ job[s] # "idle" => s \in Managed
      BY <2>2, AtHandAllowed DEF SuccessInv, IInv, JobInv, Allowed
    <3> QED
      BY <2>2, <3>1
  <2>6. Now' = Now /\ C' = C
    BY <1>1 DEF Now, C
  <2>7. Turn(s)
    BY <2>1, <2>2, <2>3, <2>4, <2>5, <2>6 DEF Turn, Told
  <2>8. \A r \in Stack : Turn(r)
    BY <1>1, <2>4, <2>7, SameTurns
  <2> QED
    BY <1>1, <1>2, <2>2, <2>3, <2>4, <2>8
<1> QED
  BY <1>3, <1>4, <1>5 DEF StackStep

LEMMA HistoryStays ==
    ASSUME IInv, HistoryInv, ~C.gone, cf' = cf, UNCHANGED <<applied, plan, provider>>,
           \A p \in Pools : nodes[p] = 0 => nodes'[p] = 0 \/ cf[p].st # "NONE",
           kube' \in [Objects -> Nat],
           karpenter' \in [nodePools : SUBSET KarpenterPools, nodeClasses : SUBSET KarpenterPools,
                           instances : SUBSET KarpenterPools]
    PROVE  HistoryInv'
BY DEF HistoryInv, Exists, Removes, C

LEMMA HistoryGrows ==
    ASSUME IInv, HistoryInv, Start, ~C.gone PROVE HistoryInv'
<1>1. UNCHANGED <<cf, provider, plan, nodes, kube, karpenter>> /\ applied' = current
  BY DEF Start, config, world
<1>2. 1..applied \subseteq 1..applied'
  BY <1>1 DEF IInv, PlanInv
<1>3. \A p \in Pools : Exists(p) =>
         \E h \in 1..applied' : p \in plan[h].pools /\ (provider = "aws" \/ p \in Workers)
  BY <1>2 DEF HistoryInv
<1>4. \A s \in Stack : cf[s].requested => \E i \in 1..applied' : Removes(i, s)
  BY <1>2 DEF HistoryInv
<1>5. \A i, s : Removes(i, s)' <=> Removes(i, s)
  BY <1>1 DEF Removes
<1> QED
  BY <1>1, <1>3, <1>4, <1>5 DEF HistoryInv, Exists

LEMMA HistoryTurns ==
    ASSUME IInv, NamesApart, NamesNotReused, SuccessInv, ~C.gone, StackStep PROVE HistoryInv'
<1>1. /\ UNCHANGED <<applied, plan, provider, todo, outcome, isNew, kube, karpenter>>
      /\ \A s \in Stack : Turn(s)
      /\ \A p \in Pools : /\ cf'[p].st = "NONE" /\ cf[p].st # "NONE" => nodes'[p] = 0
                          /\ nodes'[p] \in {nodes[p], 0}
  BY StacksTurn
<1>2. /\ \A p \in Pools : cf[p].st = "NONE" => nodes[p] = 0
      /\ \A p \in Pools : cf[p].st # "NONE" =>
            \E h \in 1..applied : p \in plan[h].pools /\ (provider = "aws" \/ p \in Workers)
      /\ \A s \in Stack : cf[s].requested => \E i \in 1..applied : Removes(i, s)
  BY DEF SuccessInv, HistoryInv, Exists
<1>3. Pools \subseteq Stack
  BY FiniteFacts
<1>4. applied \in 1..applied
  BY DEF IInv, PlanInv
<1>5. ASSUME NEW p \in Pools, cf'[p].st # "NONE"
      PROVE  \E h \in 1..applied : p \in plan[h].pools /\ (provider = "aws" \/ p \in Workers)
  <2>1. CASE cf[p].st # "NONE"
    BY <1>2, <2>1
  <2>2. CASE cf[p].st = "NONE"
    <3>1. p \in Managed
      BY <1>1, <1>3, <1>5, <2>2 DEF Turn, NamesApart
    <3>2. p \in AppliedPools
      BY <3>1, ProvisionAssumption DEF Managed, NamesApart
    <3> QED
      BY <1>4, <3>2 DEF AppliedPools, C
  <2> QED
    BY <2>1, <2>2
<1>6. ASSUME NEW s \in Stack, cf'[s].requested PROVE \E i \in 1..applied : Removes(i, s)
  <2>1. CASE cf[s].requested
    BY <1>2, <2>1
  <2>2. CASE ~cf[s].requested
    <3>1. s \in Removable /\ cf[s].st # "NONE"
      BY <1>1, <1>6, <2>2 DEF Turn
    <3>2. Removes(applied, s)
      BY <1>2, <3>1 DEF Removable, Removes, C
    <3> QED
      BY <1>4, <3>2
  <2> QED
    BY <2>1, <2>2
<1>7. \A p \in Pools : cf'[p].st = "NONE" => nodes'[p] = 0
  BY <1>1, <1>2
<1>8. \A i, s : Removes(i, s)' <=> Removes(i, s)
  BY <1>1 DEF Removes
<1> QED
  BY <1>1, <1>5, <1>6, <1>7, <1>8 DEF HistoryInv, SuccessInv, Exists

\* What the steps do that neither wait for stacks nor add steps.
LEMMA PassFacts ==
    ASSUME IInv, SuccessInv, ~C.gone, PassStep
    PROVE  /\ outcome = "active" /\ todo # <<>> /\ todo' = Tail(todo) /\ outcome' = outcome
           /\ Now.do \notin {"apply", "delete", "deleteRound", "reconcile"}
           /\ UNCHANGED <<cf, job, plan, provider, applied, isNew>>
           /\ \A p \in Pools : nodes'[p] =
                 IF Now.do = "updateNodes" /\ p \in Now.on /\ nodes[p] # 0 THEN cf[p].tmpl
                 ELSE IF Now.do = "prepareForRemoval" /\ p \in Now.on THEN 0 ELSE nodes[p]
           /\ kube' = [o \in Objects |->
                 IF Now.do = "deleteObjects" /\ o \in Now.on THEN 0
                 ELSE IF Now.do = "applyObject" /\ o \in Now.on THEN C.version ELSE kube[o]]
           /\ karpenter'.nodePools =
                 IF Now.do = "applyKarpenter" THEN karpenter.nodePools \cup Now.on
                 ELSE IF Now.do = "removeNodePools" THEN karpenter.nodePools \cap C.karpenter
                 ELSE karpenter.nodePools
           /\ karpenter' \in [nodePools : SUBSET KarpenterPools, nodeClasses : SUBSET KarpenterPools,
                              instances : SUBSET KarpenterPools]
<1>1. outcome = "active" /\ todo # <<>> /\ Proceed(<<>>) /\ SameAttempt
  BY DEF PassStep, Prepare, CreationHook, WaitForAPIServer, Plain, UpdateNodes, DeleteObjects, ApplyObject,
     PrepareForRemoval, ApplyKarpenter, ReconcileKarpenter, At
<1>2. todo' = Tail(todo)
  BY <1>1, TailOfTodo DEF IInv, Proceed
<1>3. UNCHANGED <<cf, job, plan, provider>>
  BY DEF PassStep, Prepare, CreationHook, WaitForAPIServer, Plain, UpdateNodes, DeleteObjects, ApplyObject,
     PrepareForRemoval, ApplyKarpenter, ReconcileKarpenter, config
<1>4. /\ nodes \in [Pools -> Nat] /\ kube \in [Objects -> Nat]
      /\ karpenter \in [nodePools : SUBSET KarpenterPools, nodeClasses : SUBSET KarpenterPools,
                        instances : SUBSET KarpenterPools]
      /\ kube = [o \in Objects |-> kube[o]]
  BY DEF IInv, TypeOK, SuccessInv, HistoryInv
<1>5. C.karpenter \subseteq KarpenterPools /\ (Now.do = "applyKarpenter" => Now.on \subseteq C.karpenter)
  BY <1>1, AtHandAllowed, CurrentConfig DEF SuccessInv, IInv, Config, Allowed
<1>6. CASE Prepare \/ CreationHook \/ WaitForAPIServer
  <2>1. Now.do \in {"prepare", "hook", "ready"} /\ UNCHANGED <<nodes, kube, karpenter>>
    BY <1>6 DEF Prepare, CreationHook, WaitForAPIServer, Plain, At, world
  <2> QED
    BY <1>1, <1>2, <1>3, <1>4, <2>1 DEF SameAttempt
<1>7. CASE UpdateNodes \/ PrepareForRemoval
  <2>1. Now.do \in {"updateNodes", "prepareForRemoval"} /\ UNCHANGED <<kube, karpenter>>
    BY <1>7 DEF UpdateNodes, PrepareForRemoval, At
  <2>2. \A p \in Pools : nodes'[p] =
           IF Now.do = "updateNodes" /\ p \in Now.on /\ nodes[p] # 0 THEN cf[p].tmpl
           ELSE IF Now.do = "prepareForRemoval" /\ p \in Now.on THEN 0 ELSE nodes[p]
    BY <1>7 DEF UpdateNodes, PrepareForRemoval, At
  <2> QED
    BY <1>1, <1>2, <1>3, <1>4, <2>1, <2>2 DEF SameAttempt
<1>8. CASE DeleteObjects \/ ApplyObject
  <2>1. Now.do \in {"deleteObjects", "applyObject"} /\ UNCHANGED <<nodes, karpenter>>
    BY <1>8 DEF DeleteObjects, ApplyObject, At
  <2>2. kube' = [o \in Objects |->
           IF Now.do = "deleteObjects" /\ o \in Now.on THEN 0
           ELSE IF Now.do = "applyObject" /\ o \in Now.on THEN C.version ELSE kube[o]]
    BY <1>8 DEF DeleteObjects, ApplyObject, At
  <2> QED
    BY <1>1, <1>2, <1>3, <1>4, <2>1, <2>2 DEF SameAttempt
<1>9. CASE ApplyKarpenter \/ ReconcileKarpenter
  <2>1. Now.do \in {"applyKarpenter", "removeNodePools", "prepareObsolete", "removeNodeClasses"}
        /\ UNCHANGED <<nodes, kube>>
    BY <1>9 DEF ApplyKarpenter, ReconcileKarpenter, At
  <2>2. /\ karpenter'.nodePools =
              IF Now.do = "applyKarpenter" THEN karpenter.nodePools \cup Now.on
              ELSE IF Now.do = "removeNodePools" THEN karpenter.nodePools \cap C.karpenter
              ELSE karpenter.nodePools
        /\ karpenter' \in [nodePools : SUBSET KarpenterPools, nodeClasses : SUBSET KarpenterPools,
                           instances : SUBSET KarpenterPools]
    BY <1>4, <1>5, <1>9 DEF ApplyKarpenter, ReconcileKarpenter, At
  <2> QED
    BY <1>1, <1>2, <1>3, <1>4, <2>1, <2>2 DEF SameAttempt
<1> QED
  BY <1>6, <1>7, <1>8, <1>9 DEF PassStep

LEMMA NextHistory ==
    ASSUME IInv, NamesApart, NamesNotReused, SuccessInv, [Next]_vars PROVE HistoryInv'
<1>1. plan' = plan
  BY DEF Next, Attempt, Start, End, BeginJobs, EndJobs, Prepare, CreationHook, WaitForAPIServer,
     DeleteLeakedENIs, Plain, UpdateNodes, DeleteObjects, ApplyObject, Reconcile, PrepareForRemoval,
     ApplyKarpenter, ReconcileKarpenter, Details, Downscale, Terminate, AwaitTerminated,
     DeleteClusterStacks, StacksLeft, RemoveVolumes, StepFails, TerminateFails, Crash, Reconfigure,
     EksDeleted, VolumesDetach, PoolStarts, KarpenterLaunches, RunJob, AnyJobFails, CloudFormation,
     CloudFormationFails, IngressCreates, vars, config
<1>2. HistoryInv
  BY DEF SuccessInv
<1> SUFFICES ASSUME ~C'.gone PROVE HistoryInv'
  BY <1>1, <1>2 DEF HistoryInv
<1>3. /\ ~C.gone
      /\ Start \/ End \/ BeginJobs \/ EndJobs \/ Reconcile \/ PassStep \/ GiveUp \/ OtherStep \/ StackStep
      /\ ~Start => UNCHANGED <<applied, plan, provider, isNew>> /\ C' = C
  BY Provisioning
<1>4. CASE Start
  BY <1>2, <1>3, <1>4, HistoryGrows
<1>5. CASE StackStep
  BY <1>3, <1>5, HistoryTurns
<1>6. /\ \A p \in Pools : cf[p].st = "NONE" => nodes[p] = 0
      /\ kube \in [Objects -> Nat]
      /\ karpenter \in [nodePools : SUBSET KarpenterPools, nodeClasses : SUBSET KarpenterPools,
                        instances : SUBSET KarpenterPools]
  BY <1>2, <1>3 DEF HistoryInv
<1>7. CASE ~Start /\ PassStep
  <2>1. /\ cf' = cf
        /\ \A p \in Pools : nodes[p] = 0 => nodes'[p] = 0
    BY <1>3, <1>7, PassFacts
  <2>2. kube' \in [Objects -> Nat]
    <3>1. C.version \in Nat
      BY CurrentConfig DEF IInv, Config, Templates
    <3> QED
      BY <1>3, <1>6, <1>7, <3>1, PassFacts
  <2>3. karpenter' \in [nodePools : SUBSET KarpenterPools, nodeClasses : SUBSET KarpenterPools,
                        instances : SUBSET KarpenterPools]
    BY <1>3, <1>7, PassFacts
  <2> QED
    BY <1>2, <1>3, <1>7, <2>1, <2>2, <2>3, HistoryStays
<1>8. CASE ~Start /\ (End \/ BeginJobs \/ EndJobs \/ Reconcile \/ GiveUp)
  <2>1. UNCHANGED <<cf, nodes, kube, karpenter>>
    BY <1>8 DEF End, BeginJobs, EndJobs, Reconcile, GiveUp, StepFails, Crash, world
  <2> QED
    BY <1>2, <1>3, <1>6, <1>8, <2>1, HistoryStays
<1>9. CASE ~Start /\ OtherStep
  <2>1. UNCHANGED <<cf, kube>>
    BY <1>9 DEF OtherStep, Reconfigure, EksDeleted, VolumesDetach, PoolStarts, KarpenterLaunches, vars, world
  <2>2. \A p \in Pools : nodes[p] = 0 => nodes'[p] = 0 \/ cf[p].st # "NONE"
    <3>1. CASE \E p \in Pools : PoolStarts(p)
      BY <3>1 DEF PoolStarts, Complete, IInv, TypeOK
    <3>2. CASE nodes' = nodes
      BY <3>2
    <3> QED
      BY <1>9, <3>1, <3>2 DEF OtherStep, Reconfigure, EksDeleted, VolumesDetach, KarpenterLaunches, vars, world
  <2>3. karpenter' \in [nodePools : SUBSET KarpenterPools, nodeClasses : SUBSET KarpenterPools,
                        instances : SUBSET KarpenterPools]
    <3>1. CASE \E k \in KarpenterPools : KarpenterLaunches(k)
      BY <1>6, <3>1 DEF KarpenterLaunches
    <3>2. CASE karpenter' = karpenter
      BY <1>6, <3>2
    <3> QED
      BY <1>9, <3>1, <3>2 DEF OtherStep, Reconfigure, EksDeleted, VolumesDetach, PoolStarts, vars, world
  <2> QED
    BY <1>2, <1>3, <1>6, <1>9, <2>1, <2>2, <2>3, HistoryStays
<1> QED
  BY <1>3, <1>4, <1>5, <1>7, <1>8, <1>9

LEMMA NextWork ==
    ASSUME IInv, NamesApart, NamesNotReused, SuccessInv, [Next]_vars PROVE WorkInv'
<1> SUFFICES ASSUME ~C'.gone, outcome' = "active", todo' # <<>>, NEW s \in Stack PROVE Told(s)'
  BY DEF WorkInv
<1>1. /\ ~C.gone
      /\ Start \/ End \/ BeginJobs \/ EndJobs \/ Reconcile \/ PassStep \/ GiveUp \/ OtherStep \/ StackStep
      /\ ~Start => UNCHANGED <<applied, plan, provider, isNew>> /\ C' = C
  BY Provisioning
<1>2. ASSUME job'[s] \in {"idle", "create", "unprotect", "waitForeignDeletion"} PROVE Told(s)'
  BY <1>2 DEF Told
<1>3. CASE ~Working /\ job' = job
  BY <1>2, <1>3, NobodyWorks DEF IInv
<1>4. CASE Start \/ PassStep \/ Reconcile
  <2>1. ~Working
    <3>1. CASE Start
      BY <3>1 DEF Start, Working, At
    <3>2. CASE PassStep
      BY <1>1, <3>2, PassFacts DEF Working, At
    <3>3. CASE Reconcile
      BY <3>3 DEF Reconcile, Working, At
    <3> QED
      BY <1>4, <3>1, <3>2, <3>3
  <2>2. job' = job
    <3>1. CASE PassStep
      BY <1>1, <3>1, PassFacts
    <3> QED
      BY <1>4, <3>1 DEF Start, Reconcile
  <2> QED
    BY <1>3, <2>1, <2>2
<1>5. CASE BeginJobs
  <2>1. job'[s] = IF s \notin Now.on THEN "idle"
                  ELSE IF Now.do = "apply" THEN "create" ELSE DeleteEntry(Now.listed[s])
    BY <1>5 DEF BeginJobs
  <2>2. \A l : DeleteEntry(l) \in {"waitForeignDeletion", "unprotect"}
    BY DEF DeleteEntry
  <2> QED
    BY <1>2, <2>1, <2>2
<1>6. CASE EndJobs
  <2>1. job'[s] = IF job[s] \in Ended THEN "idle" ELSE job[s]
    BY <1>6 DEF EndJobs
  <2>2. job[s] # "idle" => s \in Now.on /\ job[s] \in Ended
    BY <1>6 DEF IInv, JobInv, EndJobs, AwaitAll
  <2> QED
    BY <1>2, <2>1, <2>2
<1>7. CASE End \/ GiveUp
  BY <1>7 DEF End, GiveUp, Fail, Crash
<1>8. CASE StackStep
  <2>1. Turn(s) /\ UNCHANGED <<todo, outcome>>
    BY <1>1, <1>8, StacksTurn
  <2> QED
    BY <2>1 DEF Turn
<1>9. CASE ~Start /\ OtherStep
  <2>1. UNCHANGED <<cf, job, todo, outcome>>
    BY <1>9 DEF OtherStep, Reconfigure, EksDeleted, VolumesDetach, PoolStarts, KarpenterLaunches, vars, attempt
  <2>2. Turn(s)
    BY <1>1, <1>9, <2>1, SameTurns
  <2> QED
    BY <2>1, <2>2 DEF Turn
<1> QED
  BY <1>1, <1>4, <1>5, <1>6, <1>7, <1>8, <1>9

-----------------------------------------------------------------------------
(* The goals are kept *)

SameConfig == C' = C /\ UNCHANGED <<applied, plan, provider, isNew>>

\* The pools' instances have the template of their stack, or are gone.
NodesFollow ==
    \A p \in Pools : nodes'[p] \in {nodes[p], 0} \/ (cf'[p] = cf[p] /\ nodes'[p] = cf[p].tmpl)

\* Nobody spoils what has been achieved while the attempt waits.
LEMMA GoalsStay ==
    ASSUME IInv, Goals(todo), SameConfig, todo' = todo,
           \A s \in Managed : Current(s) => Current(s)',
           \A p \in Pools \ C.pools : PoolGone(p) => PoolGone(p)',
           NodesFollow, kube' = kube, karpenter'.nodePools = karpenter.nodePools
    PROVE  Goals(todo)'
<1>1. /\ Managed' = Managed /\ AppliedPools' = AppliedPools /\ C' = C /\ isNew' = isNew
      /\ AppliedPools \subseteq Managed /\ AppliedPools \subseteq Pools
  BY CurrentConfig DEF SameConfig, Managed, AppliedPools, IInv, Config
<1>2. StepsAllowed(todo)'
  BY <1>1 DEF Goals, StepsAllowed, Allowed, SameConfig, Removable
<1>3. StacksGoal(todo)'
  <2> SUFFICES ASSUME NEW s \in Managed
               PROVE  LastWord(todo', Doing("apply", s), {}, Current(s)')
    BY <1>1 DEF StacksGoal
  <2>1. LastWord(todo, Doing("apply", s), {}, Current(s))
    BY DEF Goals, StacksGoal
  <2>2. Current(s) \in BOOLEAN /\ Current(s)' \in BOOLEAN
    BY DEF Current
  <2> QED
    BY <2>1, <2>2, WordStays
<1>4. PoolsGoal(todo)'
  <2> SUFFICES ASSUME NEW p \in Pools \ C.pools
               PROVE  LastWord(todo', Being("reconcile") \cup Doing("delete", p), {}, PoolGone(p)')
    BY <1>1 DEF PoolsGoal
  <2>1. LastWord(todo, Being("reconcile") \cup Doing("delete", p), {}, PoolGone(p))
    BY DEF Goals, PoolsGoal
  <2>2. PoolGone(p) \in BOOLEAN /\ PoolGone(p)' \in BOOLEAN
    BY DEF PoolGone
  <2> QED
    BY <2>1, <2>2, WordStays
<1>5. NodesGoal(todo)'
  <2> SUFFICES ASSUME ~isNew, NEW p \in AppliedPools
               PROVE  LastWord(todo', Doing("updateNodes", p), Doing("apply", p), NodesCurrent(p)')
    BY <1>1 DEF NodesGoal
  <2>1. /\ LastWord(todo, Doing("updateNodes", p), Doing("apply", p), NodesCurrent(p))
        /\ LastWord(todo, Doing("apply", p), {}, Current(p))
    BY <1>1 DEF Goals, NodesGoal, StacksGoal
  <2>2. NodesCurrent(p) \in BOOLEAN /\ NodesCurrent(p)' \in BOOLEAN
    BY DEF NodesCurrent
  <2>3. (\A k \in 1..Len(todo) : todo[k] \notin Doing("apply", p)) => Current(p)
    BY <2>1 DEF LastWord
  <2>4. NodesCurrent(p) /\ (\A k \in 1..Len(todo) : todo[k] \notin Doing("apply", p)) => NodesCurrent(p)'
    BY <1>1, <2>3 DEF NodesFollow, NodesCurrent, Current
  <2> QED
    BY <2>1, <2>2, <2>4, WordStays
<1>6. ObjectsGoal(todo)' /\ KarpenterGoal(todo)'
  BY <1>1 DEF Goals, ObjectsGoal, KarpenterGoal, Applied, Dropped, HasKarpenter, OnlyKarpenter
<1> QED
  BY <1>2, <1>3, <1>4, <1>5, <1>6 DEF Goals

\* Steps other than Reconcile achieve what they are for, and spoil nothing that
\* a later one does not put right.
LEMMA GoalsPass ==
    ASSUME IInv, Goals(todo), SameConfig, todo # <<>>, todo' = Tail(todo), UNCHANGED cf,
           Now.do # "reconcile",
           Now.do = "apply" => \A s \in Now.on : Current(s),
           Now.do = "delete" => \A p \in Now.on \cap (Pools \ C.pools) : PoolGone(p),
           NodesFollow,
           Now.do = "updateNodes" => \A p \in Pools \cap Now.on : nodes'[p] \in {0, cf[p].tmpl},
           kube' = [o \in Objects |->
                 IF Now.do = "deleteObjects" /\ o \in Now.on THEN 0
                 ELSE IF Now.do = "applyObject" /\ o \in Now.on THEN C.version ELSE kube[o]],
           karpenter'.nodePools =
                 IF Now.do = "applyKarpenter" THEN karpenter.nodePools \cup Now.on
                 ELSE IF Now.do = "removeNodePools" THEN karpenter.nodePools \cap C.karpenter
                 ELSE karpenter.nodePools
    PROVE  Goals(todo)'
<1>1. /\ Managed' = Managed /\ AppliedPools' = AppliedPools /\ C' = C /\ isNew' = isNew
      /\ AppliedPools \subseteq Managed /\ AppliedPools \subseteq Pools
      /\ C.objects \subseteq Objects /\ C.postDelete \subseteq Objects
      /\ C.karpenter \subseteq KarpenterPools
  BY CurrentConfig DEF SameConfig, Managed, AppliedPools, IInv, Config
<1>2. /\ todo \in Seq(StepSet) /\ Now = todo[1] /\ Now \in StepSet /\ 1 \in 1..Len(todo)
      /\ Len(todo) \in Nat \ {0} /\ Len(Tail(todo)) = Len(todo) - 1
      /\ \A i \in 1..Len(Tail(todo)) : Tail(todo)[i] = todo[i + 1] /\ i + 1 \in 1..Len(todo)
  BY TailOfTodo, ElementOfSeq DEF IInv, TypeOK, Now
<1>3. StepsAllowed(todo)'
  <2>1. \A i \in 1..Len(todo) : Allowed(todo[i])
    BY DEF Goals, StepsAllowed
  <2>2. \A i \in 1..Len(todo') : Allowed(todo'[i])
    BY <1>2, <2>1
  <2> QED
    BY <1>1, <2>2 DEF StepsAllowed, Allowed, Removable, SameConfig
<1>4. StacksGoal(todo)'
  <2> SUFFICES ASSUME NEW s \in Managed
               PROVE  LastWord(Tail(todo), Doing("apply", s), {}, Current(s)')
    BY <1>1 DEF StacksGoal
  <2>1. LastWord(todo, Doing("apply", s), {}, Current(s))
    BY DEF Goals, StacksGoal
  <2>2. Current(s) \in BOOLEAN /\ Current(s)' \in BOOLEAN /\ (Current(s) => Current(s)')
    BY <1>1 DEF Current
  <2>3. todo[1] \in Doing("apply", s) => Current(s)'
    BY <1>2, <2>2 DEF Doing
  <2> QED
    BY <1>2, <2>1, <2>2, <2>3, WordPasses
<1>5. PoolsGoal(todo)'
  <2> SUFFICES ASSUME NEW p \in Pools \ C.pools
               PROVE  LastWord(Tail(todo), Being("reconcile") \cup Doing("delete", p), {}, PoolGone(p)')
    BY <1>1 DEF PoolsGoal
  <2>1. LastWord(todo, Being("reconcile") \cup Doing("delete", p), {}, PoolGone(p))
    BY DEF Goals, PoolsGoal
  <2>2. PoolGone(p) \in BOOLEAN /\ PoolGone(p)' \in BOOLEAN /\ (PoolGone(p) => PoolGone(p)')
    BY DEF PoolGone
  <2>3. todo[1] \in Being("reconcile") \cup Doing("delete", p) => PoolGone(p)'
    BY <1>2, <2>2 DEF Doing, Being
  <2> QED
    BY <1>2, <2>1, <2>2, <2>3, WordPasses
<1>6. NodesGoal(todo)'
  <2> SUFFICES ASSUME ~isNew, NEW p \in AppliedPools
               PROVE  LastWord(Tail(todo), Doing("updateNodes", p), Doing("apply", p), NodesCurrent(p)')
    BY <1>1 DEF NodesGoal
  <2>1. /\ LastWord(todo, Doing("updateNodes", p), Doing("apply", p), NodesCurrent(p))
        /\ LastWord(todo, Doing("apply", p), {}, Current(p))
    BY <1>1 DEF Goals, NodesGoal, StacksGoal
  <2>2. NodesCurrent(p) \in BOOLEAN /\ NodesCurrent(p)' \in BOOLEAN
    BY DEF NodesCurrent
  <2>3. (\A k \in 1..Len(todo) : todo[k] \notin Doing("apply", p)) => Current(p)
    BY <2>1 DEF LastWord
  <2>4. NodesCurrent(p) /\ (\A k \in 1..Len(todo) : todo[k] \notin Doing("apply", p)) => NodesCurrent(p)'
    BY <1>1, <2>3 DEF NodesFollow, NodesCurrent, Current
  <2>5. ASSUME todo[1] \in Doing("updateNodes", p), \A k \in 2..Len(todo) : todo[k] \notin Doing("apply", p)
        PROVE  NodesCurrent(p)'
    <3>1. Now.do = "updateNodes" /\ p \in Now.on
      BY <1>2, <2>5 DEF Doing
    <3>2. todo[1] \notin Doing("apply", p)
      BY <1>2, <3>1 DEF Doing
    <3>3. \A k \in 1..Len(todo) : k = 1 \/ k \in 2..Len(todo)
      BY <1>2
    <3>4. Current(p)
      BY <2>3, <2>5, <3>2, <3>3
    <3> QED
      BY <1>1, <3>1, <3>4 DEF NodesCurrent, Current
  <2> QED
    BY <1>2, <2>1, <2>2, <2>4, <2>5, WordPasses
<1>7. ObjectsGoal(todo)'
  <2>1. ASSUME NEW o \in C.objects \ C.postDelete
        PROVE  LastWord(Tail(todo), Doing("applyObject", o), Doing("deleteObjects", o), Applied(o)')
    <3>1. LastWord(todo, Doing("applyObject", o), Doing("deleteObjects", o), Applied(o))
      BY DEF Goals, ObjectsGoal
    <3>2. Applied(o) \in BOOLEAN /\ Applied(o)' \in BOOLEAN
      BY DEF Applied
    <3>3. todo[1] \in Doing("applyObject", o) => Applied(o)'
      BY <1>1, <1>2 DEF Doing, Applied
    <3>4. Applied(o) /\ todo[1] \notin Doing("deleteObjects", o) => Applied(o)'
      BY <1>1, <1>2 DEF Doing, Applied
    <3> QED
      BY <1>2, <3>1, <3>2, <3>3, <3>4, WordPasses
  <2>2. ASSUME NEW o \in C.postDelete
        PROVE  LastWord(Tail(todo), Doing("deleteObjects", o), Doing("applyObject", o), Dropped(o)')
    <3>1. LastWord(todo, Doing("deleteObjects", o), Doing("applyObject", o), Dropped(o))
      BY DEF Goals, ObjectsGoal
    <3>2. Dropped(o) \in BOOLEAN /\ Dropped(o)' \in BOOLEAN
      BY DEF Dropped
    <3>3. todo[1] \in Doing("deleteObjects", o) => Dropped(o)'
      BY <1>1, <1>2 DEF Doing, Dropped
    <3>4. Dropped(o) /\ todo[1] \notin Doing("applyObject", o) => Dropped(o)'
      BY <1>1, <1>2 DEF Doing, Dropped
    <3> QED
      BY <1>2, <3>1, <3>2, <3>3, <3>4, WordPasses
  <2> QED
    BY <1>1, <2>1, <2>2 DEF ObjectsGoal
<1>8. KarpenterGoal(todo)'
  <2>1. ASSUME NEW k \in C.karpenter
        PROVE  LastWord(Tail(todo), Doing("applyKarpenter", k), {}, HasKarpenter(k)')
    <3>1. LastWord(todo, Doing("applyKarpenter", k), {}, HasKarpenter(k))
      BY DEF Goals, KarpenterGoal
    <3>2. HasKarpenter(k) \in BOOLEAN /\ HasKarpenter(k)' \in BOOLEAN /\ (HasKarpenter(k) => HasKarpenter(k)')
      BY DEF HasKarpenter
    <3>3. todo[1] \in Doing("applyKarpenter", k) => HasKarpenter(k)'
      BY <1>2 DEF Doing, HasKarpenter
    <3> QED
      BY <1>2, <3>1, <3>2, <3>3, WordPasses
  <2>2. LastWord(Tail(todo), Being("removeNodePools"), {}, OnlyKarpenter')
    <3>1. LastWord(todo, Being("removeNodePools"), {}, OnlyKarpenter)
      BY DEF Goals, KarpenterGoal
    <3>2. Now.do = "applyKarpenter" => Now.on \subseteq C.karpenter
      BY <1>2 DEF Goals, StepsAllowed, Allowed
    <3>3. OnlyKarpenter \in BOOLEAN /\ OnlyKarpenter' \in BOOLEAN /\ (OnlyKarpenter => OnlyKarpenter')
      BY <1>1, <3>2 DEF OnlyKarpenter
    <3>4. todo[1] \in Being("removeNodePools") => OnlyKarpenter'
      BY <1>1, <1>2 DEF Being, OnlyKarpenter
    <3> QED
      BY <1>2, <3>1, <3>3, <3>4, WordPasses
  <2> QED
    BY <1>1, <2>1, <2>2 DEF KarpenterGoal
<1> QED
  BY <1>3, <1>4, <1>5, <1>6, <1>7, <1>8 DEF Goals
\* Reconcile puts the removal of pools first: of those that are not configured.
LEMMA GoalsRemove ==
    ASSUME IInv, Goals(todo), SameConfig, Reconcile, outcome = "active", ~C.gone
    PROVE  Goals(todo)'
<1>1. /\ todo # <<>> /\ Now.do = "reconcile" /\ UNCHANGED <<cf, nodes, kube, karpenter>>
  BY DEF Reconcile, At, world
<1>2. /\ Managed' = Managed /\ AppliedPools' = AppliedPools /\ C' = C /\ isNew' = isNew
      /\ AppliedPools \subseteq Managed /\ AppliedPools \subseteq Pools
      /\ C.objects \subseteq Objects /\ C.postDelete \subseteq Objects
  BY CurrentConfig DEF SameConfig, Managed, AppliedPools, IInv, Config
<1>3. /\ todo \in Seq(StepSet) /\ Now = todo[1] /\ Now \in StepSet /\ 1 \in 1..Len(todo)
      /\ Len(todo) \in Nat \ {0} /\ Tail(todo) \in Seq(StepSet) /\ Len(Tail(todo)) = Len(todo) - 1
      /\ \A i \in 1..Len(Tail(todo)) : Tail(todo)[i] = todo[i + 1] /\ i + 1 \in 1..Len(todo)
  BY <1>1, TailOfTodo, ElementOfSeq DEF IInv, TypeOK, Now
<1>4. PICK L \in Seq(StepSet) :
          /\ todo' = L \o Tail(todo)
          /\ \A i \in 1..Len(L) : L[i].do \in {"prepareForRemoval", "delete"}
                                  /\ \E p \in Orphaned : L[i].on = {p}
          /\ \A p \in Orphaned : \E i \in 1..Len(L) : L[i].do = "delete" /\ L[i].on = {p}
  BY Removals
<1> DEFINE t == Tail(todo)
<1>5. Orphaned \subseteq Pools \ C.pools
  BY DEF Orphaned, ListStacks
<1>6. /\ \A i \in 1..Len(L) : L[i] \in StepSet
  BY <1>4, ElementOfSeq
\* A goal of which the steps put first say nothing
<1>7. ASSUME NEW G, NEW B, NEW F \in BOOLEAN, LastWord(todo, G, B, F), Now \notin G,
             \A i \in 1..Len(L) : L[i] \notin B
      PROVE  LastWord(L \o t, G, B, F)
  <2>1. LastWord(t, G, B, F)
    BY <1>1, <1>3, <1>7, WordPasses
  <2>2. Free(L, B)
    BY <1>7 DEF Free
  <2> HIDE DEF t
  <2>3. t \in Seq(StepSet)
    BY <1>3 DEF t
  <2> QED
    BY <1>7, <2>1, <2>2, <2>3, WordDelayed
<1>8. \A do, x : do \notin {"reconcile"} => Now \notin Doing(do, x) /\ Now \notin Being(do)
  BY <1>1 DEF Doing, Being
<1>9. \A do, x : do \notin {"prepareForRemoval", "delete"} => \A i \in 1..Len(L) : L[i] \notin Doing(do, x)
  BY <1>4 DEF Doing
<1>10. StepsAllowed(todo)'
  <2>1. \A i \in 1..Len(todo) : Allowed(todo[i])
    BY DEF Goals, StepsAllowed
  <2>2. \A i \in 1..Len(t) : Allowed(t[i])
    BY <1>3, <2>1
  <2>3. \A i \in 1..Len(L) : Allowed(L[i])
    BY <1>4, <1>5 DEF Allowed, Removable
  <2>4. ASSUME NEW i \in 1..Len(L \o t) PROVE Allowed((L \o t)[i])
    <3> HIDE DEF t
    <3>1. t \in Seq(StepSet)
      BY <1>3 DEF t
    <3>2. (i \in 1..Len(L) /\ (L \o t)[i] = L[i]) \/ (\E k \in 1..Len(t) : (L \o t)[i] = t[k])
      BY <3>1, Joined
    <3> QED
      BY <2>2, <2>3, <3>2
  <2> QED
    BY <1>2, <1>4, <2>4 DEF StepsAllowed, Allowed, Removable, SameConfig
<1>11. StacksGoal(todo)'
  <2> SUFFICES ASSUME NEW s \in Managed PROVE LastWord(L \o t, Doing("apply", s), {}, Current(s)')
    BY <1>2, <1>4 DEF StacksGoal
  <2>1. LastWord(todo, Doing("apply", s), {}, Current(s))
    BY DEF Goals, StacksGoal
  <2>2. Current(s) \in BOOLEAN /\ (Current(s)' <=> Current(s)) /\ Current(s)' \in BOOLEAN
    BY <1>1, <1>2 DEF Current
  <2>3. LastWord(L \o t, Doing("apply", s), {}, Current(s))
    BY <1>7, <1>8, <2>1, <2>2
  <2> QED
    BY <2>2, <2>3, WordStays
<1>12. PoolsGoal(todo)'
  <2> SUFFICES ASSUME NEW p \in Pools \ C.pools
               PROVE  LastWord(L \o t, Being("reconcile") \cup Doing("delete", p), {}, PoolGone(p)')
    BY <1>2, <1>4 DEF PoolsGoal
  <2> DEFINE G == Being("reconcile") \cup Doing("delete", p)
  <2>0. t \in Seq(StepSet)
    BY <1>3
  <2>1. CASE p \in Orphaned
    <3>1. PICK i \in 1..Len(L) : L[i].do = "delete" /\ L[i].on = {p}
      BY <1>4, <2>1
    <3>2. L[i] \in G
      BY <1>6, <3>1 DEF Doing
    <3>3. Ends(L, G, {}) /\ Free(t, {})
      BY <3>2 DEF Ends, Free
    <3> HIDE DEF G, t
    <3> QED
      BY <2>0, <3>3, EndsLeft, EndsWord DEF G
  <2>2. CASE p \notin Orphaned
    <3>1. PoolGone(p)'
      BY <1>1, <2>2, FiniteFacts DEF Orphaned, ListStacks, PoolGone, Exists
    <3> QED
      BY <3>1 DEF LastWord
  <2> QED
    BY <2>1, <2>2
<1>13. NodesGoal(todo)'
  <2> SUFFICES ASSUME ~isNew, NEW p \in AppliedPools
               PROVE  LastWord(L \o t, Doing("updateNodes", p), Doing("apply", p), NodesCurrent(p)')
    BY <1>2, <1>4 DEF NodesGoal
  <2>1. LastWord(todo, Doing("updateNodes", p), Doing("apply", p), NodesCurrent(p))
    BY DEF Goals, NodesGoal
  <2>2. NodesCurrent(p) \in BOOLEAN /\ (NodesCurrent(p)' <=> NodesCurrent(p)) /\ NodesCurrent(p)' \in BOOLEAN
    BY <1>1, <1>2 DEF NodesCurrent
  <2>3. LastWord(L \o t, Doing("updateNodes", p), Doing("apply", p), NodesCurrent(p))
    BY <1>7, <1>8, <1>9, <2>1, <2>2
  <2> QED
    BY <2>2, <2>3, WordStays
<1>14. ObjectsGoal(todo)'
  <2>1. ASSUME NEW o \in C.objects \ C.postDelete
        PROVE  LastWord(L \o t, Doing("applyObject", o), Doing("deleteObjects", o), Applied(o)')
    <3>1. LastWord(todo, Doing("applyObject", o), Doing("deleteObjects", o), Applied(o))
      BY DEF Goals, ObjectsGoal
    <3>2. Applied(o) \in BOOLEAN /\ (Applied(o)' <=> Applied(o)) /\ Applied(o)' \in BOOLEAN
      BY <1>1, <1>2 DEF Applied
    <3>3. LastWord(L \o t, Doing("applyObject", o), Doing("deleteObjects", o), Applied(o))
      BY <1>7, <1>8, <1>9, <3>1, <3>2
    <3> QED
      BY <3>2, <3>3, WordStays
  <2>2. ASSUME NEW o \in C.postDelete
        PROVE  LastWord(L \o t, Doing("deleteObjects", o), Doing("applyObject", o), Dropped(o)')
    <3>1. LastWord(todo, Doing("deleteObjects", o), Doing("applyObject", o), Dropped(o))
      BY DEF Goals, ObjectsGoal
    <3>2. Dropped(o) \in BOOLEAN /\ (Dropped(o)' <=> Dropped(o)) /\ Dropped(o)' \in BOOLEAN
      BY <1>1, <1>2 DEF Dropped
    <3>3. LastWord(L \o t, Doing("deleteObjects", o), Doing("applyObject", o), Dropped(o))
      BY <1>7, <1>8, <1>9, <3>1, <3>2
    <3> QED
      BY <3>2, <3>3, WordStays
  <2> QED
    BY <1>2, <1>4, <2>1, <2>2 DEF ObjectsGoal
<1>15. KarpenterGoal(todo)'
  <2>1. ASSUME NEW k \in C.karpenter
        PROVE  LastWord(L \o t, Doing("applyKarpenter", k), {}, HasKarpenter(k)')
    <3>1. LastWord(todo, Doing("applyKarpenter", k), {}, HasKarpenter(k))
      BY DEF Goals, KarpenterGoal
    <3>2. HasKarpenter(k) \in BOOLEAN /\ (HasKarpenter(k)' <=> HasKarpenter(k)) /\ HasKarpenter(k)' \in BOOLEAN
      BY <1>1 DEF HasKarpenter
    <3>3. LastWord(L \o t, Doing("applyKarpenter", k), {}, HasKarpenter(k))
      BY <1>7, <1>8, <3>1, <3>2
    <3> QED
      BY <3>2, <3>3, WordStays
  <2>2. LastWord(L \o t, Being("removeNodePools"), {}, OnlyKarpenter')
    <3>1. LastWord(todo, Being("removeNodePools"), {}, OnlyKarpenter)
      BY DEF Goals, KarpenterGoal
    <3>2. OnlyKarpenter \in BOOLEAN /\ (OnlyKarpenter' <=> OnlyKarpenter) /\ OnlyKarpenter' \in BOOLEAN
      BY <1>1, <1>2 DEF OnlyKarpenter
    <3>3. LastWord(L \o t, Being("removeNodePools"), {}, OnlyKarpenter)
      BY <1>7, <1>8, <3>1, <3>2
    <3> QED
      BY <3>2, <3>3, WordStays
  <2> QED
    BY <1>2, <1>4, <2>1, <2>2 DEF KarpenterGoal
<1> QED
  BY <1>10, <1>11, <1>12, <1>13, <1>14, <1>15 DEF Goals

LEMMA NextGoalInv ==
    ASSUME IInv, NamesApart, NamesNotReused, SuccessInv, [Next]_vars PROVE GoalInv'
<1> SUFFICES ASSUME ~C'.gone, outcome' \in {"active", "provisioned"}
             PROVE  Goals(todo)' /\ (outcome' = "provisioned" => todo' = <<>>)
  BY DEF GoalInv
<1>1. /\ ~C.gone
      /\ Start \/ End \/ BeginJobs \/ EndJobs \/ Reconcile \/ PassStep \/ GiveUp \/ OtherStep \/ StackStep
      /\ ~Start => UNCHANGED <<applied, plan, provider, isNew>> /\ C' = C
  BY Provisioning
<1>2. outcome \in {"active", "provisioned"} => Goals(todo) /\ (outcome = "provisioned" => todo = <<>>)
  BY <1>1 DEF SuccessInv, GoalInv
<1>3. ~Start => SameConfig
  BY <1>1 DEF SameConfig
<1>4. /\ nodes \in [Pools -> Nat] /\ kube = [o \in Objects |-> kube[o]]
      /\ Pools \subseteq Stack
  BY <1>1, FiniteFacts DEF IInv, TypeOK, SuccessInv, HistoryInv
<1>5. /\ Managed \subseteq Stack /\ Managed \cap IngressStacks = {} /\ Managed \cap Pools \subseteq C.pools
  BY <1>1, ManagedApart DEF SuccessInv
<1>6. CASE Start
  <2>1. C' \in Config
    <3>1. C' = plan[current]
      BY <1>6 DEF Start, C, config
    <3> QED
      BY <3>1, CurrentConfig DEF IInv
  <2>2. todo' = ProvisionSteps' /\ outcome' = "active"
    BY <1>6 DEF Start
  <2>3. Goals(ProvisionSteps)'
    BY <2>1, NextGoals
  <2> QED
    BY <2>2, <2>3 DEF Goals, StepsAllowed, StacksGoal, PoolsGoal, NodesGoal, ObjectsGoal, KarpenterGoal
<1>7. CASE GiveUp
  BY <1>7 DEF GiveUp, Fail, Crash
<1>8. CASE ~Start /\ (End \/ BeginJobs \/ OtherStep)
  <2>1. /\ todo' = todo /\ UNCHANGED <<cf, kube>>
        /\ (End /\ todo = <<>> /\ outcome = "active") \/ outcome' = outcome
    BY <1>8 DEF End, BeginJobs, OtherStep, Reconfigure, EksDeleted, VolumesDetach, PoolStarts,
       KarpenterLaunches, vars, attempt, world
  <2>6. karpenter'.nodePools = karpenter.nodePools
    <3>1. CASE \E k \in KarpenterPools : KarpenterLaunches(k)
      BY <1>1, <3>1 DEF KarpenterLaunches, SuccessInv, HistoryInv
    <3>2. CASE karpenter' = karpenter
      BY <3>2
    <3> QED
      BY <1>8, <3>1, <3>2 DEF End, BeginJobs, OtherStep, Reconfigure, EksDeleted, VolumesDetach,
         PoolStarts, vars, world
  <2>2. NodesFollow
    <3>1. ASSUME NEW p \in Pools, PoolStarts(p) PROVE NodesFollow
      BY <1>4, <3>1 DEF PoolStarts, NodesFollow
    <3>2. CASE nodes' = nodes
      BY <3>2 DEF NodesFollow
    <3> QED
      BY <1>8, <3>1, <3>2 DEF End, BeginJobs, OtherStep, Reconfigure, EksDeleted, VolumesDetach,
         KarpenterLaunches, vars, world
  <2>3. \A s : Current(s) => Current(s)'
    BY <1>1, <1>8, <2>1 DEF Current
  <2>4. \A p \in Pools \ C.pools : PoolGone(p) => PoolGone(p)'
    BY <2>1 DEF PoolGone
  <2>5. Goals(todo) /\ (outcome = "provisioned" => todo = <<>>)
    BY <1>2, <2>1
  <2> QED
    BY <1>3, <1>8, <2>1, <2>2, <2>3, <2>4, <2>5, <2>6, GoalsStay
<1>9. CASE ~Start /\ StackStep
  <2>1. /\ UNCHANGED <<todo, outcome, kube, karpenter>>
        /\ \A s \in Stack : Turn(s)
        /\ \A p \in Pools : nodes'[p] \in {nodes[p], 0}
    BY <1>1, <1>9, StacksTurn
  <2>2. \A s \in Managed : Current(s) => Current(s)'
    BY <1>5, <2>1 DEF Turn
  <2>3. ASSUME NEW p \in Pools \ C.pools, PoolGone(p) PROVE PoolGone(p)'
    <3>1. p \notin Managed \cup IngressStacks /\ p \in Stack
      BY <1>4, <1>5 DEF NamesApart
    <3> QED
      BY <2>1, <2>3, <3>1 DEF Turn, PoolGone
  <2>4. NodesFollow
    BY <2>1 DEF NodesFollow
  <2> QED
    BY <1>2, <1>3, <1>9, <2>1, <2>2, <2>3, <2>4, GoalsStay
<1>10. CASE ~Start /\ PassStep
  <2>1. /\ outcome = "active" /\ todo # <<>> /\ todo' = Tail(todo) /\ outcome' = outcome
        /\ Now.do \notin {"apply", "delete", "deleteRound", "reconcile"}
        /\ UNCHANGED cf
        /\ \A p \in Pools : nodes'[p] =
              IF Now.do = "updateNodes" /\ p \in Now.on /\ nodes[p] # 0 THEN cf[p].tmpl
              ELSE IF Now.do = "prepareForRemoval" /\ p \in Now.on THEN 0 ELSE nodes[p]
        /\ kube' = [o \in Objects |->
              IF Now.do = "deleteObjects" /\ o \in Now.on THEN 0
              ELSE IF Now.do = "applyObject" /\ o \in Now.on THEN C.version ELSE kube[o]]
        /\ karpenter'.nodePools =
              IF Now.do = "applyKarpenter" THEN karpenter.nodePools \cup Now.on
              ELSE IF Now.do = "removeNodePools" THEN karpenter.nodePools \cap C.karpenter
              ELSE karpenter.nodePools
    BY <1>1, <1>10, PassFacts
  <2>2. NodesFollow
    BY <2>1 DEF NodesFollow
  <2>3. Now.do = "updateNodes" => \A p \in Pools \cap Now.on : nodes'[p] \in {0, cf[p].tmpl}
    BY <2>1
  <2>4. Goals(todo)
    BY <1>2, <2>1
  <2> QED
    BY <1>3, <1>10, <2>1, <2>2, <2>3, <2>4, GoalsPass
<1>11. CASE ~Start /\ EndJobs
  <2>1. /\ outcome = "active" /\ todo # <<>> /\ Working /\ AwaitAll
        /\ UNCHANGED <<cf, nodes, kube, karpenter>>
    BY <1>11 DEF EndJobs, Working, At, world
  <2>2. Now.do \in {"apply", "delete"}
    <3>1. Now.do \in ProvisionDos
      BY <1>1, <2>1, WhatIsAtHand
    <3> QED
      BY <2>1, <3>1 DEF Working, At, ProvisionDos
  <2>3. ~\E s \in Now.on : job[s] = "failed"
    BY <1>11, <2>2 DEF EndJobs, Fail
  <2>4. todo' = Tail(todo) /\ outcome' = outcome
    <3>1. Proceed(<<>>) /\ SameAttempt
      BY <1>11, <2>2, <2>3 DEF EndJobs
    <3> QED
      BY <2>1, <3>1, TailOfTodo DEF IInv, Proceed, SameAttempt
  <2>5. \A s \in Now.on : job[s] = "ok"
    BY <2>1, <2>3 DEF AwaitAll, Ended
  <2>6. \A s \in Stack : Told(s)
    BY <1>1, <2>1 DEF SuccessInv, WorkInv
  <2>7. Allowed(Now)
    BY <1>1, <2>1, AtHandAllowed DEF SuccessInv
  <2>8. Now.do = "apply" => \A s \in Now.on : Current(s)
    BY <1>5, <2>5, <2>6, <2>7 DEF Told, Allowed
  <2>9. Now.do = "delete" => \A p \in Now.on \cap (Pools \ C.pools) : PoolGone(p)
    BY <1>4, <2>5, <2>6 DEF Told, PoolGone
  <2>10. NodesFollow
    BY <2>1 DEF NodesFollow
  <2>11. kube' = [o \in Objects |->
              IF Now.do = "deleteObjects" /\ o \in Now.on THEN 0
              ELSE IF Now.do = "applyObject" /\ o \in Now.on THEN C.version ELSE kube[o]]
    BY <1>4, <2>1, <2>2
  <2>12. karpenter'.nodePools =
              IF Now.do = "applyKarpenter" THEN karpenter.nodePools \cup Now.on
              ELSE IF Now.do = "removeNodePools" THEN karpenter.nodePools \cap C.karpenter
              ELSE karpenter.nodePools
    BY <2>1, <2>2
  <2>13. Goals(todo) /\ Now.do \notin {"reconcile", "updateNodes"}
    BY <1>2, <2>1, <2>2
  <2>14. Goals(todo)'
    BY <1>3, <1>11, <2>1, <2>4, <2>8, <2>9, <2>10, <2>11, <2>12, <2>13, GoalsPass
  <2> QED
    BY <2>1, <2>4, <2>14
<1>12. CASE ~Start /\ Reconcile
  <2>1. outcome = "active" /\ outcome' = outcome
    BY <1>12 DEF Reconcile, At, SameAttempt
  <2> QED
    BY <1>1, <1>2, <1>3, <1>12, <2>1, GoalsRemove
<1> QED
  BY <1>1, <1>6, <1>7, <1>8, <1>9, <1>10, <1>11, <1>12

LEMMA NextResult == ASSUME ResultInv, [Next]_vars PROVE ResultInv'
<1> SUFFICES ASSUME outcome' = "provisioned" PROVE ~C'.gone
  BY DEF ResultInv
<1>1. /\ ~Start /\ UNCHANGED <<applied, plan>>
      /\ (End /\ ~C.gone) \/ outcome = "provisioned"
  BY DEF Next, Attempt, Start, End, BeginJobs, EndJobs, Prepare, CreationHook, WaitForAPIServer,
     DeleteLeakedENIs, Plain, UpdateNodes, DeleteObjects, ApplyObject, Reconcile, PrepareForRemoval,
     ApplyKarpenter, ReconcileKarpenter, Details, Downscale, Terminate, AwaitTerminated,
     DeleteClusterStacks, StacksLeft, RemoveVolumes, StepFails, TerminateFails, Crash, Reconfigure,
     EksDeleted, VolumesDetach, PoolStarts, KarpenterLaunches, RunJob, AnyJobFails, CloudFormation,
     CloudFormationFails, IngressCreates, StackEffects, vars, config, attempt, SameAttempt, Succeed, Fail
<1> QED
  BY <1>1 DEF ResultInv, C

LEMMA SuccessInit == Init => SuccessInv
<1> SUFFICES ASSUME Init PROVE SuccessInv
  OBVIOUS
<1>1. /\ cf = [s \in Stack |-> NoStack] /\ outcome = "failed" /\ nodes = [p \in Pools |-> 0]
      /\ kube = [o \in Objects |-> 0]
      /\ karpenter = [nodePools |-> {}, nodeClasses |-> {}, instances |-> {}]
      /\ \E sc \in Scenarios : plan = sc.plan
  BY DEF Init
<1>2. \A s \in Stack : cf[s].st = "NONE" /\ ~cf[s].requested /\ ~Exists(s)
  BY <1>1 DEF NoStack, Exists
<1>3. Pools \subseteq Stack
  BY FiniteFacts
<1>4. HistoryInv
  <2>1. \A p \in Pools : ~Exists(p) /\ nodes[p] = 0
    BY <1>1, <1>2, <1>3
  <2>2. kube \in [Objects -> Nat]
    BY <1>1
  <2>3. karpenter \in [nodePools : SUBSET KarpenterPools, nodeClasses : SUBSET KarpenterPools,
                       instances : SUBSET KarpenterPools]
    BY <1>1
  <2> QED
    BY <1>1, <1>2, <2>1, <2>2, <2>3 DEF HistoryInv
<1> QED
  BY <1>1, <1>4 DEF SuccessInv, WorkInv, GoalInv, ResultInv

\* An attempt that has no steps left has achieved all goals.
LEMMA GoalsReached ==
    ASSUME IInv, NamesApart, SuccessInv, outcome = "provisioned" PROVE SuccessMeansCurrent
<1>1. ~C.gone /\ todo = <<>> /\ Goals(todo)
  BY DEF SuccessInv, GoalInv, ResultInv
<1>2. ASSUME NEW G, NEW B, NEW F, LastWord(todo, G, B, F) PROVE F
  BY <1>1, <1>2 DEF LastWord
<1>3. C \in Config /\ C.pools \subseteq Pools /\ Pools \subseteq Stack
  BY CurrentConfig, FiniteFacts DEF IInv, Config
<1>4. \A s \in Managed : Current(s)
  BY <1>1, <1>2 DEF Goals, StacksGoal
<1>5. Wanted \subseteq Managed
  BY <1>3 DEF Wanted, Managed, AppliedPools, Pools
<1>6. \A p \in Pools : Exists(p) => p \in C.pools
  <2> SUFFICES ASSUME NEW p \in Pools \ C.pools PROVE ~Exists(p)
    OBVIOUS
  <2> DEFINE G == Being("reconcile") \cup Doing("delete", p)
  <2>0. LastWord(todo, G, {}, PoolGone(p))
    BY <1>1 DEF Goals, PoolsGoal
  <2> HIDE DEF G
  <2>1. PoolGone(p)
    BY <1>2, <2>0
  <2> QED
    BY <2>1 DEF PoolGone, Exists
<1>7. ASSUME ~isNew, NEW p \in C.pools PROVE nodes[p] \in {0, C.version}
  <2>1. CASE p \in AppliedPools
    <3>1. NodesCurrent(p)
      BY <1>1, <1>2, <1>7, <2>1 DEF Goals, NodesGoal
    <3> QED
      BY <3>1 DEF NodesCurrent
  <2>2. CASE p \notin AppliedPools
    <3>1. provider # "aws" /\ p \notin Workers
      BY <1>3, <2>2 DEF AppliedPools, Pools
    <3>2. cf[p].st = "NONE"
      BY <1>1, <1>3, <3>1 DEF SuccessInv, HistoryInv, Exists
    <3> QED
      BY <1>1, <1>3, <3>2 DEF SuccessInv, HistoryInv
  <2> QED
    BY <2>1, <2>2
<1>8. ASSUME NEW o \in Objects
      PROVE  /\ o \in C.objects \ C.postDelete => kube[o] = C.version
             /\ o \in C.postDelete => kube[o] = 0
  <2>1. o \in C.objects \ C.postDelete => Applied(o)
    BY <1>1, <1>2 DEF Goals, ObjectsGoal
  <2>2. o \in C.postDelete => Dropped(o)
    BY <1>1, <1>2 DEF Goals, ObjectsGoal
  <2> QED
    BY <2>1, <2>2 DEF Applied, Dropped
<1>9. karpenter.nodePools = C.karpenter
  <2>1. \A k \in C.karpenter : HasKarpenter(k)
    BY <1>1, <1>2 DEF Goals, KarpenterGoal
  <2>2. OnlyKarpenter
    BY <1>1, <1>2 DEF Goals, KarpenterGoal
  <2> QED
    BY <2>1, <2>2 DEF HasKarpenter, OnlyKarpenter
<1> QED
  BY <1>4, <1>5, <1>6, <1>7, <1>8, <1>9 DEF SuccessMeansCurrent, Current

LEMMA SuccessNext ==
    ASSUME NamesApart, NamesNotReused PROVE IInv /\ SuccessInv /\ [Next]_vars => SuccessInv'
<1> SUFFICES ASSUME IInv, SuccessInv, [Next]_vars PROVE SuccessInv'
  OBVIOUS
<1>1. HistoryInv'
  BY NextHistory
<1>2. WorkInv'
  BY NextWork
<1>3. GoalInv'
  BY NextGoalInv
<1>4. ResultInv'
  BY NextResult DEF SuccessInv
<1> QED
  BY <1>1, <1>2, <1>3, <1>4 DEF SuccessInv

\* When provision returns no error, what the configuration asks for is there and
\* nothing else: stacks of its template, no other pool, nodes of that template,
\* its objects and its Karpenter pools; whatever failed attempts, crashes,
\* cancellations, and earlier configurations have left, provided that no
\* configuration deletes a stack that it or a later one has.
THEOREM SuccessAlwaysCurrent ==
    ASSUME NamesApart, NamesNotReused PROVE Spec => []SuccessMeansCurrent
<1>1. Init => SuccessInv
  BY SuccessInit
<1>2. IInv /\ SuccessInv /\ [Next]_vars => SuccessInv'
  BY SuccessNext
<1>3. IInv /\ SuccessInv => SuccessMeansCurrent
  <2>1. outcome # "provisioned" => SuccessMeansCurrent
    BY DEF SuccessMeansCurrent
  <2> QED
    BY <2>1, GoalsReached
<1>4. Spec => []IInv
  BY ProvisionInvariant
<1> QED
  BY <1>1, <1>2, <1>3, <1>4, PTL DEF Spec

=============================================================================
