------------------------ MODULE RollingUpdateProofs ------------------------
(***************************************************************************)
(* What holds of RollingUpdateStrategy for every pool, surge, matching of  *)
(* nodes with volumes, and number of aborted runs, failing machines and    *)
(* decisions of the cluster autoscaler.                                    *)
(***************************************************************************)
EXTENDS RollingUpdate, NodePoolProofs

-----------------------------------------------------------------------------
(* The invariants *)

AtNode == {"drain", "lower", "kill"}

ManagerType ==
    /\ pc \in PCs /\ pool \in Pools /\ todo \subseteq Instances
    /\ oldLeft \in Int /\ cur \in Instances \cup {NoNode} /\ scaleDown \in BOOLEAN
    /\ target \in Nat /\ read \in [desired : Nat, minSize : Nat] /\ aborts \in Nat
    /\ pc \in AtNode => cur \in Instances

TypeOK == PoolTypeOK /\ ManagerType

\* As long as an old instance starts, the group has no more instances than it
\* wants, and no run has got further than to wait for it.
PendingInv == ~Spot /\ Old \cap In({"pending"}) # {} =>
    /\ Cardinality(Running) <= desired
    /\ pc \in {"start", "surge", "scale", "failed"} \/ (pc = "done" /\ MaxSize < 1)

\* The run knows all old instances when it decides whether it is done.
OldKnown == ~Spot /\ pc = "mark" => Old \cap Alive \subseteq pool.nodes

DoneInv == ~Spot /\ pc = "done" /\ MaxSize >= 1 => Old \cap Alive = {}

SafeInv == TypeOK /\ FreshNodesReady /\ PendingInv /\ OldKnown /\ DoneInv

(* A removal *)

\* A removal never resizes the group and keeps the autoscaler away.
RemovalInv == Removal =>
    /\ pc \in {"start", "scale", "mark", "drain", "lower", "kill", "failed", "done"}
    /\ target = 0 /\ Cardinality(Running) <= desired
    /\ pc \notin {"start", "failed"} => ~autoscaled

EmptyInv ==
    Removal /\ ~Spot /\ (pc = "done" \/ (pc = "mark" /\ pool.nodes = {})) =>
        desired = 0 /\ Alive = {} /\ ~autoscaled

(* An update *)

\* The nodes that are cordoned or about to be.
Withdrawn == cordoned \cup (IF pc = "cordon" THEN todo ELSE {})

\* Only old nodes are, and the run terminates all of them before it chooses
\* the next ones.
FewWithdrawn ==
    /\ Withdrawn \subseteq Old
    /\ Withdrawn \cap In({"unused", "pending"}) = {}
    /\ Cardinality(Withdrawn \cap Alive) <= Surge

WithdrawnInv ==
    /\ pc = "mark" => cordoned \cap Alive \subseteq pool.nodes
    /\ pc = "terminate" => cordoned \cap Alive \subseteq todo
    /\ pc \in AtNode => /\ cur \in cordoned /\ cur \notin todo
                        /\ cordoned \cap Alive \subseteq todo \cup {cur}
    /\ pc = "terminate" \/ pc \in AtNode => todo \subseteq cordoned
    /\ pc = "settle" => cordoned \cap Alive = {}

OldRunning == Old \cap Running

\* The group shrinks with one of the last Surge old nodes.
LastInv == ~Spot =>
    /\ pc = "terminate" => Cardinality(OldRunning \cup todo) <= oldLeft
    /\ pc \in AtNode => /\ Cardinality((OldRunning \cup todo) \ {cur}) <= oldLeft
                        /\ scaleDown => Cardinality(OldRunning) <= Surge

\* The instances that the group has, or will have when AWS has launched them.
Top == IF Cardinality(Running) > desired THEN Cardinality(Running) ELSE desired

\* As many nodes as the group may have lost with the last old ones.
Shrunk == IF Cardinality(OldRunning) < Surge THEN Surge - Cardinality(OldRunning) ELSE 0

\* What AWS removes when the group wants less than it has is paid for by the
\* decisions of the autoscaler that a stale Resize has undone.
DesiredInv == ~Spot =>
    /\ 2 * desired + scalings + Shrunk >= InitialSize + Top
    /\ pc = "resize" => /\ read.desired + scalings + Shrunk >= InitialSize
                        /\ 2 * read.desired + scalings + Shrunk >= InitialSize + Top

Kept(S, least) ==
    /\ Cardinality(S) + failures + scalings + desired >= least + Top
    /\ pc = "resize" => Cardinality(S) + failures + scalings + read.desired >= least + Top

CapacityInv == ~Spot => Kept(ReadyNodes \ Withdrawn, InitialSize - Surge)

\* The new instances that have not been lost, and those that have registered
\* or have been lost.
Fresh == In({"unused", "pending", "ready"}) \ Old
Known == In({"ready", "unhealthy", "terminating", "terminated", "gone"}) \ Old

FreshInv == Kept(Fresh, Cardinality(Instances \ Old))

VolumesInv == ~Spot => \A z \in Zones :
    Cardinality(InZone(Withdrawn \cap Alive \cap Old \cap Volumes, z)) <= Cardinality(InZone(Known, z))

UpdateInv == /\ FewWithdrawn /\ WithdrawnInv /\ LastInv /\ DesiredInv
             /\ CapacityInv /\ FreshInv /\ VolumesInv

-----------------------------------------------------------------------------
(* Types *)

\* The steps of a run, by what they change in the pool: nothing, node objects,
\* the group, or an instance.
InternalStep ==
    \/ StartUpdate \/ EnoughNew \/ ScaleOut \/ ScalePool \/ DescribeGroup \/ AllMarked \/ Removed
    \/ AllTerminated \/ Killed \/ Choose \/ AllCordoned \/ CallFails \/ Abort \/ Retry
    \/ \E i \in Instances : TerminateNext(i)

NodeStep ==
    \/ DrainNode
    \/ \E i \in Instances : MarkNode(i) \/ RemoveNode(i) \/ Cordon(i)

GroupStep == StartRemoval \/ Resize \/ LowerMin

LEMMA NextCases ==
    ASSUME [Next]_vars
    PROVE  InternalStep \/ NodeStep \/ GroupStep \/ Kill \/ World \/ UNCHANGED vars
  BY DEF Next, Progress, Finished, InternalStep, NodeStep, GroupStep

LEMMA PoolTypes ==
    ASSUME PoolTypeOK
    PROVE  GetPool \in Pools /\ NoPool \in Pools /\ Registered \in SUBSET Instances
<1>1. Registered \in SUBSET Instances
  BY FiniteIn DEF Registered
<1>2. [i \in Instances |-> IF i \in Registered THEN label[i] ELSE "ready"] \in [Instances -> Labels]
  BY DEF PoolTypeOK, NodeType, Labels
<1>3. [i \in Instances |-> "ready"] \in [Instances -> Labels]
  BY DEF Labels
<1> QED
  BY <1>1, <1>2, <1>3 DEF PoolTypeOK, GroupType, GetPool, NoPool, Pools

LEMMA SurgeType == Surge \in Nat
  BY PoolAssumption, UpdateAssumption DEF Surge, Smaller

\* What is chosen: matched volume nodes, plain nodes and, when there are too
\* few of both, unmatched volume nodes, together at most Surge.
LEMMA ChosenNodes ==
    ASSUME NEW p \in Pools, NEW lists \in NodesLists(p)
    PROVE  \E m \in Matchings(p), e \in SUBSET (oldNodes(p) \ Volumes),
              u \in SUBSET (oldNodes(p) \cap Volumes) :
                /\ lists = <<m \cup e, u>>
                /\ Cardinality(m) + Cardinality(e) + Cardinality(u) <= Surge
<1>1. /\ IsFiniteSet(oldNodes(p)) /\ oldNodes(p) \subseteq Instances
      /\ \A S : S \subseteq oldNodes(p) => IsFiniteSet(S) /\ Cardinality(S) \in Nat
  <2>1. oldNodes(p) \subseteq Instances
    BY DEF Pools, oldNodes
  <2> QED
    BY <2>1, PoolAssumption, FS_Subset, FS_CardinalityType
<1>2. Cardinality({}) = 0
  BY FS_EmptySet
<1>3. CASE lists \in FullLists(p)
  <2>1. PICK m \in Matchings(p) : lists = <<m, {}>> /\ Cardinality(m) = Surge
    BY <1>3 DEF FullLists
  <2>2. m \cup {} = m
    OBVIOUS
  <2>3. Cardinality(m) + Cardinality({}) + Cardinality({}) <= Surge
    BY <1>2, <2>1, SurgeType
  <2> QED
    BY <2>1, <2>2, <2>3
<1>4. CASE lists \notin FullLists(p)
  <2>1. PICK m \in Matchings(p) : lists \in FilledUp(p, m) /\ Cardinality(m) < Surge
    BY <1>4 DEF NodesLists
  <2> DEFINE plain == oldNodes(p) \ Volumes
             missed == (oldNodes(p) \cap Volumes) \ m
             more(n, S) == Smaller(Surge - n, Cardinality(S))
  <2>2. PICK e \in OfSize(plain, more(Cardinality(m), plain)) :
           \E u \in OfSize(missed, more(Cardinality(m \cup e), missed)) : lists = <<m \cup e, u>>
    BY <2>1 DEF FilledUp
  <2>3. PICK u \in OfSize(missed, more(Cardinality(m \cup e), missed)) : lists = <<m \cup e, u>>
    BY <2>2
  <2>4. e \subseteq plain /\ u \subseteq missed /\ m \subseteq oldNodes(p) \cap Volumes
    BY DEF OfSize, Matchings
  <2>5. /\ Cardinality(e) = Smaller(Surge - Cardinality(m), Cardinality(plain))
        /\ Cardinality(u) = Smaller(Surge - Cardinality(m \cup e), Cardinality(missed))
    BY DEF OfSize
  <2>6. /\ IsFiniteSet(m) /\ IsFiniteSet(e) /\ Cardinality(m) \in Nat /\ Cardinality(e) \in Nat
        /\ Cardinality(plain) \in Nat /\ Cardinality(missed) \in Nat
    BY <1>1, <2>4
  <2>7. m \cap e = {}
    BY <2>4
  <2>8. Cardinality(m \cup e) = Cardinality(m) + Cardinality(e)
    <3>1. Cardinality(m \cup e) = Cardinality(m) + Cardinality(e) - Cardinality(m \cap e)
      BY <2>6, FS_Union
    <3>2. Cardinality(m \cap e) = 0
      BY <1>2, <2>7
    <3> QED
      BY <2>6, <3>1, <3>2
  <2>9. Cardinality(m) + Cardinality(e) + Cardinality(u) <= Surge
    BY <2>5, <2>6, <2>8, SurgeType DEF Smaller
  <2> QED
    BY <2>3, <2>4, <2>9
<1> QED
  BY <1>3, <1>4

\* All nodes that are chosen are old, and at most Surge.
LEMMA ChosenFew ==
    ASSUME NEW p \in Pools, NEW lists \in NodesLists(p)
    PROVE  /\ Chosen(lists)[1] \in SUBSET oldNodes(p)
           /\ Cardinality(Chosen(lists)[1]) \in Nat /\ Cardinality(Chosen(lists)[1]) <= Surge
           /\ Cardinality(Chosen(lists)[2]) \in Nat
<1>1. PICK m \in Matchings(p), e \in SUBSET (oldNodes(p) \ Volumes),
           u \in SUBSET (oldNodes(p) \cap Volumes) :
        /\ lists = <<m \cup e, u>>
        /\ Cardinality(m) + Cardinality(e) + Cardinality(u) <= Surge
  BY ChosenNodes
<1>2. m \subseteq oldNodes(p) /\ e \subseteq oldNodes(p) /\ u \subseteq oldNodes(p)
  BY DEF Matchings
<1>3. oldNodes(p) \subseteq Instances
  BY DEF Pools, oldNodes
<1>4. IsFiniteSet(m) /\ IsFiniteSet(e) /\ IsFiniteSet(u) /\ IsFiniteSet({})
  BY <1>2, <1>3, PoolAssumption, FS_Subset, FS_EmptySet
<1>5. /\ Cardinality(m) \in Nat /\ Cardinality(e) \in Nat /\ Cardinality(u) \in Nat
      /\ Cardinality({}) \in Nat
  BY <1>4, FS_CardinalityType
<1>6. /\ IsFiniteSet(m \cup e) /\ Cardinality(m \cup e) \in Nat
      /\ Cardinality(m \cup e) <= Cardinality(m) + Cardinality(e)
  <2>1. /\ IsFiniteSet(m \cup e) /\ IsFiniteSet(m \cap e)
        /\ Cardinality(m \cup e) = Cardinality(m) + Cardinality(e) - Cardinality(m \cap e)
    BY <1>4, FS_Union, FS_Subset, m \cap e \subseteq m
  <2>2. Cardinality(m \cap e) \in Nat /\ Cardinality(m \cup e) \in Nat
    BY <2>1, FS_CardinalityType
  <2> QED
    BY <1>5, <2>1, <2>2
<1>7. /\ Cardinality((m \cup e) \cup u) \in Nat
      /\ Cardinality((m \cup e) \cup u) <= Cardinality(m \cup e) + Cardinality(u)
  <2>1. /\ IsFiniteSet((m \cup e) \cup u) /\ IsFiniteSet((m \cup e) \cap u)
        /\ Cardinality((m \cup e) \cup u)
             = Cardinality(m \cup e) + Cardinality(u) - Cardinality((m \cup e) \cap u)
    BY <1>4, <1>6, FS_Union, FS_Subset, (m \cup e) \cap u \subseteq u
  <2>2. Cardinality((m \cup e) \cap u) \in Nat /\ Cardinality((m \cup e) \cup u) \in Nat
    BY <2>1, FS_CardinalityType
  <2> QED
    BY <1>5, <1>6, <2>1, <2>2
<1>8. \/ Chosen(lists)[1] = m \cup e /\ Chosen(lists)[2] = u
      \/ Chosen(lists)[1] = (m \cup e) \cup u /\ Chosen(lists)[2] = {}
  BY <1>1 DEF Chosen
<1>9. Cardinality(m \cup e) <= Surge /\ Cardinality((m \cup e) \cup u) <= Surge
  BY <1>1, <1>5, <1>6, <1>7, SurgeType
<1> QED
  BY <1>2, <1>5, <1>6, <1>7, <1>8, <1>9

\* What a step of the run that leaves the pool alone does to its variables.
LEMMA InternalTyped ==
    ASSUME TypeOK, InternalStep
    PROVE  ManagerType' /\ UNCHANGED poolVars
<1> USE DEF TypeOK, ManagerType
<1> DEFINE bookkeeping == /\ pc' \in PCs /\ (pc' \in AtNode => cur' \in Instances)
                          /\ UNCHANGED poolVars
<1>1. ASSUME \/ StartUpdate \/ AllMarked \/ Removed \/ AllTerminated \/ AllCordoned \/ CallFails \/ Abort
             \/ EnoughNew \/ ScaleOut \/ ScalePool \/ DescribeGroup \/ Killed \/ Choose \/ Retry
      PROVE  bookkeeping
  BY <1>1 DEF StartUpdate, AllMarked, Removed, AllTerminated, AllCordoned, CallFails, Abort,
     EnoughNew, ScaleOut, ScalePool, DescribeGroup, Killed, Choose, Retry, Step, InternalOnly,
     PCs, AtNode
<1>2. ASSUME NEW i \in Instances, TerminateNext(i) PROVE ManagerType' /\ UNCHANGED poolVars
  BY <1>2 DEF TerminateNext, Step, InternalOnly, PCs, AtNode, ShrinkWith
<1>3. GetPool \in Pools /\ NoPool \in Pools /\ Registered \in SUBSET Instances
      /\ \A p \in Pools : oldNodes(p) \in SUBSET Instances /\ NodesToTerminate(p) \in SUBSET Instances
  BY PoolTypes DEF Pools, oldNodes, NodesToTerminate
<1>4. CASE StartUpdate \/ Removed \/ AllTerminated \/ AllCordoned \/ CallFails \/ Abort
  <2>1. UNCHANGED <<pool, todo, oldLeft, cur, scaleDown, target, read>> /\ aborts' \in Nat
    BY <1>4 DEF StartUpdate, Removed, AllTerminated, AllCordoned, CallFails, Abort
  <2> QED
    BY <1>1, <1>4, <2>1
<1>5. CASE AllMarked
  <2>1. oldLeft' \in Int
    <3>1. Cardinality(oldNodes(pool)) \in Nat
      BY <1>3, PoolAssumption, FS_Subset, FS_CardinalityType
    <3> QED
      BY <1>5, <3>1 DEF AllMarked
  <2>2. todo' \subseteq Instances
    BY <1>3, <1>5 DEF AllMarked
  <2> QED
    BY <1>1, <1>5, <2>1, <2>2 DEF AllMarked
<1>6. CASE EnoughNew \/ ScalePool
  <2>1. pool' \in Pools /\ todo' \subseteq Instances
    BY <1>3, <1>6 DEF EnoughNew, ScalePool
  <2> QED
    BY <1>1, <1>6, <2>1 DEF EnoughNew, ScalePool
<1>7. CASE ScaleOut
  <2>1. Cardinality(newNodes(GetPool)) \in Nat /\ ScaleOutSurge(desired) \in Nat
    <3>1. newNodes(GetPool) \in SUBSET Instances
      BY <1>3 DEF Pools, newNodes
    <3> QED
      BY <3>1, PoolAssumption, FS_Subset, FS_CardinalityType, SurgeType
         DEF ScaleOutSurge, PoolTypeOK, GroupType, Smaller
  <2>2. target' \in Nat
    BY <1>7, <2>1 DEF ScaleOut, PoolTypeOK, GroupType
  <2> QED
    BY <1>1, <1>7, <2>2 DEF ScaleOut
<1>8. CASE DescribeGroup
  BY <1>1, <1>8 DEF DescribeGroup, PoolTypeOK, GroupType
<1>9. CASE Killed
  BY <1>1, <1>9 DEF Killed
<1>10. CASE Choose
  <2>1. PICK lists \in NodesLists(GetPool) :
          /\ todo' = Chosen(lists)[1]
          /\ target' = IF Chosen(lists)[2] = {} THEN 0 ELSE desired + Cardinality(Chosen(lists)[2])
    BY <1>10 DEF Choose
  <2>2. todo' \subseteq Instances
    BY <1>3, <2>1, ChosenFew
  <2>3. Cardinality(Chosen(lists)[2]) \in Nat
    BY <1>3, ChosenFew
  <2>4. target' \in Nat
    BY <2>1, <2>3 DEF PoolTypeOK, GroupType
  <2> QED
    BY <1>1, <1>3, <1>10, <2>2, <2>4 DEF Choose
<1>11. CASE Retry
  <2>1. [desired |-> 0, minSize |-> 0] \in [desired : Nat, minSize : Nat]
    OBVIOUS
  <2>2. /\ pool' = NoPool /\ todo' = {} /\ oldLeft' = 0 /\ cur' = NoNode /\ scaleDown' = FALSE
        /\ target' = 0 /\ read' = [desired |-> 0, minSize |-> 0] /\ aborts' = aborts
    BY <1>11 DEF Retry
  <2> HIDE DEF bookkeeping
  <2>3. read' \in [desired : Nat, minSize : Nat] /\ target' \in Nat /\ pool' \in Pools
        /\ oldLeft' \in Int /\ aborts' \in Nat
    BY <1>3, <2>1, <2>2
  <2>4. todo' \subseteq Instances /\ cur' \in Instances \cup {NoNode} /\ scaleDown' \in BOOLEAN
    BY <2>2
  <2>5. bookkeeping
    BY <1>1, <1>11
  <2> QED
    BY <2>3, <2>4, <2>5 DEF bookkeeping
<1> QED
  BY <1>1, <1>2, <1>4, <1>5, <1>6, <1>7, <1>8, <1>9, <1>10, <1>11 DEF InternalStep

\* What a step of the run that changes node objects does.
LEMMA NodeTyped ==
    ASSUME TypeOK, FreshNodesReady, NodeStep
    PROVE  /\ ManagerType' /\ NodeType' /\ FreshNodesReady'
           /\ UNCHANGED <<inst, groupVars, failures, scalings>>
<1> USE DEF TypeOK, ManagerType, PoolTypeOK
<1>1. UNCHANGED <<inst, groupVars, failures, scalings>>
  BY DEF NodeStep, MarkNode, RemoveNode, Cordon, DrainNode, NodesOnly
<1>2. CASE DrainNode
  <2>1. cur \in Registered \/ pool.label[cur] = "draining"
    BY <1>2 DEF DrainNode, LabelDraining
  <2>2. cur \in Instances
    BY <1>2 DEF DrainNode, Step, AtNode
  <2>3. NodeType'
    BY <1>2, <2>2 DEF DrainNode, LabelDraining, labelNode, NodeType, Labels
  <2>4. label' = label \/ (label' = [label EXCEPT ![cur] = "draining"] /\ cur \in Registered)
    BY <1>2, <2>1 DEF DrainNode, LabelDraining, labelNode
  <2>5. FreshNodesReady'
    BY <1>1, <2>2, <2>4 DEF FreshNodesReady, In, Registered, NodeType
  <2>6. ManagerType'
    BY <1>2, <2>2 DEF DrainNode, Step, PCs
  <2> QED
    BY <1>1, <2>3, <2>5, <2>6
<1>3. ASSUME NEW i \in Instances, MarkNode(i) PROVE ManagerType' /\ NodeType' /\ FreshNodesReady'
  <2>1. NodeType' /\ FreshNodesReady'
    BY <1>1, <1>3, MarkKeeps DEF MarkNode
  <2> QED
    BY <1>3, <2>1 DEF MarkNode
<1>4. ASSUME NEW i \in Instances, RemoveNode(i) \/ Cordon(i)
      PROVE  ManagerType' /\ NodeType' /\ FreshNodesReady'
  <2>1. label' = label /\ NodeType'
    BY <1>4 DEF RemoveNode, Cordon, CordonNode, NodeType
  <2>2. FreshNodesReady'
    BY <1>1, <2>1 DEF FreshNodesReady, In
  <2>3. ManagerType'
    BY <1>4 DEF RemoveNode, Cordon, Step, PCs, AtNode
  <2> QED
    BY <2>1, <2>2, <2>3
<1> QED
  BY <1>1, <1>2, <1>3, <1>4 DEF NodeStep

\* What a step of the run that changes the sizes of the group does.
LEMMA GroupTyped ==
    ASSUME TypeOK, FreshNodesReady, GroupStep
    PROVE  /\ ManagerType' /\ GroupType' /\ UNCHANGED given
           /\ UNCHANGED <<inst, nodeVars, failures, scalings>>
<1> USE DEF TypeOK, ManagerType, PoolTypeOK
<1>1. UNCHANGED <<inst, nodeVars, failures, scalings>>
  BY DEF GroupStep, StartRemoval, Resize, LowerMin, GroupOnly
<1>2. CASE StartRemoval
  BY <1>1, <1>2 DEF StartRemoval, MarkForDecommission, GroupType, Step, PCs, AtNode
<1>3. CASE Resize
  <2>1. GroupType' /\ UNCHANGED given
    BY <1>3 DEF Resize, Scale, Rebalanced, Smaller, GroupType
  <2>2. ManagerType'
    BY <1>3 DEF Resize, Step, PCs, AtNode
  <2> QED
    BY <1>1, <2>1, <2>2
<1>4. CASE LowerMin
  <2>1. minSize' \in Nat
    BY <1>4 DEF LowerMin, LowerMinSize, GroupType
  <2>2. GroupType' /\ UNCHANGED given
    BY <1>4, <2>1 DEF LowerMin, LowerMinSize, GroupType
  <2>3. ManagerType'
    BY <1>4 DEF LowerMin, Step, PCs, AtNode
  <2> QED
    BY <1>1, <2>2, <2>3
<1> QED
  BY <1>1, <1>2, <1>3, <1>4 DEF GroupStep

LEMMA KillTyped ==
    ASSUME TypeOK, FreshNodesReady, Kill
    PROVE  /\ TypeOK' /\ FreshNodesReady' /\ UNCHANGED <<given, updateVars, nodeVars, failures, scalings>>
           /\ cur \in Instances /\ inst[cur] \in Live
           /\ inst' = [inst EXCEPT ![cur] = "terminating"]
           /\ desired' = IF scaleDown THEN desired - 1 ELSE desired
           /\ Old \cap In({"pending"})' \subseteq Old \cap In({"pending"})
           /\ Cardinality(Running) <= desired => Cardinality(Running') <= desired'
<1>1. /\ UNCHANGED <<nodeVars, failures, scalings, updateVars, aborts>>
      /\ TerminateInstance(cur, scaleDown)
  BY DEF Kill
<1>2. cur \in Instances /\ scaleDown \in BOOLEAN
  BY DEF Kill, TypeOK, ManagerType, AtNode
<1>3. PoolTypeOK
  BY DEF TypeOK
<1>4. /\ PoolTypeOK' /\ FreshNodesReady' /\ UNCHANGED given
      /\ desired' = IF scaleDown THEN desired - 1 ELSE desired
      /\ inst' = [inst EXCEPT ![cur] = "terminating"] /\ inst[cur] \in Live
      /\ Old \cap In({"pending"})' \subseteq Old \cap In({"pending"})
      /\ Cardinality(Running) <= desired => Cardinality(Running') <= desired'
  BY <1>1, <1>2, <1>3, TerminateKeeps
<1>5. ManagerType'
  BY <1>1 DEF TypeOK, ManagerType, updateVars
<1> QED
  BY <1>1, <1>2, <1>4, <1>5 DEF TypeOK

\* Instances only get older, and nobody launches an old one.
Ages == \A j \in Instances :
    /\ inst'[j] \in {"unused", "pending"} => inst'[j] = inst[j] \/ (inst[j] = "unused" /\ j \notin Old)
    /\ inst'[j] = "ready" => inst[j] \in {"pending", "ready"}
    /\ inst[j] # "unused" => inst'[j] # "unused"
    /\ inst[j] = "unused" => inst'[j] \in {"unused", "pending"}
    /\ inst[j] \in {"terminating", "terminated", "gone"} =>
          inst'[j] \in {"terminating", "terminated", "gone"}
    /\ inst[j] \in {"terminated", "gone"} => inst'[j] \in {"terminated", "gone"}
    /\ inst'[j] \in States

LEMMA WorldAges == ASSUME InstType, AWSProgress \/ Disturbance PROVE Ages
<1>1. CASE AutoscalerAdds
  BY <1>1 DEF AutoscalerAdds, Ages, InstType, States
<1>2. ASSUME NEW i \in Instances, NEW to \in States, AWSMove(i, to) \/ OtherMove(i, to)
      PROVE  Ages
  <2>1. inst' = [inst EXCEPT ![i] = to]
    BY <1>2 DEF AWSMove, OtherMove
  <2>2. inst'[i] = to /\ \A j \in Instances : j # i => inst'[j] = inst[j]
    BY <2>1 DEF InstType
  <2>3. \/ inst[i] = "unused" /\ to = "pending" /\ i \notin Old
        \/ inst[i] = "pending" /\ to = "ready"
        \/ inst[i] \in {"pending", "ready", "unhealthy"} /\ to \in {"unhealthy", "terminating"}
        \/ inst[i] = "terminating" /\ to = "terminated"
        \/ inst[i] = "terminated" /\ to = "gone"
    BY <1>2 DEF AWSMove, OtherMove
  <2>4. \A j \in Instances : j # i => inst'[j] \in States /\ inst[j] \in States
    BY <2>2 DEF InstType
  <2> QED
    BY <2>2, <2>3, <2>4 DEF Ages
<1> QED
  BY <1>1, <1>2, WorldCases

LEMMA KillAges ==
    ASSUME InstType, NEW i \in Instances, inst[i] \in Live, inst' = [inst EXCEPT ![i] = "terminating"]
    PROVE  Ages
  BY DEF InstType, Ages, Live, States

\* What follows for the sets of instances.
LEMMA AgesSets ==
    ASSUME InstType, Ages
    PROVE  /\ Old \cap In({"pending"})' \subseteq Old \cap In({"pending"})
           /\ Old \cap Alive' \subseteq Old \cap Alive
           /\ OldRunning' \subseteq OldRunning
           /\ Known \subseteq Known'
           /\ \A S : S \cap In({"unused", "pending"}) = {} =>
                 S \cap In({"unused", "pending"})' = {} /\ S \cap Alive' \subseteq S \cap Alive
<1>1. \A j \in Instances : inst[j] \in States /\ inst'[j] \in States
  BY DEF InstType, Ages
<1>2. Old \subseteq Instances
  BY PoolAssumption
<1>3. Old \cap In({"pending"})' \subseteq Old \cap In({"pending"})
  BY DEF Ages, In
<1>4. Old \cap Alive' \subseteq Old \cap Alive
  BY <1>1 DEF Ages, In, Alive, States
<1>5. OldRunning' \subseteq OldRunning
  BY <1>1 DEF Ages, In, OldRunning, Running, States
<1>6. Known \subseteq Known'
  BY <1>1 DEF Ages, In, Known, States
<1>7. ASSUME NEW S, S \cap In({"unused", "pending"}) = {}
      PROVE  S \cap In({"unused", "pending"})' = {} /\ S \cap Alive' \subseteq S \cap Alive
  BY <1>1, <1>7 DEF Ages, In, Alive, States
<1> QED
  BY <1>3, <1>4, <1>5, <1>6, <1>7

-----------------------------------------------------------------------------
(* The end of an update *)

LEMMA SafeInit == Init => SafeInv
<1> SUFFICES ASSUME Init PROVE SafeInv
  OBVIOUS
<1>1. PoolTypeOK /\ FreshNodesReady /\ desired = Cardinality(Running)
  BY InitPoolTyped, InitPoolSize DEF Init
<1>2. ManagerType
  <2>1. /\ pc = "start" /\ pool = NoPool /\ todo = {} /\ oldLeft = 0 /\ cur = NoNode
        /\ scaleDown = FALSE /\ target = 0 /\ aborts = 0 /\ read = [desired |-> 0, minSize |-> 0]
    BY DEF Init
  <2>2. [desired |-> 0, minSize |-> 0] \in [desired : Nat, minSize : Nat] /\ pool \in Pools
    BY <1>1, <2>1, PoolTypes
  <2>3. pc \in PCs /\ (pc \in AtNode => cur \in Instances)
    BY <2>1 DEF PCs, AtNode
  <2>4. read \in [desired : Nat, minSize : Nat] /\ oldLeft \in Int /\ target \in Nat /\ aborts \in Nat
    BY <2>1, <2>2
  <2> QED
    BY <2>1, <2>2, <2>3, <2>4 DEF ManagerType
<1>3. PendingInv /\ OldKnown /\ DoneInv
  BY <1>1 DEF Init, PendingInv, OldKnown, DoneInv, PoolTypeOK, GroupType
<1> QED
  BY <1>1, <1>2, <1>3 DEF SafeInv, TypeOK

LEMMA TypeNext ==
    ASSUME TypeOK, FreshNodesReady, [Next]_vars
    PROVE  TypeOK' /\ FreshNodesReady' /\ UNCHANGED given
<1> USE DEF TypeOK
<1>1. ASSUME UNCHANGED poolVars, ManagerType' PROVE TypeOK' /\ FreshNodesReady' /\ UNCHANGED given
  BY <1>1 DEF poolVars, nodeVars, groupVars, PoolTypeOK, InstType, NodeType, GroupType,
     FreshNodesReady, In
<1>2. CASE InternalStep
  BY <1>1, <1>2, InternalTyped
<1>3. CASE NodeStep
  <2>1. /\ ManagerType' /\ NodeType' /\ FreshNodesReady'
        /\ UNCHANGED <<inst, groupVars, failures, scalings>>
    BY <1>3, NodeTyped
  <2> QED
    BY <2>1 DEF PoolTypeOK, InstType, GroupType, groupVars
<1>4. CASE GroupStep
  <2>1. /\ ManagerType' /\ GroupType' /\ UNCHANGED given
        /\ UNCHANGED <<inst, nodeVars, failures, scalings>>
    BY <1>4, GroupTyped
  <2> QED
    BY <2>1 DEF PoolTypeOK, InstType, NodeType, nodeVars, FreshNodesReady, In
<1>5. CASE Kill
  BY <1>5, KillTyped
<1>6. CASE World
  <2>1. AWSProgress \/ Disturbance
    BY <1>6 DEF World
  <2>2. UNCHANGED nodeVars /\ UNCHANGED updateVars /\ UNCHANGED aborts
    BY <1>6 DEF World
  <2>3. PoolTypeOK' /\ FreshNodesReady' /\ UNCHANGED given
    BY <2>1, <2>2, WorldKeeps
  <2>4. ManagerType'
    BY <2>2 DEF ManagerType, updateVars
  <2> QED
    BY <2>3, <2>4
<1>7. CASE UNCHANGED vars
  <2>1. UNCHANGED poolVars /\ ManagerType'
    BY <1>7 DEF vars, updateVars, ManagerType
  <2> QED
    BY <1>1, <2>1
<1> QED
  BY <1>2, <1>3, <1>4, <1>5, <1>6, <1>7, NextCases

\* When the group has settled, no old instance is still starting.
LEMMA SettledNonePending ==
    ASSUME TypeOK, PendingInv, ~Spot, Settled
    PROVE  Old \cap In({"pending"}) = {}
<1> SUFFICES ASSUME NEW i \in Old \cap In({"pending"}) PROVE FALSE
  OBVIOUS
<1>1. Cardinality(Running) <= desired /\ Cardinality(ReadyNodes) = desired
  BY DEF PendingInv, Settled
<1>2. ReadyNodes \cup {i} \subseteq Running /\ i \notin ReadyNodes
  BY DEF ReadyNodes, Running, In
<1>3. IsFiniteSet(Running) /\ IsFiniteSet(ReadyNodes) /\ Cardinality(ReadyNodes) \in Nat
  BY FiniteIn DEF Running, ReadyNodes
<1>4. /\ Cardinality(ReadyNodes \cup {i}) = Cardinality(ReadyNodes) + 1
      /\ IsFiniteSet(ReadyNodes \cup {i})
  BY <1>2, <1>3, FS_AddElement
<1>5. Cardinality(ReadyNodes \cup {i}) <= Cardinality(Running)
  BY <1>2, <1>3, FS_Subset
<1>6. Cardinality(Running) \in Nat
  BY <1>3, FS_CardinalityType
<1> QED
  BY <1>1, <1>3, <1>4, <1>5, <1>6

LEMMA SettledKnowsOld ==
    ASSUME TypeOK, PendingInv, ~Spot, Settled
    PROVE  Old \cap Alive \subseteq GetPool.nodes
<1>1. Old \cap In({"pending"}) = {}
  BY SettledNonePending
<1>2. GetPool.nodes = Registered
  BY DEF GetPool
<1> QED
  BY <1>1, <1>2 DEF Alive, Registered, In

LEMMA InternalSafe ==
    ASSUME SafeInv, InternalStep
    PROVE  PendingInv' /\ OldKnown' /\ DoneInv'
<1>1. /\ UNCHANGED <<inst, desired, given>>
  BY InternalTyped DEF SafeInv, poolVars, groupVars
<1>2. /\ Running' = Running /\ In({"pending"})' = In({"pending"}) /\ Alive' = Alive
      /\ (Spot' <=> Spot) /\ given' = given /\ desired' = desired
  BY <1>1 DEF Running, In, Alive, Spot
<1> SUFFICES ASSUME ~Spot PROVE PendingInv' /\ OldKnown' /\ DoneInv'
  BY <1>2 DEF PendingInv, OldKnown, DoneInv
<1>3. TypeOK /\ PendingInv /\ OldKnown /\ DoneInv
  BY DEF SafeInv
<1>4. CASE EnoughNew \/ ScaleOut \/ ScalePool
  <2>1. Settled
    BY <1>4 DEF EnoughNew, ScaleOut, ScalePool
  <2>2. Old \cap In({"pending"}) = {} /\ Old \cap Alive \subseteq GetPool.nodes
    BY <1>3, <2>1, SettledNonePending, SettledKnowsOld
  <2>3. pc' # "done" /\ (pc' = "mark" => pool' = GetPool)
    BY <1>4 DEF EnoughNew, ScaleOut, ScalePool, Step
  <2> QED
    BY <1>2, <2>2, <2>3 DEF PendingInv, OldKnown, DoneInv
<1>5. CASE AllMarked \/ Removed
  <2>1. pc = "mark" /\ pc' # "mark"
    BY <1>5 DEF AllMarked, Removed, Step
  <2>2. pc' = "done" => Old \cap pool.nodes = {}
    BY <1>5 DEF AllMarked, Removed, Step, oldNodes
  <2>3. Old \cap In({"pending"}) = {}
    BY <1>3, <2>1 DEF PendingInv
  <2> QED
    BY <1>2, <1>3, <2>1, <2>2, <2>3 DEF PendingInv, OldKnown, DoneInv
<1>6. CASE \/ StartUpdate \/ DescribeGroup \/ AllTerminated \/ Killed \/ Choose \/ AllCordoned
           \/ CallFails \/ Abort \/ Retry \/ \E i \in Instances : TerminateNext(i)
  <2>1. /\ pc' # "mark" /\ (pc' = "done" => MaxSize < 1)
        /\ pc \in {"start", "surge", "scale", "failed"} =>
              pc' \in {"start", "surge", "failed"} \/ (pc' = "done" /\ MaxSize < 1)
        /\ ~(pc = "done")
    BY <1>6 DEF StartUpdate, DescribeGroup, AllTerminated, Killed, Choose, AllCordoned,
       CallFails, Abort, Retry, TerminateNext, Step
  <2>2. MaxSize \in Nat
    BY PoolAssumption
  <2> QED
    BY <1>2, <1>3, <2>1, <2>2 DEF PendingInv, OldKnown, DoneInv
<1> QED
  BY <1>4, <1>5, <1>6 DEF InternalStep

LEMMA SafeNext == ASSUME SafeInv, [Next]_vars PROVE SafeInv'
<1>1. TypeOK' /\ FreshNodesReady' /\ UNCHANGED given
  BY TypeNext DEF SafeInv
<1>2. TypeOK /\ FreshNodesReady /\ PendingInv /\ OldKnown /\ DoneInv /\ PoolTypeOK /\ InstType
  BY DEF SafeInv, TypeOK, PoolTypeOK
<1>3. Spot' <=> Spot
  BY <1>1 DEF Spot
<1>4. ASSUME InstType, Ages, UNCHANGED updateVars,
             Cardinality(Running) <= desired => Cardinality(Running') <= desired'
      PROVE  PendingInv' /\ OldKnown' /\ DoneInv'
  BY <1>2, <1>3, <1>4, AgesSets DEF PendingInv, OldKnown, DoneInv, updateVars
<1> SUFFICES PendingInv' /\ OldKnown' /\ DoneInv'
  BY <1>1 DEF SafeInv
<1>5. CASE InternalStep
  BY <1>5, InternalSafe
<1>6. CASE NodeStep \/ GroupStep
  <2>1. inst' = inst
    BY <1>2, <1>6, NodeTyped, GroupTyped
  <2>2. Running' = Running /\ In({"pending"})' = In({"pending"}) /\ Alive' = Alive
    BY <2>1 DEF Running, In, Alive
  <2>3. pc' # "done" /\ (pc' = "mark" => pc = "mark" /\ pool' = pool)
    BY <1>6 DEF NodeStep, GroupStep, DrainNode, MarkNode, RemoveNode, Cordon, StartRemoval,
       Resize, LowerMin, Step
  <2>4. pc \in {"start", "surge", "scale", "failed"} => pc' = "scale" /\ desired' = desired
    BY <1>6 DEF NodeStep, GroupStep, DrainNode, MarkNode, RemoveNode, Cordon, StartRemoval,
       Resize, LowerMin, Step, MarkForDecommission
  <2>5. pc # "done"
    BY <1>6 DEF NodeStep, GroupStep, DrainNode, MarkNode, RemoveNode, Cordon, StartRemoval,
       Resize, LowerMin, Step
  <2> QED
    BY <1>2, <1>3, <2>2, <2>3, <2>4, <2>5 DEF PendingInv, OldKnown, DoneInv
<1>7. CASE Kill
  <2>1. /\ UNCHANGED updateVars /\ cur \in Instances /\ inst[cur] \in Live
        /\ inst' = [inst EXCEPT ![cur] = "terminating"]
        /\ Cardinality(Running) <= desired => Cardinality(Running') <= desired'
    BY <1>2, <1>7, KillTyped
  <2>2. Ages
    BY <1>2, <2>1, KillAges
  <2> QED
    BY <1>2, <1>4, <2>1, <2>2
<1>8. CASE World
  <2>1. AWSProgress \/ Disturbance
    BY <1>8 DEF World
  <2>2. UNCHANGED updateVars
    BY <1>8 DEF World
  <2>3. Ages /\ (Cardinality(Running) <= desired => Cardinality(Running') <= desired')
    BY <1>2, <2>1, WorldAges, WorldNotTooMany
  <2> QED
    BY <1>2, <1>4, <2>2, <2>3
<1>9. CASE UNCHANGED vars
  BY <1>2, <1>9 DEF vars, poolVars, groupVars, updateVars, PendingInv, OldKnown, DoneInv, Running,
     In, Alive, Spot
<1> QED
  BY <1>5, <1>6, <1>7, <1>8, <1>9, NextCases

\* The types of the pool, and what makes an update complete.
THEOREM RollingTypeCorrect == Spec => []SafeInv
<1>1. Init => SafeInv
  BY SafeInit
<1>2. SafeInv /\ [Next]_vars => SafeInv'
  BY SafeNext
<1> QED
  BY <1>1, <1>2, PTL DEF Spec

\* An update that ends leaves no old instance behind, not even one that was
\* still starting.  Update returns at once when the pool may have no nodes.
THEOREM RollingDoneUpdated == ASSUME MaxSize >= 1 PROVE Spec => []DoneMeansUpdated
<1>1. SafeInv => DoneMeansUpdated
  BY DEF SafeInv, DoneInv, DoneMeansUpdated
<1> QED
  BY <1>1, RollingTypeCorrect, PTL

\* A node that is drained keeps its label through aborted and repeated runs.
THEOREM DrainNeverUndone == Spec => DrainNotUndone
<1>1. ASSUME SafeInv, Next PROVE DrainKeptStep
  <2>1. label \in [Instances -> Labels]
    BY <1>1 DEF SafeInv, TypeOK, PoolTypeOK, NodeType
  <2>2. CASE UNCHANGED label
    BY <2>2 DEF DrainKeptStep
  <2>3. CASE DrainNode
    BY <2>1, <2>3 DEF DrainNode, LabelDraining, labelNode, DrainKeptStep
  <2>4. ASSUME NEW i \in Instances, MarkNode(i) PROVE DrainKeptStep
    BY <2>1, <2>4 DEF MarkNode, MarkNodeForDecommission, compareAndSetNodeLabel, DrainKeptStep
  <2>5. ASSUME NEW i \in Instances, RemoveNode(i) \/ Cordon(i) PROVE UNCHANGED label
    BY <2>5 DEF RemoveNode, Cordon, CordonNode
  <2>6. InternalStep => UNCHANGED label
    BY <1>1, InternalTyped DEF SafeInv, poolVars, nodeVars
  <2>7. GroupStep => UNCHANGED label
    BY <1>1, GroupTyped DEF SafeInv, nodeVars
  <2>8. Kill \/ World \/ UNCHANGED vars => UNCHANGED label
    BY DEF Kill, World, nodeVars, vars, poolVars
  <2> QED
    BY <1>1, <2>2, <2>3, <2>4, <2>5, <2>6, <2>7, <2>8, NextCases DEF NodeStep
<1> QED
  BY <1>1, RollingTypeCorrect, PTL DEF Spec, DrainNotUndone

-----------------------------------------------------------------------------
(* The end of a removal *)

\* Nobody but MarkForDecommission changes the tag of the autoscaler.
LEMMA WorldTag == ASSUME AWSProgress \/ Disturbance PROVE UNCHANGED autoscaled
<1>1. ASSUME NEW i \in Instances, NEW to \in States, AWSMove(i, to) \/ OtherMove(i, to)
      PROVE  UNCHANGED autoscaled
  BY <1>1 DEF AWSMove, OtherMove, groupVars
<1> QED
  BY <1>1, WorldCases DEF AutoscalerAdds

LEMMA RemovalNext == ASSUME SafeInv, RemovalInv, [Next]_vars PROVE RemovalInv'
<1>1. TypeOK /\ FreshNodesReady /\ PoolTypeOK /\ given' = given
  BY TypeNext DEF SafeInv, TypeOK
<1>2. Removal' <=> Removal
  BY <1>1 DEF Removal
<1> SUFFICES ASSUME Removal PROVE RemovalInv'
  BY <1>2 DEF RemovalInv
<1>3. /\ pc \in {"start", "scale", "mark", "drain", "lower", "kill", "failed", "done"}
      /\ target = 0 /\ Cardinality(Running) <= desired
      /\ pc \notin {"start", "failed"} => ~autoscaled
  BY DEF RemovalInv
<1>4. Cardinality(Registered) \in Nat
  BY FiniteIn DEF Registered
<1>5. CASE InternalStep
  <2>1. UNCHANGED <<inst, desired, autoscaled>>
    BY <1>1, <1>5, InternalTyped DEF poolVars, groupVars
  <2>2. Running' = Running
    BY <2>1 DEF Running, In
  <2>3. CASE ScalePool
    <3>1. pc = "scale" /\ pc' = "mark" /\ UNCHANGED target
      BY <1>3, <1>4, <2>3 DEF ScalePool, Step
    <3> QED
      BY <1>3, <2>1, <2>2, <3>1 DEF RemovalInv
  <2>4. CASE Removed \/ Killed \/ CallFails \/ Abort \/ Retry
    <3>1. /\ pc' \in {"done", "scale", "failed", "start"} /\ target' = 0
          /\ pc \notin {"start", "failed"} \/ pc' \in {"start", "failed"}
      BY <1>3, <2>4 DEF Removed, Killed, CallFails, Abort, Retry, Step
    <3> QED
      BY <1>3, <2>1, <2>2, <3>1 DEF RemovalInv
  <2>5. CASE \/ StartUpdate \/ EnoughNew \/ ScaleOut \/ DescribeGroup \/ AllMarked
             \/ AllTerminated \/ Choose \/ AllCordoned \/ \E i \in Instances : TerminateNext(i)
    BY <1>3, <2>5 DEF StartUpdate, EnoughNew, ScaleOut, DescribeGroup, AllMarked, AllTerminated,
       Choose, AllCordoned, TerminateNext, Step
  <2> QED
    BY <1>5, <2>3, <2>4, <2>5 DEF InternalStep
<1>6. CASE NodeStep
  <2>1. UNCHANGED <<inst, desired, autoscaled>>
    BY <1>1, <1>6, NodeTyped DEF groupVars
  <2>2. Running' = Running
    BY <2>1 DEF Running, In
  <2>3. pc \notin {"start", "failed"} /\ pc' \in {"mark", "drain", "lower", "kill"} /\ UNCHANGED target
    BY <1>3, <1>6 DEF NodeStep, DrainNode, MarkNode, RemoveNode, Cordon, Step
  <2> QED
    BY <1>3, <2>1, <2>2, <2>3 DEF RemovalInv
<1>7. CASE GroupStep
  <2>1. inst' = inst
    BY <1>1, <1>7, GroupTyped
  <2>2. Running' = Running
    BY <2>1 DEF Running, In
  <2>3. CASE StartRemoval
    BY <1>3, <2>2, <2>3 DEF StartRemoval, MarkForDecommission, Step, RemovalInv
  <2>4. CASE LowerMin
    BY <1>3, <2>2, <2>4 DEF LowerMin, LowerMinSize, Step, RemovalInv
  <2>5. CASE Resize
    BY <1>3, <2>5 DEF Resize, Step
  <2> QED
    BY <1>7, <2>3, <2>4, <2>5 DEF GroupStep
<1>8. CASE Kill
  <2>1. UNCHANGED updateVars /\ Cardinality(Running') <= desired'
    BY <1>1, <1>3, <1>8, KillTyped
  <2>2. UNCHANGED autoscaled
    BY <1>8 DEF Kill, TerminateInstance
  <2> QED
    BY <1>3, <2>1, <2>2 DEF RemovalInv, updateVars
<1>9. CASE World
  <2>1. (AWSProgress \/ Disturbance) /\ UNCHANGED updateVars
    BY <1>9 DEF World
  <2>2. UNCHANGED autoscaled /\ Cardinality(Running') <= desired'
    BY <1>1, <1>3, <2>1, WorldTag, WorldNotTooMany
  <2> QED
    BY <1>3, <2>1, <2>2 DEF RemovalInv, updateVars
<1>10. CASE UNCHANGED vars
  BY <1>3, <1>10 DEF RemovalInv, vars, poolVars, groupVars, updateVars, Running, In
<1> QED
  BY <1>5, <1>6, <1>7, <1>8, <1>9, <1>10, NextCases

\* When a pool that wants no instance has settled, it has none.
LEMMA SettledEmpty ==
    ASSUME TypeOK, Cardinality(Running) <= desired, ~Spot, Settled, Registered = {}
    PROVE  desired = 0 /\ Alive = {}
<1>1. ReadyNodes = {}
  BY DEF Registered, ReadyNodes, In
<1>2. desired = 0
  BY <1>1, FS_EmptySet DEF Settled
<1>3. Running = {}
  <2>1. IsFiniteSet(Running) /\ Cardinality(Running) \in Nat
    BY FiniteIn DEF Running
  <2>2. Cardinality(Running) = 0
    BY <1>2, <2>1
  <2> QED
    BY <2>1, <2>2, FS_EmptySet
<1>4. Alive \subseteq Running \cup Registered
  BY DEF Alive, Running, Registered, In
<1> QED
  BY <1>2, <1>3, <1>4

\* And stays without, when the autoscaler does not manage it.
LEMMA WorldEmpty ==
    ASSUME TypeOK, desired = 0, Alive = {}, ~autoscaled, AWSProgress \/ Disturbance
    PROVE  desired' = 0 /\ Alive' = {}
<1>1. Cardinality(Running) \in Nat
  BY FiniteIn DEF Running
<1>2. ~AutoscalerAdds
  BY DEF AutoscalerAdds
<1>3. PICK i \in Instances, to \in States : AWSMove(i, to) \/ OtherMove(i, to)
  BY <1>2, WorldCases
<1>4. \A j \in Instances : inst[j] \notin {"pending", "ready", "unhealthy", "terminating"}
  BY DEF Alive, In
<1>5. AWSMove(i, to) /\ inst[i] = "terminated" /\ to = "gone"
  BY <1>1, <1>3, <1>4 DEF AWSMove, OtherMove
<1>6. desired' = 0 /\ inst' = [inst EXCEPT ![i] = "gone"]
  BY <1>5 DEF AWSMove, groupVars
<1>7. \A j \in Instances : inst'[j] = inst[j] \/ inst'[j] = "gone"
  BY <1>6 DEF TypeOK, PoolTypeOK, InstType
<1> QED
  BY <1>4, <1>6, <1>7 DEF Alive, In

LEMMA EmptyNext == ASSUME SafeInv, RemovalInv, EmptyInv, [Next]_vars PROVE EmptyInv'
<1>1. TypeOK /\ FreshNodesReady /\ PoolTypeOK /\ given' = given
  BY TypeNext DEF SafeInv, TypeOK
<1>2. (Removal' <=> Removal) /\ (Spot' <=> Spot)
  BY <1>1 DEF Removal, Spot
<1> SUFFICES ASSUME Removal, ~Spot, pc' = "done" \/ (pc' = "mark" /\ pool'.nodes = {})
             PROVE  desired' = 0 /\ Alive' = {} /\ ~autoscaled'
  BY <1>2 DEF EmptyInv
<1>3. /\ pc \in {"start", "scale", "mark", "drain", "lower", "kill", "failed", "done"}
      /\ target = 0 /\ Cardinality(Running) <= desired
      /\ pc \notin {"start", "failed"} => ~autoscaled
  BY DEF RemovalInv
<1> DEFINE empty == pc = "done" \/ (pc = "mark" /\ pool.nodes = {})
<1>4. empty => desired = 0 /\ Alive = {} /\ ~autoscaled
  BY DEF EmptyInv
<1>5. ASSUME UNCHANGED <<inst, desired, autoscaled>>, empty
      PROVE  desired' = 0 /\ Alive' = {} /\ ~autoscaled'
  BY <1>4, <1>5 DEF Alive, In
<1>6. CASE InternalStep
  <2>1. UNCHANGED <<inst, desired, autoscaled>>
    BY <1>1, <1>6, InternalTyped DEF poolVars, groupVars
  <2>2. CASE ScalePool
    <3>1. Settled /\ pc = "scale" /\ (pc' = "mark" => pool' = GetPool)
      BY <2>2 DEF ScalePool, Step
    <3>2. pc' # "done"
      BY <2>2 DEF ScalePool, Step
    <3>3. Registered = {}
      BY <3>1, <3>2 DEF GetPool
    <3>4. desired = 0 /\ Alive = {} /\ ~autoscaled
      BY <1>1, <1>3, <3>1, <3>3, SettledEmpty
    <3> QED
      BY <2>1, <3>4 DEF Alive, In
  <2>3. CASE Removed
    BY <1>5, <2>1, <2>3 DEF Removed, Step
  <2>4. CASE \/ StartUpdate \/ ScaleOut \/ DescribeGroup \/ AllMarked \/ AllTerminated \/ Killed
             \/ Choose \/ AllCordoned \/ CallFails \/ Abort \/ Retry \/ EnoughNew
             \/ \E i \in Instances : TerminateNext(i)
    BY <1>3, <2>4 DEF StartUpdate, ScaleOut, DescribeGroup, AllMarked, AllTerminated, Killed,
       Choose, AllCordoned, CallFails, Abort, Retry, TerminateNext, EnoughNew, Step
  <2> QED
    BY <1>6, <2>2, <2>3, <2>4 DEF InternalStep
<1>7. CASE NodeStep \/ GroupStep
  <2>1. PICK i \in Instances : MarkNode(i)
    BY <1>7, <1>3 DEF NodeStep, GroupStep, DrainNode, RemoveNode, Cordon, StartRemoval, Resize,
       LowerMin, Step
  <2>2. UNCHANGED <<inst, desired, autoscaled>> /\ empty
    BY <2>1 DEF MarkNode, NodesOnly, groupVars
  <2> QED
    BY <1>5, <2>2
<1>8. CASE Kill
  BY <1>8 DEF Kill, updateVars
<1>9. CASE World
  <2>1. (AWSProgress \/ Disturbance) /\ UNCHANGED updateVars
    BY <1>9 DEF World
  <2>2. empty
    BY <2>1 DEF updateVars
  <2> QED
    BY <1>1, <1>4, <2>1, <2>2, WorldEmpty, WorldTag
<1>10. CASE UNCHANGED vars
  BY <1>5, <1>10 DEF vars, poolVars, groupVars, updateVars
<1> QED
  BY <1>6, <1>7, <1>8, <1>9, <1>10, NextCases

\* A removal that ends leaves an empty group that wants no instance, and that
\* the autoscaler does not manage any more.
THEOREM RemovedPoolsEmpty == Spec => []RemovedMeansEmpty
<1>1. Init => RemovalInv /\ EmptyInv
  <2> SUFFICES ASSUME Init PROVE RemovalInv /\ EmptyInv
    OBVIOUS
  <2>1. pc = "start" /\ target = 0 /\ desired = Cardinality(Running)
    BY InitPoolSize DEF Init
  <2>2. Cardinality(Running) \in Nat
    BY FiniteIn DEF Running
  <2> QED
    BY <2>1, <2>2 DEF RemovalInv, EmptyInv
<1>2. SafeInv /\ RemovalInv /\ EmptyInv /\ [Next]_vars => RemovalInv' /\ EmptyInv'
  BY RemovalNext, EmptyNext
<1>3. EmptyInv => RemovedMeansEmpty
  BY DEF EmptyInv, RemovedMeansEmpty
<1> QED
  BY <1>1, <1>2, <1>3, RollingTypeCorrect, PTL DEF Spec

-----------------------------------------------------------------------------
(* An update: the nodes that are withdrawn *)

LEMMA NextAges == ASSUME TypeOK, FreshNodesReady, [Next]_vars PROVE Ages
<1>1. InstType
  BY DEF TypeOK, PoolTypeOK
<1>2. inst' = inst => Ages
  BY <1>1 DEF InstType, Ages, States
<1>3. InternalStep \/ NodeStep \/ GroupStep \/ UNCHANGED vars => inst' = inst
  BY InternalTyped, NodeTyped, GroupTyped DEF vars, poolVars
<1>4. Kill => Ages
  BY <1>1, KillTyped, KillAges
<1>5. World => Ages
  BY <1>1, WorldAges DEF World
<1> QED
  BY <1>2, <1>3, <1>4, <1>5, NextCases

\* Only Choose withdraws nodes.
LEMMA NextWithdrawn ==
    ASSUME TypeOK, FreshNodesReady, ~Removal, [Next]_vars, ~Choose
    PROVE  Withdrawn' \subseteq Withdrawn
<1>1. CASE InternalStep
  <2>1. cordoned' = cordoned
    BY <1>1, InternalTyped DEF poolVars, nodeVars
  <2>2. pc' # "cordon"
    BY <1>1 DEF InternalStep, StartUpdate, EnoughNew, ScaleOut, ScalePool, DescribeGroup, AllMarked,
       Removed, AllTerminated, Killed, AllCordoned, CallFails, Abort, Retry, TerminateNext, Step
  <2> QED
    BY <2>1, <2>2 DEF Withdrawn
<1>2. CASE DrainNode
  BY <1>2 DEF DrainNode, LabelDraining, Step, Withdrawn
<1>3. ASSUME NEW i \in Instances, MarkNode(i) PROVE Withdrawn' \subseteq Withdrawn
  BY <1>3 DEF MarkNode, MarkNodeForDecommission, Withdrawn
<1>4. ASSUME NEW i \in Instances, Cordon(i) PROVE Withdrawn' \subseteq Withdrawn
  BY <1>4 DEF Cordon, CordonNode, Withdrawn
<1>5. ASSUME NEW i \in Instances, RemoveNode(i) PROVE FALSE
  BY <1>5 DEF RemoveNode
<1>6. CASE GroupStep
  <2>1. cordoned' = cordoned
    BY <1>6, GroupTyped DEF nodeVars
  <2>2. pc' # "cordon"
    BY <1>6 DEF GroupStep, StartRemoval, Resize, LowerMin, Step
  <2> QED
    BY <2>1, <2>2 DEF Withdrawn
<1>7. CASE Kill \/ World \/ UNCHANGED vars
  BY <1>7 DEF Kill, World, vars, poolVars, nodeVars, updateVars, Withdrawn
<1> QED
  BY <1>1, <1>2, <1>3, <1>4, <1>5, <1>6, <1>7, NextCases DEF NodeStep

\* What Choose withdraws are registered old nodes, when all others are gone.
LEMMA ChooseWithdraws ==
    ASSUME TypeOK, WithdrawnInv, Choose
    PROVE  /\ UNCHANGED poolVars
           /\ cordoned \cap Alive = {} /\ Withdrawn = cordoned /\ Withdrawn' = cordoned \cup todo'
           /\ todo' \subseteq Old \cap Registered
           /\ Cardinality(todo') \in Nat /\ Cardinality(todo') <= Surge /\ IsFiniteSet(todo')
<1>1. pc = "settle" /\ pc' = "cordon" /\ UNCHANGED poolVars
  BY DEF Choose, Step, InternalOnly
<1>2. cordoned' = cordoned
  BY <1>1 DEF poolVars, nodeVars
<1>3. PICK lists \in NodesLists(GetPool) : todo' = Chosen(lists)[1]
  BY DEF Choose
<1>4. GetPool \in Pools /\ Registered \in SUBSET Instances
  BY PoolTypes DEF TypeOK
<1>5. /\ todo' \in SUBSET oldNodes(GetPool)
      /\ Cardinality(todo') \in Nat /\ Cardinality(todo') <= Surge
  BY <1>3, <1>4, ChosenFew
<1>6. oldNodes(GetPool) = Registered \cap Old
  BY DEF oldNodes, GetPool
<1>7. IsFiniteSet(todo')
  <2>1. todo' \subseteq Instances
    BY <1>4, <1>5, <1>6
  <2> QED
    BY <2>1, PoolAssumption, FS_Subset
<1> QED
  BY <1>1, <1>2, <1>5, <1>6, <1>7 DEF Withdrawn, WithdrawnInv

LEMMA FewNext ==
    ASSUME TypeOK, FreshNodesReady, ~Removal, WithdrawnInv, FewWithdrawn, [Next]_vars
    PROVE  FewWithdrawn'
<1>1. InstType /\ Ages /\ Surge' = Surge
  BY NextAges DEF TypeOK, PoolTypeOK, Surge
<1>2. CASE Choose
  <2>1. /\ inst' = inst /\ cordoned \cap Alive = {} /\ Withdrawn = cordoned
        /\ Withdrawn' = cordoned \cup todo' /\ todo' \subseteq Old \cap Registered
        /\ Cardinality(todo') \in Nat /\ Cardinality(todo') <= Surge /\ IsFiniteSet(todo')
    BY <1>2, ChooseWithdraws DEF poolVars
  <2>2. Alive' = Alive /\ In({"unused", "pending"})' = In({"unused", "pending"})
    BY <2>1 DEF Alive, In
  <2>3. Registered \cap In({"unused", "pending"}) = {}
    BY DEF Registered, In
  <2>4. Withdrawn' \subseteq Old /\ Withdrawn' \cap In({"unused", "pending"})' = {}
    BY <2>1, <2>2, <2>3 DEF FewWithdrawn
  <2>5. Withdrawn' \cap Alive' \subseteq todo'
    BY <2>1, <2>2
  <2>6. /\ Cardinality(Withdrawn' \cap Alive') <= Cardinality(todo')
        /\ Cardinality(Withdrawn' \cap Alive') \in Nat
    BY <2>1, <2>5, FS_Subset, FS_CardinalityType
  <2> QED
    BY <1>1, <2>1, <2>4, <2>6, SurgeType DEF FewWithdrawn
<1>3. CASE ~Choose
  <2>1. Withdrawn' \subseteq Withdrawn
    BY <1>3, NextWithdrawn
  <2>2. Withdrawn \cap In({"unused", "pending"})' = {} /\ Withdrawn \cap Alive' \subseteq Withdrawn \cap Alive
    BY <1>1, AgesSets DEF FewWithdrawn
  <2>3. Withdrawn' \cap Alive' \subseteq Withdrawn \cap Alive
    BY <2>1, <2>2
  <2>4. IsFiniteSet(Withdrawn \cap Alive)
    <3>1. IsFiniteSet(Alive)
      BY FiniteIn DEF Alive
    <3> QED
      BY <3>1, FS_Subset, Withdrawn \cap Alive \subseteq Alive
  <2>5. /\ Cardinality(Withdrawn' \cap Alive') <= Cardinality(Withdrawn \cap Alive)
        /\ Cardinality(Withdrawn' \cap Alive') \in Nat /\ Cardinality(Withdrawn \cap Alive) \in Nat
    BY <2>3, <2>4, FS_Subset, FS_CardinalityType
  <2> QED
    BY <1>1, <2>1, <2>2, <2>5, SurgeType DEF FewWithdrawn
<1> QED
  BY <1>2, <1>3

\* The run handles every node that is cordoned and alive.
LEMMA WithdrawnNext ==
    ASSUME TypeOK, FreshNodesReady, ~Removal, WithdrawnInv, FewWithdrawn, [Next]_vars
    PROVE  WithdrawnInv'
<1> USE DEF WithdrawnInv
<1>1. InstType /\ Ages
  BY NextAges DEF TypeOK, PoolTypeOK
<1>2. cordoned \subseteq Old /\ cordoned \cap In({"unused", "pending"}) = {}
  BY DEF FewWithdrawn, Withdrawn
<1>3. cordoned \cap Alive' \subseteq cordoned \cap Alive
  BY <1>1, <1>2, AgesSets
<1>4. cordoned \cap Alive \subseteq Registered
  BY <1>2 DEF Alive, In, Registered
<1>5. CASE InternalStep
  <2>1. cordoned' = cordoned /\ Alive' = Alive
    BY <1>5, InternalTyped DEF poolVars, nodeVars, Alive, In
  <2>2. CASE EnoughNew \/ ScalePool
    BY <1>4, <2>1, <2>2 DEF EnoughNew, ScalePool, Step, GetPool, AtNode
  <2>3. CASE AllMarked
    <3>1. pc' = "terminate" => todo' = pool.nodes \cap Old \cap cordoned
      BY <2>3 DEF AllMarked, Step, NodesToTerminate, oldNodes
    <3>2. pc = "mark" /\ pc' \in {"terminate", "done"}
      BY <2>3 DEF AllMarked, Step
    <3> QED
      BY <1>2, <2>1, <3>1, <3>2 DEF AtNode
  <2>4. ASSUME NEW i \in Instances, TerminateNext(i) PROVE WithdrawnInv'
    <3>1. pc = "terminate" /\ pc' = "drain" /\ i \in todo /\ todo' = todo \ {i} /\ cur' = i
      BY <2>4 DEF TerminateNext, Step
    <3> QED
      BY <2>1, <3>1 DEF AtNode
  <2>5. CASE AllTerminated
    BY <2>1, <2>5 DEF AllTerminated, Step, AtNode
  <2>6. CASE Killed
    <3>1. pc = "kill" /\ pc' = "terminate" /\ cur \notin Alive /\ UNCHANGED todo
      BY <2>6 DEF Killed, Step, Alive, In
    <3> QED
      BY <2>1, <3>1 DEF AtNode
  <2>7. CASE StartUpdate \/ ScaleOut \/ DescribeGroup \/ Removed \/ Choose \/ AllCordoned
             \/ CallFails \/ Abort \/ Retry
    <3>1. pc' \notin {"mark", "terminate", "settle"} /\ pc' \notin AtNode
      BY <2>7 DEF StartUpdate, ScaleOut, DescribeGroup, Removed, Choose, AllCordoned, CallFails, Abort,
         Retry, Step, AtNode
    <3> QED
      BY <3>1
  <2> QED
    BY <1>5, <2>2, <2>3, <2>4, <2>5, <2>6, <2>7 DEF InternalStep
<1>6. CASE NodeStep
  <2>1. Alive' = Alive
    BY <1>6, NodeTyped DEF Alive, In
  <2>2. CASE DrainNode
    <3>1. UNCHANGED <<cordoned, cur, todo, pool>> /\ pc = "drain" /\ pc' \in {"lower", "kill"}
      BY <2>2 DEF DrainNode, LabelDraining, Step
    <3> QED
      BY <2>1, <3>1 DEF AtNode
  <2>3. ASSUME NEW i \in Instances, MarkNode(i) PROVE WithdrawnInv'
    <3>1. UNCHANGED <<cordoned, pool>> /\ pc = "mark" /\ pc' = "mark"
      BY <2>3 DEF MarkNode, MarkNodeForDecommission
    <3> QED
      BY <2>1, <3>1 DEF AtNode
  <2>4. ASSUME NEW i \in Instances, Cordon(i) PROVE WithdrawnInv'
    BY <2>4 DEF Cordon, AtNode
  <2>5. ASSUME NEW i \in Instances, RemoveNode(i) PROVE FALSE
    BY <2>5 DEF RemoveNode
  <2> QED
    BY <1>6, <2>2, <2>3, <2>4, <2>5 DEF NodeStep
<1>7. CASE GroupStep
  <2>1. cordoned' = cordoned /\ Alive' = Alive
    BY <1>7, GroupTyped DEF nodeVars, Alive, In
  <2>2. CASE LowerMin
    BY <2>1, <2>2 DEF LowerMin, Step, AtNode
  <2>3. CASE StartRemoval \/ Resize
    BY <2>3 DEF StartRemoval, Resize, Step, AtNode
  <2> QED
    BY <1>7, <2>2, <2>3 DEF GroupStep
<1>8. CASE Kill \/ World \/ UNCHANGED vars
  <2>1. UNCHANGED <<cordoned, pc, pool, todo, cur>>
    BY <1>8 DEF Kill, World, nodeVars, updateVars, vars, poolVars
  <2> QED
    BY <1>3, <2>1
<1> QED
  BY <1>5, <1>6, <1>7, <1>8, NextCases

\* The run counts at least the old instances that run.
LEMMA LastNext ==
    ASSUME SafeInv, ~Removal, WithdrawnInv, FewWithdrawn, LastInv, [Next]_vars
    PROVE  LastInv'
<1>1. TypeOK /\ FreshNodesReady /\ given' = given /\ OldKnown /\ InstType
  BY TypeNext DEF SafeInv, TypeOK, PoolTypeOK
<1>2. (Spot' <=> Spot) /\ Surge' = Surge
  BY <1>1 DEF Spot, Surge
<1> SUFFICES ASSUME ~Spot PROVE LastInv'
  BY <1>2 DEF LastInv
<1>3. OldRunning' \subseteq OldRunning
  BY <1>1, NextAges, AgesSets
<1>4. oldLeft \in Int /\ todo \subseteq Instances /\ OldRunning \subseteq Instances
  BY <1>1, PoolAssumption DEF TypeOK, ManagerType, OldRunning
<1>5. /\ IsFiniteSet(OldRunning) /\ IsFiniteSet(OldRunning \cup todo)
      /\ \A S : S \subseteq Instances => IsFiniteSet(S) /\ Cardinality(S) \in Nat
  BY <1>4, PoolAssumption, FS_Subset, FS_CardinalityType
<1>6. ASSUME UNCHANGED <<todo, cur, oldLeft, scaleDown>>, pc' = pc \/ (pc \in AtNode /\ pc' \in AtNode)
      PROVE  LastInv'
  <2>1. /\ Cardinality(OldRunning') <= Cardinality(OldRunning)
        /\ Cardinality(OldRunning' \cup todo') <= Cardinality(OldRunning \cup todo)
        /\ Cardinality((OldRunning' \cup todo') \ {cur'}) <= Cardinality((OldRunning \cup todo) \ {cur})
    <3>1. /\ OldRunning' \cup todo' \subseteq OldRunning \cup todo
          /\ (OldRunning' \cup todo') \ {cur'} \subseteq (OldRunning \cup todo) \ {cur}
      BY <1>3, <1>6
    <3>2. IsFiniteSet((OldRunning \cup todo) \ {cur})
      BY <1>5, FS_Subset, (OldRunning \cup todo) \ {cur} \subseteq OldRunning \cup todo
    <3> QED
      BY <1>3, <1>5, <3>1, <3>2, FS_Subset
  <2>2. /\ Cardinality(OldRunning') \in Nat /\ Cardinality(OldRunning) \in Nat
        /\ Cardinality(OldRunning' \cup todo') \in Nat /\ Cardinality(OldRunning \cup todo) \in Nat
        /\ Cardinality((OldRunning' \cup todo') \ {cur'}) \in Nat
        /\ Cardinality((OldRunning \cup todo) \ {cur}) \in Nat
    <3>1. /\ OldRunning' \subseteq Instances /\ OldRunning' \cup todo' \subseteq Instances
          /\ (OldRunning' \cup todo') \ {cur'} \subseteq Instances
          /\ OldRunning \cup todo \subseteq Instances
          /\ (OldRunning \cup todo) \ {cur} \subseteq Instances
      BY <1>3, <1>4, <1>6
    <3> QED
      BY <1>4, <1>5, <3>1
  <2>3. oldLeft' = oldLeft /\ scaleDown' = scaleDown /\ "terminate" \notin AtNode
    BY <1>6 DEF AtNode
  <2> QED
    BY <1>2, <1>4, <1>6, <2>1, <2>2, <2>3, SurgeType DEF LastInv
<1>7. CASE AllMarked
  <2>1. pc' = "terminate" => /\ todo' \subseteq oldNodes(pool)
                             /\ oldLeft' = Cardinality(oldNodes(pool))
    BY <1>7 DEF AllMarked, Step, NodesToTerminate
  <2>2. OldRunning \subseteq oldNodes(pool)
    BY <1>1, <1>7 DEF AllMarked, Step, OldKnown, OldRunning, Running, Alive, In, oldNodes
  <2>3. oldNodes(pool) \subseteq Instances
    BY <1>1 DEF TypeOK, ManagerType, Pools, oldNodes
  <2>4. pc' = "terminate" => OldRunning' \cup todo' \subseteq oldNodes(pool)
    BY <1>3, <2>1, <2>2
  <2>5. pc' = "terminate" => Cardinality(OldRunning' \cup todo') <= oldLeft'
    BY <1>5, <2>1, <2>3, <2>4, FS_Subset
  <2>6. pc' \notin AtNode
    BY <1>7 DEF AllMarked, Step, AtNode
  <2> QED
    BY <2>5, <2>6 DEF LastInv
<1>8. ASSUME NEW i \in Instances, TerminateNext(i) PROVE LastInv'
  <2>1. /\ pc = "terminate" /\ pc' = "drain" /\ i \in todo /\ todo' = todo \ {i} /\ cur' = i
        /\ oldLeft' = oldLeft - 1 /\ scaleDown' = (oldLeft <= Surge) /\ inst' = inst
    BY <1>8 DEF TerminateNext, Step, ShrinkWith, InternalOnly, poolVars
  <2>2. OldRunning' = OldRunning
    BY <2>1 DEF OldRunning, Running, In
  <2>3. Cardinality(OldRunning \cup todo) <= oldLeft
    BY <2>1 DEF LastInv
  <2>4. (OldRunning' \cup todo') \ {cur'} = (OldRunning \cup todo) \ {i}
    BY <2>1, <2>2
  <2>5. Cardinality((OldRunning \cup todo) \ {i}) = Cardinality(OldRunning \cup todo) - 1
    BY <1>5, <2>1, FS_RemoveElement
  <2>6. Cardinality(OldRunning) <= Cardinality(OldRunning \cup todo)
    BY <1>5, FS_Subset, OldRunning \subseteq OldRunning \cup todo
  <2>7. Cardinality(OldRunning) \in Nat /\ Cardinality(OldRunning \cup todo) \in Nat
    BY <1>5, FS_CardinalityType
  <2>8. Cardinality((OldRunning' \cup todo') \ {cur'}) <= oldLeft'
    BY <1>4, <2>1, <2>3, <2>4, <2>5, <2>7
  <2>9. scaleDown' => Cardinality(OldRunning') <= Surge'
    <3>1. scaleDown' => oldLeft <= Surge
      BY <2>1
    <3>2. oldLeft <= Surge => Cardinality(OldRunning) <= Surge
      BY <1>4, <2>3, <2>6, <2>7, SurgeType
    <3> QED
      BY <1>2, <2>2, <3>1, <3>2
  <2> QED
    BY <2>1, <2>8, <2>9 DEF LastInv
<1>9. CASE Killed
  <2>1. /\ pc = "kill" /\ pc' = "terminate" /\ UNCHANGED <<todo, oldLeft, inst>>
        /\ inst[cur] \in {"terminated", "gone"}
    BY <1>9 DEF Killed, Step, InternalOnly, poolVars
  <2>2. cur \notin todo /\ cur \notin OldRunning /\ OldRunning' = OldRunning
    BY <2>1 DEF WithdrawnInv, AtNode, OldRunning, Running, In
  <2>3. OldRunning' \cup todo' = (OldRunning \cup todo) \ {cur}
    BY <2>1, <2>2
  <2>4. Cardinality((OldRunning \cup todo) \ {cur}) <= oldLeft
    BY <2>1 DEF LastInv, AtNode
  <2> QED
    BY <2>1, <2>3, <2>4 DEF LastInv, AtNode
<1>10. CASE \/ StartUpdate \/ EnoughNew \/ ScaleOut \/ ScalePool \/ DescribeGroup \/ Removed
            \/ AllTerminated \/ Choose \/ AllCordoned \/ CallFails \/ Abort \/ Retry
            \/ StartRemoval \/ Resize
            \/ \E i \in Instances : MarkNode(i) \/ Cordon(i)
  <2>1. pc' # "terminate" /\ pc' \notin AtNode
    BY <1>10 DEF StartUpdate, EnoughNew, ScaleOut, ScalePool, DescribeGroup, Removed, AllTerminated,
       Choose, AllCordoned, CallFails, Abort, Retry, StartRemoval, Resize, MarkNode, Cordon, Step, AtNode
  <2> QED
    BY <2>1 DEF LastInv
<1>11. CASE DrainNode \/ LowerMin
  <2>1. UNCHANGED <<todo, cur, oldLeft, scaleDown>> /\ pc \in AtNode /\ pc' \in AtNode
    BY <1>11 DEF DrainNode, LowerMin, Step, AtNode
  <2> QED
    BY <1>6, <2>1
<1>12. CASE Kill \/ World \/ UNCHANGED vars
  <2>1. UNCHANGED updateVars
    BY <1>12 DEF Kill, World, vars
  <2> QED
    BY <1>6, <2>1 DEF updateVars
<1>13. ASSUME NEW i \in Instances, RemoveNode(i) PROVE FALSE
  BY <1>13 DEF RemoveNode
<1> QED
  BY <1>7, <1>8, <1>9, <1>10, <1>11, <1>12, <1>13, NextCases DEF InternalStep, NodeStep, GroupStep

-----------------------------------------------------------------------------
(* An update: what it may take away *)

\* One instance changes its state: how many of the others remain.
LEMMA MoveMinus ==
    ASSUME InstType, NEW i \in Instances, NEW to, inst' = [inst EXCEPT ![i] = to], NEW S, NEW X
    PROVE  /\ Cardinality(In(S) \ X) \in Nat /\ Cardinality(In(S)' \ X) \in Nat
           /\ Cardinality(In(S)' \ X) >= Cardinality(In(S) \ X) - 1
           /\ (inst[i] \in S => to \in S) => Cardinality(In(S)' \ X) >= Cardinality(In(S) \ X)
<1>1. In(S)' = IF to \in S THEN In(S) \cup {i} ELSE In(S) \ {i}
  BY MoveIn
<1>2. IsFiniteSet(In(S)) /\ In(S) \subseteq Instances
  BY FiniteIn
<1>3. IsFiniteSet(In(S)') /\ In(S)' \subseteq Instances
  <2>1. In(S)' \subseteq Instances
    BY <1>1, <1>2
  <2> QED
    BY <2>1, PoolAssumption, FS_Subset
<1>4. IsFiniteSet(In(S) \ X) /\ IsFiniteSet(In(S)' \ X)
  BY <1>2, <1>3, FS_Subset, In(S) \ X \subseteq In(S), In(S)' \ X \subseteq In(S)'
<1>5. Cardinality(In(S) \ X) \in Nat /\ Cardinality(In(S)' \ X) \in Nat
  BY <1>4, FS_CardinalityType
<1>6. Cardinality(In(S)' \ X) >= Cardinality(In(S) \ X) - 1
  <2>1. (In(S) \ X) \ {i} \subseteq In(S)' \ X
    BY <1>1
  <2>2. Cardinality((In(S) \ X) \ {i}) <= Cardinality(In(S)' \ X)
    BY <1>4, <2>1, FS_Subset
  <2>3. Cardinality((In(S) \ X) \ {i}) \in {Cardinality(In(S) \ X), Cardinality(In(S) \ X) - 1}
    BY <1>4, FS_RemoveElement
  <2> QED
    BY <1>5, <2>2, <2>3
<1>7. ASSUME inst[i] \in S => to \in S PROVE Cardinality(In(S)' \ X) >= Cardinality(In(S) \ X)
  <2>1. In(S) \ X \subseteq In(S)' \ X
    BY <1>1, <1>7 DEF In
  <2> QED
    BY <1>4, <1>5, <2>1, FS_Subset
<1> QED
  BY <1>5, <1>6, <1>7

\* What one step of the others does to the numbers: n counts the ready nodes,
\* or the instances that have not been lost, outside of any set.
Numbers(r, rNext, n, nNext) ==
    \/ /\ desired' = desired + 1 /\ scalings' = scalings + 1 /\ failures' = failures
       /\ rNext = r /\ nNext = n
    \/ /\ UNCHANGED <<desired, scalings, failures>>
       /\ \/ rNext = r + 1 /\ r < desired /\ nNext >= n
          \/ rNext = r /\ nNext >= n
          \/ rNext = r - 1 /\ nNext >= n
          \/ rNext = r - 1 /\ r > desired /\ nNext >= n - 1
    \/ /\ UNCHANGED <<desired, scalings>> /\ failures' = failures + 1
       /\ rNext = r /\ nNext >= n - 1
    \/ /\ desired' = desired - 1 /\ scalings' = scalings + 1 /\ failures' = failures
       /\ rNext = r - 1 /\ nNext >= n - 1

LEMMA WorldNumbers ==
    ASSUME PoolTypeOK, AWSProgress \/ Disturbance, NEW X, NEW S,
           S = {"ready"} \/ S = {"unused", "pending", "ready"}
    PROVE  /\ Cardinality(In(S) \ X) \in Nat /\ Cardinality(In(S)' \ X) \in Nat
           /\ Cardinality(Running) \in Nat /\ Cardinality(Running') \in Nat
           /\ Numbers(Cardinality(Running), Cardinality(Running'),
                      Cardinality(In(S) \ X), Cardinality(In(S)' \ X))
<1>1. InstType /\ desired \in Nat
  BY DEF PoolTypeOK, GroupType
<1>2. CASE AutoscalerAdds
  <2>1. inst' = inst /\ desired' = desired + 1 /\ scalings' = scalings + 1 /\ failures' = failures
    BY <1>2 DEF AutoscalerAdds
  <2>2. In(S)' = In(S) /\ Running' = Running
    BY <2>1 DEF In, Running
  <2>3. IsFiniteSet(In(S)) /\ IsFiniteSet(Running)
    BY FiniteIn DEF Running
  <2>4. Cardinality(In(S) \ X) \in Nat /\ Cardinality(Running) \in Nat
    BY <2>3, FS_Subset, FS_CardinalityType, In(S) \ X \subseteq In(S)
  <2> QED
    BY <2>1, <2>2, <2>4 DEF Numbers
<1>3. ASSUME NEW i \in Instances, NEW to \in States, AWSMove(i, to) \/ OtherMove(i, to)
      PROVE  /\ Cardinality(In(S) \ X) \in Nat /\ Cardinality(In(S)' \ X) \in Nat
             /\ Cardinality(Running) \in Nat /\ Cardinality(Running') \in Nat
             /\ Numbers(Cardinality(Running), Cardinality(Running'),
                        Cardinality(In(S) \ X), Cardinality(In(S)' \ X))
  <2>1. inst' = [inst EXCEPT ![i] = to]
    BY <1>3 DEF AWSMove, OtherMove
  <2>2. /\ Cardinality(Running) \in Nat /\ Cardinality(Running') \in Nat
        /\ inst[i] \in Live /\ to \notin Live => Cardinality(Running') = Cardinality(Running) - 1
        /\ inst[i] \notin Live /\ to \in Live => Cardinality(Running') = Cardinality(Running) + 1
        /\ (inst[i] \in Live <=> to \in Live) => Cardinality(Running') = Cardinality(Running)
    BY <1>1, <2>1, RunningCounts
  <2>3. /\ Cardinality(In(S) \ X) \in Nat /\ Cardinality(In(S)' \ X) \in Nat
        /\ Cardinality(In(S)' \ X) >= Cardinality(In(S) \ X) - 1
        /\ (inst[i] \in S => to \in S) => Cardinality(In(S)' \ X) >= Cardinality(In(S) \ X)
    BY <1>1, <2>1, MoveMinus
  <2> DEFINE r == Cardinality(Running)
             rNext == Cardinality(Running')
             n == Cardinality(In(S) \ X)
             nNext == Cardinality(In(S)' \ X)
  <2>4. CASE AWSMove(i, to)
    <3>1. UNCHANGED <<desired, scalings, failures>>
      BY <2>4 DEF AWSMove, groupVars
    <3>2. CASE inst[i] = "unused" /\ to = "pending" /\ r < desired
      <4>1. (inst[i] \in S => to \in S) /\ inst[i] \notin Live /\ to \in Live
        BY <3>2 DEF Live
      <4> HIDE DEF r, rNext, n, nNext
      <4>2. rNext = r + 1 /\ nNext >= n
        BY <2>2, <2>3, <4>1 DEF r, rNext, n, nNext
      <4>3. Numbers(r, rNext, n, nNext)
        BY <3>1, <3>2, <4>2 DEF Numbers
      <4> QED
        BY <2>2, <2>3, <4>3 DEF r, rNext, n, nNext
    <3>3. CASE \/ inst[i] = "pending" /\ to = "ready"
               \/ inst[i] = "terminating" /\ to = "terminated"
               \/ inst[i] = "terminated" /\ to = "gone"
      <4>1. (inst[i] \in S => to \in S) /\ (inst[i] \in Live <=> to \in Live)
        BY <3>3 DEF Live
      <4> HIDE DEF r, rNext, n, nNext
      <4>2. rNext = r /\ nNext >= n
        BY <2>2, <2>3, <4>1 DEF r, rNext, n, nNext
      <4>3. Numbers(r, rNext, n, nNext)
        BY <3>1, <4>2 DEF Numbers
      <4> QED
        BY <2>2, <2>3, <4>3 DEF r, rNext, n, nNext
    <3>4. CASE inst[i] = "unhealthy" /\ to = "terminating"
      <4>1. inst[i] \notin S /\ inst[i] \in Live /\ to \notin Live
        BY <3>4 DEF Live
      <4> HIDE DEF r, rNext, n, nNext
      <4>2. rNext = r - 1 /\ nNext >= n
        BY <2>2, <2>3, <4>1 DEF r, rNext, n, nNext
      <4>3. Numbers(r, rNext, n, nNext)
        BY <3>1, <4>2 DEF Numbers
      <4> QED
        BY <2>2, <2>3, <4>3 DEF r, rNext, n, nNext
    <3>5. CASE inst[i] \in {"pending", "ready", "unhealthy"} /\ to = "terminating" /\ r > desired
      <4>1. inst[i] \in Live /\ to \notin Live
        BY <3>5 DEF Live
      <4> HIDE DEF r, rNext, n, nNext
      <4>2. rNext = r - 1 /\ nNext >= n - 1 /\ r > desired
        BY <2>2, <2>3, <3>5, <4>1 DEF r, rNext, n, nNext
      <4>3. Numbers(r, rNext, n, nNext)
        BY <3>1, <4>2 DEF Numbers
      <4> QED
        BY <2>2, <2>3, <4>3 DEF r, rNext, n, nNext
    <3> QED
      BY <2>4, <3>2, <3>3, <3>4, <3>5 DEF AWSMove
  <2>5. CASE OtherMove(i, to) /\ to = "unhealthy"
    <3>1. UNCHANGED <<desired, scalings>> /\ failures' = failures + 1 /\ inst[i] = "ready"
      BY <2>5 DEF OtherMove
    <3>2. inst[i] \in Live <=> to \in Live
      BY <2>5, <3>1 DEF Live
    <3> HIDE DEF r, rNext, n, nNext
    <3>3. rNext = r /\ nNext >= n - 1
      BY <2>2, <2>3, <3>2 DEF r, rNext, n, nNext
    <3>4. Numbers(r, rNext, n, nNext)
      BY <3>1, <3>3 DEF Numbers
    <3> QED
      BY <2>2, <2>3, <3>4 DEF r, rNext, n, nNext
  <2>6. CASE OtherMove(i, to) /\ to # "unhealthy"
    <3>1. /\ desired' = desired - 1 /\ scalings' = scalings + 1 /\ UNCHANGED failures
          /\ inst[i] = "ready" /\ to = "terminating"
      BY <2>6 DEF OtherMove
    <3>2. inst[i] \in Live /\ to \notin Live
      BY <3>1 DEF Live
    <3> HIDE DEF r, rNext, n, nNext
    <3>3. rNext = r - 1 /\ nNext >= n - 1
      BY <2>2, <2>3, <3>2 DEF r, rNext, n, nNext
    <3>4. Numbers(r, rNext, n, nNext)
      BY <3>1, <3>3 DEF Numbers
    <3> QED
      BY <2>2, <2>3, <3>4 DEF r, rNext, n, nNext
  <2> QED
    BY <1>3, <2>4, <2>5, <2>6
<1> QED
  BY <1>2, <1>3, WorldCases

\* The set of the instances whose state is in S, without X, stays large enough.
LEMMA WorldKept ==
    ASSUME TypeOK, World, NEW X, NEW S, S = {"ready"} \/ S = {"unused", "pending", "ready"},
           NEW least \in Int, Kept(In(S) \ X, least)
    PROVE  /\ Cardinality(In(S)' \ X) + failures' + scalings' + desired' >= least + Top'
           /\ pc' = "resize" =>
                Cardinality(In(S)' \ X) + failures' + scalings' + read'.desired >= least + Top'
<1> DEFINE r == Cardinality(Running)
           rNext == Cardinality(Running')
           n == Cardinality(In(S) \ X)
           nNext == Cardinality(In(S)' \ X)
<1>1. PoolTypeOK /\ (AWSProgress \/ Disturbance) /\ pc' = pc /\ read' = read
  BY DEF TypeOK, World, updateVars
<1>2. n \in Nat /\ nNext \in Nat /\ r \in Nat /\ rNext \in Nat /\ Numbers(r, rNext, n, nNext)
  BY <1>1, WorldNumbers
<1>3. desired \in Nat /\ failures \in Nat /\ scalings \in Nat /\ read.desired \in Nat
  BY DEF TypeOK, PoolTypeOK, GroupType, ManagerType
<1>4. /\ Top = IF r > desired THEN r ELSE desired
      /\ Top' = IF rNext > desired' THEN rNext ELSE desired'
  BY DEF Top
<1>5. /\ n + failures + scalings + desired >= least + Top
      /\ pc = "resize" => n + failures + scalings + read.desired >= least + Top
  BY DEF Kept
<1> HIDE DEF r, rNext, n, nNext
<1>6. nNext + failures' + scalings' + desired' >= least + Top'
  BY <1>2, <1>3, <1>4, <1>5 DEF Numbers
<1>7. pc = "resize" => nNext + failures' + scalings' + read.desired >= least + Top'
  BY <1>2, <1>3, <1>4, <1>5 DEF Numbers
<1> QED
  BY <1>1, <1>6, <1>7 DEF nNext

LEMMA OldRunningCounts ==
    /\ IsFiniteSet(OldRunning) /\ Cardinality(OldRunning) \in Nat /\ Shrunk \in Nat
    /\ Cardinality(Running) \in Nat
<1>1. IsFiniteSet(Running) /\ Cardinality(Running) \in Nat
  BY FiniteIn DEF Running
<1>2. IsFiniteSet(OldRunning)
  BY <1>1, FS_Subset, OldRunning \subseteq Running DEF OldRunning
<1>3. Cardinality(OldRunning) \in Nat
  BY <1>2, FS_CardinalityType
<1> QED
  BY <1>1, <1>2, <1>3, SurgeType DEF Shrunk

LEMMA Difference ==
    ASSUME NEW a \in Nat, NEW b \in Nat, b >= a
    PROVE  \E more \in Nat : b = a + more
<1>1. b - a \in Nat /\ b = a + (b - a)
  OBVIOUS
<1> QED
  BY <1>1

\* Old nodes do not come back.
LEMMA ShrunkGrows ==
    ASSUME TypeOK, FreshNodesReady, [Next]_vars
    PROVE  \E more \in Nat : Shrunk' = Shrunk + more
<1>1. OldRunning' \subseteq OldRunning
  BY NextAges, AgesSets DEF TypeOK, PoolTypeOK
<1>2. IsFiniteSet(OldRunning) /\ Cardinality(OldRunning) \in Nat
  BY OldRunningCounts
<1>3. Cardinality(OldRunning') <= Cardinality(OldRunning)
  BY <1>1, <1>2, FS_Subset
<1>4. Cardinality(OldRunning') \in Nat
  BY <1>1, <1>2, FS_Subset, FS_CardinalityType
<1>5. Shrunk' \in Nat /\ Shrunk' >= Shrunk /\ Shrunk \in Nat
  BY <1>2, <1>3, <1>4, SurgeType DEF Shrunk, Surge
<1> QED
  BY <1>5, Difference

\* What the steps of the run but Resize and Kill do to the numbers.
LEMMA QuietStep ==
    ASSUME TypeOK, FreshNodesReady, ~Removal,
           InternalStep \/ NodeStep \/ LowerMin \/ StartRemoval \/ UNCHANGED vars
    PROVE  /\ UNCHANGED <<inst, desired, failures, scalings, given>> /\ Top' = Top /\ Running' = Running
           /\ pc' = "resize" => read'.desired = desired \/ (pc = "resize" /\ read' = read)
<1>1. CASE InternalStep
  <2>1. UNCHANGED poolVars
    BY <1>1, InternalTyped
  <2>2. DescribeGroup \/ pc' # "resize"
    BY <1>1 DEF InternalStep, StartUpdate, EnoughNew, ScaleOut, ScalePool, AllMarked, Removed,
       AllTerminated, Killed, Choose, AllCordoned, CallFails, Abort, Retry, TerminateNext, Step
  <2>3. DescribeGroup => read'.desired = desired
    BY DEF DescribeGroup
  <2> QED
    BY <2>1, <2>2, <2>3 DEF poolVars, groupVars, Top, Running, In
<1>2. CASE NodeStep
  <2>1. UNCHANGED <<inst, groupVars, failures, scalings>>
    BY <1>2, NodeTyped
  <2>2. pc' # "resize"
    BY <1>2 DEF NodeStep, DrainNode, MarkNode, RemoveNode, Cordon, Step
  <2> QED
    BY <2>1, <2>2 DEF groupVars, Top, Running, In
<1>3. CASE LowerMin
  BY <1>3 DEF LowerMin, LowerMinSize, GroupOnly, Step, Top, Running, In
<1>4. CASE StartRemoval
  BY <1>4 DEF StartRemoval
<1>5. CASE UNCHANGED vars
  BY <1>5 DEF vars, poolVars, groupVars, updateVars, Top, Running, In
<1> QED
  BY <1>1, <1>2, <1>3, <1>4, <1>5

\* Resize writes what Scale has read before.
LEMMA ResizeStep ==
    ASSUME TypeOK, Resize
    PROVE  /\ pc = "resize" /\ pc' = "surge" /\ desired' = read.desired
           /\ UNCHANGED <<inst, failures, scalings, given, cordoned>> /\ Running' = Running
           /\ Top' = IF Cardinality(Running) > read.desired THEN Cardinality(Running) ELSE read.desired
<1>1. /\ pc = "resize" /\ pc' = "surge" /\ desired' = read.desired
      /\ UNCHANGED <<inst, failures, scalings, given, cordoned>>
  BY DEF Resize, Scale, Rebalanced, GroupOnly, Step, nodeVars
<1>2. Running' = Running
  BY <1>1 DEF Running, In
<1> QED
  BY <1>1, <1>2 DEF Top

\* Kill takes a cordoned node away.
LEMMA KillStep ==
    ASSUME TypeOK, FreshNodesReady, WithdrawnInv, FewWithdrawn, LastInv, Kill
    PROVE  /\ UNCHANGED <<cordoned, pc, todo, given, failures, scalings>> /\ pc = "kill"
           /\ Cardinality(Running) \in Nat /\ Cardinality(Running') = Cardinality(Running) - 1
           /\ \/ desired' = desired
              \/ /\ desired' = desired - 1
                 /\ ~Spot => Cardinality(OldRunning) <= Surge
           /\ cur \in Old /\ cur \in cordoned /\ OldRunning' = OldRunning \ {cur} /\ cur \in OldRunning
           /\ \A S : In(S)' \ {cur} = In(S) \ {cur}
<1>1. /\ UNCHANGED <<given, updateVars, nodeVars, failures, scalings>>
      /\ cur \in Instances /\ inst[cur] \in Live
      /\ inst' = [inst EXCEPT ![cur] = "terminating"]
      /\ desired' = IF scaleDown THEN desired - 1 ELSE desired
  BY KillTyped
<1>2. pc = "kill"
  BY DEF Kill
<1>3. InstType
  BY DEF TypeOK, PoolTypeOK
<1>4. "terminating" \notin Live
  BY DEF Live
<1>5. Cardinality(Running) \in Nat /\ Cardinality(Running') = Cardinality(Running) - 1
  BY <1>1, <1>3, <1>4, RunningCounts
<1>6. cur \in cordoned /\ cur \in Old
  BY <1>2 DEF WithdrawnInv, FewWithdrawn, Withdrawn, AtNode
<1>7. scaleDown /\ ~Spot => Cardinality(OldRunning) <= Surge
  BY <1>2 DEF LastInv, AtNode
<1>8. inst'[cur] = "terminating" /\ \A j \in Instances : j # cur => inst'[j] = inst[j]
  BY <1>1, <1>3 DEF InstType
<1>9. OldRunning' = OldRunning \ {cur} /\ cur \in OldRunning
  BY <1>1, <1>6, <1>8 DEF OldRunning, Running, In, Live
<1>10. \A S : In(S)' \ {cur} = In(S) \ {cur}
  BY <1>8 DEF In
<1> QED
  BY <1>1, <1>2, <1>5, <1>6, <1>7, <1>9, <1>10 DEF updateVars, nodeVars

\* A set that no step but those of the others makes smaller stays large enough.
LEMMA KeptNext ==
    ASSUME TypeOK, FreshNodesReady, ~Removal, WithdrawnInv, FewWithdrawn, LastInv, [Next]_vars, ~World,
           NEW S, NEW T, NEW least \in Int, Kept(S, least), IsFiniteSet(T), S \subseteq T
    PROVE  /\ Cardinality(T) + failures' + scalings' + desired' >= least + Top'
           /\ pc' = "resize" => Cardinality(T) + failures' + scalings' + read'.desired >= least + Top'
<1> DEFINE r == Cardinality(Running)
           n == Cardinality(S)
           nNext == Cardinality(T)
<1>1. r \in Nat /\ n \in Nat /\ nNext \in Nat /\ nNext >= n
  <2>1. Cardinality(S) <= Cardinality(T) /\ IsFiniteSet(S)
    BY FS_Subset
  <2> QED
    BY <2>1, FS_CardinalityType, OldRunningCounts
<1>2. desired \in Nat /\ failures \in Nat /\ scalings \in Nat /\ read.desired \in Nat
  BY DEF TypeOK, PoolTypeOK, GroupType, ManagerType
<1>3. Top = IF r > desired THEN r ELSE desired
  BY DEF Top
<1>4. /\ n + failures + scalings + desired >= least + Top
      /\ pc = "resize" => n + failures + scalings + read.desired >= least + Top
  BY DEF Kept
<1>5. CASE InternalStep \/ NodeStep \/ LowerMin \/ StartRemoval \/ UNCHANGED vars
  <2>1. /\ UNCHANGED <<inst, desired, failures, scalings, given>> /\ Top' = Top
        /\ pc' = "resize" => read'.desired = desired \/ (pc = "resize" /\ read' = read)
    BY <1>5, QuietStep
  <2> HIDE DEF r, n, nNext
  <2>2. nNext + failures' + scalings' + desired' >= least + Top'
    BY <1>1, <1>2, <1>3, <1>4, <2>1
  <2>3. pc' = "resize" => nNext + failures' + scalings' + read'.desired >= least + Top'
    <3>1. CASE read'.desired = desired
      BY <2>1, <2>2, <3>1
    <3>2. CASE pc = "resize" /\ read' = read
      BY <1>1, <1>2, <1>3, <1>4, <2>1, <3>2
    <3> QED
      BY <2>1, <3>1, <3>2
  <2> QED
    BY <2>2, <2>3 DEF nNext
<1>6. CASE Resize
  <2>1. /\ pc = "resize" /\ pc' = "surge" /\ desired' = read.desired /\ UNCHANGED <<failures, scalings>>
        /\ Top' = IF r > read.desired THEN r ELSE read.desired
    BY <1>6, ResizeStep
  <2> HIDE DEF r, n, nNext
  <2>2. nNext + failures' + scalings' + desired' >= least + Top'
    BY <1>1, <1>2, <1>3, <1>4, <2>1
  <2> QED
    BY <2>1, <2>2 DEF nNext
<1>7. CASE Kill
  <2>1. /\ UNCHANGED <<pc, failures, scalings>> /\ pc = "kill"
        /\ Cardinality(Running') = r - 1
        /\ desired' = desired \/ desired' = desired - 1
    BY <1>7, KillStep
  <2>2. Top' = IF r - 1 > desired' THEN r - 1 ELSE desired'
    BY <2>1 DEF Top
  <2> HIDE DEF r, n, nNext
  <2>3. nNext + failures' + scalings' + desired' >= least + Top'
    <3>1. CASE desired' = desired
      BY <1>1, <1>2, <1>3, <1>4, <2>1, <2>2, <3>1
    <3>2. CASE desired' = desired - 1
      BY <1>1, <1>2, <1>3, <1>4, <2>1, <2>2, <3>2
    <3> QED
      BY <2>1, <3>1, <3>2
  <2> QED
    BY <2>1, <2>3 DEF nNext
<1> QED
  BY <1>5, <1>6, <1>7, NextCases DEF GroupStep

LEMMA FreshNext ==
    ASSUME TypeOK, FreshNodesReady, ~Removal, WithdrawnInv, FewWithdrawn, LastInv, FreshInv, [Next]_vars
    PROVE  FreshInv'
<1> DEFINE S == {"unused", "pending", "ready"}
           least == Cardinality(Instances \ Old)
<1>1. least \in Int
  <2>1. IsFiniteSet(Instances \ Old)
    BY PoolAssumption, FS_Subset, Instances \ Old \subseteq Instances
  <2> QED
    BY <2>1, FS_CardinalityType
<1>2. Fresh = In(S) \ Old /\ Fresh' = In(S)' \ Old
  BY DEF Fresh
<1>3. CASE World
  <2> HIDE DEF least
  <2>1. Kept(In(S) \ Old, least)
    BY <1>2 DEF FreshInv, least
  <2>2. /\ Cardinality(In(S)' \ Old) + failures' + scalings' + desired' >= least + Top'
        /\ pc' = "resize" =>
             Cardinality(In(S)' \ Old) + failures' + scalings' + read'.desired >= least + Top'
    BY <1>1, <1>3, <2>1, WorldKept
  <2> QED
    BY <1>2, <2>2 DEF FreshInv, Kept, least
<1>4. CASE ~World
  <2>1. In(S) \ Old \subseteq In(S)' \ Old
    <3>1. CASE Kill
      <4>1. cur \in Old /\ In(S)' \ {cur} = In(S) \ {cur}
        BY <3>1, KillStep
      <4> QED
        BY <4>1
    <3>2. CASE ~Kill
      <4>1. inst' = inst
        BY <1>4, <3>2, QuietStep, ResizeStep, NextCases DEF GroupStep
      <4> QED
        BY <4>1 DEF In
    <3> QED
      BY <3>1, <3>2
  <2>2. IsFiniteSet(In(S)' \ Old)
    <3>1. In(S)' \ Old \subseteq Instances
      BY DEF In
    <3> QED
      BY <3>1, PoolAssumption, FS_Subset
  <2> DEFINE T == In(S)' \ Old
             U == In(S) \ Old
  <2> HIDE DEF least, S
  <2>3. Kept(U, least)
    BY <1>2 DEF FreshInv, least
  <2>4. U \subseteq T /\ IsFiniteSet(T)
    BY <2>1, <2>2
  <2> HIDE DEF T, U
  <2>5. /\ Cardinality(T) + failures' + scalings' + desired' >= least + Top'
        /\ pc' = "resize" => Cardinality(T) + failures' + scalings' + read'.desired >= least + Top'
    BY <1>1, <1>4, <2>3, <2>4, KeptNext
  <2> QED
    BY <1>2, <2>5 DEF FreshInv, Kept, least, T
<1> QED
  BY <1>3, <1>4

\* The group may only want less than in the beginning when the last old nodes
\* have been removed, or the autoscaler has decided so.
LEMMA DesiredNext ==
    ASSUME TypeOK, FreshNodesReady, ~Removal, WithdrawnInv, FewWithdrawn, LastInv, DesiredInv, [Next]_vars
    PROVE  DesiredInv'
<1> DEFINE r == Cardinality(Running)
           rNext == Cardinality(Running')
<1>1. given' = given
  BY TypeNext
<1>2. InitialSize \in Nat /\ InitialSize' = InitialSize /\ (Spot' <=> Spot)
  BY <1>1 DEF Spot, InitialSize, TypeOK, PoolTypeOK, GroupType
<1> SUFFICES ASSUME ~Spot PROVE DesiredInv'
  BY <1>2 DEF DesiredInv
<1>3. PICK more \in Nat : r \in Nat /\ Shrunk \in Nat /\ Shrunk' = Shrunk + more
  BY OldRunningCounts, ShrunkGrows
<1>4. desired \in Nat /\ failures \in Nat /\ scalings \in Nat /\ read.desired \in Nat
  BY DEF TypeOK, PoolTypeOK, GroupType, ManagerType
<1>5. /\ Top = IF r > desired THEN r ELSE desired
      /\ Top' = IF rNext > desired' THEN rNext ELSE desired'
  BY DEF Top
<1>6. Top \in Nat /\ Top >= desired
  BY <1>3, <1>4, <1>5
<1>7. /\ 2 * desired + scalings + Shrunk >= InitialSize + Top
      /\ pc = "resize" => /\ read.desired + scalings + Shrunk >= InitialSize
                          /\ 2 * read.desired + scalings + Shrunk >= InitialSize + Top
  BY DEF DesiredInv
<1>8. CASE World
  <2>1. PoolTypeOK /\ (AWSProgress \/ Disturbance) /\ pc' = pc /\ read' = read
    BY <1>8 DEF TypeOK, World, updateVars
  <2> DEFINE S == {"ready"}
             n == Cardinality(In(S) \ {})
             nNext == Cardinality(In(S)' \ {})
  <2>2. n \in Nat /\ nNext \in Nat /\ rNext \in Nat /\ Numbers(r, rNext, n, nNext)
    BY <2>1, WorldNumbers
  <2> HIDE DEF r, rNext, n, nNext, S
  <2>3. 2 * desired' + scalings' + Shrunk' >= InitialSize + Top'
    BY <1>2, <1>3, <1>4, <1>5, <1>7, <2>2 DEF Numbers
  <2>4. pc = "resize" => /\ read.desired + scalings' + Shrunk' >= InitialSize
                         /\ 2 * read.desired + scalings' + Shrunk' >= InitialSize + Top'
    BY <1>2, <1>3, <1>4, <1>5, <1>7, <2>2 DEF Numbers
  <2> QED
    BY <1>2, <2>1, <2>3, <2>4 DEF DesiredInv
<1>9. CASE InternalStep \/ NodeStep \/ LowerMin \/ StartRemoval \/ UNCHANGED vars
  <2>1. /\ UNCHANGED <<inst, desired, failures, scalings, given>> /\ Top' = Top
        /\ pc' = "resize" => read'.desired = desired \/ (pc = "resize" /\ read' = read)
    BY <1>9, QuietStep
  <2> HIDE DEF r, rNext
  <2>2. 2 * desired' + scalings' + Shrunk' >= InitialSize + Top'
    BY <1>2, <1>3, <1>4, <1>6, <1>7, <2>1
  <2>3. ASSUME pc' = "resize"
        PROVE  /\ read'.desired + scalings' + Shrunk' >= InitialSize
               /\ 2 * read'.desired + scalings' + Shrunk' >= InitialSize + Top'
    <3>1. CASE read'.desired = desired
      BY <1>2, <1>3, <1>4, <1>6, <1>7, <2>1, <2>2, <3>1
    <3>2. CASE pc = "resize" /\ read' = read
      BY <1>2, <1>3, <1>4, <1>5, <1>7, <2>1, <3>2
    <3> QED
      BY <2>1, <2>3, <3>1, <3>2
  <2> QED
    BY <1>2, <2>2, <2>3 DEF DesiredInv
<1>10. CASE Resize
  <2>1. /\ pc = "resize" /\ pc' = "surge" /\ desired' = read.desired /\ UNCHANGED <<failures, scalings>>
        /\ Top' = IF r > read.desired THEN r ELSE read.desired
    BY <1>10, ResizeStep
  <2> HIDE DEF r, rNext
  <2>2. 2 * desired' + scalings' + Shrunk' >= InitialSize + Top'
    BY <1>2, <1>3, <1>4, <1>5, <1>7, <2>1
  <2> QED
    BY <1>2, <2>1, <2>2 DEF DesiredInv
<1>11. CASE Kill
  <2>1. /\ UNCHANGED <<pc, failures, scalings>> /\ pc = "kill" /\ rNext = r - 1
        /\ \/ desired' = desired
           \/ desired' = desired - 1 /\ Cardinality(OldRunning) <= Surge
        /\ OldRunning' = OldRunning \ {cur} /\ cur \in OldRunning
    BY <1>11, KillStep
  <2>2. /\ IsFiniteSet(OldRunning) /\ Cardinality(OldRunning) \in Nat
        /\ Cardinality(OldRunning \ {cur}) = Cardinality(OldRunning) - 1
    BY <2>1, OldRunningCounts, FS_RemoveElement
  <2>3. /\ Cardinality(OldRunning') = Cardinality(OldRunning) - 1
        /\ Cardinality(OldRunning') \in Nat
    BY <2>1, <2>2, FS_RemoveElement, FS_CardinalityType
  <2>4. Cardinality(OldRunning) <= Surge => Shrunk' = Shrunk + 1
    BY <2>2, <2>3, SurgeType DEF Shrunk, Surge
  <2> HIDE DEF r, rNext
  <2>5. 2 * desired' + scalings' + Shrunk' >= InitialSize + Top'
    BY <1>2, <1>3, <1>4, <1>5, <1>7, <2>1, <2>4
  <2> QED
    BY <1>2, <2>1, <2>5 DEF DesiredInv
<1> QED
  BY <1>8, <1>9, <1>10, <1>11, NextCases DEF GroupStep

\* When the pool has settled, enough nodes are ready to withdraw a few old ones.
LEMMA ChooseKept ==
    ASSUME TypeOK, WithdrawnInv, DesiredInv, ~Spot, Choose
    PROVE  Kept(ReadyNodes \ Withdrawn, InitialSize - Surge)'
<1>1. /\ UNCHANGED poolVars /\ cordoned \cap Alive = {} /\ Withdrawn' = cordoned \cup todo'
      /\ todo' \subseteq Old \cap Registered
      /\ Cardinality(todo') \in Nat /\ Cardinality(todo') <= Surge /\ IsFiniteSet(todo')
  BY ChooseWithdraws
<1>2. Cardinality(ReadyNodes) = desired /\ pc' = "cordon"
  BY DEF Choose, Settled, Step
<1>3. /\ ReadyNodes' = ReadyNodes /\ Top' = Top /\ InitialSize' = InitialSize /\ Surge' = Surge
      /\ UNCHANGED <<desired, failures, scalings>>
  BY <1>1 DEF poolVars, groupVars, ReadyNodes, In, Top, Running, InitialSize, Surge
<1>4. (ReadyNodes \ Withdrawn)' = ReadyNodes \ todo'
  BY <1>1, <1>3 DEF Alive, ReadyNodes, In
<1> DEFINE n == Cardinality(ReadyNodes \ todo')
           k == Cardinality(ReadyNodes \cap todo')
<1>5. IsFiniteSet(ReadyNodes)
  BY FiniteIn DEF ReadyNodes
<1>6. n \in Nat /\ k \in Nat /\ n = desired - k
  <2>1. n = Cardinality(ReadyNodes) - k
    BY <1>5, FS_Difference
  <2>2. IsFiniteSet(ReadyNodes \ todo') /\ IsFiniteSet(ReadyNodes \cap todo')
    BY <1>5, FS_Subset, ReadyNodes \ todo' \subseteq ReadyNodes, ReadyNodes \cap todo' \subseteq ReadyNodes
  <2> QED
    BY <1>2, <2>1, <2>2, FS_CardinalityType
<1>7. k <= Surge /\ k <= Cardinality(OldRunning)
  <2>1. ReadyNodes \cap todo' \subseteq todo' /\ ReadyNodes \cap todo' \subseteq OldRunning
    BY <1>1 DEF OldRunning, Running, ReadyNodes, In
  <2>2. k <= Cardinality(todo')
    BY <1>1, <2>1, FS_Subset
  <2>3. k <= Cardinality(OldRunning)
    BY <2>1, OldRunningCounts, FS_Subset
  <2> QED
    BY <1>1, <1>6, <2>2, <2>3, SurgeType
<1>8. k + Shrunk <= Surge
  BY <1>6, <1>7, OldRunningCounts, SurgeType DEF Shrunk
<1>9. /\ desired \in Nat /\ failures \in Nat /\ scalings \in Nat /\ InitialSize \in Nat
      /\ Cardinality(Running) \in Nat
  BY OldRunningCounts DEF TypeOK, PoolTypeOK, GroupType, InitialSize
<1>10. Top \in Nat
  BY <1>9 DEF Top
<1>11. 2 * desired + scalings + Shrunk >= InitialSize + Top
  BY DEF DesiredInv
<1> HIDE DEF n, k
<1>12. n + failures + scalings + desired >= (InitialSize - Surge) + Top
  BY <1>6, <1>8, <1>9, <1>10, <1>11, OldRunningCounts, SurgeType
<1> QED
  BY <1>2, <1>3, <1>4, <1>12 DEF Kept, n

LEMMA CapacityNext ==
    ASSUME TypeOK, FreshNodesReady, ~Removal, WithdrawnInv, FewWithdrawn, LastInv, DesiredInv,
           CapacityInv, [Next]_vars
    PROVE  CapacityInv'
<1> DEFINE S == {"ready"}
           least == InitialSize - Surge
<1>1. given' = given
  BY TypeNext
<1>2. (Spot' <=> Spot) /\ least' = least
  BY <1>1 DEF Spot, InitialSize, Surge
<1> SUFFICES ASSUME ~Spot PROVE CapacityInv'
  BY <1>2 DEF CapacityInv
<1>3. least \in Int
  BY SurgeType DEF InitialSize, TypeOK, PoolTypeOK, GroupType
<1>4. ReadyNodes = In(S) /\ ReadyNodes' = In(S)'
  BY DEF ReadyNodes
<1>5. CASE Choose
  BY <1>5, ChooseKept DEF CapacityInv
<1>6. CASE World
  <2>1. Withdrawn' = Withdrawn
    BY <1>6 DEF World, nodeVars, updateVars, Withdrawn
  <2> DEFINE X == Withdrawn
  <2> HIDE DEF least, X
  <2>2. Kept(In(S) \ X, least)
    BY <1>4 DEF CapacityInv, least, X
  <2>3. /\ Cardinality(In(S)' \ X) + failures' + scalings' + desired' >= least + Top'
        /\ pc' = "resize" =>
             Cardinality(In(S)' \ X) + failures' + scalings' + read'.desired >= least + Top'
    BY <1>3, <1>6, <2>2, WorldKept
  <2>4. /\ Cardinality(ReadyNodes' \ Withdrawn') + failures' + scalings' + desired' >= least' + Top'
        /\ pc' = "resize" =>
             Cardinality(ReadyNodes' \ Withdrawn') + failures' + scalings' + read'.desired >= least' + Top'
    BY <1>2, <1>4, <2>1, <2>3 DEF X
  <2> QED
    BY <2>4 DEF CapacityInv, Kept, least
<1>7. CASE ~Choose /\ ~World
  <2> DEFINE U == ReadyNodes \ Withdrawn
             T == ReadyNodes' \ Withdrawn'
  <2>1. U \subseteq T
    <3>1. Withdrawn' \subseteq Withdrawn
      BY <1>7, NextWithdrawn
    <3>2. CASE Kill
      <4>1. cur \in cordoned /\ In({"ready"})' \ {cur} = In({"ready"}) \ {cur} /\ cordoned \subseteq Withdrawn
        BY <3>2, KillStep DEF Withdrawn
      <4> QED
        BY <3>1, <4>1 DEF ReadyNodes
    <3>3. CASE ~Kill
      <4>1. inst' = inst
        BY <1>7, <3>3, QuietStep, ResizeStep, NextCases DEF GroupStep
      <4> QED
        BY <3>1, <4>1 DEF ReadyNodes, In
    <3> QED
      BY <3>2, <3>3
  <2>2. IsFiniteSet(T)
    <3>1. T \subseteq Instances
      BY DEF ReadyNodes, In
    <3> QED
      BY <3>1, PoolAssumption, FS_Subset
  <2> HIDE DEF least, U, T
  <2>3. Kept(U, least)
    BY DEF CapacityInv, least, U
  <2>4. /\ Cardinality(T) + failures' + scalings' + desired' >= least + Top'
        /\ pc' = "resize" => Cardinality(T) + failures' + scalings' + read'.desired >= least + Top'
    BY <1>3, <1>7, <2>1, <2>2, <2>3, KeptNext
  <2>5. /\ Cardinality(ReadyNodes' \ Withdrawn') + failures' + scalings' + desired' >= least' + Top'
        /\ pc' = "resize" =>
             Cardinality(ReadyNodes' \ Withdrawn') + failures' + scalings' + read'.desired >= least' + Top'
    BY <1>2, <2>4 DEF T
  <2> QED
    BY <2>5 DEF CapacityInv, Kept, least
<1> QED
  BY <1>5, <1>6, <1>7

LEMMA ZoneCounts ==
    ASSUME NEW R, NEW Q, NEW z, R \subseteq Q, Q \subseteq Instances
    PROVE  /\ Cardinality(InZone(R, z)) \in Nat /\ Cardinality(InZone(Q, z)) \in Nat
           /\ Cardinality(InZone(R, z)) <= Cardinality(InZone(Q, z))
<1>1. InZone(R, z) \subseteq InZone(Q, z) /\ InZone(Q, z) \subseteq Instances
  BY DEF InZone
<1>2. IsFiniteSet(InZone(Q, z)) /\ IsFiniteSet(InZone(R, z))
  BY <1>1, PoolAssumption, FS_Subset
<1> QED
  BY <1>1, <1>2, FS_Subset, FS_CardinalityType

\* While a node with volumes is withdrawn, a new node has registered for it.
LEMMA VolumesNext ==
    ASSUME TypeOK, FreshNodesReady, ~Removal, WithdrawnInv, FewWithdrawn, VolumesInv, [Next]_vars
    PROVE  VolumesInv'
<1>1. given' = given /\ Ages /\ InstType
  BY TypeNext, NextAges DEF TypeOK, PoolTypeOK
<1>2. Spot' <=> Spot
  BY <1>1 DEF Spot
<1> SUFFICES ASSUME ~Spot, NEW z \in Zones
             PROVE  Cardinality(InZone(Withdrawn' \cap Alive' \cap Old \cap Volumes, z))
                      <= Cardinality(InZone(Known', z))
  BY <1>2 DEF VolumesInv
<1> DEFINE R == Withdrawn' \cap Alive' \cap Old \cap Volumes
           Q == Known
           QNext == Known'
<1>3. Q \subseteq QNext /\ QNext \subseteq Instances
  BY <1>1, AgesSets DEF Known, In
<1>4. CASE ~Choose
  <2> DEFINE P == Withdrawn \cap Alive \cap Old \cap Volumes
  <2>1. R \subseteq P
    <3>1. Withdrawn' \subseteq Withdrawn /\ Withdrawn \cap Alive' \subseteq Withdrawn \cap Alive
      BY <1>1, <1>4, NextWithdrawn, AgesSets DEF FewWithdrawn
    <3> QED
      BY <3>1
  <2>2. P \subseteq Instances
    BY DEF Alive, In
  <2>3. Cardinality(InZone(P, z)) <= Cardinality(InZone(Q, z))
    BY DEF VolumesInv
  <2> HIDE DEF P, Q, R, QNext
  <2>4. /\ Cardinality(InZone(R, z)) \in Nat /\ Cardinality(InZone(P, z)) \in Nat
        /\ Cardinality(InZone(R, z)) <= Cardinality(InZone(P, z))
    BY <2>1, <2>2, ZoneCounts
  <2>5. /\ Cardinality(InZone(Q, z)) \in Nat /\ Cardinality(InZone(QNext, z)) \in Nat
        /\ Cardinality(InZone(Q, z)) <= Cardinality(InZone(QNext, z))
    BY <1>3, ZoneCounts
  <2>6. Cardinality(InZone(R, z)) <= Cardinality(InZone(QNext, z))
    BY <2>3, <2>4, <2>5
  <2> QED
    BY <2>6 DEF R, QNext
<1>5. CASE Choose
  <2>1. /\ UNCHANGED poolVars /\ cordoned \cap Alive = {} /\ Withdrawn' = cordoned \cup todo'
    BY <1>5, ChooseWithdraws
  <2>2. Alive' = Alive
    BY <2>1 DEF poolVars, Alive, In
  <2>3. PICK lists \in NodesLists(GetPool) : todo' = Chosen(lists)[1]
    BY <1>5 DEF Choose
  <2>4. GetPool \in Pools /\ oldNodes(GetPool) = Registered \cap Old /\ newNodes(GetPool) = Registered \ Old
    BY PoolTypes DEF TypeOK, GetPool, oldNodes, newNodes
  <2>5. PICK m \in Matchings(GetPool), e \in SUBSET (oldNodes(GetPool) \ Volumes),
             u \in SUBSET (oldNodes(GetPool) \cap Volumes) : lists = <<m \cup e, u>>
    BY <2>3, <2>4, ChosenNodes
  <2>6. todo' = m \cup e
    BY <2>3, <2>5 DEF Chosen
  <2> DEFINE P == m
             N == Registered \ Old
  <2>7. R \subseteq P
    BY <2>1, <2>2, <2>6
  <2>8. P \subseteq Instances /\ N \subseteq Q
    BY <2>4, PoolAssumption DEF Matchings, Known, Registered, In
  <2>9. Cardinality(InZone(P, z)) <= Matchable(GetPool, z)
    BY DEF Matchings
  <2>10. IsFiniteSet(Registered)
    BY FiniteIn DEF Registered
  <2>11. /\ Cardinality(InZone(oldNodes(GetPool) \cap Volumes, z)) \in Nat
         /\ Cardinality(InZone(N, z)) \in Nat
    <3>1. /\ InZone(oldNodes(GetPool) \cap Volumes, z) \subseteq Registered
          /\ InZone(N, z) \subseteq Registered
      BY <2>4 DEF InZone
    <3> QED
      BY <2>10, <3>1, FS_Subset, FS_CardinalityType
  <2>12. Matchable(GetPool, z) <= Cardinality(InZone(N, z)) /\ Matchable(GetPool, z) \in Nat
    BY <2>4, <2>11 DEF Matchable, Smaller
  <2> HIDE DEF P, Q, R, QNext, N
  <2>13. /\ Cardinality(InZone(R, z)) \in Nat /\ Cardinality(InZone(P, z)) \in Nat
         /\ Cardinality(InZone(R, z)) <= Cardinality(InZone(P, z))
    BY <2>7, <2>8, ZoneCounts
  <2>14. N \subseteq QNext
    BY <1>3, <2>8
  <2>15. /\ Cardinality(InZone(QNext, z)) \in Nat
         /\ Cardinality(InZone(N, z)) <= Cardinality(InZone(QNext, z))
    BY <1>3, <2>14, ZoneCounts
  <2>16. Cardinality(InZone(R, z)) <= Cardinality(InZone(QNext, z))
    BY <2>9, <2>11, <2>12, <2>13, <2>15
  <2> QED
    BY <2>16 DEF R, QNext
<1> QED
  BY <1>4, <1>5

-----------------------------------------------------------------------------
(* An update: the theorems *)

\* What the promises of an update depend on: it is an update, and not more
\* instances than Surge are still starting when it begins.
UpdatesOnly == \A s \in Scenarios : ~s.removal
FewStarting == \A s \in Scenarios :
    ~s.spot => Cardinality({i \in Instances : s.inst[i] = "pending"}) <= Surge

LEMMA UpdateInit == ASSUME Init, UpdatesOnly, FewStarting PROVE ~Removal /\ UpdateInv
<1>1. PICK s \in Scenarios : inst = s.inst /\ Removal = s.removal /\ Spot = s.spot
  BY InitPoolSize DEF Init
<1>2. /\ desired = Cardinality(Running) /\ desired = InitialSize
      /\ inst \in [Instances -> {"unused", "pending", "ready"}]
  BY InitPoolSize DEF Init
<1>3. ~Removal
  BY <1>1 DEF UpdatesOnly
<1>4. Cardinality(Running) \in Nat /\ IsFiniteSet(Running)
  BY FiniteIn DEF Running
<1>5. /\ desired \in Nat /\ InitialSize = desired /\ Top = desired /\ failures = 0 /\ scalings = 0
      /\ pc = "start" /\ cordoned = {} /\ Withdrawn = {}
  BY <1>2, <1>4 DEF Init, InitPool, Top, Withdrawn
<1>6. Cardinality({}) = 0
  BY FS_EmptySet
<1>7. FewWithdrawn
  <2>1. Withdrawn \cap Alive = {}
    BY <1>5
  <2> QED
    BY <1>5, <1>6, <2>1, SurgeType DEF FewWithdrawn
<1>8. WithdrawnInv /\ LastInv
  BY <1>5 DEF WithdrawnInv, LastInv, AtNode
<1>9. DesiredInv
  BY <1>5, OldRunningCounts DEF DesiredInv
<1>10. CapacityInv
  <2> SUFFICES ASSUME ~Spot PROVE Kept(ReadyNodes \ Withdrawn, InitialSize - Surge)
    BY DEF CapacityInv
  <2> DEFINE waiting == In({"pending"})
  <2>1. waiting = {i \in Instances : s.inst[i] = "pending"}
    BY <1>1 DEF In
  <2>2. Cardinality(waiting) <= Surge
    BY <1>1, <2>1 DEF FewStarting
  <2>3. IsFiniteSet(waiting) /\ Cardinality(waiting) \in Nat
    BY FiniteIn
  <2>4. IsFiniteSet(ReadyNodes) /\ Cardinality(ReadyNodes) \in Nat
    BY FiniteIn DEF ReadyNodes
  <2>5. Running = ReadyNodes \cup waiting
    BY <1>2 DEF Running, ReadyNodes, In
  <2> HIDE DEF waiting
  <2>6. Cardinality(Running) <= Cardinality(ReadyNodes) + Cardinality(waiting)
    <3>1. Cardinality(ReadyNodes \cup waiting)
            = Cardinality(ReadyNodes) + Cardinality(waiting) - Cardinality(ReadyNodes \cap waiting)
      BY <2>3, <2>4, FS_Union
    <3>2. Cardinality(ReadyNodes \cap waiting) \in Nat
      BY <2>4, FS_Subset, FS_CardinalityType, ReadyNodes \cap waiting \subseteq ReadyNodes
    <3> QED
      BY <1>4, <2>3, <2>4, <2>5, <3>1, <3>2
  <2>7. ReadyNodes \ Withdrawn = ReadyNodes
    BY <1>5
  <2>8. Cardinality(ReadyNodes) + 0 + 0 + desired >= (InitialSize - Surge) + Top
    BY <1>2, <1>5, <2>2, <2>3, <2>4, <2>6, SurgeType
  <2> QED
    BY <1>5, <2>7, <2>8 DEF Kept
<1>11. FreshInv
  <2>1. Fresh = Instances \ Old
    BY <1>2 DEF Fresh, In
  <2>2. IsFiniteSet(Instances \ Old)
    BY PoolAssumption, FS_Subset, Instances \ Old \subseteq Instances
  <2>3. Cardinality(Instances \ Old) \in Nat
    BY <2>2, FS_CardinalityType
  <2> QED
    BY <1>5, <2>1, <2>3 DEF FreshInv, Kept
<1>12. VolumesInv
  <2> SUFFICES ASSUME NEW z \in Zones
               PROVE  Cardinality(InZone(Withdrawn \cap Alive \cap Old \cap Volumes, z))
                        <= Cardinality(InZone(Known, z))
    BY DEF VolumesInv
  <2>1. InZone(Withdrawn \cap Alive \cap Old \cap Volumes, z) = {}
    BY <1>5 DEF InZone
  <2>2. Cardinality(InZone(Known, z)) \in Nat
    BY ZoneCounts DEF Known, In
  <2> QED
    BY <1>6, <2>1, <2>2
<1> QED
  BY <1>3, <1>7, <1>8, <1>9, <1>10, <1>11, <1>12 DEF UpdateInv

LEMMA UpdateNext ==
    ASSUME SafeInv, ~Removal, UpdateInv, [Next]_vars
    PROVE  ~Removal' /\ UpdateInv'
<1>1. TypeOK /\ FreshNodesReady
  BY DEF SafeInv
<1>2. given' = given
  BY <1>1, TypeNext
<1>3. /\ FewWithdrawn /\ WithdrawnInv /\ LastInv /\ DesiredInv /\ CapacityInv /\ FreshInv /\ VolumesInv
  BY DEF UpdateInv
<1>4. FewWithdrawn' /\ WithdrawnInv'
  BY <1>1, <1>3, FewNext, WithdrawnNext
<1>5. LastInv' /\ DesiredInv'
  BY <1>1, <1>3, LastNext, DesiredNext
<1>6. CapacityInv' /\ FreshInv'
  BY <1>1, <1>3, CapacityNext, FreshNext
<1>7. VolumesInv'
  BY <1>1, <1>3, VolumesNext
<1> QED
  BY <1>2, <1>4, <1>5, <1>6, <1>7 DEF UpdateInv, Removal

LEMMA UpdateInvariant ==
    ASSUME UpdatesOnly, FewStarting
    PROVE  Spec => [](SafeInv /\ UpdateInv)
<1> DEFINE inv == ~Removal /\ UpdateInv
<1>1. Init => inv
  BY UpdateInit
<1>2. SafeInv /\ inv /\ [Next]_vars => inv'
  BY UpdateNext
<1>3. inv => UpdateInv
  OBVIOUS
<1> HIDE DEF inv
<1> QED
  BY <1>1, <1>2, <1>3, RollingTypeCorrect, PTL DEF Spec

LEMMA CapacityFollows == ASSUME SafeInv, UpdateInv PROVE CapacityKept
<1>1. cordoned \subseteq Withdrawn
  BY DEF Withdrawn
<1>2. /\ IsFiniteSet(Withdrawn \cap Alive) /\ IsFiniteSet(ReadyNodes \ cordoned)
      /\ Cardinality(Running) \in Nat
  <2>1. IsFiniteSet(Alive) /\ IsFiniteSet(ReadyNodes)
    BY FiniteIn DEF Alive, ReadyNodes
  <2> QED
    BY <2>1, FS_Subset, OldRunningCounts, Withdrawn \cap Alive \subseteq Alive,
       ReadyNodes \ cordoned \subseteq ReadyNodes
<1>3. Cardinality(cordoned \cap Alive) <= Surge
  <2>1. Cardinality(Withdrawn \cap Alive) <= Surge
    BY DEF UpdateInv, FewWithdrawn
  <2>2. /\ Cardinality(cordoned \cap Alive) <= Cardinality(Withdrawn \cap Alive)
        /\ IsFiniteSet(cordoned \cap Alive)
    BY <1>1, <1>2, FS_Subset, cordoned \cap Alive \subseteq Withdrawn \cap Alive
  <2>3. Cardinality(cordoned \cap Alive) \in Nat /\ Cardinality(Withdrawn \cap Alive) \in Nat
    BY <1>2, <2>2, FS_CardinalityType
  <2> QED
    BY <2>1, <2>2, <2>3, SurgeType
<1>4. ASSUME ~Spot
      PROVE  Cardinality(ReadyNodes \ cordoned) + failures + scalings >= InitialSize - Surge
  <2> DEFINE n == Cardinality(ReadyNodes \ Withdrawn)
             k == Cardinality(ReadyNodes \ cordoned)
  <2>1. n <= k /\ IsFiniteSet(ReadyNodes \ Withdrawn)
    BY <1>1, <1>2, FS_Subset, ReadyNodes \ Withdrawn \subseteq ReadyNodes \ cordoned
  <2>2. n \in Nat /\ k \in Nat
    BY <1>2, <2>1, FS_CardinalityType
  <2>3. desired \in Nat /\ failures \in Nat /\ scalings \in Nat /\ InitialSize \in Nat
    BY DEF SafeInv, TypeOK, PoolTypeOK, GroupType, InitialSize
  <2>4. Top \in Nat /\ Top >= desired
    BY <1>2, <2>3 DEF Top
  <2>5. n + failures + scalings + desired >= (InitialSize - Surge) + Top
    BY <1>4 DEF UpdateInv, CapacityInv, Kept
  <2> HIDE DEF n, k
  <2>6. k + failures + scalings >= InitialSize - Surge
    BY <2>1, <2>2, <2>3, <2>4, <2>5, SurgeType
  <2> QED
    BY <2>6 DEF k
<1> QED
  BY <1>3, <1>4 DEF CapacityKept

LEMMA VolumesFollow == ASSUME SafeInv, UpdateInv PROVE VolumesMatched
<1> SUFFICES ASSUME ~Spot, NEW z \in Zones
             PROVE  Cardinality(InZone(cordoned \cap Alive \cap Old \cap Volumes, z))
                      <= Cardinality(InZone(Registered \ Old, z)) + failures + scalings
  BY DEF VolumesMatched
<1> DEFINE P == cordoned \cap Alive \cap Old \cap Volumes
           R == Withdrawn \cap Alive \cap Old \cap Volumes
           Q == Known
           N == Registered \ Old
           G == In({"gone"}) \ Old
           F == Fresh
           A == Instances \ Old
<1>1. P \subseteq R /\ R \subseteq Instances /\ Q \subseteq Instances /\ N \subseteq Instances
  BY DEF Withdrawn, Known, Registered, In, Alive
<1>2. Q = N \cup G
  BY DEF Known, Registered, In
<1>3. F \cup G \subseteq A /\ F \cap G = {}
  BY DEF Fresh, In
<1>4. Cardinality(InZone(R, z)) <= Cardinality(InZone(Q, z))
  BY DEF UpdateInv, VolumesInv
<1>5. Cardinality(F) + failures + scalings + desired >= Cardinality(A) + Top
  BY DEF UpdateInv, FreshInv, Kept
<1>6. desired \in Nat /\ failures \in Nat /\ scalings \in Nat
  BY DEF SafeInv, TypeOK, PoolTypeOK, GroupType
<1>7. Top \in Nat /\ Top >= desired
  BY <1>6, OldRunningCounts DEF Top
<1> HIDE DEF P, R, Q, N, G, F, A
<1>8. IsFiniteSet(A)
  BY PoolAssumption, FS_Subset, Instances \ Old \subseteq Instances DEF A
<1>9. IsFiniteSet(F) /\ IsFiniteSet(G)
  BY <1>3, <1>8, FS_Subset
<1>10. Cardinality(F) \in Nat /\ Cardinality(G) \in Nat /\ Cardinality(A) \in Nat
  BY <1>8, <1>9, FS_CardinalityType
<1>11. Cardinality(F) + Cardinality(G) <= Cardinality(A)
  <2>1. Cardinality(F \cup G) = Cardinality(F) + Cardinality(G) - Cardinality(F \cap G)
    BY <1>9, FS_Union
  <2>2. Cardinality(F \cap G) = 0
    BY <1>3, FS_EmptySet
  <2>3. Cardinality(F \cup G) <= Cardinality(A)
    BY <1>3, <1>8, FS_Subset
  <2> QED
    BY <1>10, <2>1, <2>2, <2>3
<1>12. Cardinality(G) <= failures + scalings
  BY <1>5, <1>6, <1>7, <1>10, <1>11
<1>13. Cardinality(InZone(Q, z)) <= Cardinality(InZone(N, z)) + Cardinality(G)
  <2>1. InZone(Q, z) \subseteq InZone(N, z) \cup G
    BY <1>2 DEF InZone
  <2>2. IsFiniteSet(InZone(N, z)) /\ Cardinality(InZone(N, z)) \in Nat
    <3>1. InZone(N, z) \subseteq Instances
      BY <1>1 DEF InZone
    <3> QED
      BY <3>1, PoolAssumption, FS_Subset, FS_CardinalityType
  <2>3. /\ IsFiniteSet(InZone(N, z) \cup G)
        /\ Cardinality(InZone(N, z) \cup G)
             = Cardinality(InZone(N, z)) + Cardinality(G) - Cardinality(InZone(N, z) \cap G)
    BY <1>9, <2>2, FS_Union
  <2>4. Cardinality(InZone(N, z) \cap G) \in Nat
    BY <1>9, FS_Subset, FS_CardinalityType, InZone(N, z) \cap G \subseteq G
  <2>5. Cardinality(InZone(Q, z)) <= Cardinality(InZone(N, z) \cup G) /\ IsFiniteSet(InZone(Q, z))
    BY <2>1, <2>3, FS_Subset
  <2>6. Cardinality(InZone(Q, z)) \in Nat
    BY <2>5, FS_CardinalityType
  <2> QED
    BY <1>10, <2>2, <2>3, <2>4, <2>5, <2>6
<1>14. /\ Cardinality(InZone(P, z)) \in Nat /\ Cardinality(InZone(R, z)) \in Nat
       /\ Cardinality(InZone(P, z)) <= Cardinality(InZone(R, z))
  BY <1>1, ZoneCounts
<1>15. Cardinality(InZone(Q, z)) \in Nat /\ Cardinality(InZone(N, z)) \in Nat
  BY <1>1, ZoneCounts
<1>16. Cardinality(InZone(P, z)) <= Cardinality(InZone(N, z)) + failures + scalings
  BY <1>4, <1>6, <1>10, <1>12, <1>13, <1>14, <1>15
<1> QED
  BY <1>16 DEF P, N

\* However often an update is aborted and started again, it never takes more
\* than Surge nodes out of service at a time, and the ready, schedulable nodes
\* of an on-demand pool never fall more than that below its size, but for the
\* machines that fail and the decisions of the autoscaler.
THEOREM UpdateKeepsCapacity ==
    ASSUME UpdatesOnly, FewStarting
    PROVE  Spec => []CapacityKept
<1>1. SafeInv /\ UpdateInv => CapacityKept
  BY CapacityFollows
<1> QED
  BY <1>1, UpdateInvariant, PTL

\* While an old node with volumes is out of service, the zone has a new node
\* for it, but for the machines that fail and the autoscaler.
THEOREM UpdateMatchesVolumes ==
    ASSUME UpdatesOnly, FewStarting
    PROVE  Spec => []VolumesMatched
<1>1. SafeInv /\ UpdateInv => VolumesMatched
  BY VolumesFollow
<1> QED
  BY <1>1, UpdateInvariant, PTL
=============================================================================
