--------------------------- MODULE NodePoolProofs ---------------------------
(***************************************************************************)
(* Lemmas about node pools that the proofs about both update strategies    *)
(* use: what the steps of AWS, of the autoscaler and of the manager do to  *)
(* the types, the instances and the labels, and how they count.            *)
(***************************************************************************)
EXTENDS NodePool, FiniteSetTheorems, TLAPS

States == {"unused", "pending", "ready", "unhealthy", "terminating", "terminated", "gone"}

InstType == inst \in [Instances -> States]
NodeType ==
    /\ cordoned \subseteq Instances /\ tainted \subseteq Instances /\ unreplaced \subseteq Instances
    /\ label \in [Instances -> Labels]
GroupType ==
    /\ desired \in Nat /\ minSize \in Nat /\ autoscaled \in BOOLEAN
    /\ given \in [spot : BOOLEAN, removal : BOOLEAN, size : Nat]
PoolTypeOK == InstType /\ NodeType /\ GroupType /\ failures \in Nat /\ scalings \in Nat

\* A node that has not registered yet registers as ready.
FreshNodesReady == \A i \in In({"unused", "pending"}) : label[i] = "ready"

-----------------------------------------------------------------------------
(* Counting instances *)

LEMMA FiniteIn ==
    ASSUME NEW S
    PROVE  /\ In(S) \in SUBSET Instances
           /\ IsFiniteSet(In(S)) /\ Cardinality(In(S)) \in Nat
<1>1. In(S) \in SUBSET Instances
  BY DEF In
<1>2. IsFiniteSet(In(S))
  BY <1>1, PoolAssumption, FS_Subset
<1> QED
  BY <1>1, <1>2, FS_CardinalityType

\* One instance changes its state.
LEMMA MoveIn ==
    ASSUME InstType, NEW i \in Instances, NEW to, inst' = [inst EXCEPT ![i] = to], NEW S
    PROVE  In(S)' = IF to \in S THEN In(S) \cup {i} ELSE In(S) \ {i}
  BY DEF InstType, In

LEMMA MoveCounts ==
    ASSUME InstType, NEW i \in Instances, NEW to, inst' = [inst EXCEPT ![i] = to], NEW S
    PROVE  /\ Cardinality(In(S)) \in Nat /\ Cardinality(In(S)') \in Nat
           /\ inst[i] \in S /\ to \notin S => Cardinality(In(S)') = Cardinality(In(S)) - 1
           /\ inst[i] \notin S /\ to \in S => Cardinality(In(S)') = Cardinality(In(S)) + 1
           /\ (inst[i] \in S <=> to \in S) => Cardinality(In(S)') = Cardinality(In(S))
<1>1. i \in In(S) <=> inst[i] \in S
  BY DEF In
<1>2. IsFiniteSet(In(S)) /\ Cardinality(In(S)) \in Nat
  BY FiniteIn
<1>3. CASE to \in S
  <2>1. In(S)' = In(S) \cup {i}
    BY <1>3, MoveIn
  <2>2. /\ Cardinality(In(S) \cup {i}) = IF i \in In(S) THEN Cardinality(In(S)) ELSE Cardinality(In(S)) + 1
    BY <1>2, FS_AddElement
  <2> QED
    BY <1>1, <1>2, <1>3, <2>1, <2>2
<1>4. CASE to \notin S
  <2>1. In(S)' = In(S) \ {i}
    BY <1>4, MoveIn
  <2>2. /\ Cardinality(In(S) \ {i}) = IF i \in In(S) THEN Cardinality(In(S)) - 1 ELSE Cardinality(In(S))
    BY <1>2, FS_RemoveElement
  <2>3. Cardinality(In(S) \ {i}) \in Nat
    BY <1>2, FS_RemoveElement, FS_CardinalityType
  <2> QED
    BY <1>1, <1>2, <1>4, <2>1, <2>2, <2>3
<1> QED
  BY <1>3, <1>4

Live == {"pending", "ready", "unhealthy"}

LEMMA RunningCounts ==
    ASSUME InstType, NEW i \in Instances, NEW to, inst' = [inst EXCEPT ![i] = to]
    PROVE  /\ Cardinality(Running) \in Nat /\ Cardinality(Running') \in Nat
           /\ inst[i] \in Live /\ to \notin Live => Cardinality(Running') = Cardinality(Running) - 1
           /\ inst[i] \notin Live /\ to \in Live => Cardinality(Running') = Cardinality(Running) + 1
           /\ (inst[i] \in Live <=> to \in Live) => Cardinality(Running') = Cardinality(Running)
<1>1. Running = In(Live) /\ Running' = In(Live)'
  BY DEF Running, Live
<1> QED
  BY <1>1, MoveCounts

LEMMA ReadyCounts ==
    ASSUME InstType, NEW i \in Instances, NEW to, inst' = [inst EXCEPT ![i] = to]
    PROVE  /\ Cardinality(ReadyNodes) \in Nat /\ Cardinality(ReadyNodes') \in Nat
           /\ inst[i] = "ready" /\ to # "ready" =>
                 Cardinality(ReadyNodes') = Cardinality(ReadyNodes) - 1
           /\ inst[i] # "ready" /\ to = "ready" =>
                 Cardinality(ReadyNodes') = Cardinality(ReadyNodes) + 1
           /\ (inst[i] = "ready" <=> to = "ready") =>
                 Cardinality(ReadyNodes') = Cardinality(ReadyNodes)
<1> DEFINE S == {"ready"}
<1>1. ReadyNodes = In(S) /\ ReadyNodes' = In(S)' /\ \A x : x \in S <=> x = "ready"
  BY DEF ReadyNodes
<1> HIDE DEF S
<1> QED
  BY <1>1, MoveCounts

-----------------------------------------------------------------------------
(* The beginning *)

LEMMA InitPoolTyped == InitPool => PoolTypeOK /\ FreshNodesReady
<1> SUFFICES ASSUME InitPool PROVE PoolTypeOK /\ FreshNodesReady
  OBVIOUS
<1>1. PICK s \in Scenarios :
          /\ inst = s.inst
          /\ autoscaled = s.autoscaled
          /\ given = [spot |-> s.spot, removal |-> s.removal, size |-> Cardinality(Running)]
  BY DEF InitPool
<1>2. s \in [inst : [Instances -> {"unused", "pending", "ready"}],
             autoscaled : BOOLEAN, spot : BOOLEAN, removal : BOOLEAN]
  BY PoolAssumption
<1>3. InstType /\ inst \in [Instances -> {"unused", "pending", "ready"}]
  BY <1>1, <1>2 DEF InstType, States
<1>4. NodeType
  BY DEF InitPool, NodeType, Labels
<1>5. Cardinality(Running) \in Nat
  BY FiniteIn DEF Running
<1>6. given \in [spot : BOOLEAN, removal : BOOLEAN, size : Nat] /\ given.size \in Nat
  BY <1>1, <1>2, <1>5
<1>7. GroupType
  BY <1>1, <1>2, <1>6, PoolAssumption DEF InitPool, GroupType, InitialSize, Smaller
<1>8. FreshNodesReady
  BY DEF FreshNodesReady, In, InitPool
<1> QED
  BY <1>3, <1>4, <1>7, <1>8 DEF PoolTypeOK, InitPool

\* In the beginning the group has as many instances as it wants.
LEMMA InitPoolSize ==
    ASSUME InitPool
    PROVE  /\ desired = Cardinality(Running) /\ desired = InitialSize
           /\ \E s \in Scenarios : inst = s.inst /\ Removal = s.removal /\ Spot = s.spot
           /\ inst \in [Instances -> {"unused", "pending", "ready"}]
<1>1. PICK s \in Scenarios :
          /\ inst = s.inst
          /\ given = [spot |-> s.spot, removal |-> s.removal, size |-> Cardinality(Running)]
  BY DEF InitPool
<1>2. inst \in [Instances -> {"unused", "pending", "ready"}]
  BY <1>1, PoolAssumption
<1> QED
  BY <1>1, <1>2 DEF InitPool, InitialSize, Removal, Spot

-----------------------------------------------------------------------------
(* What everybody else does *)

\* AWS moves one instance on.
AWSMove(i, to) ==
    /\ inst' = [inst EXCEPT ![i] = to]
    /\ UNCHANGED <<groupVars, failures, scalings>>
    /\ \/ inst[i] = "unused" /\ to = "pending" /\ i \notin Old /\ Cardinality(Running) < desired
       \/ inst[i] = "pending" /\ to = "ready"
       \/ inst[i] = "unhealthy" /\ to = "terminating"
       \/ inst[i] = "terminating" /\ to = "terminated"
       \/ inst[i] = "terminated" /\ to = "gone"
       \/ inst[i] \in {"pending", "ready", "unhealthy"} /\ to = "terminating"
          /\ Cardinality(Running) > desired

LEMMA AWSMoves ==
    ASSUME AWSProgress
    PROVE  \E i \in Instances, to \in States : AWSMove(i, to)
<1>1. PICK i \in Instances : Launch(i) \/ Register(i) \/ ReplaceUnhealthy(i) \/ ShutDown(i)
                             \/ Unlist(i) \/ Shrink(i)
  BY DEF AWSProgress
<1>2. \/ Launch(i) /\ AWSMove(i, "pending")
      \/ Register(i) /\ AWSMove(i, "ready")
      \/ (ReplaceUnhealthy(i) \/ Shrink(i)) /\ AWSMove(i, "terminating")
      \/ ShutDown(i) /\ AWSMove(i, "terminated")
      \/ Unlist(i) /\ AWSMove(i, "gone")
  BY <1>1 DEF Launch, Register, ReplaceUnhealthy, ShutDown, Unlist, Shrink, Evolve, AWSMove,
     Running, In
<1> QED
  BY <1>2 DEF States

\* A machine fails, or the autoscaler removes one.
OtherMove(i, to) ==
    /\ inst[i] = "ready" /\ inst' = [inst EXCEPT ![i] = to]
    /\ UNCHANGED <<minSize, autoscaled, given>>
    /\ \/ to = "unhealthy" /\ failures' = failures + 1 /\ UNCHANGED <<desired, scalings>>
       \/ /\ autoscaled /\ desired > minSize
          /\ to = "terminating" /\ scalings' = scalings + 1 /\ desired' = desired - 1
          /\ UNCHANGED failures

LEMMA DisturbanceMoves ==
    ASSUME Disturbance
    PROVE  AutoscalerAdds \/ \E i \in Instances, to \in States : OtherMove(i, to)
<1>1. ASSUME NEW i \in Instances, Fail(i) PROVE OtherMove(i, "unhealthy")
  BY <1>1 DEF Fail, OtherMove, groupVars
<1>2. ASSUME NEW i \in Instances, AutoscalerRemoves(i) PROVE OtherMove(i, "terminating")
  BY <1>2 DEF AutoscalerRemoves, OtherMove
<1> QED
  BY <1>1, <1>2 DEF Disturbance, States

\* Every step of the others is one of these.
LEMMA WorldCases ==
    ASSUME AWSProgress \/ Disturbance
    PROVE  \/ AutoscalerAdds
           \/ \E i \in Instances, to \in States : AWSMove(i, to) \/ OtherMove(i, to)
  BY AWSMoves, DisturbanceMoves

\* Nobody else touches the node objects, and nobody launches old instances:
\* they register at most.
LEMMA WorldKeeps ==
    ASSUME PoolTypeOK, FreshNodesReady, AWSProgress \/ Disturbance, UNCHANGED nodeVars
    PROVE  /\ PoolTypeOK' /\ FreshNodesReady'
           /\ UNCHANGED given
           /\ Old \cap In({"pending"})' \subseteq Old \cap In({"pending"})
           /\ Old \cap Registered' \subseteq Old \cap (Registered \cup In({"pending"}))
<1> USE DEF PoolTypeOK, nodeVars
<1>1. CASE AutoscalerAdds
  <2>1. inst' = inst /\ desired' \in Nat /\ scalings' \in Nat
    BY <1>1 DEF AutoscalerAdds, GroupType
  <2>2. InstType' /\ NodeType' /\ GroupType'
    BY <1>1, <2>1 DEF AutoscalerAdds, InstType, NodeType, GroupType
  <2> QED
    BY <1>1, <2>1, <2>2 DEF AutoscalerAdds, FreshNodesReady, In, Registered
<1>2. ASSUME NEW i \in Instances, NEW to \in States, AWSMove(i, to) \/ OtherMove(i, to)
      PROVE  /\ PoolTypeOK' /\ FreshNodesReady' /\ UNCHANGED given
             /\ Old \cap In({"pending"})' \subseteq Old \cap In({"pending"})
             /\ Old \cap Registered' \subseteq Old \cap (Registered \cup In({"pending"}))
  <2>1. InstType' /\ NodeType'
    BY <1>2 DEF AWSMove, OtherMove, InstType, NodeType
  <2>2. GroupType' /\ failures' \in Nat /\ scalings' \in Nat /\ UNCHANGED given
    BY <1>2 DEF AWSMove, OtherMove, GroupType, groupVars
  <2>3. \A j \in Instances : j # i => inst'[j] = inst[j]
    BY <1>2 DEF AWSMove, OtherMove, InstType
  <2>4. /\ inst'[i] = to
        /\ to \in {"unused", "pending"} => inst[i] = "unused" /\ i \notin Old
        /\ to # "pending" => inst[i] # "unused"
    BY <1>2 DEF AWSMove, OtherMove, InstType
  <2>5. FreshNodesReady'
    BY <2>3, <2>4 DEF FreshNodesReady, In
  <2>6. Old \cap In({"pending"})' \subseteq Old \cap In({"pending"})
    BY <2>3, <2>4 DEF In
  <2>7. Old \cap Registered' \subseteq Old \cap (Registered \cup In({"pending"}))
    <3> SUFFICES ASSUME NEW j \in Old, j \in Registered'
                 PROVE  inst[j] \in {"pending", "ready", "unhealthy", "terminating", "terminated"}
      BY PoolAssumption DEF Registered, In
    <3>1. j \in Instances
      BY PoolAssumption
    <3>2. CASE j # i
      BY <2>3, <3>1, <3>2 DEF Registered, In
    <3>3. CASE j = i
      BY <1>2, <2>4, <3>3 DEF Registered, In, AWSMove, OtherMove, InstType, States
    <3> QED
      BY <3>2, <3>3
  <2> QED
    BY <2>1, <2>2, <2>5, <2>6, <2>7
<1> QED
  BY <1>1, <1>2, WorldCases

\* The group never has more instances than it wants, unless somebody lowers
\* what it wants without terminating one.
LEMMA WorldNotTooMany ==
    ASSUME PoolTypeOK, Cardinality(Running) <= desired, AWSProgress \/ Disturbance
    PROVE  Cardinality(Running') <= desired'
<1> USE DEF PoolTypeOK
<1>1. CASE AutoscalerAdds
  <2>1. Running' = Running /\ desired' = desired + 1
    BY <1>1 DEF AutoscalerAdds, Running, In
  <2>2. Cardinality(Running) \in Nat
    BY FiniteIn DEF Running
  <2> QED
    BY <2>1, <2>2 DEF GroupType
<1>2. ASSUME NEW i \in Instances, NEW to \in States, AWSMove(i, to) \/ OtherMove(i, to)
      PROVE  Cardinality(Running') <= desired'
  <2>1. inst' = [inst EXCEPT ![i] = to]
    BY <1>2 DEF AWSMove, OtherMove
  <2>2. /\ Cardinality(Running) \in Nat /\ Cardinality(Running') \in Nat
        /\ inst[i] \in Live /\ to \notin Live => Cardinality(Running') = Cardinality(Running) - 1
        /\ inst[i] \notin Live /\ to \in Live => Cardinality(Running') = Cardinality(Running) + 1
        /\ (inst[i] \in Live <=> to \in Live) => Cardinality(Running') = Cardinality(Running)
    BY <2>1, RunningCounts
  <2>3. CASE AWSMove(i, to)
    <3>1. desired' = desired /\ desired \in Nat
      BY <2>3 DEF AWSMove, groupVars, GroupType
    <3>2. CASE inst[i] \notin Live /\ to \in Live
      BY <2>2, <2>3, <3>1, <3>2 DEF AWSMove, Live
    <3>3. CASE ~(inst[i] \notin Live /\ to \in Live)
      BY <2>2, <3>1, <3>3
    <3> QED
      BY <3>2, <3>3
  <2>4. CASE OtherMove(i, to)
    <3>1. desired \in Nat /\ inst[i] \in Live
      BY <2>4 DEF OtherMove, GroupType, Live
    <3>2. \/ desired' = desired
          \/ desired' = desired - 1 /\ to \notin Live
      BY <2>4 DEF OtherMove, Live
    <3> QED
      BY <2>2, <3>1, <3>2
  <2> QED
    BY <1>2, <2>3, <2>4
<1> QED
  BY <1>1, <1>2, WorldCases

-----------------------------------------------------------------------------
(* What the manager does to node objects *)

\* Only a node that is registered and labelled ready is labelled by a mark.
LEMMA MarkKeeps ==
    ASSUME NodeType, FreshNodesReady, NEW p, NEW i \in Instances, MarkNodeForDecommission(p, i),
           UNCHANGED inst
    PROVE  /\ NodeType' /\ FreshNodesReady'
           /\ UNCHANGED <<cordoned, unreplaced>>
           /\ label' = label \/ (label[i] = "ready" /\ label' = [label EXCEPT ![i] = "decommission-pending"])
<1>1. \/ label' = label
      \/ label[i] = "ready" /\ i \in Registered /\ label' = [label EXCEPT ![i] = "decommission-pending"]
  BY DEF MarkNodeForDecommission, Markable, NeedsMark, compareAndSetNodeLabel
<1>2. NodeType'
  BY <1>1 DEF MarkNodeForDecommission, NodeType, taintNode, Labels
<1>3. FreshNodesReady'
  BY <1>1 DEF FreshNodesReady, In, Registered, NodeType
<1> QED
  BY <1>1, <1>2, <1>3 DEF MarkNodeForDecommission

\* The label that says how far a node is: its changes never leave the nodes
\* that have registered.
LEMMA LabelKeeps ==
    ASSUME NodeType, FreshNodesReady, NEW i \in Instances, NEW value \in Labels,
           label' = [label EXCEPT ![i] = value], i \in Registered \/ value = "ready",
           UNCHANGED <<inst, cordoned, tainted, unreplaced>>
    PROVE  NodeType' /\ FreshNodesReady'
<1>1. NodeType'
  BY DEF NodeType
<1>2. FreshNodesReady'
  BY DEF FreshNodesReady, In, Registered, NodeType
<1> QED
  BY <1>1, <1>2

\* An instance is terminated, and the group shrinks with it if it should.
LEMMA TerminateKeeps ==
    ASSUME PoolTypeOK, FreshNodesReady, NEW i \in Instances, NEW decrement \in BOOLEAN,
           TerminateInstance(i, decrement), UNCHANGED <<nodeVars, failures, scalings>>
    PROVE  /\ PoolTypeOK' /\ FreshNodesReady' /\ UNCHANGED given
           /\ desired' = IF decrement THEN desired - 1 ELSE desired
           /\ inst' = [inst EXCEPT ![i] = "terminating"] /\ inst[i] \in Live
           /\ Old \cap In({"pending"})' \subseteq Old \cap In({"pending"})
           /\ Old \cap Registered' \subseteq Old \cap (Registered \cup In({"pending"}))
           /\ Cardinality(Running) <= desired => Cardinality(Running') <= desired'
<1> USE DEF PoolTypeOK, nodeVars
<1>1. /\ inst' = [inst EXCEPT ![i] = "terminating"] /\ inst[i] \in Live
      /\ desired' = IF decrement THEN desired - 1 ELSE desired
      /\ UNCHANGED <<minSize, autoscaled, given>>
  BY DEF TerminateInstance, Running, In, Live
<1>2. InstType' /\ NodeType'
  BY <1>1 DEF InstType, NodeType, States
<1>3. GroupType'
  BY <1>1 DEF TerminateInstance, Refused, GroupType
<1>4. inst'[i] = "terminating" /\ \A j \in Instances : j # i => inst'[j] = inst[j]
  BY <1>1 DEF InstType
<1>5. FreshNodesReady'
  BY <1>4 DEF FreshNodesReady, In
<1>6. Old \cap In({"pending"})' \subseteq Old \cap In({"pending"})
  BY <1>4 DEF In
<1>7. Old \cap Registered' \subseteq Old \cap (Registered \cup In({"pending"}))
  BY <1>1, <1>4 DEF In, Registered, Live
<1>8. Cardinality(Running) <= desired => Cardinality(Running') <= desired'
  <2>1. "terminating" \notin Live
    BY DEF Live
  <2>2. /\ Cardinality(Running) \in Nat /\ Cardinality(Running') \in Nat
        /\ Cardinality(Running') = Cardinality(Running) - 1
    BY <1>1, <2>1, RunningCounts
  <2> QED
    BY <1>1, <2>2 DEF GroupType
<1> QED
  BY <1>1, <1>2, <1>3, <1>5, <1>6, <1>7, <1>8
=============================================================================
