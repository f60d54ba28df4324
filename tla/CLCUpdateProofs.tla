-------------------------- MODULE CLCUpdateProofs --------------------------
(***************************************************************************)
(* What holds of CLCUpdateStrategy for every pool, number of cancelled and *)
(* crashed runs, failing calls, failing machines and decisions of the      *)
(* cluster autoscaler.                                                     *)
(***************************************************************************)
EXTENDS CLCUpdate, NodePoolProofs

TypeOK ==
    /\ PoolTypeOK
    /\ pc \in PCs /\ pool \in Pools /\ todo \subseteq Instances
    /\ cancelled \in BOOLEAN /\ retries \in Nat
    /\ cancels \in Nat /\ crashes \in Nat /\ faults \in Nat

\* Every old node that waits for the CLC is known to the rollback as such and
\* has still to be reverted.
RevertInv == pc = "revert" =>
    \A i \in Registered \cap Old : label[i] = "decommission-pending" =>
        i \in todo /\ pool.label[i] = "decommission-pending"

SafeInv == TypeOK /\ FreshNodesReady /\ RevertInv /\ RollbackStops

-----------------------------------------------------------------------------

LEMMA PoolTypes ==
    ASSUME PoolTypeOK
    PROVE  GetPool \in Pools /\ NoPool \in Pools
<1>1. Registered \in SUBSET Instances
  BY FiniteIn DEF Registered
<1>2. [i \in Instances |-> IF i \in Registered THEN label[i] ELSE "ready"] \in [Instances -> Labels]
  BY DEF PoolTypeOK, NodeType, Labels
<1>3. [i \in Instances |-> "ready"] \in [Instances -> Labels]
  BY DEF Labels
<1> QED
  BY <1>1, <1>2, <1>3 DEF PoolTypeOK, GroupType, GetPool, NoPool, Pools

LEMMA SafeInit == Init => SafeInv
<1> SUFFICES ASSUME Init PROVE SafeInv
  OBVIOUS
<1>1. PoolTypeOK /\ FreshNodesReady
  BY InitPoolTyped DEF Init
<1>2. TypeOK
  BY <1>1, PoolTypes DEF Init, TypeOK, PCs
<1>3. RevertInv /\ RollbackStops
  BY DEF Init, RevertInv, RollbackStops
<1> QED
  BY <1>1, <1>2, <1>3 DEF SafeInv

\* What the manager changes of its own.
ManagerType ==
    /\ pc \in PCs /\ pool \in Pools /\ todo \subseteq Instances
    /\ cancelled \in BOOLEAN /\ retries \in Nat
    /\ cancels \in Nat /\ crashes \in Nat /\ faults \in Nat

LEMMA ManagerTyped == TypeOK <=> PoolTypeOK /\ ManagerType
  BY DEF TypeOK, ManagerType

LEMMA PoolUnchanged ==
    ASSUME PoolTypeOK, FreshNodesReady, UNCHANGED poolVars
    PROVE  PoolTypeOK' /\ FreshNodesReady' /\ Registered' = Registered /\ GetPool' = GetPool
<1> USE DEF poolVars, nodeVars, groupVars
<1>1. PoolTypeOK'
  BY DEF PoolTypeOK, InstType, NodeType, GroupType
<1>2. FreshNodesReady' /\ Registered' = Registered
  BY DEF FreshNodesReady, In, Registered
<1> QED
  BY <1>1, <1>2 DEF GetPool

\* A step of the run that changes nothing in the pool and does not end in a
\* state of the rollback.
InternalStep ==
    \/ Look \/ AllDisabled \/ AllMarked \/ Poll \/ NodeGone \/ Cancel \/ Interrupted
    \/ Rollback \/ AllReverted \/ RollbackFails \/ Crash \/ Retry

LEMMA InternalTyped ==
    ASSUME TypeOK, InternalStep
    PROVE  ManagerType' /\ UNCHANGED poolVars
<1> USE DEF InternalStep, Look, AllDisabled, AllMarked, Poll, NodeGone, Cancel, Interrupted,
        Rollback, AllReverted, RollbackFails, Crash, Retry, Step, bounds
<1>1. UNCHANGED poolVars
  OBVIOUS
<1>2. pool' \in Pools
  BY PoolTypes DEF TypeOK
<1>3. pc' \in PCs
  BY DEF TypeOK, PCs
<1>4. \A p \in Pools : Leaving(p) \subseteq Instances /\ oldNodes(p) \subseteq Instances
  BY DEF Pools, Leaving, oldNodes
<1>5. todo' \subseteq Instances
  BY <1>4, PoolTypes DEF TypeOK
<1>6. cancelled' \in BOOLEAN
  BY DEF TypeOK
<1>7. retries' \in Nat /\ cancels' \in Nat /\ crashes' \in Nat /\ faults' \in Nat
  BY DEF TypeOK
<1> QED
  BY <1>1, <1>2, <1>3, <1>5, <1>6, <1>7 DEF ManagerType

LEMMA InternalSafe == ASSUME SafeInv, InternalStep PROVE SafeInv'
<1>1. ManagerType' /\ UNCHANGED poolVars
  BY InternalTyped DEF SafeInv
<1>2. PoolTypeOK' /\ FreshNodesReady' /\ Registered' = Registered /\ label' = label
  BY <1>1, PoolUnchanged, ManagerTyped DEF SafeInv, poolVars, nodeVars
<1>3. TypeOK'
  BY <1>1, <1>2 DEF TypeOK, ManagerType
<1>4. RevertInv'
  <2> SUFFICES ASSUME pc' = "revert", NEW i \in Registered \cap Old, label[i] = "decommission-pending"
               PROVE  i \in todo' /\ pool'.label[i] = "decommission-pending"
    BY <1>2 DEF RevertInv
  <2>1. CASE pc = "revert"
    BY <2>1 DEF SafeInv, RevertInv, InternalStep, Look, AllDisabled, AllMarked, Poll, NodeGone,
       Cancel, Interrupted, Rollback, AllReverted, RollbackFails, Crash, Retry, Step
  <2>2. CASE pc # "revert"
    <3>1. Rollback
      BY <2>2 DEF InternalStep, Look, AllDisabled, AllMarked, Poll, NodeGone,
         Cancel, Interrupted, AllReverted, RollbackFails, Crash, Retry, Step
    <3>2. i \in Instances
      BY DEF Registered, In
    <3> QED
      BY <3>1, <3>2 DEF Rollback, GetPool, oldNodes
  <2> QED
    BY <2>1, <2>2
<1>5. RollbackStops'
  <2> SUFFICES ASSUME pc' = "reverted", NEW i \in Registered \cap Old
               PROVE  label[i] # "decommission-pending"
    BY <1>2 DEF RollbackStops
  <2>1. AllReverted \/ pc = "reverted"
    BY DEF InternalStep, Look, AllDisabled, AllMarked, Poll, NodeGone,
       Cancel, Interrupted, Rollback, RollbackFails, Crash, Retry, Step
  <2> QED
    BY <2>1 DEF SafeInv, AllReverted, Step, RevertInv, RollbackStops
<1> QED
  BY <1>2, <1>3, <1>4, <1>5 DEF SafeInv

LEMMA MarkPoolSafe == ASSUME SafeInv, MarkPool PROVE SafeInv' /\ UNCHANGED given
<1> USE DEF MarkPool, Step, MarkForDecommission, nodeVars, bounds
<1>1. PoolTypeOK' /\ FreshNodesReady'
  BY DEF SafeInv, TypeOK, PoolTypeOK, InstType, NodeType, GroupType, FreshNodesReady, In
<1>2. ManagerType'
  BY DEF SafeInv, TypeOK, ManagerType, PCs
<1>3. RevertInv' /\ RollbackStops'
  BY DEF RevertInv, RollbackStops
<1> QED
  BY <1>1, <1>2, <1>3 DEF SafeInv, TypeOK, ManagerType

\* The steps of the loops over nodes change a node object, and of the run only
\* what has still to be done.
LoopFrame == UNCHANGED <<inst, groupVars, failures, scalings, pc, pool, cancelled, retries, bounds>>

LEMMA LoopTyped ==
    ASSUME SafeInv, LoopFrame, NodeType', FreshNodesReady', todo' \subseteq todo
    PROVE  TypeOK' /\ Registered' = Registered
  BY DEF SafeInv, TypeOK, PoolTypeOK, InstType, GroupType, LoopFrame, bounds, groupVars,
     Registered, In

LEMMA DisableSafe ==
    ASSUME SafeInv, NEW i \in Instances, DisableReplacement(i)
    PROVE  SafeInv' /\ LoopFrame
<1> USE DEF DisableReplacement, DisableReplacementNodeProvisioning, NodesOnly
<1>1. LoopFrame
  BY DEF LoopFrame, bounds, groupVars
<1>2. NodeType' /\ FreshNodesReady'
  BY DEF SafeInv, TypeOK, PoolTypeOK, NodeType, FreshNodesReady, In
<1>3. TypeOK' /\ Registered' = Registered
  BY <1>1, <1>2, LoopTyped
<1>4. RevertInv' /\ RollbackStops'
  BY DEF RevertInv, RollbackStops
<1> QED
  BY <1>1, <1>2, <1>3, <1>4 DEF SafeInv

LEMMA MarkNodeSafe ==
    ASSUME SafeInv, NEW i \in Instances, MarkNode(i)
    PROVE  /\ SafeInv' /\ LoopFrame
           /\ UNCHANGED <<cordoned, unreplaced>>
           /\ label' = label \/ label' = [label EXCEPT ![i] = "decommission-pending"]
<1> USE DEF MarkNode, NodesOnly
<1>1. LoopFrame
  BY DEF LoopFrame, bounds, groupVars
<1>2. /\ NodeType' /\ FreshNodesReady' /\ UNCHANGED <<cordoned, unreplaced>>
      /\ label' = label \/ label' = [label EXCEPT ![i] = "decommission-pending"]
  BY MarkKeeps DEF SafeInv, TypeOK, PoolTypeOK
<1>3. TypeOK' /\ Registered' = Registered
  BY <1>1, <1>2, LoopTyped
<1>4. RevertInv' /\ RollbackStops'
  BY DEF RevertInv, RollbackStops
<1> QED
  BY <1>1, <1>2, <1>3, <1>4 DEF SafeInv

LEMMA RevertNodeSafe ==
    ASSUME SafeInv, NEW i \in Instances, RevertNode(i)
    PROVE  /\ SafeInv' /\ LoopFrame
           /\ UNCHANGED <<cordoned, tainted, unreplaced>>
           /\ label' = label \/ label' = [label EXCEPT ![i] = "ready"]
<1> USE DEF RevertNode, NodesOnly, AbortNodeDecommissioning
<1>1. LoopFrame
  BY DEF LoopFrame, bounds, groupVars
<1>2. /\ \/ /\ label' = label
            /\ ~(pool.label[i] = "decommission-pending" /\ label[i] = "decommission-pending")
         \/ label' = [label EXCEPT ![i] = "ready"]
      /\ UNCHANGED <<inst, cordoned, tainted, unreplaced>>
  BY DEF compareAndSetNodeLabel
<1>3. NodeType /\ FreshNodesReady /\ "ready" \in Labels
  BY DEF SafeInv, TypeOK, PoolTypeOK, Labels
<1>4. NodeType' /\ FreshNodesReady'
  <2>1. CASE label' = label
    BY <1>2, <1>3, <2>1 DEF NodeType, FreshNodesReady, In
  <2>2. CASE label' = [label EXCEPT ![i] = "ready"]
    BY <1>2, <1>3, <2>2, LabelKeeps
  <2> QED
    BY <1>2, <2>1, <2>2
<1>5. TypeOK' /\ Registered' = Registered
  BY <1>1, <1>4, LoopTyped
<1>6. RevertInv'
  <2> SUFFICES ASSUME NEW j \in Registered \cap Old, label'[j] = "decommission-pending"
               PROVE  j \in todo' /\ pool.label[j] = "decommission-pending"
    BY <1>5 DEF RevertInv
  <2>1. j \in Instances
    BY DEF Registered, In
  <2>2. label[j] = "decommission-pending" /\ j # i
    BY <1>2, <1>3, <2>1 DEF NodeType, SafeInv, RevertInv
  <2> QED
    BY <2>2 DEF SafeInv, RevertInv
<1>7. RollbackStops'
  BY DEF RollbackStops
<1> QED
  BY <1>1, <1>2, <1>4, <1>5, <1>6, <1>7 DEF SafeInv

\* The CLC, AWS and the autoscaler leave the run alone; no label becomes
\* decommission-pending by them, and no node with that label registers.
LEMMA OthersSafe ==
    ASSUME SafeInv, PoolTypeOK', FreshNodesReady', UNCHANGED <<updateVars, bounds>>,
           \A i \in Instances : label'[i] = "decommission-pending" => label[i] = "decommission-pending",
           Old \cap Registered' \subseteq Old \cap (Registered \cup In({"pending"}))
    PROVE  SafeInv'
<1>1. TypeOK'
  BY DEF SafeInv, TypeOK, updateVars, bounds
<1>2. ASSUME NEW i \in Registered' \cap Old, label'[i] = "decommission-pending"
      PROVE  i \in Registered \cap Old /\ label[i] = "decommission-pending"
  <2>1. i \in Instances /\ label[i] = "decommission-pending"
    BY <1>2, PoolAssumption
  <2>2. i \notin In({"pending"})
    BY <2>1 DEF SafeInv, FreshNodesReady, In
  <2> QED
    BY <2>1, <2>2
<1>3. RevertInv' /\ RollbackStops'
  BY <1>2 DEF SafeInv, RevertInv, RollbackStops, updateVars
<1> QED
  BY <1>1, <1>3 DEF SafeInv

LEMMA DrainsKeeps ==
    ASSUME SafeInv, NEW i \in Instances, CLCDrains(i)
    PROVE  /\ PoolTypeOK' /\ FreshNodesReady' /\ UNCHANGED <<inst, groupVars, failures, scalings>>
           /\ UNCHANGED <<cordoned, unreplaced>>
           /\ label[i] = "decommission-pending" /\ label' = [label EXCEPT ![i] = "draining"]
           /\ \A j \in Instances :
                 label'[j] = "decommission-pending" => label[j] = "decommission-pending"
<1> USE DEF CLCDrains
<1>1. NodeType' /\ FreshNodesReady'
  BY LabelKeeps DEF SafeInv, TypeOK, PoolTypeOK, Labels
<1>2. PoolTypeOK'
  BY <1>1 DEF SafeInv, TypeOK, PoolTypeOK, InstType, GroupType, groupVars
<1> QED
  BY <1>1, <1>2 DEF SafeInv, TypeOK, PoolTypeOK, NodeType

LEMMA SafeNext == ASSUME SafeInv, [Next]_vars PROVE SafeInv'
<1> PoolTypeOK /\ FreshNodesReady
  BY DEF SafeInv, TypeOK
<1>1. CASE InternalStep
  BY <1>1, InternalSafe
<1>2. CASE MarkPool
  BY <1>2, MarkPoolSafe
<1>3. ASSUME NEW i \in Instances, DisableReplacement(i) \/ MarkNode(i) \/ RevertNode(i) PROVE SafeInv'
  BY <1>3, DisableSafe, MarkNodeSafe, RevertNodeSafe
<1>4. CASE CLC
  <2>1. PICK i \in Instances : CLCDrains(i) \/ CLCTerminates(i)
    BY <1>4 DEF CLC
  <2>2. CASE CLCDrains(i)
    <3>1. Registered' = Registered
      BY <2>2 DEF CLCDrains, Registered, In
    <3> QED
      BY <1>4, <2>2, <3>1, DrainsKeeps, OthersSafe DEF CLC
  <2>3. CASE CLCTerminates(i)
    <3>1. (i \in unreplaced) \in BOOLEAN
      OBVIOUS
    <3>2. /\ PoolTypeOK' /\ FreshNodesReady'
          /\ Old \cap Registered' \subseteq Old \cap (Registered \cup In({"pending"}))
      BY <2>3, <3>1, TerminateKeeps DEF CLCTerminates
    <3>3. label' = label
      BY <2>3 DEF CLCTerminates, nodeVars
    <3> QED
      BY <1>4, <3>2, <3>3, OthersSafe DEF CLC
  <2> QED
    BY <2>1, <2>2, <2>3
<1>5. CASE AWS \/ World
  <2>1. /\ AWSProgress \/ Disturbance
        /\ UNCHANGED nodeVars /\ UNCHANGED <<updateVars, bounds>>
    BY <1>5 DEF AWS, World
  <2>2. label' = label
    BY <2>1 DEF nodeVars
  <2> QED
    BY <2>1, <2>2, WorldKeeps, OthersSafe
<1>6. CASE UNCHANGED vars
  <2>1. PoolTypeOK' /\ FreshNodesReady' /\ Registered' = Registered /\ label' = label
    BY <1>6, PoolUnchanged DEF vars, poolVars, nodeVars
  <2> QED
    BY <1>6, <2>1, OthersSafe DEF vars
<1> QED
  BY <1>1, <1>2, <1>3, <1>4, <1>5, <1>6 DEF Next, Progress, InternalStep, Finished

\* Every variable keeps its type, nodes register as ready, and a rollback knows
\* every old node that waits for the CLC: the invariant the other theorems use.
THEOREM CLCTypeCorrect == Spec => []SafeInv
  BY SafeInit, SafeNext, PTL DEF Spec

\* Whatever the CLC, AWS and earlier runs did meanwhile, no old node waits for
\* the CLC when a rollback has ended without an error.
THEOREM RollbackAlwaysStops == Spec => []RollbackStops
<1>1. SafeInv => RollbackStops
  BY DEF SafeInv
<1> QED
  BY <1>1, CLCTypeCorrect, PTL

-----------------------------------------------------------------------------
(* doUpdate returns when no old node is left *)

\* All old instances have registered when the run begins.  GetPool does not
\* see an instance without a node object: one that registers late may be
\* missed by an update that ends before.
OldRegistered == \A s \in Scenarios : \A i \in Old : s.inst[i] # "pending"

\* No old instance registers any more, and of the old nodes the run has seen
\* all that there are.
SeenInv ==
    /\ Old \cap In({"pending"}) = {}
    /\ pc \in {"decommission", "disable", "mark", "done"} => Old \cap Registered \subseteq pool.nodes
    /\ pc = "done" => oldNodes(pool) = {}

LEMMA SeenInit == ASSUME OldRegistered PROVE Init => SeenInv
<1> SUFFICES ASSUME Init PROVE SeenInv
  OBVIOUS
<1>1. \E s \in Scenarios : inst = s.inst
  BY InitPoolSize DEF Init
<1> QED
  BY <1>1 DEF OldRegistered, SeenInv, In, Init

LEMMA SeenNext == ASSUME SafeInv, SeenInv, [Next]_vars PROVE SeenInv'
<1> PoolTypeOK /\ FreshNodesReady
  BY DEF SafeInv, TypeOK
<1>1. ASSUME UNCHANGED <<pc, pool>>, Old \cap In({"pending"})' \subseteq Old \cap In({"pending"}),
             Old \cap Registered' \subseteq Old \cap (Registered \cup In({"pending"}))
      PROVE  SeenInv'
  BY <1>1 DEF SeenInv, oldNodes
<1>2. CASE InternalStep
  <2>1. inst' = inst /\ Registered' = Registered /\ In({"pending"})' = In({"pending"}) /\ given' = given
    BY <1>2, InternalTyped DEF SafeInv, poolVars, groupVars, Registered, In
  <2>2. CASE Look
    BY <2>1, <2>2 DEF Look, Step, SeenInv, GetPool
  <2>3. CASE AllMarked
    BY <2>1, <2>3 DEF AllMarked, Step, SeenInv, NoneLeft, Leaving, oldNodes
  <2>4. CASE AllDisabled \/ Cancel
    BY <2>1, <2>4 DEF AllDisabled, Cancel, Step, SeenInv, oldNodes
  <2>5. CASE Poll \/ NodeGone \/ Interrupted \/ Rollback \/ AllReverted \/ RollbackFails \/ Crash \/ Retry
    <3>1. pc' \in {"start", "rollback", "failed", "revert", "reverted"}
      BY <2>5 DEF Poll, NodeGone, Interrupted, Rollback, AllReverted, RollbackFails, Crash, Retry, Step
    <3> QED
      BY <2>1, <3>1 DEF SeenInv
  <2> QED
    BY <1>2, <2>2, <2>3, <2>4, <2>5 DEF InternalStep
<1>3. CASE MarkPool
  BY <1>3 DEF MarkPool, Step, SeenInv, Registered, In
<1>4. ASSUME NEW i \in Instances, DisableReplacement(i) \/ MarkNode(i) \/ RevertNode(i) PROVE SeenInv'
  <2>1. UNCHANGED <<pc, pool, inst>>
    BY <1>4, DisableSafe, MarkNodeSafe, RevertNodeSafe DEF LoopFrame
  <2> QED
    BY <1>1, <2>1 DEF Registered, In
<1>5. CASE CLC
  <2>1. PICK i \in Instances : CLCDrains(i) \/ CLCTerminates(i)
    BY <1>5 DEF CLC
  <2>2. UNCHANGED <<pc, pool>>
    BY <1>5 DEF CLC, updateVars
  <2>3. CASE CLCDrains(i)
    BY <1>1, <2>2, <2>3 DEF CLCDrains, Registered, In
  <2>4. CASE CLCTerminates(i)
    <3>1. (i \in unreplaced) \in BOOLEAN
      OBVIOUS
    <3> QED
      BY <1>1, <2>2, <2>4, <3>1, TerminateKeeps DEF CLCTerminates
  <2> QED
    BY <2>1, <2>3, <2>4
<1>6. CASE AWS \/ World
  <2>1. (AWSProgress \/ Disturbance) /\ UNCHANGED nodeVars /\ UNCHANGED <<pc, pool>>
    BY <1>6 DEF AWS, World, updateVars
  <2> QED
    BY <1>1, <2>1, WorldKeeps
<1>7. CASE UNCHANGED vars
  BY <1>1, <1>7 DEF vars, poolVars, updateVars, Registered, In
<1> QED
  BY <1>2, <1>3, <1>4, <1>5, <1>6, <1>7 DEF Next, Progress, InternalStep, Finished

\* An update or a removal that ends without an error leaves no old node, if
\* every old instance had registered when it began, whatever happened since.
THEOREM DoneAlwaysUpdated == ASSUME OldRegistered PROVE Spec => []DoneMeansUpdated
<1>1. SafeInv /\ SeenInv => DoneMeansUpdated
  BY DEF SeenInv, DoneMeansUpdated, oldNodes
<1>2. Init => SeenInv
  BY SeenInit
<1> QED
  BY <1>1, <1>2, SeenNext, CLCTypeCorrect, PTL DEF Spec

-----------------------------------------------------------------------------
(* PrepareForRemoval: what the CLC removes is not replaced *)

\* All instances of a pool that is removed have registered when that begins.
RemovedRegistered == \A s \in Scenarios : s.removal => \A i \in Instances : s.inst[i] # "pending"

\* AWS has no reason to shrink the group.
SizeInv == Cardinality(Running) <= desired

\* A node is marked only after it has been labelled not to be replaced.
UnreplacedInv == Removal =>
    /\ {i \in Instances : label[i] # "ready"} \subseteq unreplaced
    /\ pc \in {"decommission", "disable"} => pool.nodes \subseteq todo \cup unreplaced
    /\ pc = "mark" => todo \subseteq pool.nodes /\ pool.nodes \subseteq unreplaced

\* What the group wants beyond its ready nodes was asked for by failures and
\* the autoscaler.
WantedInv == Removal =>
    /\ desired <= Cardinality(ReadyNodes) + failures + scalings
    /\ pc \in {"decommission", "disable", "mark", "done"} /\ pool.nodes = {} =>
           desired <= failures + scalings
    /\ pc = "done" => pool.nodes = {}

RemovalInv == SizeInv /\ UnreplacedInv /\ WantedInv

LEMMA RemovalInit == ASSUME RemovedRegistered PROVE Init => RemovalInv
<1> SUFFICES ASSUME Init PROVE RemovalInv
  OBVIOUS
<1>1. InitPool
  BY DEF Init
<1>2. /\ desired = Cardinality(Running) /\ desired \in Nat /\ failures = 0 /\ scalings = 0
      /\ \E s \in Scenarios : inst = s.inst /\ Removal = s.removal
      /\ inst \in [Instances -> {"unused", "pending", "ready"}]
  BY <1>1, InitPoolSize, InitPoolTyped DEF InitPool, PoolTypeOK, GroupType
<1>3. SizeInv
  BY <1>2 DEF SizeInv
<1>4. UnreplacedInv
  BY <1>1 DEF UnreplacedInv, Init, InitPool
<1>5. Removal => ReadyNodes = Running
  BY <1>2 DEF RemovedRegistered, ReadyNodes, Running, In
<1>6. WantedInv
  BY <1>2, <1>5 DEF WantedInv, Init
<1> QED
  BY <1>3, <1>4, <1>6 DEF RemovalInv

\* What the group wants grows only with a decision of the autoscaler, and its
\* ready nodes become fewer only with a failure, a decision of the autoscaler
\* or what the group wants.
LEMMA WorldWants ==
    ASSUME PoolTypeOK, SizeInv, AWSProgress \/ Disturbance
    PROVE  /\ desired <= failures + scalings => desired' <= failures' + scalings'
           /\ desired <= Cardinality(ReadyNodes) + failures + scalings =>
                 desired' <= Cardinality(ReadyNodes') + failures' + scalings'
<1> desired \in Nat /\ failures \in Nat /\ scalings \in Nat
  BY DEF PoolTypeOK, GroupType
<1>1. CASE AutoscalerAdds
  <2>1. ReadyNodes' = ReadyNodes /\ desired' = desired + 1 /\ scalings' = scalings + 1
        /\ failures' = failures
    BY <1>1 DEF AutoscalerAdds, ReadyNodes, In
  <2>2. Cardinality(ReadyNodes) \in Nat
    BY FiniteIn DEF ReadyNodes
  <2> QED
    BY <2>1, <2>2
<1>2. ASSUME NEW i \in Instances, NEW to \in States, AWSMove(i, to) \/ OtherMove(i, to)
      PROVE  /\ desired <= failures + scalings => desired' <= failures' + scalings'
             /\ desired <= Cardinality(ReadyNodes) + failures + scalings =>
                   desired' <= Cardinality(ReadyNodes') + failures' + scalings'
  <2>1. inst' = [inst EXCEPT ![i] = to] /\ InstType
    BY <1>2 DEF AWSMove, OtherMove, PoolTypeOK
  <2>2. /\ Cardinality(ReadyNodes) \in Nat /\ Cardinality(ReadyNodes') \in Nat
        /\ inst[i] = "ready" /\ to # "ready" => Cardinality(ReadyNodes') = Cardinality(ReadyNodes) - 1
        /\ inst[i] # "ready" /\ to = "ready" => Cardinality(ReadyNodes') = Cardinality(ReadyNodes) + 1
        /\ (inst[i] = "ready" <=> to = "ready") => Cardinality(ReadyNodes') = Cardinality(ReadyNodes)
    BY <2>1, ReadyCounts
  <2>3. CASE AWSMove(i, to)
    <3>1. desired' = desired /\ failures' = failures /\ scalings' = scalings
      BY <2>3 DEF AWSMove, groupVars
    <3>2. ~(inst[i] = "ready" /\ to # "ready")
      <4>1. Cardinality(Running) \in Nat
        BY FiniteIn DEF Running
      <4>2. ~(Cardinality(Running) > desired)
        BY <4>1 DEF SizeInv
      <4> QED
        BY <2>3, <4>2 DEF AWSMove
    <3> QED
      BY <2>2, <3>1, <3>2
  <2>4. CASE OtherMove(i, to)
    BY <2>2, <2>4 DEF OtherMove
  <2> QED
    BY <1>2, <2>3, <2>4
<1> QED
  BY <1>1, <1>2, WorldCases

\* Only the number of instances matters for the run: the other steps keep it.
LEMMA SizeNext == ASSUME SafeInv, SizeInv, [Next]_vars PROVE SizeInv'
<1> PoolTypeOK /\ FreshNodesReady
  BY DEF SafeInv, TypeOK
<1>1. ASSUME UNCHANGED <<inst, desired>> PROVE SizeInv'
  BY <1>1 DEF SizeInv, Running, In
<1>2. CASE InternalStep \/ UNCHANGED vars
  BY <1>1, <1>2, InternalTyped DEF SafeInv, poolVars, groupVars, vars
<1>3. CASE MarkPool
  BY <1>1, <1>3 DEF MarkPool, MarkForDecommission
<1>4. ASSUME NEW i \in Instances, DisableReplacement(i) \/ MarkNode(i) \/ RevertNode(i) PROVE SizeInv'
  BY <1>1, <1>4, DisableSafe, MarkNodeSafe, RevertNodeSafe DEF LoopFrame, groupVars
<1>5. ASSUME NEW i \in Instances, CLCDrains(i) PROVE SizeInv'
  BY <1>1, <1>5 DEF CLCDrains, groupVars
<1>6. ASSUME NEW i \in Instances, CLCTerminates(i) PROVE SizeInv'
  <2>1. (i \in unreplaced) \in BOOLEAN
    OBVIOUS
  <2> QED
    BY <1>6, <2>1, TerminateKeeps DEF CLCTerminates, SizeInv
<1>7. CASE AWS \/ World
  BY <1>7, WorldNotTooMany DEF AWS, World, SizeInv
<1> QED
  BY <1>2, <1>3, <1>4, <1>5, <1>6, <1>7 DEF Next, Progress, InternalStep, Finished, CLC

LEMMA UnreplacedNext == ASSUME SafeInv, UnreplacedInv, [Next]_vars PROVE UnreplacedInv'
<1> TypeOK /\ PoolTypeOK /\ NodeType
  BY DEF SafeInv, TypeOK, PoolTypeOK
<1> USE DEF Removal
<1>1. CASE UNCHANGED vars
  BY <1>1 DEF UnreplacedInv, vars, poolVars, nodeVars, groupVars, updateVars
<1>2. CASE InternalStep
  <2>1. given' = given /\ label' = label /\ unreplaced' = unreplaced
    BY <1>2, InternalTyped DEF poolVars, groupVars, nodeVars
  <2>2. CASE Look
    BY <2>1, <2>2 DEF Look, Step, UnreplacedInv, Leaving, GetPool
  <2>3. CASE AllDisabled
    BY <2>1, <2>3 DEF AllDisabled, Step, UnreplacedInv, Leaving
  <2>4. CASE Cancel
    BY <2>1, <2>4 DEF Cancel, UnreplacedInv
  <2>5. CASE AllMarked \/ Poll \/ NodeGone \/ Interrupted \/ Rollback \/ AllReverted \/ RollbackFails
             \/ Crash \/ Retry
    <3>1. pc' \in {"start", "rollback", "failed", "revert", "reverted", "wait", "done"}
      BY <2>5 DEF AllMarked, Poll, NodeGone, Interrupted, Rollback, AllReverted, RollbackFails,
         Crash, Retry, Step
    <3> QED
      BY <2>1, <3>1 DEF UnreplacedInv
  <2> QED
    BY <1>2, <2>2, <2>3, <2>4, <2>5 DEF InternalStep
<1>3. CASE MarkPool
  BY <1>3 DEF MarkPool, MarkForDecommission, Step, UnreplacedInv, nodeVars
<1>4. ASSUME NEW i \in Instances, DisableReplacement(i) PROVE UnreplacedInv'
  BY <1>4 DEF DisableReplacement, DisableReplacementNodeProvisioning, NodesOnly, groupVars,
     UnreplacedInv
<1>5. ASSUME NEW i \in Instances, MarkNode(i) PROVE UnreplacedInv'
  <2>1. UNCHANGED <<pc, pool, given, unreplaced>> /\ pc = "mark" /\ i \in todo /\ todo' = todo \ {i}
        /\ (label' = label \/ label' = [label EXCEPT ![i] = "decommission-pending"])
    BY <1>5, MarkNodeSafe DEF LoopFrame, groupVars, MarkNode
  <2>2. \A j \in Instances : label'[j] # "ready" => label[j] # "ready" \/ j = i
    BY <2>1 DEF NodeType
  <2> QED
    BY <2>1, <2>2 DEF UnreplacedInv
<1>6. ASSUME NEW i \in Instances, RevertNode(i) PROVE UnreplacedInv'
  <2>1. UNCHANGED <<pc, pool, given, unreplaced>> /\ pc = "revert"
        /\ (label' = label \/ label' = [label EXCEPT ![i] = "ready"])
    BY <1>6, RevertNodeSafe DEF LoopFrame, groupVars, RevertNode
  <2>2. \A j \in Instances : label'[j] # "ready" => label[j] # "ready"
    BY <2>1 DEF NodeType
  <2> QED
    BY <2>1, <2>2 DEF UnreplacedInv
<1>7. CASE CLC
  <2>1. PICK i \in Instances : CLCDrains(i) \/ CLCTerminates(i)
    BY <1>7 DEF CLC
  <2>2. UNCHANGED <<pc, pool, todo, given, unreplaced>>
    BY <1>7, <2>1 DEF CLC, updateVars, CLCDrains, CLCTerminates, TerminateInstance, groupVars, nodeVars
  <2>3. \A j \in Instances : label'[j] # "ready" => label[j] # "ready"
    BY <2>1 DEF CLCDrains, CLCTerminates, nodeVars, NodeType
  <2> QED
    BY <2>2, <2>3 DEF UnreplacedInv
<1>8. CASE AWS \/ World
  <2>1. /\ AWSProgress \/ Disturbance
        /\ UNCHANGED nodeVars /\ UNCHANGED updateVars
    BY <1>8 DEF AWS, World
  <2>2. given' = given
    BY <2>1, WorldKeeps DEF SafeInv
  <2> QED
    BY <2>1, <2>2 DEF UnreplacedInv, nodeVars, updateVars
<1> QED
  BY <1>1, <1>2, <1>3, <1>4, <1>5, <1>6, <1>7, <1>8 DEF Next, Progress, InternalStep, Finished

LEMMA WantedNext ==
    ASSUME SafeInv, RemovalInv, [Next]_vars
    PROVE  WantedInv'
<1> TypeOK /\ PoolTypeOK /\ FreshNodesReady /\ SizeInv /\ UnreplacedInv /\ WantedInv
  BY DEF SafeInv, TypeOK, RemovalInv
<1> desired \in Nat /\ failures \in Nat /\ scalings \in Nat /\ Cardinality(ReadyNodes) \in Nat
  BY FiniteIn DEF PoolTypeOK, GroupType, ReadyNodes
<1> USE DEF Removal
<1>1. ASSUME UNCHANGED <<inst, desired, given, failures, scalings, pc, pool>> PROVE WantedInv'
  <2>1. ReadyNodes' = ReadyNodes
    BY <1>1 DEF ReadyNodes, In
  <2> QED
    BY <1>1, <2>1 DEF WantedInv
<1>2. CASE InternalStep
  <2>1. /\ UNCHANGED <<inst, desired, given, failures, scalings>> /\ ReadyNodes' = ReadyNodes
    BY <1>2, InternalTyped DEF poolVars, groupVars, ReadyNodes, In
  <2>2. CASE Look
    <3>1. Registered = {} => desired <= failures + scalings \/ ~Removal
      <4>1. Registered = {} => ReadyNodes = {}
        BY DEF Registered, ReadyNodes, In
      <4>2. Cardinality({}) = 0
        BY FS_EmptySet
      <4> QED
        BY <4>1, <4>2 DEF WantedInv
    <3>2. pool'.nodes = Registered /\ pc' # "done"
      BY <2>2 DEF Look, Step, GetPool
    <3> QED
      BY <2>1, <3>1, <3>2 DEF WantedInv
  <2>3. CASE AllDisabled \/ Cancel
    BY <2>1, <2>3 DEF AllDisabled, Cancel, Step, WantedInv
  <2>4. CASE AllMarked
    BY <2>1, <2>4 DEF AllMarked, NoneLeft, Leaving, Step, WantedInv
  <2>5. CASE Poll \/ NodeGone \/ Interrupted \/ Rollback \/ AllReverted \/ RollbackFails
             \/ Crash \/ Retry
    <3>1. pc' \in {"start", "rollback", "failed", "revert", "reverted"}
      BY <2>5 DEF Poll, NodeGone, Interrupted, Rollback, AllReverted, RollbackFails,
         Crash, Retry, Step
    <3> QED
      BY <2>1, <3>1 DEF WantedInv
  <2> QED
    BY <1>2, <2>2, <2>3, <2>4, <2>5 DEF InternalStep
<1>3. CASE MarkPool
  <2>1. /\ UNCHANGED <<inst, desired, given, failures, scalings, pool>> /\ ReadyNodes' = ReadyNodes
        /\ pc = "decommission" /\ pc' = "disable"
    BY <1>3 DEF MarkPool, MarkForDecommission, Step, ReadyNodes, In
  <2> QED
    BY <2>1 DEF WantedInv
<1>4. ASSUME NEW i \in Instances, DisableReplacement(i) \/ MarkNode(i) \/ RevertNode(i) PROVE WantedInv'
  BY <1>1, <1>4, DisableSafe, MarkNodeSafe, RevertNodeSafe DEF LoopFrame, groupVars
<1>5. CASE CLC
  <2>1. PICK i \in Instances : CLCDrains(i) \/ CLCTerminates(i)
    BY <1>5 DEF CLC
  <2>2. UNCHANGED <<pc, pool>>
    BY <1>5 DEF CLC, updateVars
  <2>3. CASE CLCDrains(i)
    BY <1>1, <2>2, <2>3 DEF CLCDrains, groupVars
  <2>4. CASE CLCTerminates(i)
    <3>1. (i \in unreplaced) \in BOOLEAN
      OBVIOUS
    <3>2. /\ desired' = IF i \in unreplaced THEN desired - 1 ELSE desired
          /\ inst' = [inst EXCEPT ![i] = "terminating"] /\ given' = given
      BY <2>4, <3>1, TerminateKeeps DEF CLCTerminates
    <3>3. UNCHANGED <<failures, scalings>>
      BY <2>4 DEF CLCTerminates
    <3> DEFINE to == "terminating"
    <3>6. InstType /\ inst' = [inst EXCEPT ![i] = to] /\ to # "ready"
      BY <3>2 DEF PoolTypeOK
    <3> HIDE DEF to
    <3>4. /\ Cardinality(ReadyNodes') \in Nat
          /\ Cardinality(ReadyNodes') = Cardinality(ReadyNodes) - 1
             \/ Cardinality(ReadyNodes') = Cardinality(ReadyNodes)
      BY <3>6, ReadyCounts
    <3>5. Removal => i \in unreplaced
      BY <2>4 DEF CLCTerminates, UnreplacedInv
    <3> QED
      BY <2>2, <3>2, <3>3, <3>4, <3>5 DEF WantedInv
  <2> QED
    BY <2>1, <2>3, <2>4
<1>6. CASE AWS \/ World
  <2>1. /\ AWSProgress \/ Disturbance
        /\ UNCHANGED nodeVars /\ UNCHANGED <<pc, pool>>
    BY <1>6 DEF AWS, World, updateVars
  <2>2. given' = given
    BY <2>1, WorldKeeps
  <2>3. Removal' = Removal
    BY <2>2
  <2> QED
    BY <2>1, <2>3, WorldWants DEF WantedInv
<1>7. CASE UNCHANGED vars
  BY <1>1, <1>7 DEF vars, poolVars, groupVars, updateVars
<1> QED
  BY <1>2, <1>3, <1>4, <1>5, <1>6, <1>7 DEF Next, Progress, InternalStep, Finished

LEMMA RemovalNext == ASSUME SafeInv, RemovalInv, [Next]_vars PROVE RemovalInv'
  BY SizeNext, UnreplacedNext, WantedNext DEF RemovalInv

\* When a removal ends, the group wants no more instances than failures and
\* the autoscaler have asked for: every node that the CLC has removed has been
\* labelled before, and is not replaced, also after crashed and cancelled runs.
THEOREM RemovedNeverReplaced == ASSUME RemovedRegistered PROVE Spec => []RemovedNotReplaced
<1>1. RemovalInv => RemovedNotReplaced
  BY DEF RemovalInv, WantedInv, RemovedNotReplaced
<1>2. Init => RemovalInv
  BY RemovalInit
<1> QED
  BY <1>1, <1>2, RemovalNext, CLCTypeCorrect, PTL DEF Spec
=============================================================================
