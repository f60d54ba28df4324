------------------------------ MODULE NodePool ------------------------------
(***************************************************************************)
(* A node pool backed by an auto scaling group: the instances, the group   *)
(* (ASGNodePoolsBackend), the Kubernetes node objects that belong to them  *)
(* (KubernetesNodePoolManager), and everybody else who changes them: AWS,  *)
(* which keeps the group at its desired size, and the cluster autoscaler.  *)
(* The update strategies, RollingUpdate and CLCUpdate, extend this module. *)
(*                                                                         *)
(* A pool is one group (the code also handles one group per zone); its     *)
(* launch template has just changed, so that the instances in Old are      *)
(* outdated and every instance AWS launches from now on is current.        *)
(***************************************************************************)
EXTENDS Integers, FiniteSets

CONSTANTS
    Instances,     \* EC2 instances
    Zones,         \* availability zones, the failure domains
    ZoneOf,        \* the zone of every instance
    Volumes,       \* the instances with volumes attached
    Old,           \* the instances launched from the previous template
    Scenarios,     \* what an update or removal may be given to begin with
    MinSize,       \* api.NodePool.MinSize
    MaxSize,       \* api.NodePool.MaxSize
    MaxFailures,   \* bound: instances that become unhealthy by themselves
    MaxScalings    \* bound: decisions of the cluster autoscaler

\* Values of the label lifecycle-status, which every node registers with.
Labels == {"ready", "decommission-pending", "draining"}

ASSUME PoolAssumption ==
    /\ IsFiniteSet(Instances)
    /\ ZoneOf \in [Instances -> Zones]
    /\ Volumes \subseteq Instances /\ Old \subseteq Instances
    /\ Scenarios \subseteq [inst : [Instances -> {"unused", "pending", "ready"}],
                             autoscaled : BOOLEAN, spot : BOOLEAN, removal : BOOLEAN]
    /\ MinSize \in Nat /\ MaxSize \in Nat
    /\ MaxFailures \in Nat /\ MaxScalings \in Nat

VARIABLES
    inst,        \* state of every instance: "unused", "pending", "ready",
                 \* "unhealthy", "terminating", "terminated" or "gone".  From
                 \* "ready" to "terminated" it has a node object and is listed
                 \* in the group; only "ready" is InService and Healthy
    cordoned,    \* nodes that are unschedulable
    tainted,     \* nodes with the taint decommission-pending
    label,       \* lifecycle-status of every node
    unreplaced,  \* nodes labelled replacement-strategy: none
    desired,     \* DesiredCapacity of the group
    minSize,     \* MinSize of the group
    autoscaled,  \* the group carries the tag of the cluster autoscaler
    given,       \* what the run was given with the pool: it never changes
    failures, scalings

nodeVars == <<cordoned, tainted, label, unreplaced>>
groupVars == <<desired, minSize, autoscaled, given>>
poolVars == <<inst, nodeVars, groupVars, failures, scalings>>

\* api.NodePool.IsSpot; whether PrepareForRemoval is run instead of Update;
\* and the size of the pool to begin with.
Spot == given.spot
Removal == given.removal
InitialSize == given.size

Smaller(a, b) == IF a < b THEN a ELSE b

-----------------------------------------------------------------------------
(* What the manager reads *)

In(states) == {i \in Instances : inst[i] \in states}

\* The instances the group counts.
Running == In({"pending", "ready", "unhealthy"})

\* GetPool: the instances of the group that have a node object.
Registered == In({"ready", "unhealthy", "terminating", "terminated"})

ReadyNodes == In({"ready"})

\* What GetPool returns.  Of the node objects only the label is kept: cordons,
\* taints and the replacement strategy are changed by the manager alone.
GetPool == [nodes |-> Registered, desired |-> desired,
            label |-> [i \in Instances |-> IF i \in Registered THEN label[i] ELSE "ready"]]

NoPool == [nodes |-> {}, desired |-> 0, label |-> [i \in Instances |-> "ready"]]

Pools == [nodes : SUBSET Instances, desired : Nat, label : [Instances -> Labels]]

oldNodes(p) == p.nodes \cap Old
newNodes(p) == p.nodes \ Old

\* A bug: nodes count although they are not ready.
SettledUnready == Spot \/ Cardinality(Registered) = desired

\* A bug: no pool is waited for.
SettledAnyway == TRUE

\* WaitForDesiredNodes returns.  It does not wait for spot pools.
Settled == Spot \/ Cardinality(ReadyNodes) = desired

-----------------------------------------------------------------------------
(* What the manager changes.  Every operation on a node object reads the    *)
(* node again and fails when it is gone, unless the snapshot p says that    *)
(* there is nothing to do.                                                  *)

NeedsMark(p, i) == i \notin tainted \/ p.label[i] = "ready"
Markable(p, i) == i \in Registered \/ ~NeedsMark(p, i)

\* A bug: the label is set without looking at its current value.
MarkAgain(p, i) ==
    /\ Markable(p, i)
    /\ tainted' = tainted \cup {i}
    /\ label' = IF p.label[i] # "decommission-pending"
                THEN [label EXCEPT ![i] = "decommission-pending"] ELSE label
    /\ UNCHANGED <<cordoned, unreplaced>>

\* taintNode and updateTaint; the effect of the taint is left out.
taintNode(i) == tainted' = tainted \cup {i}

\* The label changes unless it has another value in the snapshot or by now.
compareAndSetNodeLabel(p, i, expected, value) ==
    label' = IF p.label[i] = expected /\ label[i] = expected
             THEN [label EXCEPT ![i] = value] ELSE label

\* The label changes unless the snapshot has the value already.
labelNode(p, i, value) ==
    label' = IF p.label[i] = value THEN label ELSE [label EXCEPT ![i] = value]

\* The taint, then ready -> decommission-pending.
MarkNodeForDecommission(p, i) ==
    /\ Markable(p, i)
    /\ taintNode(i)
    /\ compareAndSetNodeLabel(p, i, "ready", "decommission-pending")
    /\ UNCHANGED <<cordoned, unreplaced>>

Abortable(p, i) == i \in Registered \/ p.label[i] # "decommission-pending"

\* AbortNodeDecommissioning: decommission-pending -> ready.  The taint stays.
AbortNodeDecommissioning(p, i) ==
    /\ Abortable(p, i)
    /\ compareAndSetNodeLabel(p, i, "decommission-pending", "ready")
    /\ UNCHANGED <<cordoned, tainted, unreplaced>>

DisableReplacementNodeProvisioning(i) ==
    /\ i \in Registered \/ i \in unreplaced
    /\ unreplaced' = unreplaced \cup {i}
    /\ UNCHANGED <<cordoned, tainted, label>>

CordonNode(i) ==
    /\ i \in Registered
    /\ cordoned' = cordoned \cup {i}
    /\ UNCHANGED <<tainted, label, unreplaced>>

\* The start of drain.
LabelDraining(p, i) ==
    /\ i \in Registered \/ p.label[i] = "draining"
    /\ labelNode(p, i, "draining")
    /\ UNCHANGED <<cordoned, tainted, unreplaced>>

\* A bug: the autoscaler stays enabled.
MarkForDecommissionScaled ==
    /\ minSize' = 0
    /\ UNCHANGED <<desired, autoscaled, given>>

\* MarkForDecommission: no autoscaling, and the group may shrink to zero.
MarkForDecommission ==
    /\ autoscaled' = FALSE
    /\ minSize' = 0
    /\ UNCHANGED <<desired, given>>

\* Terminate with decrement: the first half lowers the minimum if needed.
LowerMinSize ==
    /\ minSize' = IF 0 < desired /\ 0 < minSize /\ desired - 1 < minSize
                  THEN desired - 1 ELSE minSize
    /\ UNCHANGED <<desired, autoscaled, given>>

\* TerminateInstanceInAutoScalingGroup.  AWS refuses to go below the minimum.
Refused(decrement) == decrement /\ desired - 1 < minSize

TerminateInstance(i, decrement) ==
    /\ i \in Running /\ ~Refused(decrement)
    /\ inst' = [inst EXCEPT ![i] = "terminating"]
    /\ desired' = IF decrement THEN desired - 1 ELSE desired
    /\ UNCHANGED <<minSize, autoscaled, given>>

\* ASGNodePoolsBackend.Scale, given the sizes it has read.  The loops that add
\* or remove capacity work on copies of the groups, so the capacity that is
\* written is the one that was read, whatever the number of replicas is.
Rebalanced(read, replicas) == read

Scale(read, replicas) ==
    /\ desired' = Rebalanced(read.desired, replicas)
    /\ minSize' = Smaller(Rebalanced(read.desired, replicas), read.minSize)
    /\ UNCHANGED <<autoscaled, given>>

-----------------------------------------------------------------------------
(* Everybody else *)

\* AWS keeps the number of running instances at the desired capacity.
Launch(i) ==
    /\ inst[i] = "unused" /\ i \notin Old
    /\ Cardinality(Running) < desired
    /\ inst' = [inst EXCEPT ![i] = "pending"]
    /\ UNCHANGED <<groupVars, failures, scalings>>

Shrink(i) ==
    /\ Cardinality(Running) > desired
    /\ i \in Running
    /\ inst' = [inst EXCEPT ![i] = "terminating"]
    /\ UNCHANGED <<groupVars, failures, scalings>>

Evolve(i, from, to) ==
    /\ inst[i] = from
    /\ inst' = [inst EXCEPT ![i] = to]
    /\ UNCHANGED <<groupVars, failures, scalings>>

Register(i) == Evolve(i, "pending", "ready")
ReplaceUnhealthy(i) == Evolve(i, "unhealthy", "terminating")
ShutDown(i) == Evolve(i, "terminating", "terminated")
Unlist(i) == Evolve(i, "terminated", "gone")

Fail(i) ==
    /\ failures < MaxFailures
    /\ inst[i] = "ready"
    /\ inst' = [inst EXCEPT ![i] = "unhealthy"]
    /\ failures' = failures + 1
    /\ UNCHANGED <<groupVars, scalings>>

\* The cluster autoscaler works on groups with its tag, within their limits.
AutoscalerAdds ==
    /\ autoscaled /\ scalings < MaxScalings /\ desired < MaxSize
    /\ desired' = desired + 1
    /\ scalings' = scalings + 1
    /\ UNCHANGED <<inst, minSize, autoscaled, given, failures>>

AutoscalerRemoves(i) ==
    /\ autoscaled /\ scalings < MaxScalings /\ desired > minSize
    /\ inst[i] = "ready"
    /\ inst' = [inst EXCEPT ![i] = "terminating"]
    /\ desired' = desired - 1
    /\ scalings' = scalings + 1
    /\ UNCHANGED <<minSize, autoscaled, given, failures>>

\* What AWS does in any case, and what may also happen.
AWSProgress == \E i \in Instances :
    Launch(i) \/ Register(i) \/ ReplaceUnhealthy(i) \/ ShutDown(i) \/ Unlist(i) \/ Shrink(i)

Disturbance ==
    \/ \E i \in Instances : Fail(i) \/ AutoscalerRemoves(i)
    \/ AutoscalerAdds

InitPool ==
    /\ \E s \in Scenarios :
          /\ inst = s.inst
          /\ autoscaled = s.autoscaled
          /\ given = [spot |-> s.spot, removal |-> s.removal, size |-> Cardinality(Running)]
    /\ cordoned = {} /\ tainted = {} /\ unreplaced = {}
    /\ label = [i \in Instances |-> "ready"]
    /\ desired = InitialSize
    /\ minSize = Smaller(MinSize, desired)
    /\ failures = 0 /\ scalings = 0

=============================================================================
