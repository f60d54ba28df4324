--------------------------- MODULE RollingUpdate ---------------------------
(***************************************************************************)
(* RollingUpdateStrategy: the old nodes of a pool are cordoned, drained    *)
(* and terminated, at most Surge at a time, while AWS, the cluster         *)
(* autoscaler and failing machines change the pool under it.  An update    *)
(* may be aborted anywhere (error, cancelled context, crash); a later run  *)
(* starts again from what it finds.                                        *)
(***************************************************************************)
EXTENDS NodePool

CONSTANTS
    StrategySurge,  \* RollingUpdateStrategy.surge
    MaxAborts       \* bound: runs that are aborted

ASSUME UpdateAssumption ==
    /\ StrategySurge \in Nat \ {0}
    /\ MaxAborts \in Nat

VARIABLES
    pc,         \* where the run is
    pool,       \* the NodePool it looks at
    todo,       \* nodes the current loop has still to handle
    oldLeft,    \* numOldNodes in terminateCordonedNodes
    cur,        \* the node being terminated
    scaleDown,  \* whether the group shrinks with it
    target,     \* the replicas ScalePool was asked for, 0 for none
    read,       \* the sizes Scale has read
    aborts

updateVars == <<pc, pool, todo, oldLeft, cur, scaleDown, target, read>>
vars == <<poolVars, updateVars, aborts>>

NoNode == "none"
PCs == {"start", "surge", "scale", "describe", "resize", "mark", "terminate",
        "drain", "lower", "kill", "settle", "cordon", "failed", "done"}

\* The surge is limited to the maximal size of the pool.
Surge == Smaller(MaxSize, StrategySurge)

-----------------------------------------------------------------------------
(* Choosing nodes *)

InZone(nodes, z) == {i \in nodes : ZoneOf[i] = z}

Matchable(p, z) == Smaller(Cardinality(InZone(oldNodes(p) \cap Volumes, z)),
                           Cardinality(InZone(newNodes(p), z)))

OfSize(S, n) == {T \in SUBSET S : Cardinality(T) = n}

\* The volume nodes a pass over all of them may match, each with a new node of
\* its own in its zone.
Matchings(p) == {m \in SUBSET (oldNodes(p) \cap Volumes) :
                    \A z \in Zones : Cardinality(InZone(m, z)) <= Matchable(p, z)}

\* computeNodesList: <<toCordon, unmatchedNodes>>, for every order in which
\* the nodes may be listed.  The pass over the volume nodes stops at surge.
\* Then it is filled up with nodes without volumes, then with unmatched ones.
FullLists(p) == {<<m, {}>> : m \in {m \in Matchings(p) : Cardinality(m) = Surge}}

FilledUp(p, m) ==
    LET plain == oldNodes(p) \ Volumes
        missed == (oldNodes(p) \cap Volumes) \ m
        more(n, S) == Smaller(Surge - n, Cardinality(S))
    IN  UNION {{<<m \cup e, u>> : u \in OfSize(missed, more(Cardinality(m \cup e), missed))} :
                   e \in OfSize(plain, more(Cardinality(m), plain))}

\* A bug: volume nodes are taken without a match in their zone.
UnmatchedLists(p) == {<<m, {}>> : m \in OfSize(oldNodes(p), Smaller(Surge, Cardinality(oldNodes(p))))}

NodesLists(p) ==
    FullLists(p) \cup
    UNION {FilledUp(p, m) : m \in {m \in Matchings(p) :
               /\ Cardinality(m) < Surge
               /\ \A z \in Zones : Cardinality(InZone(m, z)) = Matchable(p, z)}}

\* Update: for spot pools the unmatched nodes are cordoned, too.
Chosen(lists) == IF Spot THEN <<lists[1] \cup lists[2], {}>> ELSE lists

-----------------------------------------------------------------------------
(* Steps *)

Step(from, to) == pc = from /\ pc' = to

\* An operation on the world only, or one on the run only.
NodesOnly == UNCHANGED <<inst, groupVars, failures, scalings>>
GroupOnly == UNCHANGED <<inst, nodeVars, failures, scalings>>
InternalOnly == UNCHANGED poolVars

\* Update and PrepareForRemoval begin.
StartUpdate ==
    /\ ~Removal
    /\ Step("start", IF MaxSize < 1 THEN "done" ELSE "surge")
    /\ InternalOnly
    /\ UNCHANGED <<pool, todo, oldLeft, cur, scaleDown, target, read, aborts>>

StartRemoval ==
    /\ Removal
    /\ Step("start", "scale")
    /\ MarkForDecommission
    /\ target' = 0
    /\ GroupOnly
    /\ UNCHANGED <<pool, todo, oldLeft, cur, scaleDown, read, aborts>>

\* scaleOutAndWaitForNodesToBeReady: there must be surge new nodes, or as many
\* as are desired when that is less.  Spot pools are not scaled out.
ScaleOutSurge(d) == IF Spot THEN 0 ELSE Smaller(d, Surge)

EnoughNew ==
    /\ Step("surge", "mark")
    /\ Settled
    /\ Cardinality(newNodes(GetPool)) >= ScaleOutSurge(desired)
    /\ pool' = GetPool
    /\ todo' = oldNodes(GetPool)
    /\ InternalOnly
    /\ UNCHANGED <<oldLeft, cur, scaleDown, target, read, aborts>>

ScaleOut ==
    /\ Step("surge", "scale")
    /\ Settled
    /\ Cardinality(newNodes(GetPool)) < ScaleOutSurge(desired)
    /\ target' = desired + ScaleOutSurge(desired) - Cardinality(newNodes(GetPool))
    /\ InternalOnly
    /\ UNCHANGED <<pool, todo, oldLeft, cur, scaleDown, read, aborts>>

\* ScalePool after it has waited: refuse to remove nodes, nothing to do, or
\* scale out; to scale to zero all nodes are marked first.
ScalePool ==
    /\ Settled
    /\ \/ /\ target # 0 /\ Cardinality(Registered) > target
          /\ Step("scale", "failed") /\ UNCHANGED <<pool, todo>>
       \/ /\ target # 0 /\ Cardinality(Registered) = target
          /\ Step("scale", "surge") /\ UNCHANGED <<pool, todo>>
       \/ /\ Cardinality(Registered) < target
          /\ Step("scale", "describe") /\ UNCHANGED <<pool, todo>>
       \/ /\ target = 0
          /\ Step("scale", "mark") /\ pool' = GetPool /\ todo' = Registered
    /\ InternalOnly
    /\ UNCHANGED <<oldLeft, cur, scaleDown, target, read, aborts>>

\* ASGNodePoolsBackend.Scale reads the sizes of the group and writes them.
DescribeGroup ==
    /\ Step("describe", IF desired = target THEN "surge" ELSE "resize")
    /\ read' = [desired |-> desired, minSize |-> minSize]
    /\ InternalOnly
    /\ UNCHANGED <<pool, todo, oldLeft, cur, scaleDown, target, aborts>>

Resize ==
    /\ Step("resize", "surge")
    /\ Scale(read, target)
    /\ GroupOnly
    /\ UNCHANGED <<pool, todo, oldLeft, cur, scaleDown, target, read, aborts>>

\* markOldNodes, and the marking loop of ScalePool.
MarkNode(i) ==
    /\ pc = "mark" /\ i \in todo
    /\ MarkNodeForDecommission(pool, i)
    /\ todo' = todo \ {i}
    /\ NodesOnly
    /\ UNCHANGED <<pc, pool, oldLeft, cur, scaleDown, target, read, aborts>>

\* filterNodesToTerminate, for the old nodes.
NodesToTerminate(p) == oldNodes(p) \cap cordoned

\* isUpdateDone, or the list of nodes for terminateCordonedNodes.
AllMarked ==
    /\ ~Removal /\ todo = {}
    /\ \/ /\ oldNodes(pool) = {}
          /\ Step("mark", "done")
          /\ UNCHANGED <<todo, oldLeft>>
       \/ /\ oldNodes(pool) # {}
          /\ Step("mark", "terminate")
          /\ todo' = NodesToTerminate(pool)
          /\ oldLeft' = Cardinality(oldNodes(pool))
    /\ InternalOnly
    /\ UNCHANGED <<pool, cur, scaleDown, target, read, aborts>>

\* A bug: a node that an aborted run has begun to drain is passed over.
RemoveUndrained(i) ==
    /\ Removal /\ todo = {}
    /\ pc = "mark" /\ i \in pool.nodes
    /\ \/ /\ pool.label[i] = "draining" /\ pc' = "scale"
          /\ InternalOnly /\ UNCHANGED <<cur, scaleDown>>
       \/ /\ pool.label[i] # "draining" /\ pc' = "drain"
          /\ CordonNode(i) /\ NodesOnly
          /\ cur' = i /\ scaleDown' = TRUE
    /\ UNCHANGED <<pool, todo, oldLeft, target, read, aborts>>

\* ScalePool to zero: terminate a node, a cordoned one if there is one.
RemoveNode(i) ==
    /\ Removal /\ todo = {}
    /\ Step("mark", "drain")
    /\ i \in pool.nodes
    /\ pool.nodes \cap cordoned # {} => i \in cordoned
    /\ CordonNode(i)
    /\ cur' = i /\ scaleDown' = TRUE
    /\ NodesOnly
    /\ UNCHANGED <<pool, todo, oldLeft, target, read, aborts>>

Removed ==
    /\ Removal /\ todo = {} /\ pool.nodes = {}
    /\ Step("mark", "done")
    /\ InternalOnly
    /\ UNCHANGED <<pool, todo, oldLeft, cur, scaleDown, target, read, aborts>>

\* The pool shrinks with the last Surge old nodes.
ShrinkWith(n) == n <= Surge

\* terminateCordonedNodes: one node after the other.
TerminateNext(i) ==
    /\ Step("terminate", "drain")
    /\ i \in todo
    /\ todo' = todo \ {i}
    /\ cur' = i
    /\ scaleDown' = ShrinkWith(oldLeft)
    /\ oldLeft' = oldLeft - 1
    /\ InternalOnly
    /\ UNCHANGED <<pool, target, read, aborts>>

AllTerminated ==
    /\ todo = {}
    /\ Step("terminate", "settle")
    /\ InternalOnly
    /\ UNCHANGED <<pool, todo, oldLeft, cur, scaleDown, target, read, aborts>>

\* TerminateNode: the drain (module Drain) ends some time after its label.
DrainNode ==
    /\ Step("drain", IF scaleDown THEN "lower" ELSE "kill")
    /\ LabelDraining(pool, cur)
    /\ NodesOnly
    /\ UNCHANGED <<pool, todo, oldLeft, cur, scaleDown, target, read, aborts>>

\* Terminate: the minimum, then the instance, until it is terminated.
LowerMin ==
    /\ Step("lower", "kill")
    /\ LowerMinSize
    /\ GroupOnly
    /\ UNCHANGED <<pool, todo, oldLeft, cur, scaleDown, target, read, aborts>>

Kill ==
    /\ pc = "kill"
    /\ TerminateInstance(cur, scaleDown)
    /\ UNCHANGED <<nodeVars, failures, scalings, updateVars, aborts>>

Killed ==
    /\ Step("kill", IF Removal THEN "scale" ELSE "terminate")
    /\ inst[cur] \in {"terminated", "gone"}
    /\ cur' = NoNode
    /\ InternalOnly
    /\ UNCHANGED <<pool, todo, oldLeft, scaleDown, target, read, aborts>>

\* The pool has its size again: choose the next nodes.
Choose ==
    /\ Step("settle", "cordon")
    /\ Settled
    /\ pool' = GetPool
    /\ \E lists \in NodesLists(GetPool) :
          /\ todo' = Chosen(lists)[1]
          /\ target' = IF Chosen(lists)[2] = {} THEN 0
                       ELSE desired + Cardinality(Chosen(lists)[2])
    /\ InternalOnly
    /\ UNCHANGED <<oldLeft, cur, scaleDown, read, aborts>>

Cordon(i) ==
    /\ pc = "cordon" /\ i \in todo
    /\ CordonNode(i)
    /\ todo' = todo \ {i}
    /\ NodesOnly
    /\ UNCHANGED <<pc, pool, oldLeft, cur, scaleDown, target, read, aborts>>

\* increaseByUnmatchedNodes, then the loop starts again.
AllCordoned ==
    /\ todo = {}
    /\ Step("cordon", IF target = 0 THEN "surge" ELSE "scale")
    /\ InternalOnly
    /\ UNCHANGED <<pool, todo, oldLeft, cur, scaleDown, target, read, aborts>>

\* A call that cannot succeed ends the run: the node object or the tags of the
\* instance are gone, or AWS refuses until the retries are used up.
CallFails ==
    /\ \/ pc = "mark" /\ \E i \in todo : ~Markable(pool, i)
       \/ pc = "mark" /\ Removal /\ todo = {} /\ \E i \in pool.nodes : i \notin Registered
       \/ pc = "cordon" /\ \E i \in todo : i \notin Registered
       \/ pc = "drain" /\ cur \notin Registered /\ pool.label[cur] # "draining"
       \/ pc = "lower" /\ inst[cur] = "gone"
       \/ pc = "kill" /\ cur \in Running /\ Refused(scaleDown)
    /\ pc' = "failed"
    /\ InternalOnly
    /\ UNCHANGED <<pool, todo, oldLeft, cur, scaleDown, target, read, aborts>>

\* Any other error, a timeout, a cancelled context or a crash.
Abort ==
    /\ aborts < MaxAborts
    /\ pc \notin {"start", "failed", "done"}
    /\ pc' = "failed"
    /\ aborts' = aborts + 1
    /\ InternalOnly
    /\ UNCHANGED <<pool, todo, oldLeft, cur, scaleDown, target, read>>

\* The next update of the cluster starts the strategy again.
Retry ==
    /\ Step("failed", "start")
    /\ pool' = NoPool /\ todo' = {} /\ oldLeft' = 0 /\ cur' = NoNode
    /\ scaleDown' = FALSE /\ target' = 0 /\ read' = [desired |-> 0, minSize |-> 0]
    /\ InternalOnly
    /\ UNCHANGED aborts

Progress ==
    \/ StartUpdate \/ StartRemoval \/ EnoughNew \/ ScaleOut \/ ScalePool
    \/ DescribeGroup \/ Resize \/ AllMarked \/ Removed \/ AllTerminated
    \/ DrainNode \/ LowerMin \/ Kill \/ Killed \/ Choose \/ AllCordoned
    \/ \E i \in Instances : MarkNode(i) \/ RemoveNode(i) \/ TerminateNext(i) \/ Cordon(i)
    \/ CallFails \/ Retry

World ==
    /\ AWSProgress \/ Disturbance
    /\ UNCHANGED <<nodeVars, updateVars, aborts>>

\* A finished update stays finished.
Finished == pc = "done" /\ UNCHANGED vars

Init ==
    /\ InitPool
    /\ pc = "start" /\ pool = NoPool /\ todo = {} /\ oldLeft = 0
    /\ cur = NoNode /\ scaleDown = FALSE /\ target = 0
    /\ read = [desired |-> 0, minSize |-> 0]
    /\ aborts = 0

Next == Progress \/ Abort \/ World \/ Finished

Spec == Init /\ [][Next]_vars

\* The run goes on, and AWS works on every instance.
FairSpec ==
    /\ Spec
    /\ WF_vars(Progress)
    /\ WF_vars(AWSProgress /\ UNCHANGED <<nodeVars, updateVars, aborts>>)

-----------------------------------------------------------------------------
(* Properties *)

Alive == In({"pending", "ready", "unhealthy", "terminating"})

\* Update: never more than surge nodes are out of service because of the
\* update, however often it is aborted and started again, and the nodes of an
\* on-demand pool that are ready and schedulable never fall more than surge
\* below the size the pool had, unless machines fail or the autoscaler acts.
\* README.md calls the update non-disruptive.
CapacityKept ==
    /\ Cardinality(cordoned \cap Alive) <= Surge
    /\ ~Spot => Cardinality(ReadyNodes \ cordoned) + failures + scalings >= InitialSize - Surge

\* README.md: "special care is taken to support stateful applications": while
\* a node with volumes is cordoned there is a new node for it in its zone.
VolumesMatched ==
    ~Spot => \A z \in Zones :
        Cardinality(InZone(cordoned \cap Alive \cap Old \cap Volumes, z))
            <= Cardinality(InZone(Registered \ Old, z)) + failures + scalings

\* isUpdateDone: an update of an on-demand pool that ends without an error
\* leaves no old instance behind, not even one that has not registered yet.
DoneMeansUpdated == pc = "done" /\ ~Spot => Old \cap Alive = {}

\* PrepareForRemoval of an on-demand pool ends with an empty group, and nobody
\* scales it up again.
RemovedMeansEmpty ==
    Removal /\ pc = "done" /\ ~Spot => desired = 0 /\ Alive = {} /\ ~autoscaled

\* compareAndSetNodeLabel: a node that is being drained stays so, also when a
\* later run marks it again.
DrainKeptStep == \A i \in Instances : label[i] = "draining" => label'[i] = "draining"
DrainNotUndone == [][DrainKeptStep]_vars

\* The update or the removal ends.
Ends == <>(pc = "done")

\* aws_asg.go: "Scale sets the desired capacity of the ASGs to the number of
\* replicas."  A pool that the update wants larger becomes larger.
ScaleTakesEffect == (pc = "resize") ~> (desired >= target)
=============================================================================
