----------------------------- MODULE CLCUpdate -----------------------------
(***************************************************************************)
(* CLCUpdateStrategy, the default: the manager only labels the nodes that  *)
(* have to go; the cluster-lifecycle-controller (CLC), another program     *)
(* that runs in the cluster, drains and terminates the nodes with the      *)
(* label decommission-pending.  Both change the label, each from the value *)
(* it has read.  When the update is cancelled the manager takes back its   *)
(* requests, as far as the CLC has not begun to act on them.               *)
(***************************************************************************)
EXTENDS NodePool

CONSTANTS
    RollbackRetries,  \* retries of the rollback (10 in the code)
    MaxCancels,       \* bound: cancelled updates
    MaxCrashes,       \* bound: crashes of the manager
    MaxFaults         \* bound: failing calls during a rollback

ASSUME CLCAssumption ==
    /\ RollbackRetries \in Nat /\ MaxCancels \in Nat
    /\ MaxCrashes \in Nat /\ MaxFaults \in Nat

VARIABLES
    pc,         \* where the run is
    pool,       \* the NodePool it looks at
    todo,       \* nodes the current loop has still to handle
    cancelled,  \* the context of the update is cancelled
    retries,    \* rollbacks that have failed
    cancels, crashes, faults

updateVars == <<pc, pool, todo, cancelled, retries>>
bounds == <<cancels, crashes, faults>>
vars == <<poolVars, updateVars, bounds>>

PCs == {"start", "decommission", "disable", "mark", "wait",
        "rollback", "revert", "reverted", "failed", "done"}

Step(from, to) == pc = from /\ pc' = to
NodesOnly == UNCHANGED <<inst, groupVars, failures, scalings>>

\* The nodes that have to go, of a snapshot.
Leaving(p) == IF Removal THEN p.nodes ELSE oldNodes(p)

-----------------------------------------------------------------------------
(* doUpdate and PrepareForRemoval *)

\* A bug: the loop does not look again at a pool it has seen.
LookOnce ==
    /\ Step("start", IF Removal THEN "decommission" ELSE "mark")
    /\ ~cancelled
    /\ pool' = IF pool = NoPool THEN GetPool ELSE pool
    /\ todo' = Leaving(pool')
    /\ UNCHANGED <<poolVars, cancelled, retries, bounds>>

\* The loop begins with a new look at the pool.
Look ==
    /\ Step("start", IF Removal THEN "decommission" ELSE "mark")
    /\ ~cancelled
    /\ pool' = GetPool
    /\ todo' = Leaving(GetPool)
    /\ UNCHANGED <<poolVars, cancelled, retries, bounds>>

MarkPool ==
    /\ Step("decommission", "disable")
    /\ MarkForDecommission
    /\ UNCHANGED <<inst, nodeVars, failures, scalings, pool, todo, cancelled, retries, bounds>>

\* A bug: the nodes are not labelled.
DisableNothing(i) ==
    /\ pc = "disable" /\ i \in todo
    /\ todo' = todo \ {i}
    /\ UNCHANGED <<poolVars, pc, pool, cancelled, retries, bounds>>

DisableReplacement(i) ==
    /\ pc = "disable" /\ i \in todo
    /\ DisableReplacementNodeProvisioning(i)
    /\ todo' = todo \ {i}
    /\ NodesOnly
    /\ UNCHANGED <<pc, pool, cancelled, retries, bounds>>

AllDisabled ==
    /\ Step("disable", "mark")
    /\ todo = {}
    /\ todo' = Leaving(pool)
    /\ UNCHANGED <<poolVars, pool, cancelled, retries, bounds>>

MarkNode(i) ==
    /\ pc = "mark" /\ i \in todo
    /\ MarkNodeForDecommission(pool, i)
    /\ todo' = todo \ {i}
    /\ NodesOnly
    /\ UNCHANGED <<pc, pool, cancelled, retries, bounds>>

\* A bug: nodes on which the CLC works already are not waited for.
NoneMarkedNow == {i \in Leaving(pool) : pool.label[i] # "draining"} = {}

\* markNodes counts every node that has to go, marked before or now.
NoneLeft == Leaving(pool) = {}

AllMarked ==
    /\ Step("mark", IF NoneLeft THEN "done" ELSE "wait")
    /\ todo = {}
    /\ UNCHANGED <<poolVars, pool, todo, cancelled, retries, bounds>>

Poll ==
    /\ Step("wait", "start")
    /\ UNCHANGED <<poolVars, pool, todo, cancelled, retries, bounds>>

\* A node disappeared between the look at the pool and its turn.
NodeGone ==
    /\ \/ pc = "mark" /\ \E i \in todo : ~Markable(pool, i)
       \/ pc = "disable" /\ \E i \in todo : i \notin Registered \cup unreplaced
    /\ pc' = IF cancelled /\ ~Removal THEN "rollback" ELSE "failed"
    /\ UNCHANGED <<poolVars, pool, todo, cancelled, retries, bounds>>

\* The context is cancelled: the next call that looks at it returns.  Only
\* Update takes back its requests.
Cancel ==
    /\ cancels < MaxCancels /\ ~cancelled
    /\ pc \notin {"failed", "reverted", "done"}
    /\ cancelled' = TRUE
    /\ cancels' = cancels + 1
    /\ UNCHANGED <<poolVars, pc, pool, todo, retries, crashes, faults>>

Interrupted ==
    /\ cancelled
    /\ pc \in {"start", "decommission", "disable", "mark", "wait"}
    /\ pc' = IF Removal THEN "failed" ELSE "rollback"
    /\ UNCHANGED <<poolVars, pool, todo, cancelled, retries, bounds>>

-----------------------------------------------------------------------------
(* rollbackUpdate *)

\* A bug: the rollback uses the nodes the update looked at last.
RollbackStale ==
    /\ Step("rollback", "revert")
    /\ todo' = oldNodes(pool)
    /\ UNCHANGED <<poolVars, pool, cancelled, retries, bounds>>

Rollback ==
    /\ Step("rollback", "revert")
    /\ pool' = GetPool
    /\ todo' = oldNodes(GetPool)
    /\ UNCHANGED <<poolVars, cancelled, retries, bounds>>

RevertNode(i) ==
    /\ pc = "revert" /\ i \in todo
    /\ AbortNodeDecommissioning(pool, i)
    /\ todo' = todo \ {i}
    /\ NodesOnly
    /\ UNCHANGED <<pc, pool, cancelled, retries, bounds>>

AllReverted ==
    /\ Step("revert", "reverted")
    /\ todo = {}
    /\ UNCHANGED <<poolVars, pool, todo, cancelled, retries, bounds>>

\* A failing rollback starts again, up to RollbackRetries times.
RollbackFails ==
    /\ \/ pc = "revert" /\ (\E i \in todo : ~Abortable(pool, i)) /\ UNCHANGED faults
       \/ pc \in {"rollback", "revert"} /\ faults < MaxFaults /\ faults' = faults + 1
    /\ pc' = IF retries < RollbackRetries THEN "rollback" ELSE "failed"
    /\ retries' = IF retries < RollbackRetries THEN retries + 1 ELSE retries
    /\ UNCHANGED <<poolVars, pool, todo, cancelled, cancels, crashes>>

-----------------------------------------------------------------------------

Crash ==
    /\ crashes < MaxCrashes
    /\ pc \notin {"failed", "reverted", "done"}
    /\ pc' = "failed"
    /\ crashes' = crashes + 1
    /\ UNCHANGED <<poolVars, pool, todo, cancelled, retries, cancels, faults>>

\* The next update of the cluster starts the strategy again.
Retry ==
    /\ pc \in {"failed", "reverted"}
    /\ pc' = "start"
    /\ pool' = NoPool /\ todo' = {} /\ cancelled' = FALSE /\ retries' = 0
    /\ UNCHANGED <<poolVars, bounds>>

\* The CLC drains the nodes it is asked to, terminates them when they are
\* drained, and lets the group shrink if they must not be replaced.
CLCDrains(i) ==
    /\ i \in Registered /\ label[i] = "decommission-pending"
    /\ label' = [label EXCEPT ![i] = "draining"]
    /\ UNCHANGED <<inst, cordoned, tainted, unreplaced, groupVars, failures, scalings>>

CLCTerminates(i) ==
    /\ label[i] = "draining"
    /\ TerminateInstance(i, i \in unreplaced)
    /\ UNCHANGED <<nodeVars, failures, scalings>>

CLC ==
    /\ \E i \in Instances : CLCDrains(i) \/ CLCTerminates(i)
    /\ UNCHANGED <<updateVars, bounds>>

AWS == AWSProgress /\ UNCHANGED <<nodeVars, updateVars, bounds>>

World == Disturbance /\ UNCHANGED <<nodeVars, updateVars, bounds>>

Progress ==
    \/ Look \/ MarkPool \/ AllDisabled \/ AllMarked \/ Poll \/ NodeGone
    \/ Interrupted \/ Rollback \/ AllReverted \/ Retry
    \/ \E i \in Instances : DisableReplacement(i) \/ MarkNode(i) \/ RevertNode(i)

Finished == pc = "done" /\ UNCHANGED vars

Init ==
    /\ InitPool
    /\ pc = "start" /\ pool = NoPool /\ todo = {} /\ cancelled = FALSE
    /\ retries = 0 /\ cancels = 0 /\ crashes = 0 /\ faults = 0

Next == Progress \/ RollbackFails \/ Cancel \/ Crash \/ CLC \/ AWS \/ World \/ Finished

Spec == Init /\ [][Next]_vars

\* The run goes on, and so do the CLC and AWS.
FairSpec == Spec /\ WF_vars(Progress \/ RollbackFails) /\ WF_vars(CLC) /\ WF_vars(AWS)

-----------------------------------------------------------------------------
(* Properties *)

\* rollbackUpdate: after a cancelled update has been rolled back no old node
\* waits for the CLC any more, also when an earlier run had marked it.
RollbackStops ==
    pc = "reverted" => \A i \in Registered \cap Old : label[i] # "decommission-pending"

\* doUpdate returns only when the CLC has removed every old node.
DoneMeansUpdated == pc = "done" => Old \cap Registered = {}

\* PrepareForRemoval: none of the nodes the CLC has removed is replaced.  What
\* may be left are instances that the autoscaler or a failure asked for and
\* that have not registered, which GetPool does not list.
RemovedNotReplaced == Removal /\ pc = "done" => desired <= failures + scalings

\* The update or the removal ends.
Ends == <>(pc = "done")
=============================================================================
