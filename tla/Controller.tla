----------------------------- MODULE Controller -----------------------------
(***************************************************************************)
(* The control loop of the cluster-lifecycle-manager: the in-memory        *)
(* ClusterList shared by the refresh loop and the update workers, the      *)
(* workers themselves (processCluster), and the part of the world they     *)
(* talk to: the Cluster Registry, the configuration source and the         *)
(* infrastructure of every cluster.                                        *)
(*                                                                         *)
(* Every HTTP call, every provisioner call and every critical section of   *)
(* the ClusterList mutex is one step.  The registry is read by the refresh *)
(* loop (ListClusters) and used later (UpdateAvailable); in between the    *)
(* workers may write it, so the snapshot may be stale when it is used.     *)
(***************************************************************************)
EXTENDS Integers, Sequences, FiniteSets

CONSTANTS
    Clusters,          \* cluster IDs
    Managed,           \* the clusters with a provisioner and an allowed account
    Workers,           \* the goroutines of processWorkerLoop
    NoCluster,         \* a worker without a cluster
    NoWorker,          \* the no-op CancelFunc
    ErrorLimit,        \* errorLimit
    DryRun,            \* Options.DryRun
    Specs,             \* versions of a cluster's own data (channel, items, pools)
    BadSpecs,          \* the ones for which no target version can be computed
    MaxConfig,         \* bound: versions of the configuration repository
    InitialRegistries, \* contents of the registry when CLM starts
    EditKinds,         \* what users do to the registry and the configuration
    MaxEdits,          \* bound: number of user edits
    FailingCalls,      \* which calls may fail
    MaxFaults,         \* bound: number of failing calls, unless ...
    FaultsForever,     \* ... calls may fail without a bound
    MaxRestarts        \* bound: number of crashes of the manager

Lifecycles == {"requested", "ready", "decommission-requested",
               "decommissioned", "creating"}

\* A ClusterVersion: the configuration version and the hash of the cluster's
\* own data, which covers the spec, the config items (one of them blocks
\* updates) and the lifecycle status.  The empty string is NoVersion.
Versions == [config: 0..MaxConfig, spec: Specs, blocked: BOOLEAN,
             lifecycle: Lifecycles]

NoVersion == [config |-> -1, spec |-> -1, blocked |-> FALSE, lifecycle |-> ""]

\* Problems are told apart by the call that failed.
Titles == {"config", "get", "status", "registry", "provisioner", "delete"}
Coalesced == "<multiple problems>"

\* What a list of problems may look like: no problem is repeated, and the marker
\* of those that were dropped is found at the head of a full list only.
ProblemLists ==
    {l \in UNION {[1..n -> Titles \cup {Coalesced}] : n \in 0..ErrorLimit} :
        \A i \in 1..Len(l) :
            /\ l[i] = Coalesced => i = 1 /\ Len(l) = ErrorLimit
            /\ i > 1 => l[i] # l[i - 1]}

\* What the registry stores about a cluster, and what api.Cluster carries.
Records == [present: BOOLEAN, spec: Specs, blocked: BOOLEAN,
            lifecycle: Lifecycles,
            current: Versions \cup {NoVersion},
            next: Versions \cup {NoVersion},
            problems: ProblemLists]

NoRecord == [present |-> FALSE, spec |-> 0, blocked |-> FALSE,
             lifecycle |-> "requested", current |-> NoVersion,
             next |-> NoVersion, problems |-> << >>]

\* What is really running: the version last applied, and whether it was
\* applied completely.
Infras == [version : Versions \cup {NoVersion}, complete : BOOLEAN]

Absent == [version |-> NoVersion, complete |-> TRUE]

NoSnapshot == [c \in Clusters |-> NoRecord]

ASSUME ConstantsAssumption ==
    /\ IsFiniteSet(Clusters) /\ Managed \subseteq Clusters
    /\ NoCluster \notin Clusters /\ NoWorker \notin Workers
    /\ 0 \in Specs /\ Specs \subseteq Nat /\ BadSpecs \subseteq Specs
    /\ MaxConfig \in Nat /\ ErrorLimit \in Nat \ {0}
    /\ DryRun \in BOOLEAN /\ FaultsForever \in BOOLEAN
    /\ MaxEdits \in Nat /\ MaxFaults \in Nat /\ MaxRestarts \in Nat
    /\ InitialRegistries \subseteq [Clusters -> Records]

VARIABLES
    registry,       \* the Cluster Registry
    head,           \* version at the head of the configuration repository
    infra,          \* what is really running, per cluster
    mirror,         \* version of the local copy of the configuration
    refresh,        \* where the refresh loop is: "wait", "list" or "apply"
    snapshot,       \* what ListClusters returned, not used yet
    state,          \* ClusterInfo.state, "absent" when not in the map
    lastProcessed,  \* ClusterInfo.lastProcessed: 0 or the rank of the time
    cancelUpdate,   \* ClusterInfo.cancelUpdate: the worker it cancels
    info,           \* the rest of ClusterInfo: Cluster, NextVersion, NextError
    pendingUpdate,  \* ClusterList.pendingUpdate
    pc,             \* per worker: where processWorkerLoop and its callees are
    job,            \* per worker: the cluster it is processing
    err,            \* per worker: the error of doProcessCluster, "" for nil
    cancelled,      \* per worker: whether its updateCtx is cancelled
    edits, faults, restarts

listVars == <<state, lastProcessed, cancelUpdate, info, pendingUpdate>>
refreshVars == <<mirror, refresh, snapshot>>
workerVars == <<pc, job, err, cancelled>>
worldVars == <<registry, head, infra>>
bounds == <<edits, faults, restarts>>
vars == <<listVars, refreshVars, workerVars, worldVars, bounds>>

-----------------------------------------------------------------------------
(* Versions and priorities *)

\* Cluster.Version and ConfigSource.Version, with the hash taken as injective.
VersionOf(cluster, config) ==
    [config |-> config, spec |-> cluster.spec, blocked |-> cluster.blocked,
     lifecycle |-> cluster.lifecycle]

NextError(cluster) == cluster.spec \in BadSpecs

Infos == [cluster : Records, nextError : BOOLEAN, nextVersion : Versions \cup {NoVersion}]

ClusterInfo(cluster, config) ==
    [cluster |-> cluster,
     nextError |-> NextError(cluster),
     nextVersion |-> IF NextError(cluster) THEN NoVersion
                     ELSE VersionOf(cluster, config)]

NoInfo == [cluster |-> NoRecord, nextError |-> FALSE, nextVersion |-> NoVersion]

updatePriorityNone == 0
updatePriorityNormal == 1
updatePriorityDecommissionRequested == 2
updatePriorityAlreadyUpdating == 3

updateBlocked(cluster) == cluster.blocked

updatePriority(i) ==
    IF updateBlocked(i.cluster) THEN updatePriorityNone
    ELSE IF i.nextError THEN updatePriorityNormal
    ELSE IF i.cluster.lifecycle = "decommission-requested"
         THEN updatePriorityDecommissionRequested
    ELSE IF i.cluster.next # NoVersion /\ i.cluster.next # i.cluster.current
         THEN updatePriorityAlreadyUpdating
    ELSE IF i.nextVersion # i.cluster.current THEN updatePriorityNormal
    ELSE updatePriorityNone

\* The orders in which sort.Slice may leave a set of clusters: higher priority
\* first, then the one not processed for longest; ties in any order, because
\* the clusters come out of a map.
Before(infos, c, d) ==
    \/ updatePriority(infos[c]) > updatePriority(infos[d])
    \/ /\ updatePriority(infos[c]) = updatePriority(infos[d])
       /\ lastProcessed[c] <= lastProcessed[d]

SortedOrders(infos, S) ==
    {s \in [1..Cardinality(S) -> S] :
        /\ \A i, j \in 1..Cardinality(S) : i # j => s[i] # s[j]
        /\ \A i, j \in 1..Cardinality(S) : i < j => Before(infos, s[i], s[j])}

-----------------------------------------------------------------------------
(* The problem list reported to the registry *)

\* slices.CompactFunc: drop every element equal to its predecessor.
Compact(s) ==
    LET upTo[i \in 0..Len(s)] ==
            IF i = 0 THEN << >>
            ELSE IF i > 1 /\ s[i] = s[i - 1] THEN upTo[i - 1]
            ELSE Append(upTo[i - 1], s[i])
    IN  upTo[Len(s)]

\* A bug: the oldest problems are dropped without a marker.
AddProblemUnmarked(problems, title) ==
    LET all == Compact(Append(problems, title))
        excess == Len(all) - ErrorLimit
    IN  IF excess > 0 THEN SubSeq(all, excess + 1, Len(all)) ELSE all

AddProblem(problems, title) ==
    LET all == Compact(Append(problems, title))
        excess == Len(all) - ErrorLimit
    IN  IF excess > 0
        THEN [i \in 1..ErrorLimit |-> IF i = 1 THEN Coalesced ELSE all[excess + i]]
        ELSE all

-----------------------------------------------------------------------------
(* Failing calls *)

Fault(call) ==
    /\ call \in FailingCalls
    /\ FaultsForever \/ faults < MaxFaults
    /\ faults' = IF FaultsForever THEN faults ELSE faults + 1

\* registry.UpdateLifecycleStatus(cluster): a PATCH of the lifecycle status and
\* the status.  It may be refused, or applied with the answer lost.
Write(c, cluster) ==
    registry' = [registry EXCEPT ![c].lifecycle = cluster.lifecycle,
                                 ![c].current = cluster.current,
                                 ![c].next = cluster.next,
                                 ![c].problems = cluster.problems]

UpdateLifecycleStatusOK(c, cluster) ==
    /\ registry[c].present
    /\ Write(c, cluster)
    /\ UNCHANGED faults

UpdateLifecycleStatusFailed(c, cluster) ==
    \/ /\ ~ registry[c].present            \* the record was deleted
       /\ UNCHANGED <<registry, faults>>
    \/ /\ registry[c].present
       /\ Fault("registry")
       /\ UNCHANGED registry \/ Write(c, cluster)

-----------------------------------------------------------------------------
(* The refresh loop: Run, refresh *)

RefreshUpdate ==
    /\ refresh = "wait"
    /\ mirror' = head
    /\ refresh' = "list"
    /\ UNCHANGED <<snapshot, listVars, workerVars, worldVars, bounds>>

ListClusters ==
    /\ refresh = "list"
    /\ snapshot' = registry
    /\ refresh' = "apply"
    /\ UNCHANGED <<mirror, listVars, workerVars, worldVars, bounds>>

\* Update or ListClusters returns an error: the cluster list is left alone
\* until the next interval.
RefreshFails ==
    /\ refresh \in {"wait", "list"}
    /\ Fault("refresh")
    /\ refresh' = "wait"
    /\ UNCHANGED <<mirror, snapshot, listVars, workerVars, worldVars, edits, restarts>>

\* The clusters updateClusters does not skip, after dropUnsupported.
Available ==
    {c \in Managed : snapshot[c].present
                     /\ snapshot[c].lifecycle # "decommissioned"}

\* A bug: a refresh replaces the entry of a cluster that is being processed.
ReplacedAlways == Available

\* Entries of clusters being processed are neither replaced nor deleted.
Replaced == {c \in Available : state[c] # "processing"}

\* A bug: a cluster that left the registry is dropped while it is processed.
DeletedAlways == Clusters \ Available

Deleted == {c \in Clusters \ Available : state[c] # "processing"}

\* A bug: every refresh cancels what is being processed.
InterruptsAny(w) ==
    \E c \in Available : state[c] = "processing" /\ cancelUpdate[c] = w

\* A bug: the block is looked up in the data the update started with.
InterruptsLate(w) ==
    \E c \in Available : /\ state[c] = "processing"
                         /\ updateBlocked(info[c].cluster)
                         /\ cancelUpdate[c] = w

\* The CancelFuncs a refresh calls: those of blocked clusters being processed.
Interrupts(w) ==
    \E c \in Available : /\ state[c] = "processing"
                         /\ updateBlocked(snapshot[c])
                         /\ cancelUpdate[c] = w

UpdateAvailable ==
    /\ refresh = "apply"
    /\ info' = [c \in Clusters |->
                    IF c \in Replaced THEN ClusterInfo(snapshot[c], mirror)
                    ELSE IF c \in Deleted THEN NoInfo
                    ELSE info[c]]
    /\ state' = [c \in Clusters |->
                    IF c \in Replaced THEN "idle"
                    ELSE IF c \in Deleted THEN "absent"
                    ELSE state[c]]
    /\ lastProcessed' = [c \in Clusters |-> IF c \in Deleted THEN 0 ELSE lastProcessed[c]]
    /\ cancelUpdate' = [c \in Clusters |-> IF c \in Deleted THEN NoWorker ELSE cancelUpdate[c]]
    /\ cancelled' = [w \in Workers |-> cancelled[w] \/ Interrupts(w)]
    /\ pendingUpdate' \in
           SortedOrders(info', {c \in Replaced : updatePriority(info'[c]) # updatePriorityNone})
    /\ snapshot' = NoSnapshot
    /\ refresh' = "wait"
    /\ UNCHANGED <<mirror, pc, job, err, worldVars, bounds>>

-----------------------------------------------------------------------------
(* The update workers: processWorkerLoop, processCluster, doProcessCluster *)

Goto(w, l) ==
    /\ pc' = [pc EXCEPT ![w] = l]
    /\ UNCHANGED err

FailWith(w, title) ==
    /\ pc' = [pc EXCEPT ![w] = "report"]
    /\ err' = [err EXCEPT ![w] = title]

SelectNext(w) ==
    /\ pc[w] = "select"
    /\ pendingUpdate # << >>
    /\ LET c == Head(pendingUpdate)
       IN  /\ state' = [state EXCEPT ![c] = "processing"]
           /\ cancelUpdate' = [cancelUpdate EXCEPT ![c] = w]
           /\ job' = [job EXCEPT ![w] = c]
    /\ pc' = [pc EXCEPT ![w] = "start"]
    /\ err' = [err EXCEPT ![w] = ""]
    /\ pendingUpdate' = Tail(pendingUpdate)
    /\ cancelled' = [cancelled EXCEPT ![w] = FALSE]     \* a new updateCtx
    /\ UNCHANGED <<lastProcessed, info, refreshVars, worldVars, bounds>>

\* doProcessCluster up to the switch: NextError, ChannelVersion.Get and the
\* lifecycle status decide where the worker goes.
StartProcess(w) ==
    /\ pc[w] = "start"
    /\ LET i == info[job[w]]
       IN  \/ /\ i.nextError
              /\ FailWith(w, "config")
              /\ UNCHANGED faults
           \/ /\ ~ i.nextError
              /\ Fault("get") \/ (cancelled[w] /\ UNCHANGED faults)
              /\ FailWith(w, "get")
           \/ /\ ~ i.nextError
              /\ \/ /\ i.cluster.lifecycle \in {"requested", "ready"}
                    /\ Goto(w, "announce")
                 \/ /\ i.cluster.lifecycle = "decommission-requested"
                    /\ Goto(w, "decommission")
                 \/ /\ i.cluster.lifecycle = "creating"
                    /\ FailWith(w, "status")
              /\ UNCHANGED faults
    /\ UNCHANGED <<job, cancelled, listVars, refreshVars, worldVars, edits, restarts>>

\* Status.NextVersion is set and written before anything is provisioned.
Announce(w) ==
    /\ pc[w] = "announce"
    /\ LET c == job[w]
           cluster == [info[c].cluster EXCEPT !.next = info[c].nextVersion]
       IN  /\ info' = [info EXCEPT ![c].cluster = cluster]
           /\ \/ /\ DryRun
                 /\ Goto(w, "provision")
                 /\ UNCHANGED <<registry, faults>>
              \/ /\ ~ DryRun
                 /\ UpdateLifecycleStatusOK(c, cluster)
                 /\ Goto(w, "provision")
              \/ /\ ~ DryRun
                 /\ UpdateLifecycleStatusFailed(c, cluster)
                 /\ FailWith(w, "registry")
    /\ UNCHANGED <<state, lastProcessed, cancelUpdate, pendingUpdate, job, cancelled,
                   refreshVars, head, infra, edits, restarts>>

\* Provision starts to change the cluster.  Applying what is already there
\* changes nothing.
ProvisionBegins(w) ==
    /\ pc[w] = "provision"
    /\ LET c == job[w]
           v == info[c].nextVersion
       IN  infra' = IF DryRun \/ infra[c] = [version |-> v, complete |-> TRUE]
                    THEN infra
                    ELSE [infra EXCEPT ![c] = [version |-> v, complete |-> FALSE]]
    /\ Goto(w, "provisioning")
    /\ UNCHANGED <<job, cancelled, listVars, refreshVars, registry, head, bounds>>

\* What the worker makes of the cluster when the provisioner succeeded.
Finished(cluster, lifecycle, current) ==
    [cluster EXCEPT !.lifecycle = lifecycle, !.current = current,
                    !.next = NoVersion, !.problems = << >>]

\* Provision succeeds; config.Delete, deferred, may still fail.
Provisioned(w) ==
    /\ pc[w] = "provisioning"
    /\ LET c == job[w]
       IN  /\ infra' = IF DryRun THEN infra ELSE [infra EXCEPT ![c].complete = TRUE]
           /\ info' = [info EXCEPT ![c].cluster = Finished(@, "ready", @.next)]
    /\ \/ Goto(w, "report") /\ UNCHANGED faults
       \/ FailWith(w, "delete") /\ Fault("delete")
    /\ UNCHANGED <<state, lastProcessed, cancelUpdate, pendingUpdate, job, cancelled,
                   refreshVars, registry, head, edits, restarts>>

DecommissionBegins(w) ==
    /\ pc[w] = "decommission"
    /\ LET c == job[w]
       IN  infra' = IF DryRun \/ infra[c] = Absent THEN infra
                    ELSE [infra EXCEPT ![c] = [version |-> NoVersion, complete |-> FALSE]]
    /\ Goto(w, "decommissioning")
    /\ UNCHANGED <<job, cancelled, listVars, refreshVars, registry, head, bounds>>

\* A bug: the worker does not wait for the deletion it has started.
DecommissionedUnawaited(w) ==
    /\ pc[w] = "decommissioning"
    /\ info' = [info EXCEPT ![job[w]].cluster = Finished(@, "decommissioned", NoVersion)]
    /\ Goto(w, "report")
    /\ UNCHANGED <<state, lastProcessed, cancelUpdate, pendingUpdate, job, cancelled,
                   refreshVars, registry, head, infra, edits, faults, restarts>>

Decommissioned(w) ==
    /\ pc[w] = "decommissioning"
    /\ LET c == job[w]
       IN  /\ infra' = IF DryRun THEN infra ELSE [infra EXCEPT ![c] = Absent]
           /\ info' = [info EXCEPT ![c].cluster =
                            Finished(@, "decommissioned", NoVersion)]
    /\ \/ Goto(w, "report") /\ UNCHANGED faults
       \/ FailWith(w, "delete") /\ Fault("delete")
    /\ UNCHANGED <<state, lastProcessed, cancelUpdate, pendingUpdate, job, cancelled,
                   refreshVars, registry, head, edits, restarts>>

\* A bug: a failed update is recorded like one that succeeded.
FailureRecorded(w) ==
    /\ pc[w] \in {"provision", "provisioning", "decommission", "decommissioning"}
    /\ Fault("provisioner") \/ (cancelled[w] /\ UNCHANGED faults)
    /\ FailWith(w, "provisioner")
    /\ info' = [info EXCEPT ![job[w]].cluster = Finished(@, "ready", @.next)]
    /\ UNCHANGED <<state, lastProcessed, cancelUpdate, pendingUpdate, job, cancelled,
                   refreshVars, worldVars, edits, restarts>>

\* A bug: a failed update goes back to the version recorded as current.
FailureRollsBack(w) ==
    /\ pc[w] \in {"provision", "provisioning", "decommission", "decommissioning"}
    /\ Fault("provisioner") \/ (cancelled[w] /\ UNCHANGED faults)
    /\ FailWith(w, "provisioner")
    /\ infra' = [infra EXCEPT ![job[w]].version = info[job[w]].cluster.current]
    /\ UNCHANGED <<job, cancelled, listVars, refreshVars, registry, head, edits, restarts>>

\* Provision or Decommission returns an error, possibly before it changed
\* anything; a cancelled context makes it return early.
ProvisionerFails(w) ==
    /\ pc[w] \in {"provision", "provisioning", "decommission", "decommissioning"}
    /\ Fault("provisioner") \/ (cancelled[w] /\ UNCHANGED faults)
    /\ FailWith(w, "provisioner")
    /\ UNCHANGED <<job, cancelled, listVars, refreshVars, worldVars, edits, restarts>>

\* The problem list of processCluster after doProcessCluster returned err.
Reported(cluster, e) ==
    [cluster EXCEPT !.problems = IF e = "" THEN << >> ELSE AddProblem(@, e)]

\* The tail of processCluster; an error of the registry is only logged.
Report(w) ==
    /\ pc[w] = "report"
    /\ LET c == job[w]
           cluster == Reported(info[c].cluster, err[w])
       IN  \/ /\ DryRun
              /\ UNCHANGED <<info, registry, faults>>
           \/ /\ ~ DryRun
              /\ info' = [info EXCEPT ![c].cluster = cluster]
              /\ \/ UpdateLifecycleStatusOK(c, cluster)
                 \/ UpdateLifecycleStatusFailed(c, cluster)
    /\ Goto(w, "processed")
    /\ UNCHANGED <<state, lastProcessed, cancelUpdate, pendingUpdate, job, cancelled,
                   refreshVars, head, infra, edits, restarts>>

\* A bug: the time of the last update is not remembered.
NotProcessed(c) == lastProcessed

\* time.Now(): only the order of the times matters, so a time is its rank.
Processed(c) ==
    LET others == {d \in Clusters \ {c} : lastProcessed[d] > 0}
    IN  [d \in Clusters |->
            IF d = c THEN Cardinality(others) + 1
            ELSE IF lastProcessed[d] = 0 THEN 0
            ELSE Cardinality({e \in others : lastProcessed[e] <= lastProcessed[d]})]

\* A bug: the cluster stays marked as being processed.
ClusterStuck(w) ==
    /\ pc[w] = "processed"
    /\ pc' = [pc EXCEPT ![w] = "select"]
    /\ job' = [job EXCEPT ![w] = NoCluster]
    /\ UNCHANGED <<listVars, err, cancelled, refreshVars, worldVars, bounds>>

\* The deferred ClusterProcessed, and back to the loop of the worker.
ClusterProcessed(w) ==
    /\ pc[w] = "processed"
    /\ LET c == job[w]
       IN  IF state[c] # "absent"
           THEN /\ state' = [state EXCEPT ![c] = "processed"]
                /\ cancelUpdate' = [cancelUpdate EXCEPT ![c] = NoWorker]
                /\ lastProcessed' = Processed(c)
           ELSE UNCHANGED <<state, cancelUpdate, lastProcessed>>
    /\ pc' = [pc EXCEPT ![w] = "select"]
    /\ job' = [job EXCEPT ![w] = NoCluster]
    /\ err' = [err EXCEPT ![w] = ""]
    /\ cancelled' = [cancelled EXCEPT ![w] = FALSE]
    /\ UNCHANGED <<info, pendingUpdate, refreshVars, worldVars, bounds>>

-----------------------------------------------------------------------------
(* Users, and crashes of the manager *)

EditRecord(c, kind) ==
    LET r == registry[c]
    IN  \/ /\ kind = "spec" /\ r.present /\ r.spec + 1 \in Specs
           /\ registry' = [registry EXCEPT ![c].spec = r.spec + 1]
        \/ /\ kind = "revert" /\ r.present /\ r.spec - 1 \in Specs
           /\ registry' = [registry EXCEPT ![c].spec = r.spec - 1]
        \/ /\ kind = "block" /\ r.present
           /\ registry' = [registry EXCEPT ![c].blocked = ~ r.blocked]
        \/ /\ kind = "decommission" /\ r.present
           /\ r.lifecycle \in {"requested", "ready"}
           /\ registry' = [registry EXCEPT ![c].lifecycle = "decommission-requested"]
        \/ /\ kind = "delete" /\ r.present
           /\ registry' = [registry EXCEPT ![c] = NoRecord]
        \/ /\ kind = "create" /\ ~ r.present
           /\ registry' = [registry EXCEPT ![c] = [NoRecord EXCEPT !.present = TRUE]]

UserEdits(c) ==
    /\ edits < MaxEdits
    /\ edits' = edits + 1
    /\ \E kind \in EditKinds : EditRecord(c, kind)
    /\ UNCHANGED <<head, infra, listVars, refreshVars, workerVars, faults, restarts>>

PushConfig ==
    /\ "config" \in EditKinds
    /\ edits < MaxEdits
    /\ head < MaxConfig
    /\ edits' = edits + 1
    /\ head' = head + 1
    /\ UNCHANGED <<registry, infra, listVars, refreshVars, workerVars, faults, restarts>>

InitManager ==
    /\ refresh = "wait"
    /\ snapshot = NoSnapshot
    /\ state = [c \in Clusters |-> "absent"]
    /\ lastProcessed = [c \in Clusters |-> 0]
    /\ cancelUpdate = [c \in Clusters |-> NoWorker]
    /\ info = [c \in Clusters |-> NoInfo]
    /\ pendingUpdate = << >>
    /\ pc = [w \in Workers |-> "select"]
    /\ job = [w \in Workers |-> NoCluster]
    /\ err = [w \in Workers |-> ""]
    /\ cancelled = [w \in Workers |-> FALSE]

\* The process dies, or is told to stop, and starts again with empty memory.
Restart ==
    /\ restarts < MaxRestarts
    /\ restarts' = restarts + 1
    /\ refresh' = "wait"
    /\ snapshot' = NoSnapshot
    /\ state' = [c \in Clusters |-> "absent"]
    /\ lastProcessed' = [c \in Clusters |-> 0]
    /\ cancelUpdate' = [c \in Clusters |-> NoWorker]
    /\ info' = [c \in Clusters |-> NoInfo]
    /\ pendingUpdate' = << >>
    /\ pc' = [w \in Workers |-> "select"]
    /\ job' = [w \in Workers |-> NoCluster]
    /\ err' = [w \in Workers |-> ""]
    /\ cancelled' = [w \in Workers |-> FALSE]
    /\ UNCHANGED <<mirror, worldVars, edits, faults>>

-----------------------------------------------------------------------------
(* The specification *)

\* What may be running when the registry holds r: an update that was announced
\* and not recorded may have got anywhere.
InfraFor(r) ==
    {[version |-> r.current, complete |-> TRUE]} \cup
    (IF r.next = NoVersion THEN {}
     ELSE {[version |-> r.next, complete |-> b] : b \in BOOLEAN})

Init ==
    /\ InitManager
    /\ registry \in InitialRegistries
    /\ infra \in [Clusters -> UNION {InfraFor(registry[c]) : c \in Clusters}]
    /\ \A c \in Clusters : infra[c] \in InfraFor(registry[c])
    /\ head = 0
    /\ mirror = 0
    /\ edits = 0 /\ faults = 0 /\ restarts = 0

Refresh == RefreshUpdate \/ ListClusters \/ RefreshFails \/ UpdateAvailable

ProvisionerReturns(w) == Provisioned(w) \/ Decommissioned(w) \/ ProvisionerFails(w)

WorkerSteps(w) ==
    \/ SelectNext(w) \/ StartProcess(w) \/ Announce(w)
    \/ ProvisionBegins(w) \/ DecommissionBegins(w)
    \/ Report(w) \/ ClusterProcessed(w)

Next ==
    \/ Refresh
    \/ \E w \in Workers : WorkerSteps(w) \/ ProvisionerReturns(w)
    \/ \E c \in Clusters : UserEdits(c)
    \/ PushConfig
    \/ Restart

Spec == Init /\ [][Next]_vars

\* Both loops run forever: an interval always elapses, so a goroutine that can
\* take a step takes one.  A refresh that is retried forever gets an answer at
\* some point.
FairLoops ==
    /\ WF_vars(RefreshUpdate)
    /\ SF_vars(ListClusters)
    /\ WF_vars(UpdateAvailable)
    /\ \A w \in Workers : WF_vars(WorkerSteps(w))

\* A provisioner call returns: every wait in it has a timeout.
CallsReturn == \A w \in Workers : WF_vars(ProvisionerReturns(w))

FairSpec == Spec /\ FairLoops /\ CallsReturn

\* The same with provisioner calls that may run forever unless cancelled.
HangingSpec ==
    /\ Spec
    /\ FairLoops
    /\ \A w \in Workers : WF_vars(cancelled[w] /\ ProvisionerReturns(w))

\* From some time on no worker writes the registry between the moment the
\* refresh loop reads it and the moment it uses what it read: the two are
\* seconds apart and updates take minutes.
StaleRefresh == refresh = "apply" /\ refresh' = "wait" /\ snapshot # registry
RefreshesTimely == <>[][~ StaleRefresh]_vars

\* From some time on no update fails.
UpdateFails == \E w \in Workers : err[w] = "" /\ err'[w] # ""
FailuresStop == <>[][~ UpdateFails]_vars

-----------------------------------------------------------------------------
(* Safety *)

BusyPCs == {"start", "announce", "provision", "provisioning", "decommission",
            "decommissioning", "report", "processed"}

\* Every variable has its type; that of a list of problems is the shape
\* processCluster gives it.
TypeOK ==
    /\ registry \in [Clusters -> Records]
    /\ head \in 0..MaxConfig /\ mirror \in 0..MaxConfig
    /\ infra \in [Clusters -> Infras]
    /\ refresh \in {"wait", "list", "apply"}
    /\ snapshot \in [Clusters -> Records]
    /\ state \in [Clusters -> {"absent", "idle", "processing", "processed"}]
    /\ lastProcessed \in [Clusters -> Nat]
    /\ cancelUpdate \in [Clusters -> Workers \cup {NoWorker}]
    /\ info \in [Clusters -> Infos]
    /\ pendingUpdate \in Seq(Clusters)
    /\ pc \in [Workers -> {"select"} \cup BusyPCs]
    /\ job \in [Workers -> Clusters \cup {NoCluster}]
    /\ err \in [Workers -> Titles \cup {""}]
    /\ cancelled \in [Workers -> BOOLEAN]
    /\ edits \in 0..MaxEdits /\ faults \in 0..MaxFaults /\ restarts \in 0..MaxRestarts

\* No cluster is in the hands of two workers (the comment in updateClusters:
\* "keep clusters that are still being updated to avoid race conditions if
\* they're deleted and then added again").
ExclusiveProcessing ==
    \A v, w \in Workers :
        v # w /\ job[v] # NoCluster => job[v] # job[w]

MarkedWhileHeld ==
    \A c \in Clusters :
        state[c] = "processing" <=> \E w \in Workers : job[w] = c

HolderCancels ==
    \A w \in Workers :
        job[w] # NoCluster => cancelUpdate[job[w]] = w

PendingIdle ==
    \A i \in 1..Len(pendingUpdate) : state[pendingUpdate[i]] = "idle"

PendingOnce ==
    \A i, j \in 1..Len(pendingUpdate) : i # j => pendingUpdate[i] # pendingUpdate[j]

\* The list agrees with the workers: a cluster is marked as being processed
\* exactly while a worker has it, its CancelFunc is that worker's, and the
\* clusters waiting to be picked are idle and queued once.
ListConsistent == MarkedWhileHeld /\ HolderCancels /\ PendingIdle /\ PendingOnce

\* A cluster recorded as decommissioned is gone.
DecommissionedIsGone ==
    \A c \in Clusters :
        registry[c].lifecycle = "decommissioned" => infra[c] = Absent

ForwardStep ==
    \A c \in Clusters :
        LET old == infra[c].version
            new == infra'[c].version
        IN  old # NoVersion /\ new # NoVersion
            => new.spec >= old.spec /\ new.config >= old.config

\* A stale snapshot may make a worker apply a version again, but never an older
\* one than it applied before (users only move forward).
NoRollback == [][ForwardStep]_infra

CancelStep ==
    \A w \in Workers :
        cancelled'[w] /\ ~ cancelled[w]
        => job[w] # NoCluster /\ snapshot[job[w]].blocked

\* A worker's context is cancelled only when the registry says that updates of
\* the cluster it works on are blocked.
CancelsOnlyBlocked == [][CancelStep]_cancelled

\* What a report makes of the problems of the cluster: none after a success; after
\* a failure the latest is told, and one that is told no more is one of those the
\* marker of a full list stands for.
Told(old, e, new) ==
    IF e = "" THEN new = << >>
    ELSE /\ ErrorLimit > 1 => new[Len(new)] = e
         /\ new[1] = Coalesced \/ \A i \in 1..Len(old) : \E j \in 1..Len(new) : new[j] = old[i]
         /\ new[1] = Coalesced => Len(old) = ErrorLimit

Succeeds(w) ==
    /\ pc[w] \in {"provisioning", "decommissioning"}
    /\ pc'[w] = "report" /\ err'[w] \in {"", "delete"}

KeepsTold(w) ==
    LET old == info[job[w]].cluster.problems
        new == info'[job[w]].cluster.problems
    IN  /\ new \in ProblemLists
        /\ IF pc[w] = "report" /\ pc'[w] = "processed" /\ ~ DryRun
           THEN Told(old, err[w], new)
           ELSE new = old \/ (new = << >> /\ Succeeds(w))

FailureStep ==
    \A w \in Workers : job[w] # NoCluster /\ job'[w] = job[w] => KeepsTold(w)

\* A failure is told until the cluster is updated: while a worker has a cluster its
\* problems change only when its update succeeds and when its worker reports, also
\* if the list is refreshed or another worker reports meanwhile.  However many
\* updates fail, the report holds at most errorLimit problems, the latest of them
\* and the marker if any was dropped.
FailuresTold == [][FailureStep]_vars

-----------------------------------------------------------------------------
(* Refinement *)

\* The lease on a cluster, read off the list: the worker whose CancelFunc is
\* stored, while the cluster is marked as being processed.
Holder == [c \in Clusters |-> IF state[c] = "processing" THEN cancelUpdate[c]
                              ELSE NoWorker]

Lease == INSTANCE UpdateLease WITH holder <- Holder, infra <- infra,
                                   Nobody <- NoWorker

\* The list and the workers implement the lease: every change of a cluster is
\* made under a lease that nobody else can get meanwhile.
ImplementsLease == Lease!Spec

-----------------------------------------------------------------------------
(* Liveness *)

\* The priority the registry and the configuration give a cluster right now.
Urgency(c) == updatePriority(ClusterInfo(registry[c], head))

Wanted(c) ==
    /\ registry[c].present /\ ~ registry[c].blocked
    /\ registry[c].spec \notin BadSpecs
    /\ registry[c].lifecycle \in {"requested", "ready"}

\* The cluster runs what is wanted of it, and the registry says so.
Settled(c) ==
    LET target == VersionOf(registry[c], head)
    IN  /\ registry[c].lifecycle = "ready"
        /\ registry[c].current = target
        /\ registry[c].next = NoVersion
        /\ infra[c] = [version |-> target, complete |-> TRUE]

\* Once users and failures stop, every cluster that is to run ends up running the
\* latest configuration, the registry says so, and both stay that way.  Needs
\* timely refreshes: a stale one can restart a finished update, and do so again
\* at the end of that update, at the expense of clusters with less priority.
Convergence ==
    CallsReturn /\ RefreshesTimely /\ FailuresStop =>
        \A c \in Managed : <>[](Wanted(c) => Settled(c))

\* A cluster whose priority no other cluster exceeds is processed again and
\* again, even if every update of every cluster fails.
NoStarvation ==
    CallsReturn => \A c \in Managed :
        []<>(\/ state[c] = "processing"
             \/ Urgency(c) = updatePriorityNone
             \/ \E d \in Managed : Urgency(d) > Urgency(c))

\* Blocking updates of a cluster stops them, even if the update under way would
\* never end by itself.
BlockStops ==
    \A c \in Managed :
        <>[](registry[c].present /\ registry[c].blocked) => <>[](state[c] # "processing")

-----------------------------------------------------------------------------
(* What the documentation promises *)

\* README: "it can be killed at any point in time and it will just continue any
\* cluster updates from where it left off": a cluster that nothing is going to
\* touch any more is not left half updated.
SettledIsApplied ==
    \A c \in Clusters :
        /\ Wanted(c)
        /\ Urgency(c) = updatePriorityNone
        /\ state[c] \in {"absent", "idle"}
        => infra[c] = [version |-> registry[c].current, complete |-> TRUE]

=============================================================================
