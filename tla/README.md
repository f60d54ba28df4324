# Verification of the cluster-lifecycle-manager

TLA+ models of the cluster-lifecycle-manager (CLM), the TLC configurations that
check them, and TLAPS proofs about them. Paths below are relative to the
repository. `PROJECT.json` maps every definition to the lines it models, and
lists the hazards the properties are aimed at.

## The system

CLM reads the wanted state of many Kubernetes clusters from a *Cluster
Registry* and a *configuration source* (git), and drives AWS and Kubernetes
until reality agrees.

| part | code | state | operations |
|---|---|---|---|
| refresh loop | `controller/controller.go` `Run`, `refresh` | none of its own | update the configuration source, list the clusters, rebuild the list |
| cluster list | `controller/cluster_list.go` | one `ClusterInfo` per cluster (data, versions, state, last processed, CancelFunc), the queue | `UpdateAvailable`, `SelectNext`, `ClusterProcessed`, under one mutex |
| update workers | `controller/controller.go` `processWorkerLoop`, `processCluster` | the `ClusterInfo` in hand, a context | pick, provision or decommission, report |
| registry clients | `registry/` | remote: lifecycle status, versions, problems, config items | `ListClusters`, `UpdateLifecycleStatus`, `UpdateConfigItems` |
| cluster data and versions | `api/` | value objects | hash a cluster into a version |
| configuration sources | `channel/` | git mirrors, clones, a cache | `Update`, `Version`, `Get`, `Delete` |
| provisioner | `provisioner/clusterpy.go`, `node_pools.go`, `aws.go`, ... | remote: stacks, buckets, instances, Kubernetes objects | `Provision`, `Decommission` |
| node pool backends | `pkg/updatestrategy/aws_asg.go`, `aws_ec2.go` | remote: auto scaling groups, instances | `Get`, `Scale`, `MarkForDecommission`, `Terminate` |
| node pool manager | `pkg/updatestrategy/node_pool_manager.go`, `drain.go` | remote: labels, taints and annotations of nodes | mark, abort, cordon, drain, scale, terminate |
| update strategies | `pkg/updatestrategy/rolling_update.go`, `clc_update.go` | the `NodePool` last read | `Update`, `PrepareForRemoval` |
| kubectl | `pkg/kubernetes/` | remote | apply, delete |
| helpers | `pkg/aws`, `pkg/util`, `config`, `cmd/clm` | none | parsing, formatting, flags |

Interaction: the refresh loop and the workers are goroutines that share the
list; each worker talks to the registry, then to the provisioner for minutes,
then to the registry again. The registry is written by users meanwhile. The
provisioner runs an update strategy for every node pool whose template changed;
the strategy works on nodes that AWS, the cluster autoscaler, the
cluster-lifecycle-controller (CLC, another program) and the owners of pods
change at the same time. CLM persists nothing itself: everything in memory is
lost on a restart, and what a restarted manager knows is in the registry, in
labels and annotations of nodes, and in AWS.

What is hard, and what makes each part correct:

* *controller*: data is read, used later and written back minutes later; the
  process may die anywhere; calls fail, or succeed with the answer lost. Correct
  means: updates of one cluster never overlap, no cluster is starved, a block
  stops an update, no update is forgotten, and every cluster converges.
* *strategies*: an update is aborted anywhere and started again from what it
  finds; the pool moves under it. Correct means: bounded disruption, stateful
  nodes keep a node in their zone, a drain is not undone, the end means what it
  says, and the end is reached.
* *drain*: timing rules must survive restarts of the manager and pods that come
  and go. Correct means: no pod is deleted by force early, and the drain ends.
* *provisioner and stacks*: dozens of calls to services that are slow, reject
  what they accepted before, and go on by themselves after the process died; an
  attempt starts from whatever the one before left. Correct means: success says
  that AWS and Kubernetes are as configured, a removed cluster leaves nothing
  behind, nothing that is in use is deleted, and some attempt succeeds.
* *configuration sources*: workers read a mirror that the refresh loop changes.
  Correct means: a version stays available, is complete when used, is never
  stale, and its files are removed.
* *data*: what is derived from the registry, from networks, templates, manifests
  and AWS's answers must not depend on the order of an answer, on an alias, or on
  which of several requests failed.

## Modules

| module | models | extends |
|---|---|---|
| `Controller` | list, refresh loop, workers, registry | |
| `UpdateLease` | what the list promises (abstract) | |
| `NodePool` | the group, its instances and node objects, the manager's operations on them, AWS, the autoscaler | |
| `RollingUpdate` | the rolling update strategy | `NodePool` |
| `CLCUpdate` | the CLC strategy and the CLC | `NodePool` |
| `Drain` | draining one node | |
| `Stacks` | the CloudFormation adapter and CloudFormation | |
| `Provision` | provisioning and decommissioning one cluster | `Stacks` |
| `ConfigSource` | mirrors, versions, checkouts, the cache | |
| `Networks` | CIDRs, zones, subnets, quantities | |
| `Rendering` | templates and their hashes, uploads, lists of deletions | `Networks` |
| `ClusterData` | versions, registry data, config items, node pool views, commands | `Networks` |
| `KubeClient` | deleting and applying Kubernetes objects | `Networks` |
| `Backends` | which instances are a pool's, outdated, ready; instance types | `Networks` |
| `ConfigFiles` | from a commit to a directory, from directories to manifests | `Networks` |
| `MC*` | instances for TLC; `MCValues` for the last six | |
| `ControllerProofs` | theorems about the list, the workers, the lease, what is recorded and what is applied | `Controller` |
| `NodePoolProofs` | lemmas about pools, for both strategies | `NodePool` |
| `RollingUpdateProofs`, `CLCUpdateProofs` | theorems about the strategies | the strategy, `NodePoolProofs` |
| `DrainProofs`, `ConfigSourceProofs`, `ProvisionProofs` | theorems | `Drain`, `ConfigSource`, `Provision` |
| `ValueProofs` | theorems about Kubernetes objects, nodes, rendered files, checkouts and configuration, for inputs of any size | `MCValues` |

Operators introduced by the comment "A bug:" are not used by the specifications:
each is a plausible mistake in the code, put in the place of the definition
that follows it to see that the property meant to catch it does.

### `Controller.tla`: list, refresh loop, workers

State: the world (`registry`, `head` of the configuration repository, `infra`:
what really runs), the refresh loop (`mirror`, `refresh`, `snapshot`), the list
(`state`, `lastProcessed`, `cancelUpdate`, `info`, `pendingUpdate`) and per
worker `pc`, `job`, `err`, `cancelled`.

One action per external call or critical section: `RefreshUpdate`,
`ListClusters`, `UpdateAvailable`, `RefreshFails`; `SelectNext`,
`StartProcess`, `Announce`, `ProvisionBegins`, `Provisioned`,
`DecommissionBegins`, `Decommissioned`, `ProvisionerFails`, `Report`,
`ClusterProcessed`; users (`UserEdits`, `PushConfig`) and `Restart`.

Abstractions: a cluster's own data is a number (`Specs`) and the block flag; a
version is the tuple the code hashes (collisions are out of this module); time
stamps are ranks, since only their order is used; a provisioner call is a first
change (from then on the cluster is half updated) and an end; a problem is the
call that failed. A call to the registry is done, refused, or done with the
answer lost.

`UpdateLease.tla` is what the list promises: an exclusive lease per cluster,
under which alone a cluster changes. `Controller` implements it with
`Holder`, read off the state and the CancelFunc of every entry.

### `NodePool.tla`: a pool, its group and its nodes

State: `inst` (where each EC2 instance is in its life), the node objects
(`cordoned`, `tainted`, `label`, `unreplaced`) and the group (`desired`,
`minSize`, `autoscaled`). The operations of the manager and of the backend are
operators the strategies use; each acts on the current node, guided by the
snapshot the strategy holds, as `updateNode` and `compareAndSetNodeLabel` do.
AWS (`Launch`, `Shrink`, `Register`, `ShutDown`, ...) and the autoscaler are
external.

Abstractions: a pool is one group (the code also has one group per zone); the
template changed before the run, so an instance is old for good or new; zones
and volumes are fixed per instance. `given` holds what the run was started with:
whether the pool is a spot pool and whether it is updated or removed.

### `RollingUpdate.tla`

`pc` walks through `Update` and `PrepareForRemoval`: scale out until there are
enough new nodes, mark, terminate what is cordoned (drain, lower the minimum,
terminate), settle, choose and cordon, and again. `NodesLists` is
`computeNodesList` for every order in which the pool may be listed. `Abort`
stands for every error, cancellation and crash; `Retry` is the next update of
the cluster. Draining is one step here and a module of its own.

### `CLCUpdate.tla`

`doUpdate`, `PrepareForRemoval` and `rollbackUpdate`; the CLC drains nodes with
the label `decommission-pending` and terminates them. `Cancel` cancels the
context, which is noticed at the next call that looks at it; `RollbackFails` is
the retry with its limit. The rollback leaves the taint on the nodes, as the
code does. Old instances that have not registered are not in the pool the
strategy looks at: neither this strategy nor a spot update waits for them.

### `Drain.tla`

Time is counted in ages that stop at `Horizon`, beyond which no comparison
changes. The start of the drain and the last forced deletion exist twice: in
memory (`drainStart`, `lastForced`) and in annotations (`startNote`,
`forcedNote`), and `Crash` loses the former. The fast loop evicts in parallel
(`EvictFast`), the slow one evicts one pod or deletes one by force (`EvictSlow`,
`Refused`, `Delete`, `Annotate`). Owners recreate pods elsewhere under the same
name, pods die by themselves, and a pod may outlive its grace period. The time
unit is longer than the second to which annotations are rounded, and the check
that a pod is still on the node is one step with its eviction.

### `Stacks.tla`

`cf` is CloudFormation's record of every stack: status, template, protection,
whether a deletion was requested and whether it was updated after that. `job` is
where the goroutine is that works on a stack: `applyStack` creates it, or
protects and updates it (retrying while another update is in progress), then
`waitForStack`; `DeleteStack` unprotects, deletes and waits. Between two calls
CloudFormation begins, finishes, rolls back, rejects or breaks. Of time only
what the code compares is kept: whether the last update is after the request to
delete, where with `Skew` the two clocks may disagree.

### `Provision.tla`

An attempt is the list of steps (`todo`) that `Provision` or `Decommission` goes
through until one fails. `ProvisionSteps` and `DecommissionSteps` are that order
for zalando-aws and EKS clusters. A step applies or deletes stacks, in parallel
where the code does (`BeginJobs`, `RunJob`, `EndJobs`), or calls Kubernetes, EC2
or an update strategy (`UpdateNodes`, `PrepareForRemoval`: what the strategies
promise is used here and checked in their own runs). `StacksLeft` is the loop
that deletes the cluster's stacks again until none is listed or the retries are
used up. `StepFails`, `AnyJobFails` and `TerminateFails` are failing and
cancelled calls, `Crash` is the end of the process with its goroutines,
`Reconfigure` is the next configuration of the plan. The world: CloudFormation,
instances that start, volumes, controllers in the cluster that create stacks
for load balancers, and Karpenter.

Assumptions: a status change is visible to the next read for updates, not for
deletions; apply-only mode is off and the etcd stack is managed; Karpenter
launches no instance while its cluster is removed (`Replaces` FALSE), without
which the wait of `aws_ec2.go:318` need not end.

### `ConfigSource.tla`

The remote repositories, the mirrors (branches, objects, HEAD, and whether the
first clone was finished), the cache, the refresh loop (one step per mirror and
call, then one per cluster) and the workers, which check out file by file
(`LocalClone`, `WriteEntry`) without the lock under which a mirror is opened.
Branches are overwritten, created and deleted, the default branch is renamed.
`Restart` runs `NewGit`, which removes what a process before left.

### Modules of values

`Networks`, `Rendering`, `ClusterData`, `KubeClient`, `Backends` and
`ConfigFiles` hold operations without state of their own between calls. A
function that returns a value and an error gives `Ok(value)` or `Fails`. Loops
over answers of a service are folds that carry what the code accumulates, with
the answers (done, failed, lost, raced by others) as an input. Each module ends
with what the results must satisfy, stated without the algorithm: a reference
definition, or a relation between inputs and results. Letters stand for strings
where concatenation matters (versions), numbers of `AddrBits` bits for
addresses. SHA-256 is taken as injective.

## Runs

| run | instance | checks |
|---|---|---|
| updates | 2 clusters whose last attempts failed, 2 workers, 2 edits (specs, one of which cannot be provisioned, configuration, block), 1 failing call, 1 restart | `FailuresTold`, `ListConsistent`, `SettledIsApplied`, `NoRollback`, `CancelsOnlyBlocked` |
| membership | 2 clusters in any state, 2 workers, 2 deletions, creations or decommissionings, 1 restart | `ExclusiveProcessing`, `DecommissionedIsGone`, `ImplementsLease` |
| converge | 2 clusters, 1 worker, 1 edit, 1 restart, updates that fail or hang without limit | `Convergence`, `BlockStops`, `NoStarvation` |
| rolling | 3 old nodes and at most 1 new one in 2 zones, one with a volume, one may be starting; surge 1, 1 failing machine, 1 abort | `CapacityKept`, `VolumesMatched`, `DoneMeansUpdated`, `DrainNotUndone` |
| ends | surge 2, 1 abort, 1 decision of the autoscaler; an on-demand update, a spot update and a removal | `RemovedMeansEmpty`, `Ends` |
| clc | at most 2 nodes and 2 to come, 1 cancellation, 1 crash, 1 failing call; an update and a removal, of a smaller pool also while the autoscaler changes it | `RollbackStops`, `DoneMeansUpdated`, `RemovedNotReplaced`, `Ends` |
| drain | 3 pods under one budget, 2 of them in a second one, 1 crash or failing call, 1 pod that dies by itself | `TimersKept`, `DrainEnds` |
| provision | 7 stacks (etcd, main, a manifest's, a load balancer's, 3 pools), a Karpenter pool, 2 objects, 1 fault, crash or cancellation, 1 stack created meanwhile; create and update, create and remove, for EKS too | `SuccessMeansCurrent`, `NothingLeftOnAWS`, `DeletedIsGone`, `OnlyEmptyPoolsRemoved`, `MainStackLast`, `Converges` |
| config | 2 repositories and a directory, 2 branches, 2 clusters, 1 worker, 2 pushes or deletions, 1 failing call, cancellation or crash | `VersionsStay`, `VersionsFresh`, `CheckoutComplete`, `NoLeftovers`, `Refreshes` |
| values | every input of bounded sets, one kind of case per operation | `NetworksRight`, `RenderingRight`, `DataRight`, `KubernetesRight`, `BackendsRight`, `FilesRight` |
| scale, namespace | least instances | what the documentation says and the code does not do (below) |

Bounds: two clusters and two workers are the least with which clusters compete,
a worker can hold the wrong cluster, and a cancel can hit the wrong worker. Two
edits are the least for an edit during the update another edit caused, and one
fault or crash is enough to reach every error path from every state. In `updates`
`ErrorLimit` is 2 and both clusters begin with two problems of earlier attempts,
so the next failure repeats the last one or cuts the list; with a longer limit
the theorem `FailuresAreTold` takes over. Three old
nodes and a surge of one or two make an update take several rounds, with a last
one that is smaller; two zones make a match fail. `RollbackRetries` is 1 instead
of 10: both sides of the limit are reached. Three pods and two forced deletions
are the least for the interval between them; a `Horizon` of two separates zero,
too young and old enough. `provision` has two pools, so that one fails while the
other changes, and one is orphaned while the other stays; two rounds of deletion
instead of `maxApplyRetries` reach both ends of that loop. In `config` one file
per commit separates empty, unfinished and complete checkouts; the second
cluster overrides the branch of one source. Addresses in `values` have 10 bits
and bytes 4: enough for the carry, the cut and the wrap between bytes. Subnets
are of every size that matters to `MaxNodes`, down to one that is smaller than
what AWS reserves (a negative count), and the percentage is absent, not a number,
or a number in and out of 1 to 100, 0 among them. Symmetry
is used only where no liveness is checked.

`provision`, `values` and `namespace` do not check for deadlock: the first stops
when the last configuration was reached, the others take one step.

Fairness: both loops of the controller sleep for an interval and go on, so every
goroutine that can step steps (weak fairness). A refresh that fails is retried
for ever; `SF(ListClusters)` says that it gets through at some point. A
provisioner call that was cancelled returns (`HangingSpec`); one that was not
may hang, and `Convergence` and `NoStarvation` have the assumption
`CallsReturn`, which the timeouts of all waits justify. `Convergence` also
assumes that failures stop, and that from some time on no refresh is stale: the
code reads the registry seconds before it uses the answer, and updates take
minutes. `BlockStops` needs none of these. The strategies go on (their loops
poll), AWS keeps groups at their size, the CLC works on marked nodes, kubelets
end pods that are told to end, owners recreate their pods, time passes. No pod
is assumed ever to become ready. In `provision` the controller starts attempts
until one succeeds, a cancelled attempt returns (every wait of the code looks at
its context), CloudFormation finishes what it began, and somebody repairs a
stack in `UPDATE_ROLLBACK_FAILED` or `DELETE_FAILED`, which the code cannot; the
number of faults is bounded, and after the last one no fairness is needed from
outside beyond this. In `config` the refresh loop and a worker that has begun go
on; `Refreshes` excepts a crash between the creation of a mirror's directory and
of its remote.

## Findings

* **scale** (`pkg/updatestrategy/aws_asg.go:168`): the loops of `Scale` change
  copies of the groups, so the capacity written is the one that was read. An
  on-demand pool without new nodes is never scaled out, and its rolling update
  asks for it for ever. (The passing runs start with enough new nodes, which the
  autoscaler or failing machines may have brought.)
* **namespace** (`pkg/kubernetes/kubernetes.go:180`): `README.md:166` says that
  the namespace of a deletion defaults to `kube-system`; nothing fills it in. By
  name the deletion is skipped, by selector it happens in every namespace.

### Observations

Met while modelling, without a run of their own.

Controller and registry:

* A request to decommission that arrives during an update is overwritten with
  `ready` when the update ends (`registry/http.go:115`).
* `updatePriority` treats an announced version equal to the current one as
  nothing to do (`controller/cluster_list.go:187`). An update to v2 fails half
  way, the user reverts to v1, the update to v1 is announced and fails: the
  cluster stays half updated.
* A refresh that read the registry before an update was recorded makes a worker
  process the cluster with the old status; if that fails before anything is
  announced, the old `CurrentVersion` is written back over the right one
  (`controller/controller.go:288`). A later refresh repairs it.
* The fields of a version are hashed without separators (`api/cluster.go:143`):
  `DataRight` shows that every single edit of a hashed field is noticed, two at
  once may cancel out. Alias, owner and account name of a cluster are not hashed
  at all (`api/cluster.go:92-133`), although the manager hands the whole cluster
  to templates and names EKS clusters by alias: an edit of them is applied with the next
  update that something else starts. `EditsNoticed` states this too.
* `ListClusters` derives trust relationships before the providers of the
  clusters behind are set; the second `InitOIDCProvider`
  (`provisioner/clusterpy.go:367`) repairs it, after the main stack was rendered.
* A record that users delete before the cluster is decommissioned leaves its
  infrastructure: nobody removes it, and a record created again finds it.
* Status versions are sent with `omitempty`: an empty next version is not in the
  request. `IsOldestReadyClusterInTheRegion` of a lone cluster that is not ready
  is false, since `ListClusters` counts the cluster itself among the clusters of
  its account; its comment (`api/cluster.go:356`) says true. `ListRight` leaves
  this case open. `convertFromClusterModel` does not take over
  `CreatedAt`. Config items of node pools are not decrypted. The file registry
  keeps its list when the file lacks `clusters`, and its `UpdateConfigItems`
  writes to a nil map. The commands of `cmd/clm` ignore the lifecycle status,
  keep the checked-out files and stop at the first failing cluster.

Node pools:

* The interval between forced deletions is recorded after the deletion
  (`drain.go:110`): a manager that dies in between is followed by one that may
  delete the next pod at once. `TimersKept` says what does hold.
* A pod is deleted by name (`drain.go:307`): the one that is deleted may be its
  young successor on another node.
* `terminateCordonedNodes` shrinks the group for the last surge nodes whether or
  not the update had scaled it out before (`rolling_update.go:66`).
* Old instances that have not registered are not waited for by the CLC strategy
  and by spot updates.
* A node class without AMI ids makes every node of the EC2 backend outdated, and
  a Karpenter node without a zone label reaches `Terminate` with its whole
  provider id. The instance info that several types have in common may count
  disks that are larger than those of one type. `ParseTaint` accepts a taint
  without effect.

Provisioning:

* A decommissioned EKS cluster counts as gone as soon as its endpoint is not
  found (`zalando_eks.go:128`), also while its main stack is created or its
  deletion failed: stacks may remain. Hence `NothingLeftOnAWS` and not
  `NothingLeft`.
* A template that equals the one of a stack in `UPDATE_ROLLBACK_COMPLETE` needs
  no update, "treat it as success" says `aws.go:327`, but `waitForStack` then
  reports that status as an error.
* "Unable to downscale the deployments, proceeding anyway" is followed by a wait
  (`aws_ec2.go:318`) that ends only if Karpenter, still running, launches nothing.
* Obsolete Karpenter pools are looked up by an empty label value
  (`node_pools.go:263`): none is ever found.
* A cluster without a current version skips the update of its nodes, also when an
  earlier attempt created some.
* Deletions by selector of namespaces call `overrideDeletionProtection` with an
  empty name (`kubernetes.go:378`) and fail; a deletion by selector after the
  definition of its kind was deleted in the same list fails until the next
  attempt; the example at `README.md:139` has both a name and labels, which the
  code refuses.
* `nthAddressFromCIDR` counts in the last byte only (`template.go:616`) and wraps
  there, although its comment promises "the Nth address in the subnet";
  `NthIsNth` says when it is and what else it is.
* `manifestHash` depends on the order of rendering; `scaleQuantity` computes in
  float32 and may round up.

Configuration sources:

* Two repositories whose URLs end in the same name share a mirror (`git.go:152`).
* A crash between the creation of a mirror's directory and of its remote leaves
  a mirror that no update repairs.
* `CachingSource` hides the garbage collection of its target, so
  `controller.go:125` never does any; overrides are ignored with one source; a
  directory named `*.yaml` in a component makes `Components` fail; the comment on
  a dangling HEAD (`git.go:251`) is out of date.

## Proofs

Every invariant and action property that a run of a component with behaviours
checks is a theorem: for every value of the constants that satisfies the named
assumption of the module, and for any number of faults, crashes, edits and
retries. Each proof has the same outline: an inductive invariant, one lemma per
action (or per group of actions that change the same state) that says it keeps
the invariant, and a theorem that draws the property from it. TLC checked each
inductive invariant on the instances of the runs before it was proved. Three of
the invariants about values are theorems too, and for these parts the theorems
say more than the run: they hold of inputs of every length and size.

Some theorems have hypotheses of their own, on what the environment begins with
or does. Each is satisfied by the instance whose run checks the property, and
for each there is a behaviour of the code without it that breaks the property;
they are below.

### `ControllerProofs`

* `ListIsConsistent`, `ProcessingIsExclusive` from `ListInv`: `ListConsistent`,
  the types of the list, and that the workers that pick clusters are the ones
  without a cluster. `UpdateAvailable` is the hard step: the new queue consists
  of replaced entries, which nobody processes.
* `ProblemsBounded`: the list of problems stays a list of at most `ErrorLimit`
  problems, whatever is added to it: the new one is the last, none repeats the
  one before, and an old one goes only from a full list, which then begins with
  the marker. The list is built by a recursive function, whose existence and
  values come from an induction along the list (`Upwards`).
* `TypeCorrect`, one lemma per action. `TypeOK` is proved and therefore not in a
  run of its own.
* `FailuresAreTold`: with `ProblemsBounded` for the report, and for every other
  step that the problems of a cluster in hand do not change, except when its
  update succeeds.
* `CancelsOnlyBlockedClusters`: the stored CancelFunc is the one of the holder.
* `ListImplementsLease`: the refinement of `UpdateLease`.

For the records, a first part says what a step does to one cluster (`StepOn`): the
actions of the loop, the workers and the users, as seen from a cluster that is
or is not theirs. The three invariants are about one cluster each and need only
that.

* `DecommissionedClustersGone`: nothing can record a cluster as decommissioned
  but the worker that has just removed it, and no worker or list entry of a
  decommissioned record provisions it (`GoneInv`, of which `NotBroughtBack` is
  the part about workers). It is about records that say decommissioned; of a
  cluster without a record nothing is claimed. Hypothesis `InitiallyGone`:
  a record that is decommissioned at the start has no versions, which is how
  `convertToClusterStatusModel` and `Decommissioned` leave it.
* `NeverRollsBack` from `OrderInv`: in specification and commit, what runs is
  not newer than what a worker holds, that not newer than what the refresh loop
  holds, that not newer than the registry and the repository. Hypotheses: users
  do not revert, delete or recreate clusters (a reverted cluster *is* to go
  back), and the initial records are not ahead of what is wanted.
* `SettledClustersApplied` from `AppliedInv`: from the announcement of an update
  until its report, the registry says that the cluster is behind; what is
  reported is behind as well, or is what runs. Hypotheses: `OnlyUpdates`
  excludes also requests to decommission, and `InitiallyRecorded`. Both have a
  counterexample without: a revert (the second observation under
  *Controller and registry*), and a request that is overwritten by the end of
  an update after a refresh has seen it: the cluster is then removed and its
  removal fails, while the record says up to date.

### `NodePoolProofs`, `RollingUpdateProofs`

`NodePoolProofs` has what AWS's, the autoscaler's and the manager's steps do to
types, labels and the number of instances in each state.

* `RollingTypeCorrect`, `RollingDoneUpdated` from `SafeInv`: while an old
  instance is starting the group has no more instances than it wants, so that no
  run gets past waiting for it (`PendingInv`); a run that decides it is done
  knows all old instances (`OldKnown`). Hypothesis `MaxSize >= 1`: otherwise
  `Update` returns at once.
* `DrainNeverUndone` holds of every step.
* `RemovedPoolsEmpty` from `RemovalInv`: a removal does not resize the group,
  and the autoscaler is off from the moment the pool is marked.
* `UpdateKeepsCapacity`, `UpdateMatchesVolumes` from `UpdateInv`. The nodes out
  of service are old and at most `Surge` (`FewWithdrawn`), since a run
  terminates all it finds cordoned before it chooses more, also if an aborted
  run has cordoned them (`WithdrawnInv`); the group shrinks only with the last
  `Surge` old nodes (`LastInv`). The rest is a balance: ready nodes, failures and
  scalings pay for what the group may have lost (`DesiredInv`, `CapacityInv`,
  `FreshInv`), including a stale `Resize` that undoes a decision of the
  autoscaler, which that decision has paid for. Hypotheses: the run is an update,
  and no more than `Surge` instances are starting when it begins (a node that
  starts is counted in the size that is to be kept, but serves nobody).

### `CLCUpdateProofs`

* `CLCTypeCorrect`, `RollbackAlwaysStops`: a rollback knows every old node that
  waits for the CLC and has still to revert it (`RevertInv`).
* `DoneAlwaysUpdated`: a run that has looked at the pool has seen all old nodes
  (`SeenInv`). Hypothesis `OldRegistered`: `GetPool` does not list instances
  without a node object, and one that registers later is missed.
* `RemovedNeverReplaced`: a node is marked only after it was labelled not to be
  replaced (`UnreplacedInv`), so that what the group wants beyond its ready nodes
  was asked for by failures and the autoscaler (`WantedInv`). Hypothesis
  `RemovedRegistered`, for the same reason.

### `DrainProofs`

`DrainTimersKept` from `IInv`: what a draining manager has in memory is what the
annotations say, so a manager that is restarted goes on where the last one
stopped (`MemoryInv`); and the pod about to be deleted has passed all checks of
`forceTerminationAllowed`, which no passage of time undoes (`DeleteInv`).

### `ConfigSourceProofs`

`SourcesInvariant` is the inductive invariant, in two parts. Of the refresh
loop: a mirror holds what its branches name, branches the loop has passed are as
new as the refresh, and so is what is cached, also when sources share a mirror.
Of the workers: a checkout is of the version the worker was given, and complete
for every source it is past. Mirrors only grow while workers run (`Grows`), which
is what the second part needs of the first. From these: `VersionsAlwaysStay`,
`VersionsAlwaysFresh`, `CheckoutAlwaysComplete`, `NothingLeftOver`.

### `ProvisionProofs`

`ProvisionInvariant`: goroutines work only on the stacks of the step at hand
(`JobInv`); the steps left of an attempt are those of the configuration it read
(`PlanInv`, and for a removal the shapes `T0` to `T8` with the round it is in);
and what earlier steps achieved still holds: a pool whose stack is about to be
deleted is empty (`ProvisionInv`), the controllers are down and the stacks that
were listed are gone (`GoneInv`). It assumes of the constants that the sets are
finite and that the main and etcd stacks are not pools.

* `DecommissionLeavesNothing`: hence the conditions of `NothingLeftOnAWS`.
* `DeletionsAreTrue`: a deletion is reported only by a step that has found the
  stack gone, whatever the clocks said.
* `PoolsEmptiedFirst`: stacks that the deletions name are excluded by the
  property; the code deletes those without looking at their nodes.
* `MainStackGoesLast`.
* `SuccessAlwaysCurrent` from `SuccessInv`, on top of the above. For everything
  a success promises, some step of the attempt has the last word (`LastWord`):
  either it holds now and no step left can spoil it, or a step left achieves it
  and none after that spoils it (`GoalInv`). A list without steps is then a list
  of promises kept. `FirstGoals` says that the steps an attempt begins with have
  this property; then it is kept by three kinds of steps: those that wait
  (`GoalsStay`), those that finish the first step (`GoalsPass`), and
  `Reconcile`, which puts the removal of pools first (`GoalsRemove`). What
  goroutines have learned of their stacks is true (`WorkInv`), although
  CloudFormation and the goroutines take turns; and earlier attempts leave
  nothing but pools of earlier configurations, of which only removed ones are
  being deleted (`HistoryInv`). Hypotheses: `NamesApart`, and `NamesNotReused`:
  no configuration deletes a stack that it or a later one has. `MCProvision`
  assumes both, so TLC evaluates them for the run's configurations. Without the
  second one the property fails: let configurations be A, B without one of A's
  pools, and A again. The deletion of that pool's stack is accepted, but has
  not begun when the attempt is cancelled; the next attempt finds the stack as
  A wants it (`No updates are to be performed`) and succeeds; then
  CloudFormation begins the deletion.

### `ValueProofs`

What these parts compute are folds: over the tries of a request, the documents
of a file, the load balancers of a group. The folds of the community modules are
recursive functions, and the library's induction theorems cannot be used with
the provers at hand, so the module begins with induction for itself: `Less` is
well-founded, so a set of natural numbers has a smallest element (`Least`); so
what holds of 0 and is kept by each step holds up to n (`Upwards`); so a fold over
indices exists (`FoldExists`) and has an intermediate value after each element
(`StepsOf`), and the same for folds over finite sets, by their cardinality
(`FoldOverSet`, `GatheredBy`). What a fold computes is then shown like an
invariant: of the first value and of each step.

Kubernetes objects:

* `AppliedOrFailed`: an object that counts as applied is the one that is stored,
  for every `MaxRetries` and every sequence of refused, lost and raced requests.
* `FilesApplied`: the documents of a file are applied one by one until one fails,
  for files of any length.
* `DeletionsMatch`: what a deletion removes, for every cluster that an API server
  can hold (`Formed`: objects have the kinds it serves, namespaces that exist,
  and a name of their own), when others delete any of the objects meanwhile and
  any of the requests fail.
* `KubernetesAlwaysRight` draws `KubernetesRight` from these: what the run picks
  are such inputs.

Instances and nodes:

* `TerminatedEnds`: for any sequence of states of the instance that is polled.
* `SizesInCommon`: any number of types of any sizes.
* `OutdatedByLaunch`, `OutdatedByClass`, `OutdatedByClaim`: what is outdated in a
  pool of auto scaling groups, of EC2 instances, and of Karpenter's claims; for
  every pair of configurations, before and after. The hashes of a claim are not
  empty, as Karpenter writes them: the code skips empty ones.
* `NodesOfAllGroups`: any finite number of groups whose launch templates are
  found, and any number of load balancers with any instances.
* `BackendsAlwaysRight` draws `BackendsRight` from these.

Rendered files. The texts that a loop hands on have no type of their own (a text
holds the texts whose hashes are in it), so these folds are unrolled without one
(`HashSteps`, `ManifestSteps`, `ComponentSteps`, `UploadSteps`, `DeletionSteps`).

* `HashesAlwaysCurrent`: for components of any files that hash each other in any
  way. The invariant is `Consistent`: every file in the context holds hashes of
  files in the context, as they are there, and none of them leads back to it. A
  file is put there once all it hashes is there, and rendering it again later
  gives the same text, since these have not changed.
* `ComponentsAlwaysKept`: those with objects have a package, in their order
  (`ComponentsKept` says so of any number of components).
* `UploadsAlwaysReadable`: for any pools. An object's name tells the files and the
  KMS key (`NamesTell`), so what overwrites it is the same.
* `DeletionsKeepOrder`: any number of files with lists of any length.
* `RenderingAlwaysRight` draws `RenderingRight` from these.

Checkouts:

* `CheckoutAlwaysRight`: for trees of any entries, whose paths may lead out of the
  directory or through links of the tree itself, and any file system in which the
  directory can be written to (`Base`: it is a directory if it exists, and no link
  leads there). The invariant is `CheckedOut`: after n entries, all files are as
  they were, and the new ones are directories below the directory, or entries at
  their places with their contents. `safeMkdirAll` has either failed or left real
  directories from the root to the file (`DirectoriesMade`), so the path leads to
  itself (`LeadsThere`) and nothing is written through a link.

Configuration:

* `ItemsAlwaysLayered`: any number of sources with any keys. The invariant is
  `LastDefaults`: after n files, every key that one of them has, with the value of
  the last of them.
* `ItemsAlwaysStored`: any items, and any calls that fail or whose answers are lost.
* `SubnetsAlwaysBest`: any number of subnets in any order. The invariant is
  `BestChosen`; it does not depend on the order, since what is preferred to a
  preferred subnet is preferred (`PreferredOver`).
* `RangesAlwaysWhole`: any number of port ranges with any fields.

### Only model-checked

* Liveness (`Convergence`, `BlockStops`, `NoStarvation`, `Ends`, `DrainEnds`,
  `Converges`, `Refreshes`): out of the prover's reach.
* `NetworksRight`, `DataRight` and `FilesRight` as wholes. Proved are the parts
  about subnets (which of them a zone gets) and port ranges, config items, and
  checkouts. Most of what the three say otherwise is about filtered and sorted
  sequences: `SelectSeq` has no definition that the provers can expand, and
  `SortSeq` and the arithmetic of powers of two are recursive. `MCValues` compares
  them with definitions that are not.
* The findings.

## Not modelled

* Dry runs are in `Controller` and in its theorems; the runs have `DryRun` FALSE.
* Credentials, decryption, AWS sessions and tokens, flags, metrics and logging:
  input and output without control of their own.
* String helpers of templates, the key set document, tags and parameters of
  requests: formatting.
* The generated client of the registry.
* Pools with one group per zone in `NodePool`: the strategies see the union of
  the groups (`Backends` has how it is formed).
