----------------------------- MODULE Provision -----------------------------
(***************************************************************************)
(* clusterpyProvisioner: the provisioning and the decommissioning of one   *)
(* cluster, on top of the stacks of module Stacks.                         *)
(*                                                                         *)
(* An attempt is a list of steps, which the code goes through in order and *)
(* gives up at the first one that fails.  A step applies or deletes stacks *)
(* (in parallel, one goroutine per stack, and all of them are awaited), or *)
(* it calls the Kubernetes API, EC2 or an update strategy.  The controller *)
(* starts attempts until one succeeds, cancels one when the configuration  *)
(* changed, and may crash at any time.                                     *)
(***************************************************************************)
EXTENDS Stacks, SequencesExt

CONSTANTS
    EtcdStack, MainStack,
    InfraStacks,     \* the stacks of CloudFormation manifests, in their order
    IngressStacks,   \* the ones that controllers in the cluster create
    Masters, Workers,  \* the pools backed by auto scaling groups, by their stacks
    KarpenterPools, Objects,
    Scenarios,       \* a provider and the configurations that the cluster goes through
    MaxRounds,       \* maxApplyRetries rounds of deleting stacks
    MaxFaults,       \* bound: failing calls, timeouts, crashes and cancellations
    MaxRecreations,  \* bound: stacks that controllers of the cluster create
    Replaces         \* Karpenter replaces nodes while the cluster is removed

Pools == Masters \cup Workers

\* gone: the cluster shall be decommissioned; version: of all templates and manifests
Config == [gone : BOOLEAN, version : Templates \ {0}, pools : SUBSET Pools,
           karpenter : SUBSET KarpenterPools, objects : SUBSET Objects,
           preDelete : SUBSET Objects, postDelete : SUBSET Objects,
           preStacks : SUBSET Stack, postStacks : SUBSET Stack]

ASSUME ProvisionAssumption ==
    /\ \A sc \in Scenarios : sc.provider \in {"aws", "eks"} /\ sc.plan \in Seq(Config) /\ sc.plan # <<>>
    /\ IsFiniteSet(Stack) /\ IsFiniteSet(Objects) /\ IsFiniteSet(KarpenterPools)
    /\ {EtcdStack, MainStack} \cup Range(InfraStacks) \cup IngressStacks \cup Pools \subseteq Stack
    /\ InfraStacks \in Seq(Stack) /\ {EtcdStack, MainStack} \cap Pools = {}
    /\ {MaxRounds, MaxFaults, MaxRecreations} \subseteq Nat /\ Replaces \in BOOLEAN

\* Stacks that controllers of the cluster create have names of their own, and
\* so have the stacks of CloudFormation manifests.
NamesApart ==
    /\ IngressStacks \cap ({EtcdStack, MainStack} \cup Range(InfraStacks) \cup Pools) = {}
    /\ Range(InfraStacks) \cap Pools = {}

\* A configuration may delete stacks, but none that it or a later one has: a
\* deletion that CloudFormation has accepted goes on after a crash, and reaches
\* a stack that was configured again meanwhile.
NamesNotReused ==
    \A sc \in Scenarios : \A i, j \in 1..Len(sc.plan) : i <= j /\ ~sc.plan[j].gone =>
        /\ (sc.plan[i].preStacks \cup sc.plan[i].postStacks)
               \cap ({EtcdStack, MainStack} \cup Range(InfraStacks) \cup sc.plan[j].pools) = {}
        /\ \A h \in 1..i : sc.plan[h].pools \cap sc.plan[j].pools \subseteq sc.plan[i].pools

VARIABLES
    provider,    \* zalando-aws or zalando-eks
    plan, current,  \* the configuration in the registry and the channel
    applied,     \* the one the attempt has read
    todo,        \* the steps that are left of the attempt
    outcome,     \* "active" during an attempt, then its result
    isNew,       \* the lifecycle status is requested or creating
    cancelled,   \* the context of the attempt is cancelled
    nodes,       \* the template that the nodes of each pool run, 0 if it has none
    kube,        \* the version of each object in the cluster, 0 if it is absent
    karpenter,   \* NodePools, EC2NodeClasses, and the pools that have instances
    controllers, \* the deployments of kube-system run
    eksUp,       \* the EKS cluster, a resource of the main stack, exists
    volumes,     \* of the cluster's EBS volumes: "none", "in-use" or "available"
    rounds, roundFailed, faults, recreations

attempt == <<applied, todo, outcome, isNew, cancelled, rounds, roundFailed>>
world == <<nodes, kube, karpenter, controllers, eksUp, volumes>>
bounds == <<faults, recreations>>
config == <<provider, plan, current>>
vars == <<cf, job, config, attempt, world, bounds>>

C == plan[applied]
\* Tagged with the name of the cluster, and not as its main stack
Owned == Stack \ {EtcdStack, MainStack}

\* The stacks with and without some tags, as far as they exist
ListStacks(tagged) == {s \in tagged : Exists(s)}

\* What the provisioners of the two providers manage, with --manage-etcd-stack.
ZalandoAWSProvisioner == [masters |-> TRUE, etcd |-> TRUE, hook |-> FALSE]
ZalandoEKSProvisioner == [masters |-> FALSE, etcd |-> FALSE, hook |-> TRUE]
P == IF provider = "aws" THEN ZalandoAWSProvisioner ELSE ZalandoEKSProvisioner
Idle == \A s \in Stack : job[s] = "idle"

Step(do, on) == [do |-> do, on |-> on, listed |-> [s \in on |-> ""]]
Each(do, S) == [i \in 1..Cardinality(S) |-> Step(do, {SetToSeq(S)[i]})]

-----------------------------------------------------------------------------
(* The steps of an attempt *)

\* provisionNodePoolGroup: all stacks at once, then the nodes pool by pool
NodePoolGroup(apply, S) ==
    <<Step(apply, S), Step("ready", {})>> \o (IF isNew THEN <<>> ELSE Each("updateNodes", S))

\* apply: deletions, manifests, deletions
ApplySteps ==
    <<Step("deleteObjects", C.preDelete)>> \o Each("delete", C.preStacks)
    \o Each("applyObject", C.objects)
    \o <<Step("deleteObjects", C.postDelete)>> \o Each("delete", C.postStacks)

ReconcileSteps ==
    <<Step("reconcile", {}), Step("removeNodePools", {}), Step("prepareObsolete", {}),
      Step("removeNodeClasses", {})>>

createOrUpdateEtcdStack == IF P.etcd THEN <<Step("apply", {EtcdStack})>> ELSE <<>>
createOrUpdateClusterStack == <<Step("apply", {MainStack})>>
applyCFManifests == [i \in DOMAIN InfraStacks |-> Step("apply", {InfraStacks[i]})]

ProvisionSteps ==
    <<Step("prepare", {})>>
    \o createOrUpdateEtcdStack \o createOrUpdateClusterStack
    \o (IF P.hook THEN <<Step("hook", {})>> ELSE <<>>) \o applyCFManifests
    \o (IF P.masters THEN NodePoolGroup("apply", C.pools \cap Masters) ELSE <<>>)
    \o NodePoolGroup("apply", C.pools \cap Workers)
    \o ApplySteps
    \o NodePoolGroup("applyKarpenter", C.karpenter)
    \o ReconcileSteps

DecommissionSteps ==
    (IF provider = "eks" THEN <<Step("details", {})>> ELSE <<>>)
    \o <<Step("downscale", {}), Step("terminate", {}), Step("awaitTerminated", {}),
         Step("deleteStacks", {}), Step("stacksLeft", {})>>
    \o (IF provider = "eks" THEN <<Step("interfaces", {})>> ELSE <<>>)
    \o <<Step("delete", {MainStack}), Step("removeVolumes", {})>>

-----------------------------------------------------------------------------
(* The attempt *)

Now == todo[1]
At(do) == outcome = "active" /\ todo # <<>> /\ Now.do = do
Proceed(more) == todo' = more \o Tail(todo)
SameAttempt == UNCHANGED <<applied, outcome, isNew, cancelled, rounds, roundFailed>>
Succeed == todo' = <<>> /\ SameAttempt
Fail ==
    /\ todo' = <<>> /\ outcome' = "failed"
    /\ UNCHANGED <<applied, isNew, cancelled, rounds, roundFailed>>

\* A bug: the context of the attempt before is used again.
SameContext ==
    /\ outcome # "active"
    /\ outcome = "failed" \/ applied # current
    /\ applied' = current /\ outcome' = "active"
    /\ isNew' = (isNew /\ outcome # "provisioned")
    /\ rounds' = 0 /\ roundFailed' = FALSE
    /\ UNCHANGED <<cancelled, cf, job, config, world, bounds>>
    /\ todo' = IF C'.gone THEN DecommissionSteps' ELSE ProvisionSteps'

Start ==
    /\ outcome # "active"
    /\ outcome = "failed" \/ applied # current
    /\ applied' = current /\ outcome' = "active" /\ cancelled' = FALSE
    /\ isNew' = (isNew /\ outcome # "provisioned")
    /\ rounds' = 0 /\ roundFailed' = FALSE
    /\ UNCHANGED <<cf, job, config, world, bounds>>
    /\ todo' = IF C'.gone THEN DecommissionSteps' ELSE ProvisionSteps'

End ==
    /\ outcome = "active" /\ todo = <<>>
    /\ outcome' = IF C.gone THEN "decommissioned" ELSE "provisioned"
    /\ UNCHANGED <<cf, job, config, applied, todo, isNew, cancelled, rounds, roundFailed, world, bounds>>

\* The goroutines of Provision, deleteClusterStacks, and of single stacks
Working == At("apply") \/ At("delete") \/ At("deleteRound")

BeginJobs ==
    /\ Working /\ Idle /\ Now.on # {}
    /\ job' = [s \in Stack |-> IF s \notin Now.on THEN "idle"
                               ELSE IF Now.do = "apply" THEN "create" ELSE DeleteEntry(Now.listed[s])]
    /\ UNCHANGED <<cf, config, attempt, world, bounds>>

\* When a pool's stack is gone its instances are too; the EKS cluster goes while
\* the main stack is deleted.
StackEffects ==
    /\ nodes' = [p \in Pools |-> IF cf'[p].st = "NONE" THEN 0 ELSE nodes[p]]
    /\ eksUp' = (cf'[MainStack].st # "NONE" /\ (eksUp \/ cf'[MainStack].st \in Complete))
    /\ UNCHANGED <<kube, karpenter, controllers, volumes>>

RunJob ==
    /\ \E s \in Stack : ~cancelled /\ (JobStep(s, C.version) \/ DeletionTimesOut(s))
    /\ UNCHANGED <<config, attempt, world, bounds>>

AwaitAll == Now.on # {} => \A s \in Now.on : job[s] \in Ended

EndJobs ==
    /\ Working /\ AwaitAll
    /\ job' = [s \in Stack |-> IF job[s] \in Ended THEN "idle" ELSE job[s]]
    /\ LET bad == \E s \in Now.on : job[s] = "failed"
       IN  IF Now.do = "deleteRound"
           THEN /\ roundFailed' = bad /\ Proceed(<<>>)
                /\ UNCHANGED <<applied, outcome, isNew, cancelled, rounds>>
           ELSE IF bad THEN Fail ELSE Proceed(<<>>) /\ SameAttempt
    /\ UNCHANGED <<cf, config, world, bounds>>

Plain(do) ==
    /\ At(do) /\ ~cancelled /\ Proceed(<<>>) /\ SameAttempt
    /\ UNCHANGED <<cf, job, config, world, bounds>>

\* Reading instance types, defaults, subnets, certificates and deletions (modules
\* ClusterData, Networks and Rendering), and creating the bucket
Prepare == Plain("prepare")

\* The API server's address and certificate are written to the registry.
CreationHook == Plain("hook")

WaitForAPIServer == Plain("ready")

DeleteLeakedENIs == Plain("interfaces")

UpdateNodes ==
    /\ At("updateNodes") /\ ~cancelled
    /\ nodes' = [p \in Pools |-> IF p \in Now.on /\ nodes[p] # 0 THEN cf[p].tmpl ELSE nodes[p]]
    /\ Proceed(<<>>) /\ SameAttempt
    /\ UNCHANGED <<cf, job, config, kube, karpenter, controllers, eksUp, volumes, bounds>>

\* Deletions; an object or a kind that does not exist is skipped.
DeleteObjects ==
    /\ At("deleteObjects") /\ (cancelled => Now.on = {})
    /\ kube' = [o \in Objects |-> IF o \in Now.on THEN 0 ELSE kube[o]]
    /\ Proceed(<<>>) /\ SameAttempt
    /\ UNCHANGED <<cf, job, config, nodes, karpenter, controllers, eksUp, volumes, bounds>>

\* Applier.Apply, which does not look at the context
ApplyObject ==
    /\ At("applyObject")
    /\ kube' = [o \in Objects |-> IF o \in Now.on THEN C.version ELSE kube[o]]
    /\ Proceed(<<>>) /\ SameAttempt
    /\ UNCHANGED <<cf, job, config, nodes, karpenter, controllers, eksUp, volumes, bounds>>

-----------------------------------------------------------------------------
(* Removed node pools: Reconcile of both provisioners *)

\* orphanedNodePoolStacks: the stacks tagged as node pools, as they are listed
\* now, whose pool is not configured
Orphaned == ListStacks(Pools) \ C.pools

Listed(S) == [s \in S |-> cf[s].st]

\* A bug: the stack is deleted before its pool is emptied.
DeleteThenEmpty(p) ==
    <<[Step("delete", {p}) EXCEPT !.listed = Listed({p})], Step("prepareForRemoval", {p})>>

RemovePool(p) ==
    <<Step("prepareForRemoval", {p}), [Step("delete", {p}) EXCEPT !.listed = Listed({p})]>>

Reconcile ==
    /\ At("reconcile") /\ ~cancelled
    /\ Proceed([i \in 1..(2 * Cardinality(Orphaned)) |->
                   RemovePool(SetToSeq(Orphaned)[(i + 1) \div 2])[IF i % 2 = 1 THEN 1 ELSE 2]])
    /\ SameAttempt /\ UNCHANGED <<cf, job, config, world, bounds>>

PrepareForRemoval ==
    /\ At("prepareForRemoval") /\ ~cancelled
    /\ nodes' = [p \in Pools |-> IF p \in Now.on THEN 0 ELSE nodes[p]]
    /\ Proceed(<<>>) /\ SameAttempt
    /\ UNCHANGED <<cf, job, config, kube, karpenter, controllers, eksUp, volumes, bounds>>

\* The objects of all Karpenter pools, applied like manifests
ApplyKarpenter ==
    /\ At("applyKarpenter") /\ (cancelled => Now.on = {})
    /\ karpenter' = [karpenter EXCEPT !.nodePools = @ \cup Now.on, !.nodeClasses = @ \cup Now.on]
    /\ Proceed(<<>>) /\ SameAttempt
    /\ UNCHANGED <<cf, job, config, nodes, kube, controllers, eksUp, volumes, bounds>>

\* The nodes whose label of the node pool has the empty value: a node that
\* Karpenter launched has the name of its pool there.
ObsoleteNodePools == {}

ReconcileKarpenter ==
    /\ ~cancelled
    /\ \/ /\ At("removeNodePools")
          /\ karpenter' = [karpenter EXCEPT !.nodePools = @ \cap C.karpenter]
       \/ /\ At("prepareObsolete")
          /\ karpenter' = [karpenter EXCEPT !.instances = @ \ ObsoleteNodePools]
       \/ /\ At("removeNodeClasses")
          /\ karpenter' = [karpenter EXCEPT !.nodeClasses = @ \cap C.karpenter]
    /\ Proceed(<<>>) /\ SameAttempt
    /\ UNCHANGED <<cf, job, config, nodes, kube, controllers, eksUp, volumes, bounds>>

-----------------------------------------------------------------------------
(* decommission *)

\* ZalandoEKSProvisioner.Decommission: without an EKS cluster there is nothing to do.
Details ==
    /\ At("details") /\ ~cancelled
    /\ IF eksUp THEN Proceed(<<>>) /\ SameAttempt ELSE Succeed
    /\ UNCHANGED <<cf, job, config, world, bounds>>

\* downscaleDeployments, five times; the code goes on when it fails
Downscale ==
    /\ At("downscale")
    /\ \/ ~cancelled /\ controllers' = FALSE /\ UNCHANGED faults
       \/ faults < MaxFaults /\ faults' = faults + 1 /\ UNCHANGED controllers
       \/ cancelled /\ UNCHANGED <<controllers, faults>>
    /\ Proceed(<<>>) /\ SameAttempt
    /\ UNCHANGED <<cf, job, config, nodes, kube, karpenter, eksUp, volumes, recreations>>

\* DecommissionKarpenterNodes: the instances are terminated once; then the code
\* waits until there is none, without a time limit, or goes on after an error.
Terminate ==
    /\ At("terminate") /\ ~cancelled
    /\ karpenter' = [karpenter EXCEPT !.instances = {}]
    /\ Proceed(<<>>) /\ SameAttempt
    /\ UNCHANGED <<cf, job, config, nodes, kube, controllers, eksUp, volumes, bounds>>

AwaitTerminated ==
    /\ At("awaitTerminated") /\ karpenter.instances = {} /\ ~cancelled
    /\ Proceed(<<>>) /\ SameAttempt
    /\ UNCHANGED <<cf, job, config, world, bounds>>

TerminateFails ==
    /\ At("terminate") \/ At("awaitTerminated")
    /\ \/ cancelled /\ UNCHANGED faults
       \/ faults < MaxFaults /\ faults' = faults + 1
    /\ todo' = IF At("terminate") THEN Tail(Tail(todo)) ELSE Tail(todo)
    /\ SameAttempt
    /\ UNCHANGED <<cf, job, config, world, recreations>>

\* A bug: stacks that somebody deletes already are not waited for.
NotDeleting == {s \in Owned : cf[s].st \notin {"NONE", "DELETE_IN_PROGRESS"}}

ClusterStacks == ListStacks(Owned)

\* deleteClusterStacks lists them and deletes all at once.
DeleteClusterStacks ==
    /\ At("deleteStacks") /\ ~cancelled
    /\ Proceed(<<[Step("deleteRound", ClusterStacks) EXCEPT !.listed = Listed(ClusterStacks)]>>)
    /\ SameAttempt /\ UNCHANGED <<cf, job, config, world, bounds>>

LastRound == rounds + 1 >= MaxRounds

\* A bug: the error of the last round is not looked at.
ForgetRound ==
    /\ At("stacksLeft") /\ ~cancelled
    /\ Proceed(IF ClusterStacks # {} /\ ~LastRound
               THEN <<Step("deleteStacks", {}), Step("stacksLeft", {})>> ELSE <<>>)
    /\ rounds' = rounds + 1
    /\ UNCHANGED <<applied, outcome, isNew, cancelled, roundFailed, cf, job, config, world, bounds>>

\* The loop: again while stacks are left, at most MaxRounds times; then only the
\* error of the last round counts.
StacksLeft ==
    /\ At("stacksLeft") /\ ~cancelled
    /\ IF ClusterStacks # {} /\ ~LastRound
       THEN /\ Proceed(<<Step("deleteStacks", {}), Step("stacksLeft", {})>>)
            /\ rounds' = rounds + 1
            /\ UNCHANGED <<applied, outcome, isNew, cancelled, roundFailed>>
       ELSE IF roundFailed THEN Fail
       ELSE Proceed(<<>>) /\ SameAttempt
    /\ UNCHANGED <<cf, job, config, world, bounds>>

\* removeEBSVolumes, tried for five minutes
RemoveVolumes ==
    /\ At("removeVolumes") /\ ~cancelled /\ volumes # "in-use"
    /\ volumes' = "none"
    /\ Proceed(<<>>) /\ SameAttempt
    /\ UNCHANGED <<cf, job, config, nodes, kube, karpenter, controllers, eksUp, bounds>>

-----------------------------------------------------------------------------
(* Failures, and everybody else *)

\* Any step but those that decommission does not insist on
StepFails ==
    /\ outcome = "active" /\ todo # <<>> /\ Idle
    /\ Now.do \notin {"downscale", "terminate", "awaitTerminated"}
    /\ \/ cancelled /\ UNCHANGED faults
       \/ ~Working /\ faults < MaxFaults /\ faults' = faults + 1
    /\ IF Now.do = "deleteStacks"
       THEN /\ roundFailed' = TRUE /\ Proceed(<<>>)
            /\ UNCHANGED <<applied, outcome, isNew, cancelled, rounds>>
       ELSE Fail
    /\ UNCHANGED <<cf, job, config, world, recreations>>

AnyJobFails ==
    /\ \E s \in Stack : JobFails(s)
    /\ \/ cancelled /\ UNCHANGED faults
       \/ faults < MaxFaults /\ faults' = faults + 1
    /\ UNCHANGED <<config, attempt, world, recreations>>

Crash ==
    /\ outcome = "active" /\ faults < MaxFaults
    /\ faults' = faults + 1
    /\ todo' = <<>> /\ outcome' = "failed" /\ job' = [s \in Stack |-> "idle"]
    /\ UNCHANGED <<cf, config, applied, isNew, cancelled, rounds, roundFailed, world, recreations>>

\* The controller cancels the attempt when the cluster changes in the registry.
Reconfigure ==
    /\ current < Len(plan) /\ ~plan[current].gone
    /\ current' = current + 1
    /\ \E c \in {cancelled, TRUE} : cancelled' = (c /\ outcome = "active")
    /\ UNCHANGED <<cf, job, provider, plan, applied, todo, outcome, isNew, rounds, roundFailed, world, bounds>>

CloudFormation ==
    /\ \E s \in Stack : StackProgresses(s)
    /\ StackEffects
    /\ UNCHANGED <<config, attempt, bounds>>

CloudFormationFails ==
    /\ faults < MaxFaults /\ faults' = faults + 1
    /\ \E s \in Stack : StackBreaks(s)
    /\ UNCHANGED <<config, attempt, world, recreations>>

EksDeleted ==
    /\ eksUp /\ cf[MainStack].st = "DELETE_IN_PROGRESS"
    /\ eksUp' = FALSE
    /\ UNCHANGED <<cf, job, config, attempt, nodes, kube, karpenter, controllers, volumes, bounds>>

\* The instances of a pool start; a pod of the cluster uses a volume.
PoolStarts(p) ==
    /\ nodes[p] = 0 /\ cf[p].st \in Complete /\ p \in C.pools
    /\ nodes' = [nodes EXCEPT ![p] = cf[p].tmpl] /\ volumes' = "in-use"
    /\ UNCHANGED <<cf, job, config, attempt, kube, karpenter, controllers, eksUp, bounds>>

VolumesDetach ==
    /\ volumes = "in-use" /\ \A p \in Pools : nodes[p] = 0
    /\ volumes' = "available"
    /\ UNCHANGED <<cf, job, config, attempt, nodes, kube, karpenter, controllers, eksUp, bounds>>

\* A controller in the cluster creates the stack of a load balancer.
IngressCreates(s) ==
    /\ controllers /\ ~Exists(s) /\ cf[MainStack].st \in Complete
    /\ recreations < MaxRecreations /\ recreations' = recreations + 1
    /\ cf' = [cf EXCEPT ![s] = [NoStack EXCEPT !.st = "CREATE_COMPLETE", !.tmpl = 1]]
    /\ UNCHANGED <<job, config, attempt, world, faults>>

KarpenterLaunches(k) ==
    /\ controllers /\ k \in karpenter.nodePools \ karpenter.instances
    /\ Replaces \/ ~plan[current].gone
    /\ recreations < MaxRecreations /\ recreations' = recreations + 1
    /\ karpenter' = [karpenter EXCEPT !.instances = @ \cup {k}]
    /\ UNCHANGED <<cf, job, config, attempt, nodes, kube, controllers, eksUp, volumes, faults>>

-----------------------------------------------------------------------------
Init ==
    /\ cf = [s \in Stack |-> NoStack] /\ job = [s \in Stack |-> "idle"]
    /\ \E sc \in Scenarios : provider = sc.provider /\ plan = sc.plan
    /\ current = 1 /\ applied = 1 /\ todo = <<>> /\ outcome = "failed" /\ isNew = TRUE
    /\ cancelled = FALSE /\ rounds = 0 /\ roundFailed = FALSE
    /\ nodes = [p \in Pools |-> 0] /\ kube = [o \in Objects |-> 0]
    /\ karpenter = [nodePools |-> {}, nodeClasses |-> {}, instances |-> {}]
    /\ controllers = TRUE /\ eksUp = FALSE /\ volumes = "none"
    /\ faults = 0 /\ recreations = 0

Attempt ==
    \/ Start \/ End \/ BeginJobs \/ RunJob \/ EndJobs \/ Prepare \/ CreationHook
    \/ WaitForAPIServer \/ DeleteLeakedENIs \/ UpdateNodes
    \/ DeleteObjects \/ ApplyObject \/ Reconcile \/ PrepareForRemoval \/ ApplyKarpenter
    \/ ReconcileKarpenter \/ Details \/ Downscale \/ Terminate \/ AwaitTerminated
    \/ DeleteClusterStacks \/ StacksLeft \/ RemoveVolumes

Gives == (cancelled /\ (StepFails \/ AnyJobFails \/ TerminateFails))

Next ==
    \/ Attempt \/ StepFails \/ AnyJobFails \/ TerminateFails \/ Crash \/ Reconfigure
    \/ CloudFormation \/ CloudFormationFails \/ EksDeleted \/ VolumesDetach
    \/ (\E p \in Pools : PoolStarts(p))
    \/ (\E s \in IngressStacks : IngressCreates(s))
    \/ (\E k \in KarpenterPools : KarpenterLaunches(k))

Spec == Init /\ [][Next]_vars

\* The process runs, CloudFormation finishes what it began, volumes are
\* detached from instances that are gone, and the channel's configuration is
\* the last one at some time.
FairSpec ==
    /\ Spec /\ WF_vars(Attempt) /\ WF_vars(Gives) /\ WF_vars(CloudFormation)
    /\ WF_vars(VolumesDetach) /\ WF_vars(Reconfigure)

-----------------------------------------------------------------------------
(* Properties *)

Wanted == {MainStack} \cup Range(InfraStacks) \cup (C.pools \ (IF provider = "aws" THEN {} ELSE Masters))
          \cup (IF provider = "aws" THEN {EtcdStack} ELSE {})

\* When provision returns no error, every stack of the configuration has its
\* template, is complete and protected, no other pool has a stack, the nodes run
\* the template (unless the cluster is new), and the cluster's objects are
\* those of the manifests, without the ones deleted after them.
SuccessMeansCurrent ==
    outcome = "provisioned" =>
        /\ \A s \in Wanted : cf[s].st \in Complete /\ cf[s].tmpl = C.version /\ cf[s].protected
        /\ \A p \in Pools : Exists(p) => p \in C.pools
        /\ isNew \/ \A p \in C.pools : nodes[p] \in {0, C.version}
        /\ \A o \in Objects :
              /\ o \in C.objects \ C.postDelete => kube[o] = C.version
              /\ o \in C.postDelete => kube[o] = 0
        /\ karpenter.nodePools = C.karpenter

\* When Decommission returns no error and the controllers of the cluster had
\* been stopped, no stack of the cluster is left, and no volume.
NothingLeft ==
    outcome = "decommissioned" /\ ~controllers =>
        /\ \A s \in Owned \cup {MainStack} : ~Exists(s)
        /\ volumes = "none"

\* The same of zalando-aws clusters only.
NothingLeftOnAWS == provider = "aws" => NothingLeft

\* DeleteStack reports a stack as deleted only if it is, whatever the clocks say
\* and however long CloudFormation takes to begin.
DeletedStep == \A s \in Stack : job[s] \in Deleting /\ job'[s] = "ok" => ~Exists(s)
DeletedIsGone == [][DeletedStep]_vars

Requested(s) == ~cf[s].requested /\ cf'[s].requested

\* While a cluster is provisioned, of the pools' stacks only those are deleted
\* that are not configured (or that the deletions name), and only when the pool
\* has no node any more.
EmptyPoolStep ==
    \A p \in Pools \ (C.preStacks \cup C.postStacks) :
        Requested(p) /\ ~C.gone => p \notin C.pools /\ nodes[p] = 0
OnlyEmptyPoolsRemoved == [][EmptyPoolStep]_vars

\* The main stack goes last: its deletion is requested when no other stack of
\* the cluster is left, unless the cluster's controllers still create some.
MainStackStep == Requested(MainStack) /\ ~controllers => \A s \in Owned : ~Exists(s)
MainStackLast == [][MainStackStep]_vars

\* When nothing fails any more, some attempt succeeds for the last configuration.
Converges == <>[](applied = Len(plan) /\ outcome \in {"provisioned", "decommissioned"})

=============================================================================
