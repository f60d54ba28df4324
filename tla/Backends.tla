------------------------------ MODULE Backends ------------------------------
(***************************************************************************)
(* What the backends of node pools find out about instances: which of them *)
(* belong to a pool, which are outdated and which are ready; for auto      *)
(* scaling groups and for the instances and node claims of Karpenter.      *)
(* Module NodePool models how the result is used.  Also the data of        *)
(* instance types.                                                         *)
(*                                                                         *)
(* Tags, annotations and labels are partial functions.                     *)
(***************************************************************************)
EXTENDS Networks

Carries(f, k, v) == k \in DOMAIN f /\ f[k] = v

-----------------------------------------------------------------------------
(* ProfileNodePoolProvisioner: every operation goes to the backend of the  *)
(* profile or to the default one.                                          *)

BackendOf(mapping, default, profile) ==
    IF profile \in DOMAIN mapping THEN mapping[profile] ELSE default

\* The mapping of provision
Backend(profile) == BackendOf([p \in {"worker-karpenter"} |-> "ec2"], "asg", profile)

-----------------------------------------------------------------------------
(* Auto scaling groups *)

asgHasAllTags(expected, tags) == \A k \in DOMAIN expected : Carries(tags, k, expected[k])

getNodePoolASGs(groups, cluster, pool) ==
    LET found == {g \in groups : asgHasAllTags([cluster |-> cluster, pool |-> pool], g.tags)}
    IN  IF found = {} THEN Fails ELSE Ok(found)

\* The launch parameters of a group: from its mixed instances policy, or else
\* from its template.  A dynamic version is refused.
asgLaunchParameters(group, templates) ==
    LET named == IF group.mixed THEN group.policy ELSE group.template
    IN  CASE group.mixed /\ (group.onDemandBase # 0 \/ group.onDemandPercent \notin {0, 100}) -> Fails
          [] ~group.mixed /\ named \notin DOMAIN templates -> Fails
          [] named.version \in {"", "$Latest"} -> Fails
          [] group.mixed -> Ok([template |-> named, types |-> group.overrides, spot |-> group.onDemandPercent = 0])
          [] OTHER -> Ok([template |-> named, types |-> {templates[named].type}, spot |-> templates[named].spot])

\* A bug: only the launch template is compared.
TemplateOnly(group, templates, ec2) ==
    LET p == asgLaunchParameters(group, templates)
    IN  IF group.instances = {} THEN Ok({})
        ELSE IF ~p.ok THEN Fails
        ELSE Ok({i \in group.instances : i.template # p.val.template})

\* Instances of another template, or whose type or market is no longer wanted.
\* An instance that EC2 does not list any more is judged by its template only.
getInstancesToUpdate(group, templates, ec2) ==
    LET p == asgLaunchParameters(group, templates)
    IN  IF group.instances = {} THEN Ok({})
        ELSE IF ~p.ok THEN Fails
        ELSE Ok({i \in group.instances :
                    \/ i.template # p.val.template
                    \/ i.id \in ec2 /\ (i.type \notin p.val.types \/ i.spot # p.val.spot)})

\* The instances of the load balancers of a group; in service in all of them or
\* not ready.  Each load balancer is the function from its instances to their
\* state.
AddBalancer(ready, b) ==
    [id \in DOMAIN ready \cup DOMAIN b |->
        IF id \notin DOMAIN b \/ (id \in DOMAIN ready /\ ~ready[id]) THEN ready[id]
        ELSE b[id] = "InService"]

getLoadBalancerAttachedInstancesReadiness(balancers) == FoldLeft(AddBalancer, [id \in {} |-> TRUE], balancers)

Nodes(group, old, readiness) ==
    {[id |-> i.id, zone |-> i.zone, outdated |-> i \in old,
      ready |-> i.health = "Healthy" /\ i.state = "InService" /\ (i.id \in DOMAIN readiness => readiness[i.id])]
        : i \in group.instances}

ASGGet(groups, cluster, pool, templates, ec2, balancers) ==
    LET found == getNodePoolASGs(groups, cluster, pool)
        Old(g) == getInstancesToUpdate(g, templates, ec2)
    IN  IF ~found.ok \/ (\E g \in found.val : ~Old(g).ok) THEN Fails
        ELSE Ok([min |-> MapThenSumSet(LAMBDA g : g.min, found.val),
                 nodes |-> UNION {Nodes(g, Old(g).val, getLoadBalancerAttachedInstancesReadiness(balancers)) : g \in found.val}])

\* The prefix of the provider ID is cut off: without the zone the ID stays whole.
ProviderID(i) == [zone |-> i.zone, id |-> i.id]
instanceIDFromProviderID(provider, zone) == IF provider.zone = zone THEN <<provider.id>> ELSE <<provider.zone, provider.id>>

\* One try of terminateAsgInstance, from the state of the instance: what AWS is
\* told and whether the tries end.
terminateAsgInstance(state) ==
    CASE state = "running" -> [terminate |-> TRUE, done |-> FALSE]
      [] state \in {"terminated", "stopped", "unknown"} -> [terminate |-> FALSE, done |-> TRUE]
      [] OTHER -> [terminate |-> FALSE, done |-> FALSE]

\* Terminate after the minimum was lowered: the states that the tries find
TerminateTry(r, state) ==
    IF r.done THEN r
    ELSE LET t == terminateAsgInstance(state)
         IN  [done |-> t.done, calls |-> r.calls + (IF t.terminate THEN 1 ELSE 0), last |-> state]

TerminateTries(states) == FoldLeft(TerminateTry, [done |-> FALSE, calls |-> 0, last |-> "running"], states)

-----------------------------------------------------------------------------
(* Karpenter's pools, from their instances *)

Base64(text) == <<"base64", text>>
NoClass == [userData |-> "", amis |-> <<>>, tags |-> [k \in {} |-> ""]]

filterWithNodePool(i, cluster, pool) == i.cluster = cluster /\ i.pool = pool

getInstances(instances, cluster, pool) ==
    {i \in instances : filterWithNodePool(i, cluster, pool) /\ i.state \in {"running", "pending", "stopped"}}

getAMIsFromSpec(class) == Range(class.amis) \ {""}

\* "found" is the node class, or nothing: then every instance is outdated.
NodePoolConfigGetter(found) ==
    LET class == IF found = <<>> THEN NoClass ELSE found[1]
    IN  [userData |-> Base64(class.userData), imageID |-> getAMIsFromSpec(class), tags |-> class.tags]

getInstanceConfig(i) == [userData |-> i.userData, imageID |-> i.ami, tags |-> i.tags]

InstanceConfigUpToDate(instance, pool) ==
    /\ instance.userData = pool.userData
    /\ instance.imageID \in (IF pool.imageID = {} THEN {""} ELSE pool.imageID)
    /\ \A k \in DOMAIN pool.tags : Carries(instance.tags, k, pool.tags[k])

\* Karpenter's drift detection is used for two families of images.
EC2Nodes(instances, cluster, pool, class) ==
    {[id |-> i.id, outdated |-> ~InstanceConfigUpToDate(getInstanceConfig(i), NodePoolConfigGetter(class))] :
        i \in getInstances(instances, cluster, pool.name)}

-----------------------------------------------------------------------------
(* Karpenter's pools, from the objects in Kubernetes *)

hasHashMismatch(claim, source, hash, version) ==
    /\ hash \in DOMAIN source /\ hash \in DOMAIN claim
    /\ source[hash] # "" /\ claim[hash] # ""
    /\ \/ source[hash] # claim[hash]
       \/ version \in DOMAIN source /\ version \in DOMAIN claim /\ source[version] # claim[version]

isNodeClaimBehindObservedTemplates(claim, pool, class) ==
    \/ hasHashMismatch(claim.annotations, pool, "poolHash", "poolVersion")
    \/ hasHashMismatch(claim.annotations, class, "classHash", "classVersion")

\* The names of the claims that are behind, and of their nodes
nodeClaimDriftMaps(claims, pool, class) ==
    LET behind == {c \in claims : c.drifted \/ isNodeClaimBehindObservedTemplates(c, pool, class)}
    IN  [claims |-> {c.name : c \in behind}, nodes |-> {c.node : c \in behind} \ {""}]

nodeClaimNameFromOwnerReferences(node) ==
    LET refs == {i \in DOMAIN node.owners : node.owners[i].kind = "NodeClaim" /\ node.owners[i].name # ""}
    IN  IF refs = {} THEN <<>> ELSE <<node.owners[Min(refs)].name>>

nodeFailureDomain(node) ==
    CASE "topology" \in DOMAIN node.labels -> node.labels["topology"]
      [] "beta" \in DOMAIN node.labels -> node.labels["beta"]
      [] OTHER -> ""

\* The pool object and its node class must exist; nodes without an instance are
\* left out.
GetUsingKubernetesObjects(found, nodes, claims) ==
    IF found.pool = <<>> \/ found.class = <<>> THEN Fails
    ELSE LET drift == nodeClaimDriftMaps(claims, found.pool[1], found.class[1])
         IN  Ok({[id |-> n.name, zone |-> nodeFailureDomain(n),
                  outdated |-> n.name \in drift.nodes \/ Range(nodeClaimNameFromOwnerReferences(n)) \cap drift.claims # {}]
                    : n \in {m \in nodes : m.provider}})

-----------------------------------------------------------------------------
(* Instance types: an answer of EC2 has disks, architectures and sizes *)

getCompatibleCPUArchitecture(info) ==
    CASE "x86_64" \in info.archs -> Ok("amd64")
      [] "arm64" \in info.archs -> Ok("arm64")
      [] OTHER -> Fails

\* Types of other architectures are skipped; several sets of disks are an error.
NewInstanceTypesFromAWS(answers) ==
    IF \E i \in DOMAIN answers : Len(answers[i].disks) > 1 THEN Fails
    ELSE LET used == {a \in Range(answers) : getCompatibleCPUArchitecture(a).ok}
         IN  Ok([t \in {a.type : a \in used} |->
                    LET a == CHOOSE a \in used : a.type = t
                        disk == IF a.disks = <<>> THEN [count |-> 0, size |-> 0] ELSE a.disks[1]
                    IN  [vcpu |-> a.vcpu, memory |-> a.memory, devices |-> disk.count,
                         deviceSize |-> disk.size, arch |-> getCompatibleCPUArchitecture(a).val]])

InstanceInfo(types, t) == IF t \in DOMAIN types THEN Ok(types[t]) ELSE Fails

\* The smallest of each size, and the architecture of the first type
SyntheticInstanceInfo(types, list) ==
    IF list = <<>> \/ \E i \in DOMAIN list : ~InstanceInfo(types, list[i]).ok THEN Fails
    ELSE LET Smallest(Size(_)) == Min({Size(types[t]) : t \in Range(list)})
         IN  Ok([vcpu |-> Smallest(LAMBDA i : i.vcpu), memory |-> Smallest(LAMBDA i : i.memory),
                 devices |-> Smallest(LAMBDA i : i.devices), deviceSize |-> Smallest(LAMBDA i : i.deviceSize),
                 arch |-> types[list[1]].arch])

\* Factors are percentages here.
AvailableStorage(i, factor, root, rootFactor) ==
    IF i.devices = 0 THEN (root * rootFactor) \div 100 ELSE (factor * i.devices * i.deviceSize) \div 100

MemoryFraction(i, percent) == (percent * i.memory) \div 100

-----------------------------------------------------------------------------
(* What these results must satisfy *)

\* Terminate returns without an error only when the instance has ended, and an
\* instance that was found running has been told to; the node is terminated by
\* the ID of its own instance.
Terminated(states) ==
    LET r == TerminateTries(states)
    IN  /\ r.done => r.last \in {"terminated", "stopped", "unknown"}
        /\ "running" = Head(states) => r.calls > 0
        /\ \A n \in {[id |-> 1, zone |-> 1], [id |-> 2, zone |-> 1]} :
              instanceIDFromProviderID(ProviderID(n), n.zone) = <<n.id>>

\* AWS and Karpenter launch an instance from what is configured at that time.
LaunchedASG(id, group, templates) ==
    LET p == asgLaunchParameters(group, templates).val
    IN  {[id |-> id, template |-> p.template, type |-> t, spot |-> p.spot] : t \in p.types}

LaunchedEC2(id, class, cluster, pool) ==
    {[id |-> id, state |-> "running", cluster |-> cluster, pool |-> pool, userData |-> Base64(class.userData),
      ami |-> a, tags |-> class.tags] : a \in getAMIsFromSpec(class)}

\* An instance is outdated exactly if what is configured now could not have
\* launched it: an instance that is launched now is not replaced again, and one
\* launched from what was configured before is.
OutdatedASG(before, now, templates) ==
    asgLaunchParameters(before, templates).ok /\ asgLaunchParameters(now, templates).ok =>
        \A i \in LaunchedASG(1, before, templates) :
            LET old == getInstancesToUpdate([now EXCEPT !.instances = {i}], templates, {1})
                same == [i EXCEPT !.id = 1] \in LaunchedASG(1, now, templates)
            IN  old.ok /\ (i \in old.val <=> ~same)

\* The nodes of a pool are the instances of all its groups and of no other; one
\* that any load balancer has out of service is not ready.
NodesOfPool(groups, balancers) ==
    LET r == ASGGet(groups, "c", "p", [v \in {} |-> 0], {}, balancers)
        mine == {g \in groups : g.tags = [cluster |-> "c", pool |-> "p"]}
    IN  /\ r.ok <=> mine # {}
        /\ r.ok => /\ {n.id : n \in r.val.nodes} = {i.id : i \in UNION {g.instances : g \in mine}}
                   /\ r.val.min = 2 * Cardinality(mine)
                   /\ \A n \in r.val.nodes : n.ready =>
                          \A b \in Range(balancers) : n.id \in DOMAIN b => b[n.id] = "InService"

\* The same for Karpenter's instances, except that removed tags are not noticed,
\* and without a node class every instance is outdated.
OutdatedEC2(before, now) ==
    LET nodes(class) == EC2Nodes(LaunchedEC2(1, before, 1, 1), 1, [name |-> 1, items |-> [k \in {} |-> ""]], class)
        SameBut(class, i) == [i EXCEPT !.tags = class.tags] \in LaunchedEC2(1, class, 1, 1)
                             /\ \A k \in DOMAIN class.tags : Carries(i.tags, k, class.tags[k])
    IN  /\ \A n \in nodes(<<>>) : n.outdated
        /\ \A i \in LaunchedEC2(1, before, 1, 1) :
              LET n == EC2Nodes({i}, 1, [name |-> 1, items |-> [k \in {} |-> ""]], <<now>>)
              IN  n = {[id |-> 1, outdated |-> ~SameBut(now, i)]}

\* A new claim has the hashes of its pool and class; a node is outdated when one
\* of them changed since, or Karpenter found that it drifted, whether or not the
\* claim has the name of its node yet.
OutdatedClaims(before, now, drifted, named, owned) ==
    LET claim == [name |-> "claim", node |-> IF named THEN "node" ELSE "", drifted |-> drifted,
                  annotations |-> [k \in DOMAIN before.pool \cup DOMAIN before.class |->
                                      IF k \in DOMAIN before.pool THEN before.pool[k] ELSE before.class[k]]]
        node == [name |-> "node", provider |-> TRUE, labels |-> [l \in {} |-> ""],
                 owners |-> IF owned THEN <<[kind |-> "NodeClaim", name |-> "claim"]>> ELSE <<>>]
        r == GetUsingKubernetesObjects([pool |-> <<now.pool>>, class |-> <<now.class>>], {node}, {claim})
        changed == before.pool["poolHash"] # now.pool["poolHash"] \/ before.class["classHash"] # now.class["classHash"]
                   \/ before.pool["poolVersion"] # now.pool["poolVersion"]
    IN  r.ok /\ (named \/ owned => \A n \in r.val : n.outdated = (drifted \/ changed))

\* What several instance types have in common is available on each of them.
CommonToAll(types, list) ==
    LET r == SyntheticInstanceInfo(types, list)
    IN  r.ok => \A t \in Range(list) :
                    /\ r.val.vcpu <= types[t].vcpu /\ r.val.memory <= types[t].memory
                    /\ r.val.devices * r.val.deviceSize <= types[t].devices * types[t].deviceSize
                    /\ MemoryFraction(r.val, 50) <= MemoryFraction(types[t], 50)
                    /\ r.val.devices > 0 => AvailableStorage(r.val, 95, 40, 50) <= AvailableStorage(types[t], 95, 40, 50)
=============================================================================
