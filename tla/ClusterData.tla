---------------------------- MODULE ClusterData ----------------------------
(***************************************************************************)
(* The data of clusters: how the registry's clusters become the list that  *)
(* the controller works on, the version of a cluster, and the config items *)
(* and settings that provisioning derives from them.                       *)
(*                                                                         *)
(* A string is a sequence of letters where its length matters, and a value *)
(* otherwise.  Config items are functions from keys to values.             *)
(***************************************************************************)
EXTENDS Networks

NoItems == [k \in {} |-> 0]
Has(items, k) == k \in DOMAIN items
Over(f, g) == [k \in DOMAIN f \cup DOMAIN g |-> IF Has(f, k) THEN f[k] ELSE g[k]]

-----------------------------------------------------------------------------
(* Version: everything is written one after the other and hashed. *)

\* A key is a string of one letter.
ItemsState(items) ==
    LET keys == SetToSortSeq(DOMAIN items, <)
    IN  FlattenSeq([i \in DOMAIN keys |-> <<keys[i]>> \o items[keys[i]]])

PoolState(p) ==
    p.name \o p.profile \o FlattenSeq(p.instanceTypes) \o p.discountStrategy
    \o <<p.minSize, p.maxSize>> \o ItemsState(p.items)

\* The fields of a cluster that its version depends on, and those that are taken
\* from the registry without being part of it.
VersionFields ==
    <<"id", "infrastructureAccount", "localID", "apiServerURL", "channel", "environment",
      "criticalityLevel", "lifecycleStatus", "provider", "region">>
OtherFields == {"alias", "owner", "accountName"}

VersionState(cluster) ==
    FlattenSeq([i \in DOMAIN VersionFields |-> cluster.fields[VersionFields[i]]])
    \o ItemsState(cluster.items)
    \o FlattenSeq([i \in DOMAIN cluster.pools |-> PoolState(cluster.pools[i])])

-----------------------------------------------------------------------------
(* The registry's clusters *)

Includes(filter, c) == filter = {} \/ c.provider \in filter

convertFromNodePoolModel(p) ==
    IF p.instanceTypes = <<>> /\ p.profile # "worker-karpenter" THEN Fails
    ELSE Ok([profile |-> p.profile,
             instanceType |-> IF p.instanceTypes = <<>> THEN "" ELSE p.instanceTypes[1]])

\* A pointer is a sequence of at most one value.
convertFromProblemModel(p) == [title |-> p.title[1], type |-> p.type[1], detail |-> p.detail]
convertToProblemModel(p) == [title |-> <<p.title>>, type |-> <<p.type>>, detail |-> p.detail]

convertFromClusterStatusModel(st) ==
    [st EXCEPT !.problems = [i \in DOMAIN @ |-> convertFromProblemModel(@[i])]]
convertToClusterStatusModel(st) ==
    [st EXCEPT !.problems = [i \in DOMAIN @ |-> convertToProblemModel(@[i])]]

convertFromClusterModel(c) ==
    LET pools == EachItem(c.pools, convertFromNodePoolModel)
    IN  IF ~pools.ok THEN Fails
        ELSE Ok([id |-> c.id, account |-> c.account, region |-> c.region, status |-> c.status,
                 versions |-> convertFromClusterStatusModel(c.versions),
                 provider |-> c.provider, owner |-> "", oidc |-> <<>>, trust |-> {},
                 pools |-> pools.val])

\* The issuer of an EKS cluster is one of its config items; any other cluster is
\* its own, in the hosted zone.
OIDCProvider(c) == IF c.provider = "eks" THEN <<"issuer", c.id>> ELSE <<"zone", c.id>>

Ready(cs) == SelectSeq(cs, LAMBDA c : c.status = "ready")

\* The ready clusters of the account with the providers they have at that time
trustRelationship(cs) == {<<Ready(cs)[i].id, Ready(cs)[i].oidc>> : i \in DOMAIN Ready(cs)}

Put(cs, i, c) == [j \in DOMAIN cs |-> IF j = i THEN c ELSE cs[j]]

\* InitOIDCProvider of the i-th cluster of the list
InitOIDCProvider(cs, i) ==
    LET c == [cs[i] EXCEPT !.oidc = OIDCProvider(cs[i])]
        account == SelectSeq(Put(cs, i, c), LAMBDA d : d.account = c.account)
    IN  Put(cs, i, [c EXCEPT !.trust = trustRelationship(account)])

\* A bug: the order of the answer is kept.
AsAnswered(items) == items

ByCreation(items) == SortSeq(items, LAMBDA a, b : a.created < b.created)

\* The owners of the accounts that are ready
getReadyInfrastructureAccounts(accounts) ==
    [a \in {b.id : b \in {c \in accounts : c.status = "ready"}} |->
        (CHOOSE b \in accounts : b.id = a).owner]

\* items and accounts: the answers of the registry
ListClusters(items, filter, accounts) ==
    LET owners == getReadyInfrastructureAccounts(accounts)
        included == SelectSeq(ByCreation(items), LAMBDA c : Includes(filter, c))
        converted == EachItem(included, convertFromClusterModel)
        owned(c) == IF Has(owners, c.account) THEN [c EXCEPT !.owner = owners[c.account]] ELSE c
        list == [i \in DOMAIN converted.val |-> owned(converted.val[i])]
    IN  IF ~converted.ok THEN Fails
        ELSE Ok(FoldLeft(InitOIDCProvider, list, [i \in DOMAIN list |-> i]))

AccountClusters(list, c) == SelectSeq(list, LAMBDA d : d.account = c.account)

\* The creation time is not taken over by the conversion: the first one wins.
SiblingCluster(list, c) ==
    SelectSeq(AccountClusters(list, c),
              LAMBDA d : d.id # c.id /\ d.region = c.region /\ d.status = "ready")

IsOldestReadyClusterInTheRegion(list, c) ==
    LET ready == SelectSeq(AccountClusters(list, c), LAMBDA d : d.status = "ready" /\ d.region = c.region)
    IN  IF ready # <<>> THEN ready[1].id = c.id ELSE AccountClusters(list, c) = <<>>

\* The registry replaces what the request holds: the status, and the versions and
\* problems with it.  A version that is empty is not in the request.
UpdateLifecycleStatus(item, c) ==
    [item EXCEPT !.status = c.status, !.versions = convertToClusterStatusModel(c.versions)]

\* The answers to the calls for each item: "ok", "failed", or "lost" if the
\* registry stored the item and the answer was lost.
UpdateConfigItems(local, keys, answers) ==
    LET sent == {i \in DOMAIN keys : \A j \in 1..(i - 1) : answers[j] = "ok"}
    IN  [local |-> local \cup {keys[i] : i \in {j \in sent : answers[j] = "ok"}},
         stored |-> {keys[i] : i \in {j \in sent : answers[j] # "failed"}},
         ok |-> \A i \in DOMAIN keys : answers[i] = "ok"]

-----------------------------------------------------------------------------
(* The registry in a file.  held is the list of the last file that was read, a *)
(* global variable: a file without the key leaves it.                          *)

FileListClusters(held, file) ==
    LET next == IF file.ok /\ file.val.keyed THEN file.val.clusters ELSE held
        pools(c) == EachItem(c.pools, convertFromNodePoolModel)
        list == [i \in DOMAIN next |-> [next[i] EXCEPT !.pools = pools(next[i]).val]]
    IN  IF ~file.ok \/ \E i \in DOMAIN next : ~pools(next[i]).ok THEN [held |-> next, result |-> Fails]
        ELSE [held |-> next,
              result |-> Ok(FoldLeft(InitOIDCProvider, list, [i \in DOMAIN list |-> i]))]

\* The file is not written: only the caller's copy of the cluster changes.
FileUpdateLifecycleStatus(held, c) == \E i \in DOMAIN held : held[i].id = c.id
FileUpdateConfigItems(held, c, items) ==
    IF \E i \in DOMAIN held : held[i].id = c.id THEN Ok(Over(items, c.items)) ELSE Fails

\* setupAWSAdapter: the account of the cluster, such as <<"aws", 7>>, the role
\* that is assumed in it, and the account that AWS says the credentials are of
setupAWSAdapter(account, role, effective) ==
    IF Len(account) # 2 \/ account[1] # "aws" THEN Fails
    ELSE IF effective # account[2] THEN Fails     \* VerifyAccount
    ELSE Ok([account |-> effective, role |-> IF role = "" THEN <<>> ELSE <<account[2], role>>])

-----------------------------------------------------------------------------
(* Config items.  A value <<"secret", v>> is encrypted, <<"bad", v>> cannot be *)
(* decrypted.                                                                *)

AllDefaults(files) == FoldLeft(LAMBDA all, file : Over(file, all), NoItems, files)

updateDefaults(items, files) == Over(items, AllDefaults(files))

decryptConfigItems(items) ==
    IF \E k \in DOMAIN items : items[k][1] = "bad" THEN Fails
    ELSE Ok([k \in DOMAIN items |-> <<"plain", items[k][2]>>])

propagateConfigItemsToNodePools(items, poolItems) == Over(poolItems, items)

applyDefaultsToManifests(items, poolItems, files) ==
    LET all == decryptConfigItems(updateDefaults(items, files))
    IN  IF ~all.ok THEN Fails
        ELSE Ok([cluster |-> all.val, pool |-> propagateConfigItemsToNodePools(all.val, poolItems)])

DrainSettings == {"grace_period", "min_pod_lifetime", "min_healthy_sibling_lifetime",
                  "min_unhealthy_sibling_lifetime", "force_evict_interval", "poll_interval"}

\* A duration that cannot be parsed is -1.
updater(global, items) ==
    LET strategy == IF Has(items, "update_strategy") THEN items["update_strategy"] ELSE global.strategy
        set == DrainSettings \cap DOMAIN items
    IN  IF \/ \E s \in set : items[s] = -1
           \/ strategy \notin {"rolling", "clc"} THEN Fails
        ELSE Ok([strategy |-> strategy,
                 drain |-> [s \in DrainSettings |-> IF s \in set THEN items[s] ELSE global.drain[s]]])

-----------------------------------------------------------------------------
(* Node pools: [profile, dedicated (the label, "" if absent), taint (the group *)
(* its dedicated taint names, "none" or "other"), zones: restricted to some]   *)

IsMaster(p) == p.profile = "master-default"
IsKarpenter(p) == p.profile = "worker-karpenter"

KarpenterPools(pools) == SelectSeq(pools, IsKarpenter)
ASGBackedPools(pools) == SelectSeq(pools, LAMBDA p : ~IsKarpenter(p))

groupNodePools(pools) ==
    [masters |-> SelectSeq(pools, IsMaster),
     karpenterPools |-> SelectSeq(pools, LAMBDA p : ~IsMaster(p) /\ IsKarpenter(p)),
     workers |-> SelectSeq(pools, LAMBDA p : ~IsMaster(p) /\ ~IsKarpenter(p))]

\* The pools of a group: "" has those without a label and without any taint.
groupNodePoolsByPurpose(pools, group) ==
    SelectSeq(pools, LAMBDA p : ~IsMaster(p) /\ p.dedicated = group /\ (group = "" => p.taint = "none"))

poolsDistributed(pools, group) ==
    pools # <<>> /\ \A i \in DOMAIN pools :
        /\ group # "" => pools[i].taint = group
        /\ ~pools[i].zones /\ pools[i].profile \in {"worker-splitaz", "worker-karpenter"}

zoneDistributedNodePoolGroups(pools) ==
    {g \in {p.dedicated : p \in Range(pools)} : poolsDistributed(groupNodePoolsByPurpose(pools, g), g)}

nodeLifeCycleProvider(pools, group) ==
    LET profiles == {p.profile : p \in Range(groupNodePoolsByPurpose(pools, group))}
    IN  IF profiles = {"worker-karpenter"} THEN "karpenter"
        ELSE IF profiles \in {{"worker-combined"}, {"worker-splitaz"}} THEN "zalando" ELSE ""

-----------------------------------------------------------------------------
(* The commands provision and decommission of the command line.  A cluster: its *)
(* account, provider and items, whether its configuration can be checked out,   *)
(* and whether the provisioner succeeds with it.                                *)

\* The accounts that match the two expressions of the filter; exclude wins.
Allowed(filter, account) == account \notin filter.exclude /\ account \in filter.include

Provisioners == {"aws", "eks"}

\* One cluster after the other, until something fails and ends the process
\* (log.Fatalf); the lifecycle status is not looked at.
RunCommand(clusters, filter) ==
    LET RunFor(r, c) ==
            IF r.fatal \/ ~Allowed(filter, c.account) THEN r
            ELSE IF ~c.config \/ ~decryptConfigItems(c.items).ok \/ c.provider \notin Provisioners
            THEN [r EXCEPT !.fatal = TRUE]
            ELSE [tried |-> Append(r.tried, c.id), fatal |-> ~c.works]
    IN  FoldLeft(RunFor, [tried |-> <<>>, fatal |-> FALSE], clusters)

-----------------------------------------------------------------------------
(* What these results must satisfy *)

Edits(c) ==
    {[c EXCEPT !.fields[f] = <<9>> \o @] : f \in Range(VersionFields)}
    \cup {[c EXCEPT !.items = Over([k \in {9} |-> v], @)] : v \in {<<>>, <<1>>}}
    \cup {[c EXCEPT !.items[k] = @ \o <<9>>] : k \in DOMAIN c.items}
    \cup UNION {{[c EXCEPT !.pools[i].items = Over([k \in {9} |-> <<>>], @)],
                 [c EXCEPT !.pools[i].name = @ \o <<9>>],
                 [c EXCEPT !.pools[i].profile = @ \o <<9>>],
                 [c EXCEPT !.pools[i].discountStrategy = @ \o <<9>>],
                 [c EXCEPT !.pools[i].minSize = @ + 1],
                 [c EXCEPT !.pools[i].maxSize = @ + 1],
                 [c EXCEPT !.pools[i].instanceTypes = Append(@, <<8>>)]} : i \in DOMAIN c.pools}

\* Every single edit of what the version is made of gives the cluster another one: it
\* is updated.  An edit of its alias, its owner or the name of its account does not.
EditsNoticed(c) ==
    /\ \A d \in Edits(c) : VersionState(d) # VersionState(c)
    /\ \A f \in OtherFields : VersionState([c EXCEPT !.fields[f] = <<9>> \o @]) = VersionState(c)

\* The list has the included clusters, oldest first; of the ready ones of an account
\* and region exactly one is the oldest, and two of them are each other's sibling;
\* a cluster that is not ready is not the oldest, unless it is alone in its account
\* (what holds of it then is left open); the trust relationship that a cluster is
\* provisioned with names the provider of every ready cluster of its account,
\* whatever the order of the answer.
ListRight(items, filter, accounts) ==
    LET r == ListClusters(items, filter, accounts)
        list == r.val
        wanted == {c \in Range(items) : filter = {} \/ c.provider \in filter}
        created(id) == (CHOOSE c \in wanted : c.id = id).created
        again(i) == InitOIDCProvider(list, i)[i]
    IN  r.ok =>
        /\ {c.id : c \in Range(list)} = {c.id : c \in wanted} /\ Len(list) = Cardinality(wanted)
        /\ \A i, j \in DOMAIN list : i < j => created(list[i].id) <= created(list[j].id)
        /\ \A c \in Range(list) :
              LET peers == {d \in Range(list) : d.account = c.account /\ d.region = c.region /\ d.status = "ready"}
              IN  /\ IsOldestReadyClusterInTheRegion(list, c) =>
                        /\ c \in peers \/ Len(AccountClusters(list, c)) < 2
                        /\ \A d \in peers \ {c} : created(c.id) <= created(d.id)
                  /\ peers # {} => Cardinality({d \in peers : IsOldestReadyClusterInTheRegion(list, d)}) = 1
                  /\ \A d \in peers : peers = {c, d} /\ c # d =>
                        Len(SiblingCluster(list, c)) = 1 /\ SiblingCluster(list, c)[1] = d
        /\ \A i \in DOMAIN list : again(i).trust =
              {<<d.id, OIDCProvider(d)>> : d \in {e \in Range(list) : e.account = list[i].account /\ e.status = "ready"}}

\* What is written is what is listed next, with nothing else changed; and in a
\* file, nothing: every listing of the same file is the same.
StatusStored(items, st, versions) ==
    \A i \in DOMAIN items :
        LET before == ListClusters(items, {}, {})
            c == [before.val[i] EXCEPT !.status = st, !.versions = versions]
            j == CHOOSE k \in DOMAIN items : items[k].id = c.id
            after == ListClusters(Put(items, j, UpdateLifecycleStatus(items[j], c)), {}, {})
        IN  before.ok => /\ after.ok /\ after.val[i].versions = versions /\ after.val[i].status = st
                         /\ \A k \in DOMAIN items \ {i} :
                                /\ after.val[k].id = before.val[k].id
                                /\ after.val[k].versions = before.val[k].versions

FileRead(held, file) ==
    LET first == FileListClusters(held, file)
        again == FileListClusters(first.held, file)
    IN  /\ again = first
        /\ first.result.ok => \A c \in Range(first.result.val) : 
              /\ FileUpdateLifecycleStatus(first.held, c)
              /\ FileUpdateConfigItems(first.held, [id |-> c.id, items |-> NoItems], [k \in {"a"} |-> 1]).val["a"] = 1
        /\ ~file.ok => first.held = held /\ ~first.result.ok

\* What is recorded for the cluster is in the registry too.
ItemsStored(keys, answers) ==
    LET r == UpdateConfigItems({}, keys, answers)
    IN  r.local \subseteq r.stored /\ (r.ok => r.local = Range(keys))

\* A pool's own value, else the cluster's, else the default of the last source
\* that has one; secrets reach templates decrypted, or nothing is rendered.
ItemsLayered(items, poolItems, files) ==
    LET r == applyDefaultsToManifests(items, poolItems, files)
        having(k) == {i \in DOMAIN files : Has(files[i], k)}
        raw(k) == IF Has(items, k) THEN items[k] ELSE files[CHOOSE i \in having(k) : \A j \in having(k) : j <= i][k]
        keys == DOMAIN items \cup UNION {DOMAIN files[i] : i \in DOMAIN files}
    IN  /\ r.ok <=> \A k \in keys : raw(k)[1] # "bad"
        /\ r.ok => \A k \in keys \cup DOMAIN poolItems :
              /\ k \in keys => r.val.cluster[k] = <<"plain", raw(k)[2]>>
              /\ r.val.pool[k] = IF Has(poolItems, k) THEN poolItems[k] ELSE <<"plain", raw(k)[2]>>

\* A cluster's own settings win over the process's, and one that cannot be parsed
\* stops the update.
UpdaterRight(global, items) ==
    LET r == updater(global, items)
        own(s) == Has(items, s) /\ s # "update_strategy"
    IN  /\ ~r.ok <=> \/ \E s \in DOMAIN items : own(s) /\ items[s] = -1
                     \/ Has(items, "update_strategy") /\ items["update_strategy"] = "unknown"
                     \/ ~Has(items, "update_strategy") /\ global.strategy = "unknown"
        /\ r.ok => \A s \in DrainSettings : r.val.drain[s] = IF own(s) THEN items[s] ELSE global.drain[s]

\* Whatever credentials the process has, it works on the cluster's account only.
OwnAccount(account, effective) ==
    \A role \in {"", "admin"} :
        LET r == setupAWSAdapter(account, role, effective)
        IN  /\ r.ok => account = <<"aws", r.val.account>> /\ (role # "" => r.val.role = <<r.val.account, role>>)
            /\ account = <<"aws", effective>> => r.ok

\* Every pool is provisioned once.  A group spreads evenly only if each of its pools
\* does, and a pool that accepts pods of a group belongs to it.
PoolsGrouped(pools) ==
    LET g == groupNodePools(pools)
    IN  /\ Len(g.masters) + Len(g.workers) + Len(g.karpenterPools) = Len(pools)
        /\ \A group \in zoneDistributedNodePoolGroups(pools) : \A p \in Range(pools) :
              ~IsMaster(p) /\ p.dedicated = group =>
                  (p.taint = "none" \/ p.taint = group => ~p.zones /\ p.profile # "worker-combined")
        /\ \A p \in Range(pools) : nodeLifeCycleProvider(pools, p.dedicated) = "karpenter" =>
              IsKarpenter(p) \/ IsMaster(p) \/ (p.dedicated = "" /\ p.taint # "none")

\* A command leaves clusters of other accounts alone, reports success only when it
\* succeeded with all of the others, and does nothing after a failure.
CommandRight(clusters, filter) ==
    LET r == RunCommand(clusters, filter)
        mine == SelectSeq(clusters, LAMBDA c : Allowed(filter, c.account))
        good(c) == c.config /\ c.works /\ c.provider \in Provisioners /\ \A k \in DOMAIN c.items : c.items[k][1] # "bad"
    IN  /\ IsPrefix(r.tried, [i \in DOMAIN mine |-> mine[i].id])
        /\ r.fatal <=> \E i \in DOMAIN mine : ~good(mine[i])
        /\ ~r.fatal => Len(r.tried) = Len(mine)
        /\ \A i \in 1..(Len(r.tried) - 1) : good(mine[i])
=============================================================================
