------------------------------ MODULE MCValues ------------------------------
(***************************************************************************)
(* The pure parts of the program, each applied to every input of a bounded *)
(* set: a behaviour picks one input, and the invariants compare what the   *)
(* code computes for it with what it shall compute.                        *)
(***************************************************************************)
EXTENDS Rendering, ClusterData, KubeClient, Backends, ConfigFiles

VARIABLE case

Pick(kind, inputs) ==
    /\ case.kind = "none"
    /\ \E i \in inputs : case' = [kind |-> kind, in |-> i]

Upto(S, n) == UNION {[1..k -> S] : k \in 0..n}

-----------------------------------------------------------------------------
AllNetworks == {Net(Masked(ip, ones), ones) : ip \in {0, 37, 640, 2^AddrBits - 1}, ones \in 0..AddrBits}
PickNetwork == Pick("network", AllNetworks)

Ports == {<<>>, <<80>>, <<-1>>, <<65536>>, <<80, 90>>, <<90, 80>>, <<0, 65535>>, <<1, 2, 3>>}
Ranges == {[fields |-> n, protocol |-> p, cidr |-> c, ports |-> r] :
               n \in 1..4, p \in {"udp", "icmp"}, c \in {Ok(Net(37, 4)), Fails}, r \in Ports}
PickRanges == Pick("ranges", {<<r>> : r \in Ranges} \cup {<<r, q>> : r \in Ranges, q \in {x \in Ranges : x.fields = 2}})

Subnets == {[id |-> id, vpc |-> IF id = 3 THEN "w" ELSE "v", az |-> az, tags |-> tags, ones |-> IF id = 3 THEN 0 ELSE 4] :
                id \in 1..3, az \in {1, 2}, tags \in SUBSET {"node", "custom"}}
Listings == {l \in Upto(Subnets, 3) : \A i, j \in DOMAIN l : i # j => l[i].id # l[j].id}
VPC(id, default) == [id |-> id, default |-> default]
VPCs == {<<VPC("v", FALSE)>>, <<VPC("w", FALSE), VPC("v", TRUE)>>, <<VPC("v", FALSE), VPC("w", FALSE)>>}
PickSubnets == Pick("subnets", [subnets : Listings, vpcs : VPCs] \X
    [vpc : {"", "v"}, ids : {<<>>, <<1>>, <<1, 2>>}, zones : {{}, {1}}, percent : {<<>>}])

\* Subnets of any size, down to a single address (AWS has none below 16): their
\* nodes may be none, less than none, or not divide evenly.
OfSizes == {[id |-> id, vpc |-> "v", az |-> az, tags |-> {}, ones |-> n] :
              id \in 1..2, az \in {1, 2}, n \in {0, 1, 4, AddrBits - 4, AddrBits - 2, AddrBits}}
PercentItems == {<<>>, <<Fails>>} \cup {<<Ok(p)>> : p \in {-1, 0, 1, 50, 99, 100, 101}}
PickPercent == Pick("subnets",
    [subnets : {l \in Upto(OfSizes, 2) : \A i, j \in DOMAIN l : i # j => l[i].id # l[j].id}, vpcs : {<<VPC("v", TRUE)>>}]
    \X [vpc : {"", "x"}, ids : {<<>>}, zones : {{}}, percent : PercentItems])

\* Dividing networks and counting their addresses is right at every boundary of the
\* 32-bit arithmetic, except that the n-th address is only as long as the last byte
\* does not overflow; port ranges are returned whole; the choice of the subnets
\* depends on nothing but their tags and IDs, not on the order in which AWS lists
\* them, and their number of nodes is right for subnets of every size and any
\* percentage, be it 0 or none.
NetworksRight ==
    /\ case.kind = "network" =>
          /\ \A size \in 1..AddrBits : Divides(case.in, size)
          /\ NATApart(case.in)
          /\ \A n \in 0..20 : NthIsNth(case.in, n)
          /\ \A pod \in 13..17, mask \in 23..29, reserved \in 0..2 : NodesFit(pod, mask, reserved)
    /\ case.kind = "ranges" => RangesWhole(case.in)
    /\ case.kind = "subnets" => ChoosesBest(case.in[1], case.in[2])

-----------------------------------------------------------------------------
HashLists == {<<>>, <<"a">>, <<"b">>, <<"c">>, <<"d">>, <<"b", "c">>, <<"c", "b">>}
Files == {[f \in {"a", "b", "c"} |->
              [hashes |-> h[f], objects |-> IF f = "b" THEN n ELSE 1]] :
              h \in [{"a", "b", "c"} -> HashLists], n \in {-1, 0}}
PickTemplates == Pick("templates", Files \X {<<x, y, z>> : x, y, z \in {"a", "b", "c"}})

NodeFiles == {<<[path |-> 1, data |-> 1, encrypted |-> e]>> : e \in BOOLEAN}
PickUploads == Pick("uploads", Upto(
    [account : {1}, cluster : {1, 2}, master : BOOLEAN, files : NodeFiles, init : {1}, stack : {1}]
    \cup [account : {1}, cluster : {1}, master : {FALSE}, files : NodeFiles, init : {1, 2}, stack : {1, 2}], 3))

DeletionLists == {<<>>, <<1>>, <<2, 1>>}
DeletionSources == {Fails} \cup {Ok(v) : v \in [preApply : DeletionLists, postApply : DeletionLists]}
PickDeletionFiles == Pick("deletionFiles", Upto(DeletionSources, 3))

\* A manifest has the hashes of the manifests that are applied with it, and
\* uploaded files are never replaced by ones that the node cannot decrypt; the
\* deletions of all sources keep their order.
RenderingRight ==
    /\ case.kind = "templates" =>
          HashesCurrent(case.in[1], case.in[2]) /\ AllRendered(case.in[1], case.in[2])
    /\ case.kind = "uploads" => UploadsReadable(case.in)
    /\ case.kind = "deletionFiles" => DeletionsInOrder(case.in)

-----------------------------------------------------------------------------
Partial(K, V) == UNION {[S -> V] : S \in SUBSET K}

SomePools == {[name |-> <<1>>, profile |-> <<2>>, instanceTypes |-> t, discountStrategy |-> <<>>, minSize |-> 101, maxSize |-> 102, items |-> i] :
                  t \in {<<<<1>>>>, <<<<1>>, <<2>>>>}, i \in Partial({1, 2}, {<<>>, <<1>>})}
SomeFields == {[f \in Range(VersionFields) \cup OtherFields |-> IF f \in S THEN <<1, 2>> ELSE <<>>] :
                   S \in {{}, {"id", "region", "alias"}, {"provider", "owner"}}}
PickCluster == Pick("version", [fields : SomeFields,
                                items : Partial({1, 2}, {<<>>, <<1>>, <<2, 3>>}),
                                pools : Upto(SomePools, 1)])

Versions1 == [current |-> "v1", last |-> "v1", next |-> "", problems |-> <<>>]
Failed2 == [current |-> "v1", last |-> "v1", next |-> "v2",
            problems |-> <<[title |-> "t", type |-> "u", detail |-> "d"]>>]
Models == {[id |-> id, versions |-> Versions1, account |-> 1, region |-> r, status |-> st, provider |-> p, created |-> t,
            pools |-> <<[profile |-> "worker-splitaz", instanceTypes |-> <<"m5">>]>>] :
               id \in 1..3, r \in {1, 2}, st \in {"ready", "requested"}, p \in {"aws", "eks"}, t \in 1..2}
           \cup {[id |-> 4, versions |-> convertToClusterStatusModel(Failed2), account |-> 2, region |-> 1, status |-> "ready", provider |-> "aws",
                  created |-> 1, pools |-> <<[profile |-> pr, instanceTypes |-> <<>>]>>] :
                     pr \in {"worker-splitaz", "worker-karpenter"}}
PickRegistry == Pick("registry", {l \in Upto(Models, 3) : \A i \in 1..(Len(l) - 1) : l[i].id < l[i + 1].id}
                                 \X {{}, {"aws"}})
Accounts == {[id |-> 1, status |-> "ready", owner |-> "team"], [id |-> 2, status |-> "requested", owner |-> "none"]}
InFile == {<<[id |-> id, account |-> 1, region |-> 1, status |-> st, provider |-> "eks", owner |-> "", oidc |-> <<>>,
              trust |-> {}, pools |-> <<[profile |-> pr, instanceTypes |-> <<>>]>>]>> :
                  id \in {1, 2}, st \in {"ready", "requested"}, pr \in {"worker-splitaz", "worker-karpenter"}}
PickFile == Pick("file", (InFile \cup {<<>>}) \X
                         ({Fails} \cup {Ok([keyed |-> k, clusters |-> l]) : k \in BOOLEAN, l \in InFile}))
PickAnswers == Pick("answers", [1..3 -> {"ok", "failed", "lost"}])

Values == {<<"plain", 1>>, <<"secret", 2>>, <<"bad", 3>>}
PickItems == Pick("items", Partial({1, 2}, Values) \X Partial({1}, Values)
                           \X Upto(Partial({1, 2}, {<<"plain", 4>>, <<"secret", 5>>}), 2))

UpdaterItems == {[k \in S |-> IF k = "update_strategy" THEN st ELSE IF k = bad THEN -1 ELSE 7] :
                     S \in SUBSET {"update_strategy", "poll_interval", "grace_period"}, st \in {"clc", "unknown"},
                     bad \in {"", "poll_interval", "min_pod_lifetime"}}
PickUpdater == Pick("updater", [strategy : {"rolling", "unknown"}, drain : {[s \in DrainSettings |-> 5]}] \X UpdaterItems)
PickAccount == Pick("account",
                               {<<a, e>> : a \in {<<"aws", 1>>, <<"aws", 2>>, <<"gcp", 1>>, <<"aws">>, <<"aws", 1, 1>>}, e \in {1, 2}})
Commanded == [account : {1, 2}, provider : {"aws", "gcp"}, items : {[k \in {1} |-> v] : v \in {<<"secret", 2>>, <<"bad", 3>>}},
              config : BOOLEAN, works : BOOLEAN]
Numbered(cs) == [i \in DOMAIN cs |-> [id |-> i, account |-> cs[i].account, provider |-> cs[i].provider,
                                      items |-> cs[i].items, config |-> cs[i].config, works |-> cs[i].works]]
PickCommand == Pick("command", {Numbered(cs) : cs \in Upto(Commanded, 2)}
                               \X [include : {{1, 2}, {1}}, exclude : {{}, {2}, {1}}])
PickPools == Pick("pools", Upto(
    [profile : {"master-default", "worker-splitaz", "worker-combined", "worker-karpenter"},
     dedicated : {"", "x"}, taint : {"none", "x", "other"}, zones : BOOLEAN], 2))

\* A single edit of what a cluster's version is made of is never taken for no edit; the
\* list of clusters does not
\* depend on the order in which the registry answers, and what is recorded of a
\* cluster is stored there; settings come from the pool, the cluster or the last
\* defaults, in this order; a group of pools is said to spread or to be
\* Karpenter's only if all its pools are; commands touch the clusters of the
\* filtered accounts only and stop at the first failure.
DataRight ==
    /\ case.kind = "version" => EditsNoticed(case.in)
    /\ case.kind = "registry" => /\ ListRight(case.in[1], case.in[2], Accounts)
                                 /\ \A v \in {Versions1, Failed2} : StatusStored(case.in[1], "ready", v)
    /\ case.kind = "file" => FileRead(case.in[1], case.in[2])
    /\ case.kind = "answers" => ItemsStored(<<"x", "y", "z">>, case.in)
    /\ case.kind = "items" => ItemsLayered(case.in[1], case.in[2], case.in[3])
    /\ case.kind = "pools" =>
          /\ PoolsGrouped(case.in)
          /\ Range(ASGBackedPools(case.in)) = {p \in Range(case.in) : Backend(p.profile) = "asg"}
          /\ Range(groupNodePools(case.in).karpenterPools) = Range(KarpenterPools(case.in))
    /\ case.kind = "updater" => UpdaterRight(case.in[1], case.in[2])
    /\ case.kind = "command" => CommandRight(case.in[1], case.in[2])
    /\ case.kind = "account" => OwnAccount(case.in[1], case.in[2])

-----------------------------------------------------------------------------
Object(kind, ns, name, label, owned) ==
    [kind |-> kind, ns |-> ns, name |-> name, label |-> label, owned |-> owned, marked |-> FALSE]
Objects == {Object("Namespace", "", "kube-system", FALSE, FALSE), Object("Namespace", "", "x", TRUE, FALSE),
            Object("CRD", "", "Stack", FALSE, FALSE),
            Object("Pod", "kube-system", "a", TRUE, TRUE), Object("Pod", "x", "a", TRUE, FALSE),
            Object("Stack", "x", "a", TRUE, FALSE), Object("Stack", "kube-system", "b", TRUE, FALSE)}
Kinds(S) == {"Namespace", "CRD", "Pod"} \cup {o.name : o \in {p \in S : p.kind = "CRD"}}
Stored == {T \in SUBSET Objects : \A o \in T : o.kind \in Kinds(T)
                                              /\ (o.ns = "" \/ \E n \in T : n.kind = "Namespace" /\ n.name = o.ns)}
Clusters == {[objs |-> S, kinds |-> Kinds(S), known |-> k] :
                 S \in Stored, k \in {{}, {"Namespace", "CRD", "Pod", "Stack"}}}
SomeDeletions == [kind : {"Namespace", "CRD", "Pod", "Stack"}, ns : {"", "kube-system", "x"}, name : {"", "a", "x", "Stack"},
              selector : BOOLEAN, labels : {FALSE}, hasOwner : SUBSET BOOLEAN \ {BOOLEAN}]
PickDeletion == Pick("deletion", Clusters \X SomeDeletions)

Docs == [valid : BOOLEAN, kind : {"Pod", "Stack"}, version : {"new"}, apiVersion : {"v1"}, name : {"", "a", "b"}, ns : {"", "x"}]
PickDocs == Pick("docs", {l \in Upto(Docs, 2) : \A i, j \in DOMAIN l : i # j => l[i].name # l[j].name}
                         \X [1..2 -> {<<"ok">>, <<"down", "ok">>, <<"down", "down", "down", "ok">>}])
PickApply == Pick("apply", [valid : BOOLEAN, kind : {"Pod", "Stack"}, version : {"new"}]
                           \X {"absent", "old"} \X [1..(MaxRetries + 2) -> {"ok", "down", "lost", "raced"}])

\* A deletion removes what it describes, also when others delete at the same
\* time and some requests fail, and a manifest that counts as applied is.
KubernetesRight ==
    /\ case.kind = "deletion" =>
          \A gone \in {{}} \cup {{o} : o \in case.in[1].objs}, down \in {{}, {"a"}} :
              DeletesMatching(case.in[1], gone, down, case.in[2])
    /\ case.kind = "apply" =>
          AppliesOrFails([kinds |-> {"Pod"}, known |-> {}], case.in[1], case.in[2], case.in[3])
    /\ case.kind = "docs" => FileApplied([kinds |-> {"Pod"}, known |-> {}], case.in[1], case.in[2])

\* The deletions of deletions.yaml happen in the namespace that the
\* documentation says.
DocumentedDeletions == case.kind = "deletion" => DeletesWhereDocumented(case.in[1], case.in[2])

-----------------------------------------------------------------------------
Versions == {[name |-> n, version |-> v] : n \in {"t"}, v \in {"1", "2", "$Latest"}}
Templates == [v \in Versions |-> [type |-> IF v.version = "1" THEN "m" ELSE "r", spot |-> v.version = "2"]]
Groups == [mixed : {TRUE}, policy : Versions, overrides : {{"m"}, {"m", "r"}}, onDemandBase : {0},
           onDemandPercent : {0, 50, 100}, instances : {{}}]
          \cup [mixed : {FALSE}, template : Versions, instances : {{}}]
PickGroups == Pick("groups", Groups \X Groups)

GroupOf(pool, i) ==
    [tags |-> [cluster |-> "c", pool |-> pool], min |-> 2, mixed |-> TRUE, policy |-> [name |-> "t", version |-> "1"],
     overrides |-> {"m"}, onDemandBase |-> 0, onDemandPercent |-> 0,
     instances |-> {[id |-> i, zone |-> 1, health |-> "Healthy", state |-> "InService", type |-> "m", spot |-> TRUE,
                     template |-> [name |-> "t", version |-> "1"]]}]
PickBalancers == Pick("balancers", (SUBSET {GroupOf("p", 1), GroupOf("p", 2), GroupOf("q", 3)})
                                   \X Upto(Partial({1, 2}, {"InService", "OutOfService"}), 3))

Classes == [userData : {"u", "v"}, amis : {<<"a">>, <<"", "b">>, <<"a", "b">>}, tags : Partial({"k", "l"}, {"x", "y"})]
PickClasses == Pick("classes", Classes \X Classes)

PickTermination == Pick("termination", [1..4 -> {"pending", "running", "shutting-down", "terminated", "stopped", "unknown"}])

Hashes == [pool : [{"poolHash", "poolVersion"} -> {"1", "2"}], class : [{"classHash"} -> {"1", "2"}]]
PickClaims == Pick("claims", Hashes \X Hashes \X BOOLEAN \X BOOLEAN \X BOOLEAN)

EC2Types == {[type |-> t, archs |-> a, vcpu |-> v, memory |-> 3 * v, disks |-> d] :
                t \in {"m", "r"}, a \in {{"x86_64"}, {"i386"}}, v \in {2, 4},
                d \in {<<>>, <<[count |-> 1, size |-> 80]>>, <<[count |-> 2, size |-> 30]>>}}
PickTypes == Pick("types", {<<x, y>> : x \in {e \in EC2Types : e.type = "m"}, y \in {e \in EC2Types : e.type = "r"}}
                           \X {<<"m">>, <<"m", "r">>, <<"r", "m">>})

\* The nodes that are outdated are the ones that would be launched differently
\* now, and pods that fit the sizes that several types have in common fit each.
BackendsRight ==
    /\ case.kind = "groups" => OutdatedASG(case.in[1], case.in[2], Templates)
    /\ case.kind = "balancers" => NodesOfPool(case.in[1], case.in[2])
    /\ case.kind = "classes" => OutdatedEC2(case.in[1], case.in[2])
    /\ case.kind = "claims" => OutdatedClaims(case.in[1], case.in[2], case.in[3], case.in[4], case.in[5])
    /\ case.kind = "termination" => Terminated(case.in)
    /\ case.kind = "types" => CommonToAll(NewInstanceTypesFromAWS(case.in[1]).val, case.in[2])

-----------------------------------------------------------------------------
Outside == With(With([p \in {} |-> Dir], <<"out">>, Dir), <<"out", "b">>, File(<<"data">>))
Entries == {[path |-> p, mode |-> "file", data |-> <<"new">>] : p \in {<<"a">>, <<"a", "b">>, <<"a", "d">>, <<"c", "b">>, <<"..", "d">>}}
           \cup {[path |-> p, mode |-> "link", data |-> <<"out">>] : p \in {<<"a">>, <<"a", "b">>}}
           \cup {[path |-> <<"e">>, mode |-> m, data |-> <<>>] : m \in {"submodule", "broken"}}
PickTree == Pick("tree", Upto(Entries, 3))

FileKinds == [yaml : BOOLEAN, dir : BOOLEAN]
DirEntries == {[dir |-> FALSE, files |-> <<>>]}
              \cup {[dir |-> TRUE, files |-> [i \in DOMAIN k |-> [text |-> i, yaml |-> k[i].yaml, dir |-> k[i].dir]]] :
                        k \in Upto(FileKinds, 2)}
Config(source, entries) ==
    [source |-> source, manifests |-> [i \in DOMAIN entries |-> [name |-> i, dir |-> entries[i].dir, files |-> entries[i].files]],
     cf |-> <<[text |-> 1, yaml |-> TRUE, dir |-> FALSE, deletions |-> TRUE]>>, cfDeletions |-> <<1>>,
     defaults |-> IF entries = <<>> THEN <<>> ELSE <<1>>, deletions |-> IF Len(entries) = 1 THEN <<>> ELSE <<1>>,
     stack |-> [n \in {"cluster"} |-> 1]]
PickOpen == Pick("open", {"ssh", "https"} \X {"", "k"} \X {"", "i"} \X SUBSET {"k", "i"})
PickConfigs == Pick("configs", {<<Config("x", <<e>>), Config("y", f)>> : e \in DirEntries, f \in Upto(DirEntries, 2)})

\* A checkout holds the commit, and all manifests of all sources are found.
FilesRight ==
    /\ case.kind = "tree" => CheckoutRight(Outside, case.in, <<"work">>)
    /\ case.kind = "configs" => ManifestsComplete(case.in) /\ SourcesInOrder(case.in)
    /\ case.kind = "open" => SourcesOpened(case.in[1], case.in[2], case.in[3], case.in[4])

-----------------------------------------------------------------------------
Init == case = [kind |-> "none"]
Next ==
    \/ PickNetwork \/ PickRanges \/ PickSubnets \/ PickPercent \/ PickTemplates \/ PickUploads \/ PickDeletionFiles
    \/ PickCluster \/ PickRegistry \/ PickFile \/ PickAnswers \/ PickItems \/ PickPools
    \/ PickCommand \/ PickUpdater \/ PickAccount \/ PickOpen \/ PickTermination
    \/ PickDeletion \/ PickApply \/ PickDocs
    \/ PickTree \/ PickConfigs \/ PickGroups \/ PickBalancers \/ PickClasses \/ PickClaims \/ PickTypes
Spec == Init /\ [][Next]_case
=============================================================================
