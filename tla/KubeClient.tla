----------------------------- MODULE KubeClient -----------------------------
(***************************************************************************)
(* The Kubernetes client: deleting resources by name, selector or labels,  *)
(* and applying manifests with retries.                                    *)
(*                                                                         *)
(* A cluster is a record of its objects (objs), of the kinds its API       *)
(* server has (kinds) and of the kinds the client's REST mapper has seen   *)
(* (known).  An object has a kind, a namespace ("" for kinds without one), *)
(* a name, one label or none, an owner or none, and the mark that permits  *)
(* deleting a namespace.  Deleting a custom resource definition removes    *)
(* the kind it is named after.                                             *)
(***************************************************************************)
EXTENDS Networks

CONSTANT MaxRetries   \* maxApplyRetries

ASSUME RetriesAssumption == MaxRetries \in Nat

Key(o) == [kind |-> o.kind, ns |-> o.ns, name |-> o.name]
Keys(S) == {Key(o) : o \in S}

Global == {"Namespace", "CRD"}   \* kinds without a namespace

-----------------------------------------------------------------------------
(* The API server *)

\* A namespace goes with what is in it, a definition with its kind.
Removed(c, o) ==
    {o} \cup (IF o.kind = "Namespace" THEN {p \in c.objs : p.ns = o.name} ELSE {})
        \cup (IF o.kind = "CRD" THEN {p \in c.objs : p.kind = o.name} ELSE {})

ServerDelete(c, o) ==
    [c EXCEPT !.objs = @ \ Removed(c, o), !.kinds = IF o.kind = "CRD" THEN @ \ {o.name} ELSE @]

\* Someone else deletes some objects.
Meanwhile(c, gone) ==
    [c EXCEPT !.objs = {o \in @ : Key(o) \notin Keys(UNION {Removed(c, p) : p \in gone})},
              !.kinds = @ \ {o.name : o \in {p \in gone : p.kind = "CRD"}}]

\* An admission controller keeps namespaces that are not marked.
Protected(o) == o.kind = "Namespace" /\ ~o.marked

-----------------------------------------------------------------------------
(* Resolving kinds: results are Ok(cluster) or Err(cause, cluster) *)

Err(cause, c) == [ok |-> FALSE, cause |-> cause, val |-> c]

resolveKind(c, kind) == IF kind \in c.known THEN Ok(c) ELSE Err("nomatch", c)

\* The cached mapping is reset and tried once more.
ResolveKind(c, kind) ==
    IF resolveKind(c, kind).ok THEN Ok(c)
    ELSE resolveKind([c EXCEPT !.known = c.kinds], kind)

\* The objects a request for this kind, namespace and name is about: without a
\* namespace, a request for one object of a namespaced kind finds nothing.
Addressed(c, kind, ns, name) ==
    {o \in c.objs : o.kind = kind /\ o.ns = ns /\ o.name = name}

getResourceClient(c, kind) ==
    LET r == ResolveKind(c, kind)
    IN  IF ~r.ok THEN r
        ELSE IF kind \notin c.kinds THEN Err("notfound", r.val)   \* the mapping is stale
        ELSE r

-----------------------------------------------------------------------------
(* Deletions *)

\* One request; "down" are the objects whose deletion the server fails.
Delete(c, down, kind, ns, name) ==
    LET r == getResourceClient(c, kind)
        found == Addressed(c, kind, ns, name)
    IN  IF ~r.ok THEN r
        ELSE IF found = {} THEN Err("notfound", r.val)
        ELSE LET o == CHOOSE o \in found : TRUE
             IN  IF name \in down \/ Protected(o) THEN Err("other", r.val)
                 ELSE Ok(ServerDelete(r.val, o))

deleteIfFound(c, down, kind, ns, name) ==
    LET r == Delete(c, down, kind, ns, name)
    IN  IF ~r.ok /\ r.cause \in {"notfound", "nomatch"} THEN Ok(r.val) ELSE r

\* Get without a name is refused by the client.
overrideDeletionProtection(c, kind, ns, name) ==
    LET r == getResourceClient(c, kind)
        found == Addressed(c, kind, ns, name)
    IN  IF kind # "Namespace" THEN Ok(c)
        ELSE IF ~r.ok /\ r.cause # "notfound" THEN r
        ELSE IF r.ok /\ name = "" THEN Err("other", r.val)
        ELSE Ok([r.val EXCEPT !.objs = (@ \ found) \cup {[o EXCEPT !.marked = TRUE] : o \in found}])

\* A bug: owners are not asked for.
ListsAll(c, d) ==
    LET r == getResourceClient(c, d.kind)
    IN  [r |-> r, items |-> IF ~r.ok THEN {} ELSE {o \in c.objs : o.kind = d.kind /\ d.ns \in {"", o.ns} /\ o.label}]

\* LabelSelector: the label is asked for by a selector or by labels.
ListResources(c, d) ==
    LET r == getResourceClient(c, d.kind)
        all == {o \in c.objs : o.kind = d.kind /\ d.ns \in {"", o.ns} /\ o.label}
    IN  IF ~r.ok THEN [r |-> r, items |-> {}]
        ELSE [r |-> r, items |-> IF d.hasOwner = {} THEN all ELSE {o \in all : o.owned \in d.hasOwner}]

Identifiers(d) == {i \in {"name", "selector", "labels"} :
                      \/ i = "name" /\ d.name # ""
                      \/ i = "selector" /\ d.selector
                      \/ i = "labels" /\ d.labels}

DeleteItem(down, d, o, r) ==
    IF ~r.ok THEN r
    ELSE LET p == overrideDeletionProtection(r.val, d.kind, d.ns, d.name)
         IN  IF ~p.ok THEN p ELSE deleteIfFound(p.val, down, d.kind, o.ns, o.name)

\* "gone" are the objects that someone else deletes meanwhile.
DeleteResource(c, gone, down, d) ==
    IF Cardinality(Identifiers(d)) # 1 \/ (d.hasOwner # {} /\ ~d.selector /\ ~d.labels) THEN Err("other", c)
    ELSE IF d.name # "" THEN
        LET r == overrideDeletionProtection(c, d.kind, d.ns, d.name)
        IN  IF ~r.ok THEN r
            ELSE deleteIfFound(Meanwhile(r.val, gone), down, d.kind, d.ns, d.name)
    ELSE LET l == ListResources(c, d)
         IN  IF ~l.r.ok THEN (IF l.r.cause = "nomatch" THEN Ok(l.r.val) ELSE l.r)
             ELSE FoldSet(LAMBDA o, r : DeleteItem(down, d, o, r), Ok(Meanwhile(l.r.val, gone)), l.items)

\* A new client, whose mapper knows nothing, for each list of deletions
Deletions(c, gone, down, list) ==
    FoldLeft(LAMBDA r, d : IF ~r.ok THEN r ELSE DeleteResource(r.val, gone, down, d),
             Ok([c EXCEPT !.known = {}]), list)

-----------------------------------------------------------------------------
(* Manifests *)

\* ParseResourceManifest: every object has a kind, a version and a name; the
\* default namespace is filled in.
ParseResourceManifest(docs) ==
    IF \E i \in DOMAIN docs : ~docs[i].valid \/ "" \in {docs[i].kind, docs[i].apiVersion, docs[i].name} THEN Fails
    ELSE Ok([i \in DOMAIN docs |-> [docs[i] EXCEPT !.ns = IF @ = "" THEN "default" ELSE @]])

getRESTMappingFor(c, kind) == ResolveKind(c, kind)

\* One try.  What the API server does to the object, "absent" or its version,
\* and the answer it gives: a request may be answered with an error although it
\* was carried out ("lost"), and someone else may create or delete the object
\* after it was looked up ("raced").
applyKubernetesResource(object, version, answer) ==
    CASE answer = "down" -> [object |-> object, ok |-> FALSE]
      [] answer = "lost" -> [object |-> version, ok |-> FALSE]
      [] answer = "raced" -> [object |-> IF object = "absent" THEN "other" ELSE "absent", ok |-> FALSE]
      [] OTHER -> [object |-> version, ok |-> TRUE]

\* RetryNotify: the first try and maxRetries more
Tries(answers) == IF Len(answers) > MaxRetries + 1 THEN SubSeq(answers, 1, MaxRetries + 1) ELSE answers

Try(r, version, answer) ==
    IF r.ok THEN r
    ELSE LET t == applyKubernetesResource(r.object, version, answer)
         IN  [object |-> t.object, ok |-> t.ok, tries |-> r.tries + 1]

Apply(object, version, answers) ==
    FoldLeft(LAMBDA r, answer : Try(r, version, answer),
             [object |-> object, ok |-> FALSE, tries |-> 0], Tries(answers))

decodeAndValidate(m) == m.valid

\* A manifest that is not valid, or whose kind is unknown, is never tried.
applyKubernetesManifest(c, m, object, answers) ==
    IF ~decodeAndValidate(m) \/ ~getRESTMappingFor(c, m.kind).ok THEN [object |-> object, ok |-> FALSE, tries |-> 0]
    ELSE Apply(object, m.version, answers)

\* apply: the documents of a file are parsed before anything is applied, then
\* applied one after the other until one fails.
ApplyNext(c, docs, answers, r, i) ==
    IF ~r.ok THEN r
    ELSE LET m == ParseResourceManifest(docs).val[i]
             t == applyKubernetesManifest(c, docs[i], "absent", answers[i])
         IN  [ok |-> t.ok, objects |-> IF t.object = "absent" THEN r.objects ELSE r.objects \cup {<<m.ns, m.name>>}]

ApplyFile(c, docs, answers) ==
    IF ~ParseResourceManifest(docs).ok THEN [ok |-> FALSE, objects |-> {}]
    ELSE FoldLeft(LAMBDA r, i : ApplyNext(c, docs, answers, r, i), [ok |-> TRUE, objects |-> {}],
                  Positions(docs))

-----------------------------------------------------------------------------
(* What these results must satisfy *)

Matches(c, d) ==
    IF d.name # "" THEN Addressed(c, d.kind, d.ns, d.name)
    ELSE {o \in c.objs : o.kind = d.kind /\ o.label /\ d.ns \in {"", o.ns} /\ (d.hasOwner = {} \/ o.owned \in d.hasOwner)}

\* A deletion removes what it describes and nothing else, whoever else deletes at
\* the same time; with an error part of it.  Doing it again changes nothing.
DeletesMatching(c, gone, down, d) ==
    LET r == DeleteResource(c, gone, down, d)
        left == Keys(r.val.objs)
        matching == Keys(UNION {Removed(c, o) : o \in Matches(c, d)})
    IN  /\ Keys(c.objs) \ left \subseteq matching \cup Keys(UNION {Removed(c, o) : o \in gone})
        /\ r.ok => left \cap matching = {}
        /\ r.ok => LET again == Deletions(r.val, {}, {}, <<d>>)
                   IN  again.ok /\ again.val.objs = r.val.objs

\* "`namespace` can be left out, in which case it will default to `kube-system`":
\* a deletion without a namespace deletes there and only there.
DeletesWhereDocumented(c, d) ==
    d.kind \notin Global /\ d.ns = "" /\ Cardinality(Identifiers(d)) = 1 =>
        LET r == Deletions(c, {}, {}, <<d>>)
        IN  r.ok => Keys(c.objs) \ Keys(r.val.objs) = Keys(Matches(c, [d EXCEPT !.ns = "kube-system"]))

\* A manifest counts as applied only if the object is what it says; otherwise
\* every retry was used or none made sense.
AppliesOrFails(c, m, object, answers) ==
    LET r == applyKubernetesManifest(c, m, object, answers)
    IN  /\ r.ok => r.object = m.version
        /\ ~r.ok /\ m.valid /\ m.kind \in c.kinds /\ Len(answers) > MaxRetries => r.tries = MaxRetries + 1
        /\ ~(m.valid /\ m.kind \in c.kinds \cup c.known) => ~r.ok /\ r.object = object

\* A file that is not understood changes nothing; of any other file all objects
\* exist, in some namespace, or an error is returned.
FileApplied(c, docs, answers) ==
    LET r == ApplyFile(c, docs, answers)
    IN  /\ (\E i \in DOMAIN docs : docs[i].name = "") => ~r.ok /\ r.objects = {}
        /\ r.ok => {o[2] : o \in r.objects} = {docs[i].name : i \in DOMAIN docs}
        /\ \A o \in r.objects : o[1] # ""
=============================================================================
