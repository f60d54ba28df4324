----------------------------- MODULE Rendering -----------------------------
(***************************************************************************)
(* Templates, manifests and uploaded files.                                *)
(*                                                                         *)
(* A template is the list of the sibling files whose hash it contains, and *)
(* the number of objects it holds.  A rendered file is its name with the   *)
(* rendered files whose hashes are in it: SHA-256 is taken as injective.   *)
(***************************************************************************)
EXTENDS Networks

Text(f, sums) == [file |-> f, sums |-> sums]

newTemplateContext(files) == [files |-> files, rendered |-> [f \in {} |-> 0]]

Remember(ctx, f, text) ==
    [ctx EXCEPT !.rendered = [g \in DOMAIN @ \cup {f} |-> IF g = f THEN text ELSE @[g]]]

\* renderTemplate while a hash is computed: manifestHash is not reentrant.
RenderSibling(ctx, f) ==
    IF f \notin DOMAIN ctx.files \/ ctx.files[f].hashes # <<>> THEN Fails
    ELSE Ok([ctx |-> Remember(ctx, f, Text(f, <<>>)), text |-> Text(f, <<>>)])

manifestHash(ctx, f) ==
    IF f \in DOMAIN ctx.rendered THEN Ok([ctx |-> ctx, text |-> ctx.rendered[f]])
    ELSE RenderSibling(ctx, f)

AddHash(r, g) ==
    IF ~r.ok THEN r
    ELSE LET h == manifestHash(r.val.ctx, g)
         IN  IF ~h.ok THEN Fails
             ELSE Ok([ctx |-> h.val.ctx, sums |-> Append(r.val.sums, h.val.text)])

AllHashes(ctx, hashes) == FoldLeft(AddHash, Ok([ctx |-> ctx, sums |-> <<>>]), hashes)

renderTemplate(ctx, f) ==
    IF f \notin DOMAIN ctx.files THEN Fails
    ELSE LET r == AllHashes(ctx, ctx.files[f].hashes)
         IN  IF ~r.ok THEN Fails
             ELSE Ok([ctx |-> Remember(r.val.ctx, f, Text(f, r.val.sums)),
                      text |-> Text(f, r.val.sums)])

\* The manifests of one component, in their order; files without content are
\* skipped.
AddManifest(files, r, f) ==
    IF ~r.ok THEN r
    ELSE LET t == renderTemplate(r.val.ctx, f)
         IN  IF ~t.ok \/ files[f].objects < 0 THEN Fails   \* no valid YAML
             ELSE Ok([ctx |-> t.val.ctx,
                      texts |-> IF files[f].objects = 0 THEN r.val.texts
                                ELSE Append(r.val.texts, t.val.text)])

RenderComponent(files, order) ==
    FoldLeft(LAMBDA r, f : AddManifest(files, r, f), Ok([ctx |-> newTemplateContext(files), texts |-> <<>>]), order)

\* All components, or an error; one without objects has no package.
AddComponent(r, c) ==
    IF ~r.ok THEN r
    ELSE LET t == RenderComponent(c.files, c.order)
         IN  IF ~t.ok THEN Fails
             ELSE IF t.val.texts = <<>> THEN r
             ELSE Ok(Append(r.val, [name |-> c.name, texts |-> t.val.texts]))

renderManifests(components) == FoldLeft(AddComponent, Ok(<<>>), components)

\* The deletions of every source, in the order of the sources: each file has
\* the ones before and the ones after the manifests are applied, or it cannot be
\* rendered or parsed.
AddFile(r, file) ==
    IF ~r.ok \/ ~file.ok THEN Fails
    ELSE Ok([preApply |-> r.val.preApply \o file.val.preApply,
             postApply |-> r.val.postApply \o file.val.postApply])

parseDeletions(files) == FoldLeft(AddFile, Ok([preApply |-> <<>>, postApply |-> <<>>]), files)

\* The same for the stacks of deletions.yaml of the CloudFormation manifests
parseCFDeletions(files) == parseDeletions(files)

-----------------------------------------------------------------------------
(* Files of nodes: rendered, encrypted one by one, archived and uploaded *)

makeArchive(files, kmsKey) ==
    [i \in DOMAIN files |->
        IF files[i].encrypted THEN [path |-> <<files[i].path, "enc">>, data |-> <<kmsKey, files[i].data>>]
        ELSE [path |-> <<files[i].path>>, data |-> <<files[i].data>>]]

\* getPKIKMSKey reads the key of the cluster and of the kind of its nodes.
KMSKey(node) == <<node.cluster, node.kind>>

\* A bug: files of all clusters are named by their hash only.
NamedByHash(node) == [bucket |-> node.account, key |-> <<node.files>>]

ObjectName(node) == [bucket |-> node.account, key |-> <<node.cluster, node.kind, node.files>>]

RenderAndUploadFiles(s3, node) ==
    LET name == ObjectName(node)
    IN  [n \in DOMAIN s3 \cup {name} |->
            IF n = name THEN makeArchive(node.files, KMSKey(node)) ELSE s3[n]]

\* A pool's user data names the archive of its files; the template of its stack
\* holds the user data.
PoolKind(pool) == IF pool.master THEN "master" ELSE "worker"

prepareCloudInit(s3, pool) ==
    LET node == [account |-> pool.account, cluster |-> pool.cluster, kind |-> PoolKind(pool), files |-> pool.files]
    IN  [s3 |-> RenderAndUploadFiles(s3, node), node |-> node,
         userData |-> [path |-> ObjectName(node), init |-> pool.init]]

generateNodePoolTemplate(s3, pool) ==
    LET prepared == prepareCloudInit(s3, pool)
    IN  [s3 |-> prepared.s3, node |-> prepared.node,
         template |-> [userData |-> prepared.userData, stack |-> pool.stack]]

UploadPool(s3, pool) == generateNodePoolTemplate(s3, pool).s3

-----------------------------------------------------------------------------
(* What these results must satisfy *)

Reaches(files, f) ==
    LET Hashed(S) == S \cup UNION {Range(files[g].hashes) : g \in S \cap DOMAIN files}
    IN  Hashed(Hashed(Hashed(Range(files[f].hashes))))

\* A manifest carries the hashes of the manifests as they are applied: a hash
\* is never one of an earlier rendering or of another file.  Files that hash each
\* other are refused.
HashesCurrent(files, order) ==
    LET r == RenderComponent(files, order)
    IN  r.ok => /\ \A f \in Range(order) : f \notin Reaches(files, f)
                /\ \A f \in Range(order) :
                      LET sums == r.val.ctx.rendered[f].sums
                      IN  /\ Len(sums) = Len(files[f].hashes)
                          /\ \A i \in DOMAIN sums : files[f].hashes[i] \in DOMAIN r.val.ctx.rendered /\ sums[i] = r.val.ctx.rendered[files[f].hashes[i]]
                /\ Len(r.val.texts) = Cardinality({i \in DOMAIN order : files[order[i]].objects > 0})

\* All components are rendered or none; those with objects keep their order.
AllRendered(files, order) ==
    LET components == <<[name |-> 1, files |-> files, order |-> order],
                        [name |-> 2, files |-> files, order |-> <<"b">>],
                        [name |-> 3, files |-> files, order |-> Reverse(order)]>>
        r == renderManifests(components)
        full(i) == \E f \in Range(components[i].order) : files[f].objects > 0
    IN  /\ r.ok <=> \A i \in 1..3 : RenderComponent(files, components[i].order).ok
        /\ r.ok => /\ {p.name : p \in Range(r.val)} = {i \in 1..3 : full(i)}
                   /\ \A i, j \in DOMAIN r.val : i < j => r.val[i].name < r.val[j].name

\* Nodes of different pools, kinds or clusters never overwrite each other's
\* files with something that they cannot read; and the template of a pool changes
\* whenever a node would be set up differently, so that nodes are replaced.
UploadsReadable(pools) ==
    LET s3 == FoldLeft(UploadPool, [n \in {} |-> 0], pools)
        made(i) == generateNodePoolTemplate(s3, pools[i])
    IN  /\ \A i \in DOMAIN pools :
              s3[made(i).template.userData.path] = makeArchive(pools[i].files, KMSKey(made(i).node))
        /\ \A i, j \in DOMAIN pools : made(i).template = made(j).template =>
              /\ pools[i].files = pools[j].files
              /\ pools[i].init = pools[j].init /\ pools[i].stack = pools[j].stack
              /\ KMSKey(made(i).node) = KMSKey(made(j).node)

\* No deletion of a later file overtakes one of an earlier file or moves to the
\* other side of the apply, and a file with an error stops all of them.
DeletionsInOrder(files) ==
    \A r \in {parseDeletions(files), parseCFDeletions(files)} :
        /\ r.ok <=> \A i \in DOMAIN files : files[i].ok
        /\ r.ok => \A i \in DOMAIN files, list \in {"preApply", "postApply"} :
              LET before == FlattenSeq([j \in 1..(i - 1) |-> files[j].val[list]])
              IN  IsPrefix(before \o files[i].val[list], r.val[list])
=============================================================================
