---------------------------- MODULE ConfigFiles ----------------------------
(***************************************************************************)
(* How a commit becomes a directory, and a directory the manifests of a    *)
(* cluster.  A file system is a function from paths, sequences of names,   *)
(* to directories, files and symbolic links.  A tree of a commit is the    *)
(* sequence of its entries with their paths, in the order in which         *)
(* writeTreeEntries descends into it.                                      *)
(***************************************************************************)
EXTENDS Networks

-----------------------------------------------------------------------------
(* The file system *)

Dir == [type |-> "dir"]
File(data) == [type |-> "file", data |-> data]
Link(target) == [type |-> "link", target |-> target]

With(fs, path, node) == [p \in DOMAIN fs \cup {path} |-> IF p = path THEN node ELSE fs[p]]

\* Where a path leads: links are followed, except for one at its end.
Into(fs, path, at, i) ==
    LET p == Append(at, path[i])
    IN  IF i < Len(path) /\ p \in DOMAIN fs /\ fs[p].type = "link" THEN fs[p].target ELSE p

Follow(fs, path) == FoldLeft(LAMBDA at, i : Into(fs, path, at, i), <<>>, Positions(path))

Lstat(fs, path) == Follow(fs, path) \in DOMAIN fs

Enter(p, name) ==
    IF name # ".." THEN Append(p, name) ELSE IF p = <<>> THEN p ELSE Front(p)

Clean(path) == FoldLeft(Enter, <<>>, path)

-----------------------------------------------------------------------------
(* Writing a tree *)

safeJoin(dir, name) ==
    LET dest == Clean(dir \o name)
    IN  IF IsPrefix(dir, dest) THEN Ok(dest) ELSE Fails

\* A bug: whatever exists is taken for the directory.
MkdirIfMissing(fs, root, destDir) ==
    LET Make(f, n) == LET p == SubSeq(destDir, 1, n) IN IF Lstat(f, p) THEN f ELSE With(f, Follow(f, p), Dir)
    IN  Ok(FoldLeft(Make, With(fs, root, Dir), [i \in 1..(Len(destDir) - Len(root)) |-> Len(root) + i]))

\* Every directory from the root down to the one of the file; what exists there
\* must be a directory.
Mkdir(p, r) ==
    IF ~r.ok THEN r
    ELSE IF ~Lstat(r.val, p) THEN Ok(With(r.val, Follow(r.val, p), Dir))
    ELSE IF r.val[Follow(r.val, p)].type = "dir" THEN r
    ELSE Fails

safeMkdirAll(fs, root, destDir) ==
    FoldLeft(LAMBDA r, n : Mkdir(SubSeq(destDir, 1, n), r), Ok(With(fs, root, Dir)),
             [i \in 1..(Len(destDir) - Len(root)) |-> Len(root) + i])

\* Nothing that exists is overwritten.
writeBlob(fs, dest, data) ==
    IF Lstat(fs, dest) THEN Fails ELSE Ok(With(fs, Follow(fs, dest), File(data)))

writeSymlink(fs, dest, target) ==
    IF Lstat(fs, dest) THEN Fails ELSE Ok(With(fs, Follow(fs, dest), Link(target)))

\* Submodules are skipped; a blob or subtree that cannot be read is an error.
writeTreeEntry(fs, dir, e) ==
    IF e.mode = "submodule" THEN Ok(fs)
    ELSE LET dest == safeJoin(dir, e.path)
             made == safeMkdirAll(fs, dir, Front(dest.val))
         IN  IF ~dest.ok THEN Fails
             ELSE IF ~made.ok \/ e.mode = "broken" THEN Fails
             ELSE IF e.mode = "link" THEN writeSymlink(made.val, dest.val, e.data)
             ELSE writeBlob(made.val, dest.val, e.data)

AddEntry(dir, r, e) == IF ~r.ok THEN r ELSE writeTreeEntry(r.val, dir, e)

writeTree(fs, tree, dir) == FoldLeft(LAMBDA r, e : AddEntry(dir, r, e), Ok(fs), tree)

\* auth: SSH sources use the key of ~/.ssh/config for the host, if it has one.
auth(url, keyFile, identityFile, readable) ==
    LET key == IF identityFile # "" THEN identityFile ELSE keyFile
    IN  IF url # "ssh" \/ key = "" THEN Ok("none")
        ELSE IF key \notin readable THEN Fails
        ELSE Ok(key)

\* localFSLoader: a checkout's own repository before a bare one
Load(fs) ==
    CASE <<".git", "config">> \in DOMAIN fs -> Ok(<<".git">>)
      [] <<"config">> \in DOMAIN fs -> Ok(<<>>)
      [] OTHER -> Fails

-----------------------------------------------------------------------------
(* SimpleConfig: the files of one source.  Directories list their entries in   *)
(* the order of their names; a file that does not exist is an empty sequence.  *)

readManifest(source, text) == [source |-> source, text |-> text]

Optional(source, file) == [i \in DOMAIN file |-> readManifest(source, file[i])]
DefaultsManifests(c) == Optional(c.source, c.defaults)
DeletionsManifests(c) == Optional(c.source, c.deletions)
CFDeletionsManifests(c) == Optional(c.source, c.cfDeletions)

ToManifests(c, files) == [i \in DOMAIN files |-> readManifest(c.source, files[i].text)]

\* The deletions are in the same directory, and no manifest.
CFManifests(c) ==
    ToManifests(c, SelectSeq(c.cf, LAMBDA e : ~e.dir /\ e.yaml /\ ~e.deletions))

\* A directory with the name of a manifest cannot be read.
Components(c) ==
    LET dirs == SelectSeq(c.manifests, LAMBDA e : e.dir)
    IN  IF \E i \in DOMAIN dirs : \E j \in DOMAIN dirs[i].files : dirs[i].files[j].yaml /\ dirs[i].files[j].dir THEN Fails
        ELSE Ok([i \in DOMAIN dirs |->
                    [name |-> dirs[i].name, manifests |-> ToManifests(c, SelectSeq(dirs[i].files, LAMBDA e : e.yaml))]])

-----------------------------------------------------------------------------
(* combinedConfig *)

mainConfig(configs) == IF configs = <<>> THEN Fails ELSE Ok(configs[1])
StackManifest(configs, name) ==
    LET main == mainConfig(configs)
    IN  IF ~main.ok \/ name \notin DOMAIN main.val.stack THEN Fails ELSE Ok(readManifest(main.val.source, main.val.stack[name]))

CombinedDefaults(configs) == FlattenSeq([i \in DOMAIN configs |-> DefaultsManifests(configs[i])])
CombinedDeletions(configs) == FlattenSeq([i \in DOMAIN configs |-> DeletionsManifests(configs[i])])
CombinedCFDeletions(configs) == FlattenSeq([i \in DOMAIN configs |-> CFDeletionsManifests(configs[i])])
CombinedCFManifests(configs) == FlattenSeq([i \in DOMAIN configs |-> CFManifests(configs[i])])

CombinedComponents(configs) ==
    LET r == [i \in DOMAIN configs |-> Components(configs[i])]
    IN  IF \E i \in DOMAIN configs : ~r[i].ok THEN Fails
        ELSE Ok(FlattenSeq([i \in DOMAIN configs |->
                    [j \in DOMAIN r[i].val |-> [r[i].val[j] EXCEPT !.name = <<configs[i].source, @>>]]]))

-----------------------------------------------------------------------------
(* What these results must satisfy *)

\* A checkout that succeeds has every entry of the tree with its content and
\* nothing else, and what is outside its directory is as before.
CheckoutRight(fs, tree, dir) ==
    LET r == writeTree(fs, tree, dir)
        written == {i \in DOMAIN tree : tree[i].mode # "submodule"}
        Place(i) == Clean(dir \o tree[i].path)
        new == DOMAIN r.val \ DOMAIN fs
    IN  r.ok =>
            /\ \A p \in DOMAIN fs : r.val[p] = fs[p]
            /\ \A p \in new : IsPrefix(dir, p) /\ (r.val[p].type = "dir" \/ \E i \in written : p = Place(i))
            /\ \A i \in written :
                  /\ Place(i) \in new
                  /\ r.val[Place(i)] = IF tree[i].mode = "link" THEN Link(tree[i].data) ELSE File(tree[i].data)

\* Every manifest of every source is applied once, in the order of the sources,
\* and components of different sources are told apart.
ManifestsComplete(configs) ==
    LET r == CombinedComponents(configs)
        texts == [i \in DOMAIN r.val |-> [j \in DOMAIN r.val[i].manifests |-> r.val[i].manifests[j].text]]
        files == FlattenSeq([i \in DOMAIN configs |->
                     FlattenSeq([j \in DOMAIN configs[i].manifests |->
                         IF configs[i].manifests[j].dir THEN configs[i].manifests[j].files ELSE <<>>])])
        yaml == SelectSeq(files, LAMBDA e : e.yaml)
    IN  /\ r.ok <=> ~\E i \in DOMAIN yaml : yaml[i].dir
        /\ r.ok => /\ FlattenSeq(texts) = [i \in DOMAIN yaml |-> yaml[i].text]
                   /\ \A i, j \in DOMAIN r.val : r.val[i].name = r.val[j].name => i = j
        /\ Range(CombinedCFManifests(configs)) \cap Range(CombinedCFDeletions(configs)) = {}

\* Defaults and deletions are those of every source that has them, in the order of
\* the sources; the stacks are those of the first source.
SourcesInOrder(configs) ==
    LET having(g(_)) == SelectSeq(configs, LAMBDA c : g(c) # <<>>)
        sources(ms) == [i \in DOMAIN ms |-> ms[i].source]
        names(cs) == [i \in DOMAIN cs |-> cs[i].source]
    IN  /\ sources(CombinedDefaults(configs)) = names(having(LAMBDA c : c.defaults))
        /\ sources(CombinedDeletions(configs)) = names(having(LAMBDA c : c.deletions))
        /\ StackManifest(configs, "cluster").ok => StackManifest(configs, "cluster").val.source = configs[1].source

\* A source with a key is never fetched without it, and the repository of a working
\* copy is found although the copy has a file like one of a bare repository.
SourcesOpened(url, keyFile, identityFile, readable) ==
    LET a == auth(url, keyFile, identityFile, readable)
        copy == With(With([p \in {} |-> Dir], <<"config">>, File(<<>>)), <<".git", "config">>, File(<<>>))
    IN  /\ url = "ssh" /\ {keyFile, identityFile} # {""} =>
              (a.ok => a.val \in readable \cap {keyFile, identityFile})
        /\ url = "ssh" /\ identityFile # "" /\ a.ok => a.val = identityFile
        /\ Load(copy).val = <<".git">>
=============================================================================
