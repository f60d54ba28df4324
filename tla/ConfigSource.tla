---------------------------- MODULE ConfigSource ----------------------------
(***************************************************************************)
(* The configuration of clusters, package channel: git repositories that   *)
(* are mirrored below the working directory, and plain directories,        *)
(* combined into one source whose versions are cached until the next       *)
(* update.  The refresh loop updates the mirrors and resolves a version    *)
(* for every cluster; workers check out what they selected at the same     *)
(* time, file by file, and remove the files when they are done.            *)
(***************************************************************************)
EXTENDS Naturals, Sequences, FiniteSets, Functions

CONSTANTS
    Sources,     \* the names of the sources, in the order of the command line
    RepoName,    \* the last part of the URL of the ones that are git repositories
    Channels,    \* branches
    Clusters,
    Channel, Overrides,  \* of a cluster: its channel, and those of single sources
    Workers,
    TreeSize,    \* the number of files of every commit
    MaxPushes,   \* bound: commits to and deletions of branches
    MaxFaults    \* bound: failing calls, cancelled checkouts and crashes

Git == DOMAIN RepoName
RepoDirs == Range(RepoName)

\* NewCombinedSource refuses names that repeat.
NewCombinedSource(names) == IsInjective(names)

ASSUME SourcesAssumption ==
    /\ Sources \in Seq(Range(Sources)) /\ Sources # <<>>
    /\ Git \subseteq Range(Sources) /\ NewCombinedSource(Sources)
    /\ Channels # {}
    /\ Channel \in [Clusters -> Channels] /\ \A c \in Clusters : Overrides[c] \in [DOMAIN Overrides[c] -> Channels]
    /\ {TreeSize, MaxPushes, MaxFaults} \subseteq Nat /\ "" \notin Git

VARIABLES
    remote,   \* the branches of each repository, and its default branch
    mirror,   \* by directory
    cache,    \* CachingSource.cache
    refresh,  \* the refresh loop, and the clusters it has resolved
    list,     \* the version of each cluster, as the cluster list has it
    worker,   \* what a worker selected, and its checkouts
    dirs,     \* the checkouts below the working directory
    tips,     \* the branches when the refresh began
    pushes, faults

loop == <<cache, refresh, list, tips>>
vars == <<remote, mirror, loop, worker, dirs, pushes, faults>>

\* A commit: the repository it is of, and its number there
NoCommit == [of |-> "", n |-> 0]
LocalVersion == [of |-> "<dir>", n |-> 0]     \* Directory.ID
NoVersion == <<>>                             \* not resolved, or an error

Absent == [st |-> "absent", origin |-> "", refs |-> [ch \in Channels |-> NoCommit],
           objects |-> {}, head |-> CHOOSE ch \in Channels : TRUE]
NoUpdate == [pc |-> "idle", i |-> 1, done |-> {}]
Idle == [pc |-> "idle", version |-> NoVersion, i |-> 1, cancelled |-> FALSE]

Faulty == faults < MaxFaults /\ faults' = faults + 1

-----------------------------------------------------------------------------
(* Update of CachingSource, CombinedSource, Git and Directory *)

\* A bug: versions that were resolved before stay.
KeepCache == cache

CacheAfterUpdate == <<>>

\* A bug: sources are updated only while a cluster has no version.
BeginUnresolved ==
    /\ refresh.pc = "idle" /\ \E c \in Clusters : list[c] = NoVersion
    /\ cache' = CacheAfterUpdate
    /\ refresh' = [NoUpdate EXCEPT !.pc = "update"]
    /\ tips' = [s \in Git |-> remote[s].refs]
    /\ UNCHANGED <<remote, mirror, list, worker, dirs, pushes, faults>>

BeginUpdate ==
    /\ refresh.pc = "idle"
    /\ cache' = CacheAfterUpdate
    /\ refresh' = [NoUpdate EXCEPT !.pc = "update"]
    /\ tips' = [s \in Git |-> remote[s].refs]
    /\ UNCHANGED <<remote, mirror, list, worker, dirs, pushes, faults>>

Source == Sources[refresh.i]
Dir == RepoName[Source]
Updating(pc) == refresh.pc = pc /\ refresh.i <= Len(Sources)
NextSource == refresh' = [refresh EXCEPT !.pc = "update", !.i = @ + 1]
GiveUp == refresh' = NoUpdate
SameButMirror == UNCHANGED <<remote, cache, list, tips, worker, dirs, pushes>>

SkipDirectory ==
    /\ Updating("update") /\ Source \notin Git
    /\ NextSource /\ SameButMirror /\ UNCHANGED <<mirror, faults>>

\* The first clone.  The directory is created before the remote is known in it.
InitMirror ==
    /\ Updating("update") /\ Source \in Git /\ mirror[Dir].st = "absent"
    /\ mirror' = [mirror EXCEPT ![Dir].st = "init"]
    /\ refresh' = [refresh EXCEPT !.pc = "clone"]
    /\ SameButMirror /\ UNCHANGED faults

CloneMirror ==
    /\ Updating("clone")
    /\ \/ /\ mirror' = [mirror EXCEPT ![Dir] =
                           [st |-> "ready", origin |-> Source, refs |-> remote[Source].refs,
                            objects |-> Range(remote[Source].refs) \ {NoCommit},
                            head |-> remote[Source].head]]
          /\ NextSource /\ UNCHANGED faults
       \/ Faulty /\ mirror' = [mirror EXCEPT ![Dir] = Absent] /\ GiveUp
    /\ SameButMirror

\* A bug: the objects of deleted or overwritten branches go, too.
FetchAndCollect(m) ==
    [m EXCEPT !.refs = remote[m.origin].refs,
              !.objects = Range(remote[m.origin].refs) \ {NoCommit}]

\* refs/*:refs/*, with Prune and Force; objects are only ever added
Fetch(m) ==
    [m EXCEPT !.refs = remote[m.origin].refs,
              !.objects = @ \cup (Range(remote[m.origin].refs) \ {NoCommit})]

\* From the remote that the mirror was cloned from.
FetchMirror ==
    /\ Updating("update") /\ Source \in Git /\ mirror[Dir].st # "absent"
    /\ \/ /\ mirror[Dir].st = "ready"
          /\ mirror' = [mirror EXCEPT ![Dir] = Fetch(@)]
          /\ refresh' = [refresh EXCEPT !.pc = "sync"] /\ UNCHANGED faults
       \/ Faulty /\ GiveUp /\ UNCHANGED mirror
       \/ mirror[Dir].st = "init" /\ GiveUp /\ UNCHANGED <<mirror, faults>>
    /\ SameButMirror

\* syncMirrorHEAD; a failure only matters when HEAD does not resolve.
SyncHead ==
    /\ Updating("sync")
    /\ \/ /\ mirror' = [mirror EXCEPT ![Dir].head = remote[mirror[Dir].origin].head]
          /\ NextSource /\ UNCHANGED faults
       \/ /\ Faulty /\ UNCHANGED mirror
          /\ IF mirror[Dir].refs[mirror[Dir].head] = NoCommit THEN GiveUp ELSE NextSource
    /\ SameButMirror

EndUpdate ==
    /\ refresh.pc = "update" /\ refresh.i > Len(Sources)
    /\ refresh' = [refresh EXCEPT !.pc = "resolve"]
    /\ SameButMirror /\ UNCHANGED <<mirror, faults>>

-----------------------------------------------------------------------------
(* Version *)

\* CombinedSource.Version: an override, or the channel of the cluster
ChannelOf(c, s) == IF s \in DOMAIN Overrides[c] THEN Overrides[c][s] ELSE Channel[c]

\* Git.Version and Directory.Version
Resolve(s, ch) == IF s \in Git THEN mirror[RepoName[s]].refs[ch] ELSE LocalVersion

\* The first source that fails fails all of them.
CombinedVersion(c) ==
    LET v == [i \in DOMAIN Sources |-> Resolve(Sources[i], ChannelOf(c, Sources[i]))]
    IN  IF NoCommit \in Range(v) THEN NoVersion ELSE v

\* The key has the overrides in the order in which the map is walked: with two
\* of them an entry may not be found again.
CacheKey(c) == <<Channel[c], Overrides[c]>>
Cached(c) == CacheKey(c) \in DOMAIN cache
Version(c) ==
    \/ /\ Cached(c)
       /\ list' = [list EXCEPT ![c] = cache[CacheKey(c)]] /\ UNCHANGED cache
    \/ /\ ~Cached(c) \/ Cardinality(DOMAIN Overrides[c]) > 1
       /\ list' = [list EXCEPT ![c] = CombinedVersion(c)]
       /\ cache' = IF CombinedVersion(c) = NoVersion THEN cache
                   ELSE [k \in DOMAIN cache \cup {CacheKey(c)} |->
                            IF k = CacheKey(c) THEN CombinedVersion(c) ELSE cache[k]]

ResolveCluster(c) ==
    /\ refresh.pc = "resolve" /\ c \notin refresh.done
    /\ Version(c)
    /\ refresh' = [refresh EXCEPT !.done = @ \cup {c}]
    /\ UNCHANGED <<remote, mirror, tips, worker, dirs, pushes, faults>>

EndRefresh ==
    /\ refresh.pc = "resolve" /\ refresh.done = Clusters
    /\ GiveUp /\ SameButMirror /\ UNCHANGED <<mirror, faults>>

-----------------------------------------------------------------------------
(* Get and Delete, by a worker *)

Select(w, c) ==
    /\ worker[w].pc = "idle" /\ list[c] # NoVersion
    /\ worker' = [worker EXCEPT ![w] = [Idle EXCEPT !.pc = "get", !.version = list[c]]]
    /\ UNCHANGED <<remote, mirror, loop, dirs, pushes, faults>>

Current(w) == Sources[worker[w].i]
Getting(w) == worker[w].pc = "get" /\ worker[w].i <= Len(Sources)
Checkout(w, k) == [owner |-> w, i |-> worker[w].i, repo |-> RepoName[Current(w)],
                   commit |-> worker[w].version[worker[w].i], files |-> k]
Opened(w) == \E d \in dirs : d.owner = w /\ d.i = worker[w].i
Advance(w) == worker' = [worker EXCEPT ![w].i = @ + 1]
SameButDirs == UNCHANGED <<remote, mirror, loop, pushes>>

\* Directory.Get: the configuration is the directory itself.
GetDirectory(w) ==
    /\ Getting(w) /\ Current(w) \notin Git
    /\ Advance(w) /\ SameButDirs /\ UNCHANGED <<dirs, faults>>

\* localClone: the commit is looked up in the mirror, in a directory of its own
LocalClone(w) ==
    /\ Getting(w) /\ Current(w) \in Git /\ ~Opened(w)
    /\ Checkout(w, 0).commit \in mirror[RepoName[Current(w)]].objects
    /\ dirs' = dirs \cup {Checkout(w, 0)}
    /\ SameButDirs /\ UNCHANGED <<worker, faults>>

\* A bug: an error while writing counts as the end of the tree.
WriteSome(w) ==
    /\ Getting(w) /\ Opened(w)
    /\ \E d \in dirs :
          /\ d.owner = w /\ d.i = worker[w].i
          /\ IF d.files = TreeSize \/ worker[w].cancelled THEN Advance(w) /\ UNCHANGED dirs
             ELSE dirs' = (dirs \ {d}) \cup {Checkout(w, d.files + 1)} /\ UNCHANGED worker
    /\ SameButDirs /\ UNCHANGED faults

\* writeTreeEntries looks at the context before every file.
WriteEntry(w) ==
    /\ Getting(w) /\ Opened(w)
    /\ \E d \in dirs :
          /\ d.owner = w /\ d.i = worker[w].i
          /\ IF d.files = TreeSize THEN Advance(w) /\ UNCHANGED dirs
             ELSE /\ ~worker[w].cancelled
                  /\ dirs' = (dirs \ {d}) \cup {Checkout(w, d.files + 1)} /\ UNCHANGED worker
    /\ SameButDirs /\ UNCHANGED faults

\* A bug: only the checkout that failed is removed.
RemoveLast(w) == {d \in dirs : d.owner = w /\ d.i = worker[w].i}

\* The checkout that failed (localClone) and those of the sources before it
\* (combinedVersion.Get)
RemoveAll(w) == {d \in dirs : d.owner = w}

GetFails(w) ==
    /\ Getting(w) /\ Current(w) \in Git
    /\ \/ Faulty
       \/ worker[w].cancelled /\ Opened(w) /\ Checkout(w, TreeSize) \notin dirs /\ UNCHANGED faults
       \/ ~Opened(w) /\ Checkout(w, 0).commit \notin mirror[RepoName[Current(w)]].objects /\ UNCHANGED faults
    /\ dirs' = dirs \ RemoveAll(w)
    /\ worker' = [worker EXCEPT ![w] = Idle]
    /\ SameButDirs

GetEnds(w) ==
    /\ worker[w].pc = "get" /\ worker[w].i > Len(Sources)
    /\ worker' = [worker EXCEPT ![w].pc = "use"]
    /\ SameButDirs /\ UNCHANGED <<dirs, faults>>

\* The provisioner has returned; the files of a directory source are kept.
DeleteConfig(w) ==
    /\ worker[w].pc = "use"
    /\ dirs' = {d \in dirs : d.owner # w}
    /\ worker' = [worker EXCEPT ![w] = Idle]
    /\ SameButDirs /\ UNCHANGED faults

CancelUpdate(w) ==
    /\ worker[w].pc # "idle" /\ ~worker[w].cancelled /\ Faulty
    /\ worker' = [worker EXCEPT ![w].cancelled = TRUE]
    /\ SameButDirs /\ UNCHANGED dirs

-----------------------------------------------------------------------------
(* Others *)

\* A commit, possibly on a new branch
Push(s, ch) ==
    /\ pushes < MaxPushes
    /\ pushes' = pushes + 1
    /\ remote' = [remote EXCEPT ![s].refs[ch] = [of |-> s, n |-> pushes + 2]]
    /\ UNCHANGED <<mirror, loop, worker, dirs, faults>>

\* The default branch is renamed, or another one is deleted.
DeleteBranch(s, ch) ==
    /\ pushes < MaxPushes
    /\ pushes' = pushes + 1
    /\ remote[s].refs[ch] # NoCommit
    /\ \E head \in Channels \ {ch} :
          /\ remote[s].refs[head] # NoCommit
          /\ remote' = [remote EXCEPT ![s].refs[ch] = NoCommit, ![s].head = IF @ = ch THEN head ELSE @]
    /\ UNCHANGED <<mirror, loop, worker, dirs, faults>>

\* NewGit: directories named after the repository are left from a process before.
NewGit(ds) == {d \in ds : d.repo \notin RepoDirs}

Restart ==
    /\ Faulty
    /\ cache' = <<>> /\ refresh' = NoUpdate /\ list' = [c \in Clusters |-> NoVersion]
    /\ worker' = [w \in Workers |-> Idle]
    /\ dirs' = NewGit(dirs)
    /\ UNCHANGED <<remote, mirror, tips, pushes>>

-----------------------------------------------------------------------------
Init ==
    /\ remote = [s \in Git |-> [refs |-> [ch \in Channels |-> [of |-> s, n |-> 1]],
                                head |-> Absent.head]]
    /\ mirror = [d \in RepoDirs |-> Absent]
    /\ cache = <<>> /\ refresh = NoUpdate /\ list = [c \in Clusters |-> NoVersion]
    /\ worker = [w \in Workers |-> Idle] /\ dirs = {}
    /\ tips = [s \in Git |-> remote[s].refs]
    /\ pushes = 0 /\ faults = 0

Refresh ==
    \/ BeginUpdate \/ SkipDirectory \/ InitMirror \/ CloneMirror \/ FetchMirror \/ SyncHead
    \/ EndUpdate \/ EndRefresh \/ \E c \in Clusters : ResolveCluster(c)

Process(w) ==
    \/ GetDirectory(w) \/ LocalClone(w) \/ WriteEntry(w) \/ GetFails(w) \/ GetEnds(w)
    \/ DeleteConfig(w) \/ CancelUpdate(w) \/ \E c \in Clusters : Select(w, c)

Next ==
    \/ Refresh \/ Restart
    \/ \E w \in Workers : Process(w)
    \/ \E s \in Git, ch \in Channels : Push(s, ch) \/ DeleteBranch(s, ch)

Spec == Init /\ [][Next]_vars

\* The refresh loop goes on for ever, and so does a worker that has begun.
FairSpec ==
    /\ Spec /\ WF_vars(Refresh)
    /\ \A w \in Workers : WF_vars(Process(w))

-----------------------------------------------------------------------------
(* Properties *)

Versions == {list[c] : c \in Clusters} \cup {worker[w].version : w \in Workers}

\* What a cluster or a worker was given can be checked out at any time, also
\* while the mirror is fetched and after its branch was overwritten or deleted.
VersionsStay ==
    \A v \in Versions : \A i \in DOMAIN v :
        Sources[i] \in Git => v[i] \in mirror[RepoName[Sources[i]]].objects

\* A version that a refresh resolves is no older than the branches were when it
\* began: nothing of an earlier refresh is reused.
VersionsFresh ==
    refresh.pc = "resolve" => \A c \in refresh.done : \A i \in DOMAIN list[c] :
        Sources[i] \in Git /\ list[c][i].of = Sources[i] =>
            list[c][i].n >= tips[Sources[i]][ChannelOf(c, Sources[i])].n

\* The configuration that a provisioner gets has all files of the version that
\* was selected, whatever was cancelled or failed.
CheckoutComplete ==
    \A w \in Workers : worker[w].pc = "use" =>
        \A i \in DOMAIN Sources : Sources[i] \in Git =>
            \E d \in dirs : d.owner = w /\ d.i = i /\ d.files = TreeSize /\ d.commit = worker[w].version[i]

\* A checkout exists only while the worker that made it is busy, however Get
\* ends and after every crash.
NoLeftovers == \A d \in dirs : worker[d.owner].pc # "idle"

Settled(c) ==
    LET want == [i \in DOMAIN Sources |->
                    IF Sources[i] \in Git THEN remote[Sources[i]].refs[ChannelOf(c, Sources[i])]
                    ELSE LocalVersion]
    IN  list[c] = IF NoCommit \in Range(want) THEN NoVersion ELSE want

\* Once nobody pushes, every cluster gets the last commits of its channels, and
\* none if a branch is gone, unless a crash has interrupted the first clone.
Refreshes == <>[](\A c \in Clusters : Settled(c)) \/ <>[](\E d \in RepoDirs : mirror[d].st = "init")
=============================================================================
