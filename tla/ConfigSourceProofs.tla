------------------------- MODULE ConfigSourceProofs -------------------------
(***************************************************************************)
(* What holds of the configuration sources for every set of sources, also  *)
(* of ones that share a mirror, and every number of workers, clusters,     *)
(* files, pushes and faults.                                               *)
(***************************************************************************)
EXTENDS ConfigSource, SequenceTheorems, TLAPS

Commits == [of : Git \cup {"", "<dir>"}, n : Nat]
Refs == [Channels -> Commits]
Vers == {NoVersion} \cup [DOMAIN Sources -> Commits]

RemoteType == remote \in [Git -> [refs : Refs, head : Channels]]
MirrorRecord == [st : {"absent", "init", "ready"}, origin : Git \cup {""},
                 refs : Refs, objects : SUBSET Commits, head : Channels]
MirrorType == mirror \in [RepoDirs -> MirrorRecord]
LoopType ==
    /\ cache \in [DOMAIN cache -> Vers]
    /\ refresh \in [pc : {"idle", "update", "clone", "sync", "resolve"}, i : Nat,
                    done : SUBSET Clusters]
    /\ list \in [Clusters -> Vers]
    /\ tips \in [Git -> Refs]
WorkerType == worker \in [Workers -> [pc : {"idle", "get", "use"}, version : Vers, i : Nat,
                                      cancelled : BOOLEAN]]
DirsType == dirs \subseteq [owner : Workers, i : Nat, repo : RepoDirs, commit : Commits, files : Nat]

TypeOK ==
    /\ RemoteType /\ MirrorType /\ LoopType /\ WorkerType /\ DirsType
    /\ pushes \in Nat /\ faults \in Nat

-----------------------------------------------------------------------------
(* Facts about the constants *)

LEMMA SourceFacts ==
    /\ Len(Sources) \in Nat /\ DOMAIN Sources = 1..Len(Sources)
    /\ \A i \in 1..Len(Sources) : Sources[i] \in Range(Sources)
    /\ \A s \in Git : RepoName[s] \in RepoDirs
    /\ NoCommit \in Commits /\ LocalVersion \in Commits
    /\ DOMAIN NoVersion = {}
<1>1. Len(Sources) \in Nat /\ DOMAIN Sources = 1..Len(Sources)
  <2>1. Sources \in Seq(Range(Sources))
    BY SourcesAssumption, Zenon
  <2> QED
    BY <2>1, LenProperties
<1>2. \A i \in 1..Len(Sources) : Sources[i] \in Range(Sources)
  BY <1>1 DEF Range
<1>3. \A s \in Git : RepoName[s] \in RepoDirs
  BY DEF Git, RepoDirs, Range
<1>4. NoCommit \in Commits /\ LocalVersion \in Commits
  BY DEF NoCommit, LocalVersion, Commits
<1>5. DOMAIN NoVersion = {}
  BY DEF NoVersion
<1> QED
  BY <1>1, <1>2, <1>3, <1>4, <1>5

\* The commit that stands for no commit is of no source.
LEMMA NoCommitIsOfNone == \A s \in Git : NoCommit.of # s /\ NoCommit.of = ""
<1>1. "" \notin Git
  BY SourcesAssumption, Zenon
<1>2. NoCommit.of = ""
  BY DEF NoCommit
<1> QED
  BY <1>1, <1>2, Zenon

LEMMA AbsentType == Absent \in MirrorRecord
<1>1. (CHOOSE ch \in Channels : TRUE) \in Channels
  BY SourcesAssumption, Zenon
<1>2. [ch \in Channels |-> NoCommit] \in Refs
  BY SourceFacts DEF Refs
<1> QED
  BY <1>1, <1>2 DEF Absent, MirrorRecord

-----------------------------------------------------------------------------
(* Types *)

LEMMA InitTyped == Init => TypeOK
<1> SUFFICES ASSUME Init PROVE TypeOK
  OBVIOUS
<1>1. RemoteType
  <2>1. Absent.head \in Channels
    BY AbsentType DEF MirrorRecord
  <2>2. \A s \in Git : [ch \in Channels |-> [of |-> s, n |-> 1]] \in Refs
    BY DEF Refs, Commits
  <2> QED
    BY <2>1, <2>2 DEF Init, RemoteType
<1>2. MirrorType
  BY AbsentType DEF Init, MirrorType, MirrorRecord
<1>3. LoopType
  <2>1. \A c \in Clusters : list[c] = NoVersion
    BY DEF Init
  <2>2. cache = NoVersion
    BY DEF Init, NoVersion
  <2>3. tips \in [Git -> Refs]
    BY <1>1 DEF Init, RemoteType
  <2>4. cache \in [DOMAIN cache -> Vers]
    BY <2>2, SourceFacts DEF NoVersion
  <2> QED
    BY <2>3, <2>4 DEF Init, LoopType, NoUpdate, Vers
<1>4. WorkerType
  BY DEF Init, WorkerType, Idle, Vers
<1>5. DirsType /\ pushes \in Nat /\ faults \in Nat
  BY DEF Init, DirsType
<1> QED
  BY <1>1, <1>2, <1>3, <1>4, <1>5 DEF TypeOK

-----------------------------------------------------------------------------
(* The inductive invariant of the mirrors and the refresh loop *)

\* What the refresh loop is at.
RefreshInv ==
    /\ refresh.pc \in {"clone", "sync"} => refresh.i <= Len(Sources) /\ Source \in Git
    /\ refresh.pc = "clone" => mirror[Dir].st = "init"
    /\ refresh.pc = "sync" => mirror[Dir].st = "ready"
    /\ refresh.pc # "resolve" => refresh.done = {}
    /\ refresh.pc = "resolve" => refresh.i > Len(Sources)
    /\ refresh.i >= 1

\* A branch of a mirror is in its object store, and nothing is in the store of
\* a mirror that has not been cloned yet.
MirrorInv == \A d \in RepoDirs :
    /\ mirror[d].st = "ready" => mirror[d].origin \in Git
    /\ mirror[d].st # "ready" => mirror[d].objects = {}
    /\ \A ch \in Channels : mirror[d].refs[ch] \in mirror[d].objects \cup {NoCommit}

\* Branches only move on, unless they are deleted.
RemoteInv == \A s \in Git, ch \in Channels :
    /\ tips[s][ch].n <= pushes + 1
    /\ \/ remote[s].refs[ch] = NoCommit
       \/ /\ remote[s].refs[ch].of = s /\ remote[s].refs[ch].n >= tips[s][ch].n
          /\ remote[s].refs[ch].n <= pushes + 1

\* The mirror of a source has nothing older than the refresh.
UpToDate(s) == \A ch \in Channels :
    mirror[RepoName[s]].refs[ch].of = s => mirror[RepoName[s]].refs[ch].n >= tips[s][ch].n
Passed(j) == j < refresh.i \/ (j = refresh.i /\ refresh.pc = "sync")
UpdatedInv == \A j \in DOMAIN Sources : Sources[j] \in Git /\ Passed(j) => UpToDate(Sources[j])

\* What was resolved can be checked out, and is as new as the refresh.
Available(v) == \A i \in DOMAIN v :
    Sources[i] \in Git => v[i] \in mirror[RepoName[Sources[i]]].objects
Fresh(c, v) == \A i \in DOMAIN v :
    Sources[i] \in Git /\ v[i].of = Sources[i] =>
        v[i].n >= tips[Sources[i]][ChannelOf(c, Sources[i])].n
CacheInv ==
    /\ \A k \in DOMAIN cache : Available(cache[k])
    /\ \A c \in Clusters : Cached(c) => Fresh(c, cache[CacheKey(c)])
ListInv ==
    /\ \A c \in Clusters : Available(list[c])
    /\ \A c \in refresh.done : Fresh(c, list[c])

LoopInv ==
    /\ RemoteType /\ MirrorType /\ LoopType /\ pushes \in Nat
    /\ RefreshInv /\ MirrorInv /\ RemoteInv /\ UpdatedInv /\ CacheInv /\ ListInv

\* Object stores only grow.
Grows == \A d \in RepoDirs : mirror[d].objects \subseteq mirror'[d].objects

LEMMA LoopInit == Init => LoopInv
<1> SUFFICES ASSUME Init PROVE LoopInv
  OBVIOUS
<1> TypeOK
  BY InitTyped
<1>1. RefreshInv
  BY DEF Init, RefreshInv, NoUpdate
<1>2. MirrorInv
  BY DEF Init, MirrorInv, Absent
<1>3. RemoteInv
  BY DEF Init, RemoteInv
<1>4. UpdatedInv
  BY SourceFacts DEF Init, UpdatedInv, Passed, NoUpdate
<1>5. CacheInv /\ ListInv
  <2>1. DOMAIN cache = {} /\ \A c \in Clusters : DOMAIN list[c] = {}
    BY SourceFacts DEF Init, NoVersion
  <2> QED
    BY <2>1 DEF Init, CacheInv, Cached, ListInv, Available, NoUpdate
<1> QED
  BY <1>1, <1>2, <1>3, <1>4, <1>5 DEF LoopInv, TypeOK

\* A step of the refresh loop that resolves nothing, or one of somebody else.
LEMMA LoopStep ==
    ASSUME LoopInv,
           RemoteType', MirrorType', refresh' \in [pc : {"idle", "update", "clone", "sync", "resolve"},
                                                   i : Nat, done : SUBSET Clusters],
           pushes' \in Nat, UNCHANGED <<tips, cache, list>>,
           RefreshInv', MirrorInv', RemoteInv', Grows,
           \A s \in Git : UpToDate(s) => UpToDate(s)',
           \A j \in DOMAIN Sources :
              Sources[j] \in Git /\ Passed(j)' => Passed(j) \/ UpToDate(Sources[j])',
           refresh'.done \subseteq refresh.done
    PROVE  LoopInv'
<1> USE DEF LoopInv
<1>1. LoopType'
  BY DEF LoopType
<1>2. UpdatedInv'
  <2> SUFFICES ASSUME NEW j \in DOMAIN Sources, Sources[j] \in Git, Passed(j)'
               PROVE  UpToDate(Sources[j])'
    BY DEF UpdatedInv
  <2>1. Passed(j) \/ UpToDate(Sources[j])'
    OBVIOUS
  <2>2. CASE Passed(j)
    BY <2>2 DEF UpdatedInv
  <2> QED
    BY <2>1, <2>2
<1>3. ASSUME NEW v, Available(v) PROVE Available(v)'
  <2> SUFFICES ASSUME NEW k \in DOMAIN v, Sources[k] \in Git
               PROVE  v[k] \in mirror'[RepoName[Sources[k]]].objects
    BY DEF Available
  <2>1. RepoName[Sources[k]] \in RepoDirs
    BY SourceFacts
  <2> QED
    BY <1>3, <2>1 DEF Available, Grows
<1>4. ASSUME NEW c, NEW v, Fresh(c, v) PROVE Fresh(c, v)'
  BY <1>4 DEF Fresh
<1>5. CacheInv'
  BY <1>3, <1>4 DEF CacheInv, Cached
<1>6. ListInv'
  BY <1>3, <1>4 DEF ListInv
<1> QED
  BY <1>1, <1>2, <1>5, <1>6

RefreshType == [pc : {"idle", "update", "clone", "sync", "resolve"}, i : Nat,
                done : SUBSET Clusters]

LEMMA NoUpdateType == NoUpdate \in RefreshType
  BY DEF NoUpdate, RefreshType

\* The source at hand is one of the list, and a git repository has a mirror.
LEMMA SourceAtHand ==
    ASSUME LoopInv, refresh.i <= Len(Sources)
    PROVE  /\ refresh.i \in DOMAIN Sources /\ refresh.i \in Nat
           /\ Source \in Git => Dir \in RepoDirs
  BY SourceFacts DEF LoopInv, LoopType, RefreshInv, Dir

\* Sources are told apart by their names.
LEMMA SourcesDiffer ==
    ASSUME NEW i \in DOMAIN Sources, NEW j \in DOMAIN Sources, Sources[i] = Sources[j]
    PROVE  i = j
  BY SourcesAssumption DEF NewCombinedSource, IsInjective

\* The mirrors do not change: only what the loop is at does.
LEMMA SameMirrors ==
    ASSUME LoopInv, refresh' \in RefreshType, RefreshInv',
           UNCHANGED <<remote, mirror, cache, list, tips, pushes>>,
           refresh'.done \subseteq refresh.done,
           \A j \in DOMAIN Sources :
              Sources[j] \in Git /\ Passed(j)' => Passed(j)
    PROVE  LoopInv' /\ Grows
<1>1. RemoteType' /\ MirrorType' /\ pushes' \in Nat
  BY DEF LoopInv, RemoteType, MirrorType, MirrorRecord
<1>2. MirrorInv' /\ RemoteInv' /\ Grows
  BY DEF LoopInv, MirrorInv, RemoteInv, Grows
<1>3. \A s \in Git : UpToDate(s) => UpToDate(s)'
  BY DEF UpToDate
<1> QED
  BY <1>1, <1>2, <1>3, LoopStep DEF RefreshType

LEMMA NextSourceMoves ==
    ASSUME LoopInv, NextSource
    PROVE  /\ refresh' \in RefreshType /\ refresh'.pc = "update"
           /\ refresh'.i = refresh.i + 1 /\ refresh'.done = refresh.done
<1>1. refresh \in RefreshType
  BY DEF LoopInv, LoopType, RefreshType
<1>2. refresh.i + 1 \in Nat
  BY <1>1 DEF RefreshType
<1> QED
  BY <1>1, <1>2 DEF RefreshType, NextSource

LEMMA SkipDirectoryKeeps == ASSUME LoopInv, SkipDirectory PROVE LoopInv' /\ Grows
<1> USE DEF SkipDirectory, NextSource, SameButMirror, Updating
<1>1. refresh.i \in DOMAIN Sources /\ refresh.i \in Nat
  BY SourceAtHand
<1>2. refresh' \in RefreshType
  BY NextSourceMoves
<1>3. RefreshInv'
  BY <1>1, NextSourceMoves DEF LoopInv, LoopType, RefreshInv
<1>4. ASSUME NEW j \in DOMAIN Sources, Sources[j] \in Git, Passed(j)' PROVE Passed(j)
  <2>1. j \in Nat /\ j # refresh.i
    BY <1>4, SourceFacts DEF Source
  <2> QED
    BY <1>1, <1>4, <2>1 DEF Passed, LoopInv, LoopType
<1> QED
  BY <1>2, <1>3, <1>4, SameMirrors DEF LoopInv, LoopType

LEMMA EndUpdateKeeps == ASSUME LoopInv, EndUpdate PROVE LoopInv' /\ Grows
<1> USE DEF EndUpdate, SameButMirror
<1>1. refresh' \in RefreshType
  BY DEF LoopInv, LoopType, RefreshType
<1>2. RefreshInv'
  BY DEF LoopInv, LoopType, RefreshInv
<1>3. \A j \in DOMAIN Sources : Passed(j)' => Passed(j)
  BY DEF Passed, LoopInv, LoopType
<1> QED
  BY <1>1, <1>2, <1>3, SameMirrors DEF LoopInv, LoopType

\* The refresh ends, or gives up, and leaves the mirrors as they are.
LEMMA GiveUpKeeps ==
    ASSUME LoopInv, GiveUp, UNCHANGED <<remote, mirror, cache, list, tips, pushes>>
    PROVE  LoopInv' /\ Grows
<1> USE DEF GiveUp
<1>1. refresh' \in RefreshType
  BY NoUpdateType
<1>2. RefreshInv' /\ refresh'.done = {}
  BY DEF RefreshInv, NoUpdate
<1>3. \A j \in DOMAIN Sources : ~Passed(j)'
  BY SourceFacts DEF Passed, NoUpdate
<1> QED
  BY <1>1, <1>2, <1>3, SameMirrors

LEMMA InitMirrorKeeps == ASSUME LoopInv, InitMirror PROVE LoopInv' /\ Grows
<1> USE DEF InitMirror, SameButMirror, Updating
<1>1. refresh.i \in DOMAIN Sources /\ refresh.i \in Nat /\ Dir \in RepoDirs
  BY SourceAtHand
<1>2. refresh' \in RefreshType /\ refresh'.done = refresh.done /\ refresh'.i = refresh.i
      /\ refresh'.pc = "clone"
  BY DEF LoopInv, LoopType, RefreshType
<1>3. MirrorType'
  BY <1>1 DEF LoopInv, MirrorType, MirrorRecord
<1>4. /\ \A d \in RepoDirs : /\ mirror'[d].objects = mirror[d].objects
                             /\ mirror'[d].refs = mirror[d].refs
                             /\ mirror'[d].origin = mirror[d].origin
                             /\ mirror'[d].st = "ready" <=> mirror[d].st = "ready"
      /\ mirror'[Dir].st = "init"
  BY <1>1 DEF LoopInv, MirrorType, MirrorRecord
<1>5. RefreshInv'
  BY <1>1, <1>2, <1>4 DEF LoopInv, LoopType, RefreshInv, Source, Dir
<1>6. MirrorInv' /\ Grows
  BY <1>4 DEF LoopInv, MirrorInv, Grows
<1>7. RemoteInv' /\ RemoteType'
  BY DEF LoopInv, RemoteInv, RemoteType
<1>8. \A s \in Git : UpToDate(s) => UpToDate(s)'
  BY <1>4, SourceFacts DEF UpToDate
<1>9. \A j \in DOMAIN Sources : Passed(j)' => Passed(j)
  BY <1>2 DEF Passed
<1> QED
  BY <1>2, <1>3, <1>5, <1>6, <1>7, <1>8, <1>9, LoopStep DEF RefreshType, LoopInv

\* What comes from a remote: branches that are in the store, and as new as the
\* refresh for the source they are of.
LEMMA RemoteRefs ==
    ASSUME LoopInv, NEW o \in Git
    PROVE  /\ remote[o].refs \in Refs /\ remote[o].head \in Channels
           /\ Range(remote[o].refs) \ {NoCommit} \subseteq Commits
           /\ \A ch \in Channels :
                 remote[o].refs[ch] \in (Range(remote[o].refs) \ {NoCommit}) \cup {NoCommit}
           /\ \A s \in Git, ch \in Channels :
                 remote[o].refs[ch].of = s => remote[o].refs[ch].n >= tips[s][ch].n
<1>1. remote[o].refs \in Refs /\ remote[o].head \in Channels
  BY DEF LoopInv, RemoteType
<1>2. /\ Range(remote[o].refs) \subseteq Commits
      /\ \A ch \in Channels : remote[o].refs[ch] \in Range(remote[o].refs)
  BY <1>1 DEF Refs, Range
<1>3. ASSUME NEW s \in Git, NEW ch \in Channels, remote[o].refs[ch].of = s
      PROVE  remote[o].refs[ch].n >= tips[s][ch].n
  <2>1. CASE remote[o].refs[ch] = NoCommit
    BY <1>3, <2>1, NoCommitIsOfNone
  <2>2. CASE remote[o].refs[ch] # NoCommit
    BY <1>3, <2>2 DEF LoopInv, RemoteInv
  <2> QED
    BY <2>1, <2>2
<1> QED
  BY <1>1, <1>2, <1>3

\* A mirror that takes the branches of its remote.
LEMMA FetchedMirror ==
    ASSUME LoopInv, NEW d \in RepoDirs, NEW o \in Git, NEW m \in MirrorRecord,
           m.st = "ready", m.origin = o, m.refs = remote[o].refs,
           mirror[d].objects \cup (Range(remote[o].refs) \ {NoCommit}) \subseteq m.objects,
           mirror' = [mirror EXCEPT ![d] = m],
           UNCHANGED <<remote, cache, list, tips, pushes>>,
           refresh' \in RefreshType, RefreshInv', refresh'.done = refresh.done,
           \A j \in DOMAIN Sources :
              Sources[j] \in Git /\ Passed(j)' => Passed(j) \/ RepoName[Sources[j]] = d
    PROVE  LoopInv' /\ Grows
<1>1. MirrorType'
  BY RemoteRefs DEF LoopInv, MirrorType, MirrorRecord
<1>2. /\ mirror'[d] = m
      /\ \A e \in RepoDirs \ {d} : mirror'[e] = mirror[e]
  BY DEF LoopInv, MirrorType, MirrorRecord
<1>3. MirrorInv'
  BY <1>2, RemoteRefs DEF LoopInv, MirrorInv
<1>4. Grows
  BY <1>2 DEF Grows
<1>5. RemoteInv' /\ RemoteType' /\ pushes' \in Nat
  BY DEF LoopInv, RemoteInv, RemoteType
<1>6. ASSUME NEW s \in Git, RepoName[s] = d PROVE UpToDate(s)'
  BY <1>2, <1>6, RemoteRefs DEF UpToDate
<1>7. ASSUME NEW s \in Git, UpToDate(s) PROVE UpToDate(s)'
  BY <1>2, <1>6, <1>7, SourceFacts DEF UpToDate
<1>8. \A j \in DOMAIN Sources :
          Sources[j] \in Git /\ Passed(j)' => Passed(j) \/ UpToDate(Sources[j])'
  BY <1>6
<1> QED
  BY <1>1, <1>3, <1>4, <1>5, <1>7, <1>8, LoopStep DEF RefreshType

\* After the next source has been taken up, only the one at hand is new.
LEMMA NextPassed ==
    ASSUME LoopInv, NextSource, NEW j \in DOMAIN Sources, Passed(j)'
    PROVE  Passed(j) \/ j = refresh.i
  BY SourceFacts, NextSourceMoves DEF Passed, LoopInv, LoopType

LEMMA NextSourceInv ==
    ASSUME LoopInv, NextSource, refresh.pc # "resolve"
    PROVE  RefreshInv'
  BY NextSourceMoves DEF LoopInv, LoopType, RefreshInv

\* The first clone: the mirror was empty until now, and is again if it fails.
LEMMA CloneMirrorKeeps == ASSUME LoopInv, CloneMirror PROVE LoopInv' /\ Grows
<1> USE DEF CloneMirror, SameButMirror
<1>1. /\ refresh.i \in DOMAIN Sources /\ refresh.i \in Nat /\ refresh.pc = "clone"
      /\ Source \in Git /\ Dir \in RepoDirs
      /\ mirror[Dir].st = "init" /\ mirror[Dir].objects = {}
  BY SourceAtHand DEF Updating, LoopInv, RefreshInv, MirrorInv
<1>2. CASE /\ mirror' = [mirror EXCEPT ![Dir] =
                           [st |-> "ready", origin |-> Source, refs |-> remote[Source].refs,
                            objects |-> Range(remote[Source].refs) \ {NoCommit},
                            head |-> remote[Source].head]]
           /\ NextSource
  <2>1. RefreshInv'
    BY <1>1, <1>2, NextSourceInv
  <2>2. \A j \in DOMAIN Sources :
           Sources[j] \in Git /\ Passed(j)' => Passed(j) \/ RepoName[Sources[j]] = Dir
    BY <1>2, NextPassed DEF Source, Dir
  <2>3. Range(remote[Source].refs) \ {NoCommit} \in SUBSET Commits
        /\ remote[Source].head \in Channels
    BY <1>1, RemoteRefs
  <2>4. mirror[Dir].objects \cup (Range(remote[Source].refs) \ {NoCommit})
           \subseteq Range(remote[Source].refs) \ {NoCommit}
    BY <1>1
  <2>5. refresh' \in RefreshType /\ refresh'.done = refresh.done
    BY <1>2, NextSourceMoves
  <2> DEFINE m == [st |-> "ready", origin |-> Source, refs |-> remote[Source].refs,
                   objects |-> Range(remote[Source].refs) \ {NoCommit},
                   head |-> remote[Source].head]
  <2>6. m \in MirrorRecord
    BY <1>1, <2>3, RemoteRefs DEF MirrorRecord
  <2>7. m.st = "ready" /\ m.origin = Source /\ m.refs = remote[Source].refs
        /\ m.objects = Range(remote[Source].refs) \ {NoCommit}
        /\ mirror' = [mirror EXCEPT ![Dir] = m]
    BY <1>2
  <2> HIDE DEF m
  <2> QED
    BY <1>1, <2>1, <2>2, <2>4, <2>5, <2>6, <2>7, FetchedMirror
<1>3. CASE mirror' = [mirror EXCEPT ![Dir] = Absent] /\ GiveUp
  <2>1. MirrorType'
    BY <1>3, AbsentType DEF LoopInv, MirrorType, MirrorRecord
  <2>2. mirror'[Dir] = Absent /\ \A e \in RepoDirs \ {Dir} : mirror'[e] = mirror[e]
    BY <1>1, <1>3 DEF LoopInv, MirrorType, MirrorRecord
  <2>3. /\ Absent.st = "absent" /\ Absent.objects = {}
        /\ \A ch \in Channels : Absent.refs[ch] = NoCommit
    BY DEF Absent
  <2>4. MirrorInv' /\ Grows
    BY <1>1, <2>2, <2>3 DEF LoopInv, MirrorInv, Grows
  <2>5. refresh' \in RefreshType /\ RefreshInv' /\ refresh'.done = {}
    BY <1>3, NoUpdateType DEF GiveUp, RefreshInv, NoUpdate
  <2>6. \A j \in DOMAIN Sources : ~Passed(j)'
    BY <1>3, SourceFacts DEF Passed, GiveUp, NoUpdate
  <2>7. ASSUME NEW s \in Git, UpToDate(s) PROVE UpToDate(s)'
    <3>1. CASE RepoName[s] = Dir
      BY <3>1, <2>2, <2>3, NoCommitIsOfNone DEF UpToDate
    <3>2. CASE RepoName[s] # Dir
      BY <3>2, <2>2, <2>7, SourceFacts DEF UpToDate
    <3> QED
      BY <3>1, <3>2
  <2>8. RemoteInv' /\ RemoteType' /\ pushes' \in Nat
    BY DEF LoopInv, RemoteInv, RemoteType
  <2> QED
    BY <2>1, <2>4, <2>5, <2>6, <2>7, <2>8, LoopStep DEF RefreshType
<1> QED
  BY <1>2, <1>3

LEMMA FetchedRecord ==
    ASSUME NEW m \in MirrorRecord, LoopInv, m.origin \in Git
    PROVE  /\ Fetch(m) \in MirrorRecord
           /\ Fetch(m).st = m.st /\ Fetch(m).origin = m.origin
           /\ Fetch(m).refs = remote[m.origin].refs
           /\ Fetch(m).objects = m.objects \cup (Range(remote[m.origin].refs) \ {NoCommit})
  BY RemoteRefs DEF Fetch, MirrorRecord

LEMMA FetchMirrorKeeps == ASSUME LoopInv, FetchMirror PROVE LoopInv' /\ Grows
<1> USE DEF FetchMirror, SameButMirror
<1>1. /\ refresh.i \in DOMAIN Sources /\ refresh.i \in Nat /\ refresh.pc = "update"
      /\ Source \in Git /\ Dir \in RepoDirs
  BY SourceAtHand DEF Updating
<1>2. CASE /\ mirror[Dir].st = "ready"
           /\ mirror' = [mirror EXCEPT ![Dir] = Fetch(@)]
           /\ refresh' = [refresh EXCEPT !.pc = "sync"]
  <2> DEFINE o == mirror[Dir].origin
             m == Fetch(mirror[Dir])
  <2>1. o \in Git /\ mirror[Dir] \in MirrorRecord
    BY <1>1, <1>2 DEF LoopInv, MirrorInv, MirrorType, MirrorRecord
  <2>2. /\ m \in MirrorRecord /\ m.st = "ready" /\ m.origin = o /\ m.refs = remote[o].refs
        /\ m.objects = mirror[Dir].objects \cup (Range(remote[o].refs) \ {NoCommit})
    BY <1>2, <2>1, FetchedRecord
  <2>3. mirror' = [mirror EXCEPT ![Dir] = m]
    BY <1>2
  <2> HIDE DEF o, m
  <2>4. refresh' \in RefreshType /\ refresh'.done = refresh.done /\ refresh'.pc = "sync"
        /\ refresh'.i = refresh.i
    BY <1>2 DEF LoopInv, LoopType, RefreshType
  <2>5. mirror'[Dir] = m
    BY <1>1, <2>3 DEF LoopInv, MirrorType, MirrorRecord
  <2>6. RefreshInv'
    BY <1>1, <2>2, <2>4, <2>5, SourceFacts DEF LoopInv, LoopType, RefreshInv, Source, Dir
  <2>7. \A j \in DOMAIN Sources :
           Sources[j] \in Git /\ Passed(j)' => Passed(j) \/ RepoName[Sources[j]] = Dir
    BY <2>4 DEF Passed, Source, Dir
  <2> QED
    BY <1>1, <2>1, <2>2, <2>3, <2>4, <2>6, <2>7, FetchedMirror
<1>3. CASE GiveUp /\ UNCHANGED mirror
  BY <1>3, GiveUpKeeps
<1> QED
  BY <1>2, <1>3

LEMMA SyncHeadKeeps == ASSUME LoopInv, SyncHead PROVE LoopInv' /\ Grows
<1> USE DEF SyncHead, SameButMirror
<1>1. /\ refresh.i \in DOMAIN Sources /\ refresh.i \in Nat /\ refresh.pc = "sync"
      /\ Source \in Git /\ Dir \in RepoDirs
      /\ mirror[Dir].origin \in Git
  BY SourceAtHand DEF Updating, LoopInv, RefreshInv, MirrorInv
<1>2. CASE GiveUp /\ UNCHANGED mirror
  BY <1>2, GiveUpKeeps
<1>3. CASE /\ NextSource
           /\ \/ UNCHANGED mirror
              \/ mirror' = [mirror EXCEPT ![Dir].head = remote[mirror[Dir].origin].head]
  <2> DEFINE h == remote[mirror[Dir].origin].head
  <2>0. h \in Channels /\ mirror \in [RepoDirs -> MirrorRecord]
    BY <1>1, RemoteRefs DEF LoopInv, MirrorType
  <2>1. MirrorType'
    <3> HIDE DEF h, SyncHead, SameButMirror
    <3>1. CASE UNCHANGED mirror
      BY <2>0, <3>1 DEF MirrorType
    <3>2. CASE mirror' = [mirror EXCEPT ![Dir].head = h]
      <4>1. [mirror[Dir] EXCEPT !.head = h] \in MirrorRecord
        BY <1>1, <2>0 DEF MirrorRecord
      <4> QED
        BY <1>1, <2>0, <3>2, <4>1 DEF MirrorType
    <3> QED
      BY <1>3, <3>1, <3>2 DEF h
  <2>2. ASSUME NEW d \in RepoDirs
        PROVE  /\ mirror'[d].objects = mirror[d].objects /\ mirror'[d].refs = mirror[d].refs
               /\ mirror'[d].origin = mirror[d].origin /\ mirror'[d].st = mirror[d].st
    <3>1. CASE UNCHANGED mirror
      BY <3>1
    <3>2. CASE mirror' = [mirror EXCEPT ![Dir].head = remote[mirror[Dir].origin].head]
      <4>1. mirror'[d] = mirror[d] \/ mirror'[d] = [mirror[d] EXCEPT !.head = remote[mirror[Dir].origin].head]
        BY <3>2 DEF LoopInv, MirrorType, MirrorRecord
      <4> QED
        BY <4>1 DEF LoopInv, MirrorType, MirrorRecord
    <3> QED
      BY <1>3, <3>1, <3>2
  <2>3. refresh' \in RefreshType /\ refresh'.done = refresh.done /\ RefreshInv'
    BY <1>1, <1>3, NextSourceMoves, NextSourceInv
  <2>4. MirrorInv' /\ Grows
    BY <2>2 DEF LoopInv, MirrorInv, Grows
  <2>5. RemoteInv' /\ RemoteType' /\ pushes' \in Nat
    BY DEF LoopInv, RemoteInv, RemoteType
  <2>6. \A s \in Git : UpToDate(s) => UpToDate(s)'
    BY <2>2, SourceFacts DEF UpToDate
  <2>7. \A j \in DOMAIN Sources : Passed(j)' => Passed(j)
    BY <1>1, <1>3, NextPassed DEF Passed
  <2> QED
    BY <2>1, <2>3, <2>4, <2>5, <2>6, <2>7, LoopStep DEF RefreshType
<1> QED
  BY <1>2, <1>3

\* A new refresh: nothing of the last one is reused.
LEMMA BeginUpdateKeeps == ASSUME LoopInv, BeginUpdate PROVE LoopInv' /\ Grows
<1> USE DEF BeginUpdate
<1>1. /\ refresh' \in RefreshType /\ refresh'.pc = "update" /\ refresh'.i = 1
      /\ refresh'.done = {}
  BY DEF NoUpdate, RefreshType
<1>2. DOMAIN cache' = {}
  BY SourceFacts DEF CacheAfterUpdate, NoVersion
<1>3. LoopType'
  <2>1. tips' \in [Git -> Refs]
    BY DEF LoopInv, RemoteType
  <2>2. cache' \in [DOMAIN cache' -> Vers]
    BY <1>2 DEF CacheAfterUpdate
  <2> QED
    BY <1>1, <2>1, <2>2 DEF LoopInv, LoopType, RefreshType
<1>4. RemoteType' /\ MirrorType' /\ MirrorInv' /\ Grows /\ pushes' \in Nat
  BY DEF LoopInv, RemoteType, MirrorType, MirrorInv, Grows
<1>5. RefreshInv'
  BY <1>1 DEF RefreshInv
<1>6. RemoteInv'
  <2> SUFFICES ASSUME NEW s \in Git, NEW ch \in Channels
               PROVE  /\ remote[s].refs[ch].n <= pushes + 1
                      /\ \/ remote[s].refs[ch] = NoCommit
                         \/ /\ remote[s].refs[ch].of = s
                            /\ remote[s].refs[ch].n >= remote[s].refs[ch].n
                            /\ remote[s].refs[ch].n <= pushes + 1
    BY DEF RemoteInv
  <2>1. remote[s].refs[ch].n \in Nat
    BY DEF LoopInv, RemoteType, Refs, Commits
  <2>2. NoCommit.n = 0
    BY DEF NoCommit
  <2> QED
    BY <2>1, <2>2 DEF LoopInv, RemoteInv
<1>7. UpdatedInv'
  BY <1>1, SourceFacts DEF UpdatedInv, Passed
<1>8. CacheInv'
  BY <1>2 DEF CacheInv, Cached
<1>9. ListInv'
  BY <1>1 DEF LoopInv, ListInv, Available
<1> QED
  BY <1>3, <1>4, <1>5, <1>6, <1>7, <1>8, <1>9 DEF LoopInv

\* What is resolved now is in the mirrors, and they have all been updated.
LEMMA CombinedIsFresh ==
    ASSUME LoopInv, refresh.pc = "resolve", NEW c \in Clusters
    PROVE  /\ CombinedVersion(c) \in Vers /\ Available(CombinedVersion(c))
           /\ \A d \in Clusters : CacheKey(d) = CacheKey(c) => Fresh(d, CombinedVersion(c))
<1> DEFINE v == [i \in DOMAIN Sources |-> Resolve(Sources[i], ChannelOf(c, Sources[i]))]
<1>1. CombinedVersion(c) = v \/ CombinedVersion(c) = NoVersion
  BY DEF CombinedVersion
<1>2. CombinedVersion(c) # NoVersion => CombinedVersion(c) = v /\ NoCommit \notin Range(v)
  BY DEF CombinedVersion
<1>3. CASE CombinedVersion(c) = NoVersion
  BY <1>3, SourceFacts DEF Vers, Available, Fresh
<1>4. CASE CombinedVersion(c) # NoVersion
  <2>1. CombinedVersion(c) = v /\ \A i \in DOMAIN Sources : v[i] # NoCommit
    BY <1>2, <1>4 DEF Range
  <2>2. ASSUME NEW s \in Range(Sources) PROVE ChannelOf(c, s) \in Channels
    BY SourcesAssumption, Zenon DEF ChannelOf
  <2>3. ASSUME NEW i \in DOMAIN Sources, Sources[i] \in Git
        PROVE  /\ v[i] = mirror[RepoName[Sources[i]]].refs[ChannelOf(c, Sources[i])]
               /\ RepoName[Sources[i]] \in RepoDirs
               /\ ChannelOf(c, Sources[i]) \in Channels
    BY <2>2, <2>3, SourceFacts DEF Resolve
  <2>4. v \in Vers
    <3>1. ASSUME NEW i \in DOMAIN Sources PROVE v[i] \in Commits
      <4>1. CASE Sources[i] \in Git
        <5>1. mirror[RepoName[Sources[i]]].refs \in Refs
          BY <2>3, <4>1 DEF LoopInv, MirrorType, MirrorRecord
        <5> QED
          BY <2>3, <4>1, <5>1 DEF Refs
      <4>2. CASE Sources[i] \notin Git
        BY <4>2, SourceFacts DEF Resolve
      <4> QED
        BY <4>1, <4>2
    <3> QED
      BY <3>1 DEF Vers
  <2>5. Available(v)
    <3> SUFFICES ASSUME NEW i \in DOMAIN Sources, Sources[i] \in Git
                 PROVE  v[i] \in mirror[RepoName[Sources[i]]].objects
      BY DEF Available
    <3>1. v[i] # NoCommit
      BY <2>1
    <3> QED
      BY <2>3, <3>1 DEF LoopInv, MirrorInv
  <2>6. ASSUME NEW d \in Clusters, CacheKey(d) = CacheKey(c) PROVE Fresh(d, v)
    <3> SUFFICES ASSUME NEW i \in DOMAIN Sources, Sources[i] \in Git, v[i].of = Sources[i]
                 PROVE  v[i].n >= tips[Sources[i]][ChannelOf(d, Sources[i])].n
      BY DEF Fresh
    <3>1. ChannelOf(d, Sources[i]) = ChannelOf(c, Sources[i])
      BY <2>6 DEF CacheKey, ChannelOf
    <3>2. UpToDate(Sources[i])
      BY SourceFacts DEF LoopInv, LoopType, RefreshInv, UpdatedInv, Passed
    <3> QED
      BY <2>3, <3>1, <3>2 DEF UpToDate
  <2> QED
    BY <2>1, <2>4, <2>5, <2>6
<1> QED
  BY <1>3, <1>4

LEMMA ResolveClusterKeeps ==
    ASSUME LoopInv, NEW c \in Clusters, ResolveCluster(c)
    PROVE  LoopInv' /\ Grows
<1> USE DEF ResolveCluster
<1>1. /\ refresh' \in RefreshType /\ refresh'.pc = "resolve" /\ refresh'.i = refresh.i
      /\ refresh'.done = refresh.done \cup {c}
  BY DEF LoopInv, LoopType, RefreshType
<1>2. PICK v \in Vers :
         /\ list' = [list EXCEPT ![c] = v]
         /\ Available(v)
         /\ Fresh(c, v)
         /\ \/ UNCHANGED cache
            \/ /\ cache' = [k \in DOMAIN cache \cup {CacheKey(c)} |->
                               IF k = CacheKey(c) THEN v ELSE cache[k]]
               /\ \A d \in Clusters : CacheKey(d) = CacheKey(c) => Fresh(d, v)
  <2>1. CASE Cached(c) /\ list' = [list EXCEPT ![c] = cache[CacheKey(c)]] /\ UNCHANGED cache
    <3>1. cache[CacheKey(c)] \in Vers
      BY <2>1 DEF LoopInv, LoopType, Cached
    <3>2. Available(cache[CacheKey(c)]) /\ Fresh(c, cache[CacheKey(c)])
      BY <2>1 DEF LoopInv, CacheInv, Cached
    <3> QED
      BY <2>1, <3>1, <3>2
  <2>2. CASE /\ list' = [list EXCEPT ![c] = CombinedVersion(c)]
             /\ cache' = IF CombinedVersion(c) = NoVersion THEN cache
                         ELSE [k \in DOMAIN cache \cup {CacheKey(c)} |->
                                  IF k = CacheKey(c) THEN CombinedVersion(c) ELSE cache[k]]
    <3>1. /\ CombinedVersion(c) \in Vers /\ Available(CombinedVersion(c))
          /\ \A d \in Clusters : CacheKey(d) = CacheKey(c) => Fresh(d, CombinedVersion(c))
      BY CombinedIsFresh
    <3> QED
      BY <2>2, <3>1
  <2> QED
    BY <2>1, <2>2 DEF Version
<1>3. LoopType'
  <2>1. cache' \in [DOMAIN cache' -> Vers]
    BY <1>2 DEF LoopInv, LoopType
  <2>2. list' \in [Clusters -> Vers]
    BY <1>2 DEF LoopInv, LoopType
  <2> QED
    BY <1>1, <2>1, <2>2 DEF LoopInv, LoopType, RefreshType
<1>4. RemoteType' /\ MirrorType' /\ MirrorInv' /\ RemoteInv' /\ Grows /\ pushes' \in Nat
  BY DEF LoopInv, RemoteType, MirrorType, MirrorInv, RemoteInv, Grows
<1>5. RefreshInv'
  BY <1>1 DEF LoopInv, RefreshInv
<1>6. UpdatedInv'
  <2>1. ASSUME NEW s PROVE UpToDate(s)' <=> UpToDate(s)
    BY DEF UpToDate
  <2>2. ASSUME NEW j PROVE Passed(j)' <=> Passed(j)
    BY <1>1 DEF Passed
  <2> QED
    BY <2>1, <2>2 DEF LoopInv, UpdatedInv
<1>7. ASSUME NEW u PROVE Available(u)' <=> Available(u)
  BY DEF Available
<1>8. ASSUME NEW d, NEW u PROVE Fresh(d, u)' <=> Fresh(d, u)
  BY DEF Fresh
<1>9. CacheInv'
  <2>1. CASE UNCHANGED cache
    BY <2>1, <1>7, <1>8 DEF LoopInv, CacheInv, Cached
  <2>2. CASE /\ cache' = [k \in DOMAIN cache \cup {CacheKey(c)} |->
                               IF k = CacheKey(c) THEN v ELSE cache[k]]
             /\ \A d \in Clusters : CacheKey(d) = CacheKey(c) => Fresh(d, v)
    <3>1. \A k \in DOMAIN cache' : Available(cache'[k])
      BY <1>2, <2>2 DEF LoopInv, CacheInv
    <3>2. \A d \in Clusters : CacheKey(d) \in DOMAIN cache' => Fresh(d, cache'[CacheKey(d)])
      BY <1>2, <2>2 DEF LoopInv, CacheInv, Cached
    <3>3. (\A k \in DOMAIN cache : Available(cache[k]))'
      BY <3>1 DEF Available
    <3>4. (\A d \in Clusters : Cached(d) => Fresh(d, cache[CacheKey(d)]))'
      BY <3>2 DEF Cached, CacheKey, Fresh
    <3> QED
      BY <3>3, <3>4 DEF CacheInv
  <2> QED
    BY <1>2, <2>1, <2>2
<1>10. ListInv'
  <2>1. list'[c] = v /\ \A d \in Clusters \ {c} : list'[d] = list[d]
    BY <1>2 DEF LoopInv, LoopType
  <2> QED
    BY <1>1, <1>2, <1>7, <1>8, <2>1 DEF LoopInv, LoopType, ListInv
<1> QED
  BY <1>3, <1>4, <1>5, <1>6, <1>9, <1>10 DEF LoopInv

LEMMA RestartKeepsLoop == ASSUME LoopInv, Restart PROVE LoopInv' /\ Grows
<1> USE DEF Restart
<1>1. refresh' \in RefreshType /\ RefreshInv' /\ refresh'.done = {}
  BY NoUpdateType DEF NoUpdate, RefreshInv
<1>2. DOMAIN cache' = {} /\ \A c \in Clusters : list'[c] = NoVersion
  BY SourceFacts DEF NoVersion
<1>3. LoopType'
  <2>1. cache' \in [DOMAIN cache' -> Vers]
    BY <1>2
  <2>2. list' \in [Clusters -> Vers]
    BY DEF Vers
  <2> QED
    BY <1>1, <2>1, <2>2 DEF LoopInv, LoopType, RefreshType
<1>4. RemoteType' /\ MirrorType' /\ MirrorInv' /\ RemoteInv' /\ Grows /\ pushes' \in Nat
  BY DEF LoopInv, RemoteType, MirrorType, MirrorInv, RemoteInv, Grows
<1>5. UpdatedInv'
  BY SourceFacts DEF UpdatedInv, Passed, NoUpdate
<1>6. CacheInv'
  BY <1>2 DEF CacheInv, Cached
<1>7. ListInv'
  BY <1>1, <1>2, SourceFacts DEF ListInv, Available
<1> QED
  BY <1>1, <1>3, <1>4, <1>5, <1>6, <1>7 DEF LoopInv

\* Somebody else changes a branch.
LEMMA RemoteStep ==
    ASSUME LoopInv, RemoteType', RemoteInv', pushes' \in Nat, UNCHANGED <<mirror, loop>>
    PROVE  LoopInv' /\ Grows
<1> USE DEF loop
<1>1. MirrorType' /\ RefreshInv' /\ MirrorInv' /\ Grows
  BY DEF LoopInv, MirrorType, RefreshInv, MirrorInv, Grows, Source, Dir
<1>2. \A s \in Git : UpToDate(s) => UpToDate(s)'
  BY DEF UpToDate
<1>3. \A j \in DOMAIN Sources : Passed(j)' => Passed(j)
  BY DEF Passed
<1> QED
  BY <1>1, <1>2, <1>3, LoopStep DEF LoopInv, LoopType

LEMMA CommitNumbers ==
    ASSUME LoopInv, NEW t \in Git, NEW dh \in Channels
    PROVE  /\ tips[t][dh].n \in Nat /\ remote[t].refs[dh].n \in Nat
           /\ tips[t][dh].n <= pushes + 1
<1>1. tips[t][dh] \in Commits /\ remote[t].refs[dh] \in Commits
  BY DEF LoopInv, LoopType, RemoteType, Refs
<1> QED
  BY <1>1 DEF LoopInv, RemoteInv, Commits

LEMMA PushKeeps ==
    ASSUME LoopInv, NEW s \in Git, NEW ch \in Channels, Push(s, ch)
    PROVE  LoopInv' /\ Grows
<1>1. pushes \in Nat /\ pushes + 2 \in Nat
  BY DEF LoopInv
<1>2. [of |-> s, n |-> pushes + 2] \in Commits
  BY <1>1 DEF Commits
<1>3. pushes' = pushes + 1 /\ pushes' \in Nat
  BY <1>1 DEF Push
<1> USE DEF Push
<1>4. RemoteType'
  BY <1>2 DEF LoopInv, RemoteType, Refs
<1>5. /\ remote'[s].refs[ch] = [of |-> s, n |-> pushes + 2]
      /\ \A t \in Git, dh \in Channels :
            t # s \/ dh # ch => remote'[t].refs[dh] = remote[t].refs[dh]
  BY DEF LoopInv, RemoteType, Refs
<1>6. RemoteInv'
  <2> SUFFICES ASSUME NEW t \in Git, NEW dh \in Channels
               PROVE  /\ tips[t][dh].n <= pushes' + 1
                      /\ \/ remote'[t].refs[dh] = NoCommit
                         \/ /\ remote'[t].refs[dh].of = t
                            /\ remote'[t].refs[dh].n >= tips[t][dh].n
                            /\ remote'[t].refs[dh].n <= pushes' + 1
    BY DEF RemoteInv, loop
  <2>1. /\ tips[t][dh].n \in Nat /\ remote[t].refs[dh].n \in Nat
        /\ tips[t][dh].n <= pushes + 1
    BY CommitNumbers
  <2>2. CASE t = s /\ dh = ch
    BY <1>1, <1>5, <1>3, <2>1, <2>2
  <2>3. CASE t # s \/ dh # ch
    BY <1>1, <1>5, <1>3, <2>1, <2>3 DEF LoopInv, RemoteInv
  <2> QED
    BY <2>2, <2>3
<1> QED
  BY <1>4, <1>6, <1>3, RemoteStep

LEMMA DeleteBranchKeeps ==
    ASSUME LoopInv, NEW s \in Git, NEW ch \in Channels, DeleteBranch(s, ch)
    PROVE  LoopInv' /\ Grows
<1>1. PICK head \in Channels :
         remote' = [remote EXCEPT ![s].refs[ch] = NoCommit, ![s].head = IF @ = ch THEN head ELSE @]
  BY DEF DeleteBranch
<1>2. pushes' = pushes + 1 /\ pushes \in Nat /\ pushes' \in Nat
  BY DEF LoopInv, DeleteBranch
<1> DEFINE newhead == IF remote[s].head = ch THEN head ELSE remote[s].head
           newrefs == [remote[s].refs EXCEPT ![ch] = NoCommit]
<1>3. newhead \in Channels /\ newrefs \in Refs
  BY SourceFacts DEF LoopInv, RemoteType, Refs
<1>4. remote' = [remote EXCEPT ![s].refs = newrefs, ![s].head = newhead]
  BY <1>1
<1>5. RemoteType'
  <2> HIDE DEF newhead, newrefs
  <2> QED
    BY <1>3, <1>4 DEF LoopInv, RemoteType
<1>6. \A t \in Git, dh \in Channels :
         remote'[t].refs[dh] = NoCommit \/ remote'[t].refs[dh] = remote[t].refs[dh]
  BY <1>1 DEF LoopInv, RemoteType, Refs
<1>7. RemoteInv'
  <2> SUFFICES ASSUME NEW t \in Git, NEW dh \in Channels
               PROVE  /\ tips[t][dh].n <= pushes' + 1
                      /\ \/ remote'[t].refs[dh] = NoCommit
                         \/ /\ remote'[t].refs[dh].of = t
                            /\ remote'[t].refs[dh].n >= tips[t][dh].n
                            /\ remote'[t].refs[dh].n <= pushes' + 1
    BY DEF RemoteInv, loop, DeleteBranch
  <2>1. tips[t][dh].n \in Nat /\ remote[t].refs[dh].n \in Nat /\ tips[t][dh].n <= pushes + 1
    BY CommitNumbers
  <2> QED
    BY <1>2, <1>6, <2>1 DEF LoopInv, RemoteInv
<1> QED
  BY <1>2, <1>5, <1>7, RemoteStep DEF DeleteBranch

\* Every step but those of the workers.
LEMMA LoopKeeps ==
    ASSUME LoopInv,
           \/ Refresh \/ Restart
           \/ \E s \in Git, ch \in Channels : Push(s, ch) \/ DeleteBranch(s, ch)
    PROVE  LoopInv' /\ Grows
<1>1. CASE EndRefresh
  BY <1>1, GiveUpKeeps DEF EndRefresh, SameButMirror
<1> QED
  BY <1>1, BeginUpdateKeeps, SkipDirectoryKeeps, InitMirrorKeeps, CloneMirrorKeeps,
     FetchMirrorKeeps, SyncHeadKeeps, EndUpdateKeeps, ResolveClusterKeeps, RestartKeepsLoop,
     PushKeeps, DeleteBranchKeeps DEF Refresh

-----------------------------------------------------------------------------
(* The inductive invariant of the workers *)

Complete(w, i) == \E d \in dirs :
    d.owner = w /\ d.i = i /\ d.files = TreeSize /\ d.commit = worker[w].version[i]

\* What a worker was given can be checked out; its checkouts are of that
\* version, exist only while it is busy, and those of the sources it is past
\* are complete.
WorkerInv(w) ==
    /\ Available(worker[w].version)
    /\ worker[w].pc # "idle" =>
          /\ worker[w].version \in [DOMAIN Sources -> Commits]
          /\ worker[w].i >= 1
          /\ worker[w].pc = "use" => worker[w].i > Len(Sources)
          /\ \A i \in DOMAIN Sources : Sources[i] \in Git /\ i < worker[w].i => Complete(w, i)
    /\ \A d \in dirs : d.owner = w => /\ worker[w].pc # "idle"
                                      /\ d.commit = worker[w].version[d.i]
                                      /\ Sources[d.i] \in Git

WorkInv == WorkerType /\ DirsType /\ \A w \in Workers : WorkerInv(w)

LEMMA IdleType ==
    /\ Idle \in [pc : {"idle", "get", "use"}, version : Vers, i : Nat, cancelled : BOOLEAN]
    /\ Idle.pc = "idle" /\ Idle.version = NoVersion
  BY DEF Idle, Vers

\* An idle worker without checkouts.
LEMMA IdleWorker ==
    ASSUME NEW w \in Workers, worker[w] = Idle, \A d \in dirs : d.owner # w
    PROVE  WorkerInv(w)
  BY IdleType, SourceFacts DEF WorkerInv, Available

LEMMA WorkInit == Init => WorkInv
<1> SUFFICES ASSUME Init PROVE WorkInv
  OBVIOUS
<1>1. WorkerType /\ DirsType
  BY InitTyped DEF TypeOK
<1>2. ASSUME NEW w \in Workers PROVE WorkerInv(w)
  BY IdleWorker DEF Init
<1> QED
  BY <1>1, <1>2 DEF WorkInv

\* A worker does not notice what others do, as long as object stores grow.
LEMMA OtherWorker ==
    ASSUME NEW w \in Workers, WorkerInv(w), Grows, worker'[w] = worker[w],
           \A d : d.owner = w => (d \in dirs' <=> d \in dirs)
    PROVE  WorkerInv(w)'
<1>1. Available(worker[w].version)'
  <2>1. ASSUME NEW v, Available(v) PROVE Available(v)'
    <3> SUFFICES ASSUME NEW k \in DOMAIN v, Sources[k] \in Git
                 PROVE  v[k] \in mirror'[RepoName[Sources[k]]].objects
      BY DEF Available
    <3>1. RepoName[Sources[k]] \in RepoDirs
      BY SourceFacts
    <3> QED
      BY <2>1, <3>1 DEF Available, Grows
  <2>2. Available(worker[w].version)
    BY DEF WorkerInv
  <2> DEFINE v == worker[w].version
  <2>3. \A i \in DOMAIN v : Sources[i] \in Git => v[i] \in mirror'[RepoName[Sources[i]]].objects
    BY <2>1, <2>2, SourceFacts DEF Available, Grows
  <2> QED
    BY <2>3 DEF Available
<1>2. \A i : Complete(w, i) => Complete(w, i)'
  BY DEF Complete
<1>3. \A d \in dirs' : d.owner = w =>
         worker'[w].pc # "idle" /\ d.commit = worker'[w].version[d.i] /\ Sources[d.i] \in Git
  BY DEF WorkerInv
<1> QED
  BY <1>1, <1>2, <1>3 DEF WorkerInv

\* The steps of the refresh loop and of others.
LEMMA WorkersWait ==
    ASSUME WorkInv, Grows, UNCHANGED <<worker, dirs>>
    PROVE  WorkInv'
<1>1. WorkerType' /\ DirsType'
  BY DEF WorkInv, WorkerType, DirsType
<1>2. ASSUME NEW w \in Workers PROVE WorkerInv(w)'
  BY OtherWorker DEF WorkInv
<1> QED
  BY <1>1, <1>2 DEF WorkInv

\* NewGit removes everything that was checked out before the restart.
LEMMA RestartKeepsWork == ASSUME WorkInv, Restart PROVE WorkInv'
<1>1. dirs' = {}
  BY DEF Restart, NewGit, WorkInv, DirsType
<1>2. WorkerType' /\ DirsType'
  BY <1>1, IdleType DEF Restart, WorkerType, DirsType
<1>3. ASSUME NEW w \in Workers PROVE WorkerInv(w)'
  <2>1. worker'[w] = Idle
    BY DEF Restart
  <2> QED
    BY <1>1, <2>1, IdleType, SourceFacts DEF WorkerInv, Available
<1> QED
  BY <1>2, <1>3 DEF WorkInv

\* A step of one worker: only its own part has to be looked at.
LEMMA WorkerStep ==
    ASSUME WorkInv, NEW w \in Workers, WorkerType', DirsType', UNCHANGED mirror,
           \A u \in Workers \ {w} : worker'[u] = worker[u],
           \A d : d.owner # w => (d \in dirs' <=> d \in dirs),
           WorkerInv(w)'
    PROVE  WorkInv'
<1>1. Grows
  BY DEF Grows
<1>2. ASSUME NEW u \in Workers \ {w} PROVE WorkerInv(u)'
  BY <1>1, OtherWorker DEF WorkInv
<1> QED
  BY <1>2 DEF WorkInv

\* Get gives up, or Delete: the worker is idle again and its checkouts are gone.
LEMMA EndsIdle ==
    ASSUME WorkInv, NEW w \in Workers, UNCHANGED mirror,
           worker' = [worker EXCEPT ![w] = Idle], dirs' = {d \in dirs : d.owner # w}
    PROVE  WorkInv'
<1>1. WorkerType' /\ DirsType'
  BY IdleType DEF WorkInv, WorkerType, DirsType
<1>2. worker'[w] = Idle /\ \A u \in Workers \ {w} : worker'[u] = worker[u]
  BY DEF WorkInv, WorkerType
<1>3. WorkerInv(w)'
  BY <1>2, IdleType, SourceFacts DEF WorkerInv, Available
<1> QED
  BY <1>1, <1>2, <1>3, WorkerStep

LEMMA SelectKeeps ==
    ASSUME LoopInv, WorkInv, NEW w \in Workers, NEW c \in Clusters, Select(w, c)
    PROVE  WorkInv'
<1> DEFINE r == [Idle EXCEPT !.pc = "get", !.version = list[c]]
<1>1. list[c] \in Vers /\ list[c] # NoVersion /\ list[c] \in [DOMAIN Sources -> Commits]
      /\ Available(list[c])
  BY DEF Select, LoopInv, LoopType, ListInv, Vers
<1>2. /\ r \in [pc : {"idle", "get", "use"}, version : Vers, i : Nat, cancelled : BOOLEAN]
      /\ r.pc = "get" /\ r.version = list[c] /\ r.i = 1
  BY <1>1 DEF Idle
<1>3. worker' = [worker EXCEPT ![w] = r]
  BY DEF Select
<1> HIDE DEF r
<1>4. worker'[w] = r /\ WorkerType' /\ \A u \in Workers \ {w} : worker'[u] = worker[u]
  BY <1>2, <1>3 DEF WorkInv, WorkerType
<1>5. UNCHANGED <<mirror, dirs>>
  BY DEF Select
<1>6. \A d \in dirs : d.owner # w
  BY DEF Select, WorkInv, WorkerInv
<1>7. Available(worker'[w].version)
  BY <1>1, <1>2, <1>4
<1>8. WorkerInv(w)'
  BY <1>1, <1>2, <1>4, <1>5, <1>6, <1>7, SourceFacts DEF WorkerInv, Available
<1> QED
  BY <1>4, <1>5, <1>8, WorkerStep DEF WorkInv, DirsType

\* The source at hand of a worker that checks out.
LEMMA GettingFacts ==
    ASSUME WorkInv, NEW w \in Workers, Getting(w)
    PROVE  /\ worker[w].pc = "get" /\ worker[w].i \in DOMAIN Sources /\ worker[w].i \in Nat
           /\ worker[w].version \in [DOMAIN Sources -> Commits]
           /\ worker[w].version[worker[w].i] \in Commits
           /\ Current(w) \in Git => RepoName[Current(w)] \in RepoDirs
<1>1. worker[w].i \in Nat /\ worker[w].i >= 1 /\ worker[w].pc = "get"
      /\ worker[w].i <= Len(Sources) /\ worker[w].version \in [DOMAIN Sources -> Commits]
  BY DEF WorkInv, WorkerType, WorkerInv, Getting
<1> QED
  BY <1>1, SourceFacts

\* The worker goes on to the next source when the one at hand needs no
\* checkout or has a complete one.
LEMMA AdvanceKeeps ==
    ASSUME WorkInv, NEW w \in Workers, Getting(w), Advance(w), UNCHANGED <<mirror, dirs>>,
           Current(w) \in Git => Complete(w, worker[w].i)
    PROVE  WorkInv'
<1>1. /\ worker[w].i \in DOMAIN Sources /\ worker[w].i \in Nat /\ worker[w].pc = "get"
      /\ worker[w].version \in [DOMAIN Sources -> Commits]
  BY GettingFacts
<1>2. /\ WorkerType' /\ \A u \in Workers \ {w} : worker'[u] = worker[u]
      /\ worker'[w].pc = "get" /\ worker'[w].version = worker[w].version
      /\ worker'[w].i = worker[w].i + 1
  BY <1>1 DEF WorkInv, WorkerType, Advance
<1>3. \A i : Complete(w, i) => Complete(w, i)'
  BY <1>2 DEF Complete
<1>4. ASSUME NEW i \in DOMAIN Sources, Sources[i] \in Git, i < worker'[w].i
      PROVE  Complete(w, i)'
  <2>1. CASE i = worker[w].i
    BY <1>3, <1>4, <2>1 DEF Current
  <2>2. CASE i # worker[w].i
    BY <1>1, <1>2, <1>3, <1>4, <2>2, SourceFacts DEF WorkInv, WorkerInv
  <2> QED
    BY <2>1, <2>2
<1>5. Available(worker[w].version)'
  BY <1>2 DEF WorkInv, WorkerInv, Available
<1>6. WorkerInv(w)'
  BY <1>1, <1>2, <1>4, <1>5 DEF WorkInv, WorkerInv
<1> QED
  BY <1>2, <1>6, WorkerStep DEF WorkInv, DirsType

\* A checkout is opened, or a file is added to it.
LEMMA CheckoutGrows ==
    ASSUME WorkInv, NEW w \in Workers, Getting(w), Current(w) \in Git, NEW k \in Nat,
           NEW old, \A d \in dirs : d \in old => d.owner = w /\ d.i = worker[w].i,
           dirs' = (dirs \ old) \cup {Checkout(w, k)}, UNCHANGED <<mirror, worker>>
    PROVE  WorkInv'
<1>1. /\ worker[w].i \in DOMAIN Sources /\ worker[w].i \in Nat /\ worker[w].pc = "get"
      /\ worker[w].version[worker[w].i] \in Commits /\ RepoName[Current(w)] \in RepoDirs
      /\ worker[w].version \in [DOMAIN Sources -> Commits]
  BY GettingFacts
<1>2. /\ Checkout(w, k) \in [owner : Workers, i : Nat, repo : RepoDirs, commit : Commits, files : Nat]
      /\ Checkout(w, k).owner = w /\ Checkout(w, k).i = worker[w].i
      /\ Checkout(w, k).commit = worker[w].version[worker[w].i]
  BY <1>1 DEF Checkout
<1>3. WorkerType' /\ DirsType'
  BY <1>2 DEF WorkInv, WorkerType, DirsType
<1>4. ASSUME NEW i \in DOMAIN Sources, Sources[i] \in Git, i < worker[w].i
      PROVE  Complete(w, i)'
  <2>1. PICK d \in dirs : d.owner = w /\ d.i = i /\ d.files = TreeSize
                          /\ d.commit = worker[w].version[i]
    BY <1>1, <1>4 DEF WorkInv, WorkerInv, Complete
  <2>2. d.i # worker[w].i
    BY <1>1, <1>4, <2>1, SourceFacts
  <2>3. d \in dirs'
    BY <2>1, <2>2
  <2> QED
    BY <2>1, <2>3 DEF Complete
<1>5. \A d \in dirs' : d.owner = w => d.commit = worker[w].version[d.i] /\ Sources[d.i] \in Git
  BY <1>2 DEF WorkInv, WorkerInv, Current
<1>6. WorkerInv(w)'
  BY <1>1, <1>4, <1>5 DEF WorkInv, WorkerInv, Available
<1>7. \A d : d.owner # w => (d \in dirs' <=> d \in dirs)
  BY <1>2
<1> QED
  BY <1>3, <1>6, <1>7, WorkerStep

\* Every step of a worker.
LEMMA ProcessKeeps ==
    ASSUME LoopInv, WorkInv, NEW w \in Workers, Process(w)
    PROVE  WorkInv' /\ UNCHANGED <<remote, mirror, loop, pushes>>
<1> USE DEF SameButDirs
<1>1. UNCHANGED <<remote, mirror, loop, pushes>>
  BY DEF Process, GetDirectory, LocalClone, WriteEntry, GetFails, GetEnds, DeleteConfig,
     CancelUpdate, Select
<1>2. CASE GetDirectory(w)
  BY <1>2, AdvanceKeeps DEF GetDirectory
<1>3. CASE LocalClone(w)
  <2>1. dirs' = (dirs \ {}) \cup {Checkout(w, 0)} /\ UNCHANGED worker
        /\ Getting(w) /\ Current(w) \in Git
    BY <1>3 DEF LocalClone
  <2> DEFINE old == {}
  <2>2. 0 \in Nat /\ dirs' = (dirs \ old) \cup {Checkout(w, 0)}
        /\ \A d \in dirs : d \in old => d.owner = w /\ d.i = worker[w].i
    BY <2>1
  <2> HIDE DEF old
  <2> QED
    BY <1>1, <2>1, <2>2, CheckoutGrows
<1>4. CASE WriteEntry(w)
  <2>1. PICK d \in dirs :
           /\ d.owner = w /\ d.i = worker[w].i
           /\ IF d.files = TreeSize THEN Advance(w) /\ UNCHANGED dirs
              ELSE /\ ~worker[w].cancelled
                   /\ dirs' = (dirs \ {d}) \cup {Checkout(w, d.files + 1)} /\ UNCHANGED worker
    BY <1>4 DEF WriteEntry
  <2>2. d.commit = worker[w].version[d.i] /\ d.files + 1 \in Nat /\ Current(w) \in Git
        /\ Getting(w)
    BY <1>4, <2>1 DEF WorkInv, WorkerInv, DirsType, Current, WriteEntry
  <2>3. CASE d.files = TreeSize
    <3>1. Complete(w, worker[w].i)
      BY <2>1, <2>2, <2>3 DEF Complete
    <3> QED
      BY <1>1, <2>1, <2>2, <2>3, <3>1, AdvanceKeeps
  <2>4. CASE d.files # TreeSize
    <3>1. dirs' = (dirs \ {d}) \cup {Checkout(w, d.files + 1)} /\ UNCHANGED worker
      BY <2>1, <2>4
    <3>2. \A e \in dirs : e \in {d} => e.owner = w /\ e.i = worker[w].i
      BY <2>1
    <3> DEFINE old == {d}
               k == d.files + 1
    <3>3. k \in Nat /\ dirs' = (dirs \ old) \cup {Checkout(w, k)}
          /\ \A e \in dirs : e \in old => e.owner = w /\ e.i = worker[w].i
      BY <2>2, <3>1, <3>2
    <3> HIDE DEF old, k
    <3> QED
      BY <1>1, <2>2, <3>1, <3>3, CheckoutGrows
  <2> QED
    BY <2>3, <2>4
<1>5. CASE GetFails(w)
  <2>1. dirs' = {d \in dirs : d.owner # w}
    BY <1>5 DEF GetFails, RemoveAll
  <2> QED
    BY <1>1, <1>5, <2>1, EndsIdle DEF GetFails
<1>6. CASE DeleteConfig(w)
  BY <1>1, <1>6, EndsIdle DEF DeleteConfig
<1>7. CASE GetEnds(w) \/ CancelUpdate(w)
  <2>1. /\ WorkerType' /\ \A u \in Workers \ {w} : worker'[u] = worker[u]
        /\ worker'[w].version = worker[w].version /\ worker'[w].i = worker[w].i
        /\ worker[w].pc # "idle" /\ worker'[w].pc # "idle"
        /\ worker'[w].pc = "use" => worker[w].pc = "use" \/ worker[w].i > Len(Sources)
    BY <1>7 DEF WorkInv, WorkerType, GetEnds, CancelUpdate
  <2>2. UNCHANGED <<mirror, dirs>>
    BY <1>1, <1>7 DEF GetEnds, CancelUpdate
  <2>3. \A i : Complete(w, i) => Complete(w, i)'
    BY <2>1, <2>2 DEF Complete
  <2>4. Available(worker[w].version)'
    BY <2>1, <2>2 DEF WorkInv, WorkerInv, Available
  <2>5. WorkerInv(w)'
    BY <2>1, <2>2, <2>3, <2>4 DEF WorkInv, WorkerInv
  <2> QED
    BY <1>1, <2>1, <2>2, <2>5, WorkerStep DEF WorkInv, DirsType
<1>8. CASE \E c \in Clusters : Select(w, c)
  BY <1>1, <1>8, SelectKeeps
<1> QED
  BY <1>2, <1>3, <1>4, <1>5, <1>6, <1>7, <1>8 DEF Process

-----------------------------------------------------------------------------
(* The theorems *)

IInv == LoopInv /\ WorkInv

LEMMA NextKeeps == ASSUME IInv, [Next]_vars PROVE IInv'
<1> LoopInv /\ WorkInv
  BY DEF IInv
<1>1. CASE Restart
  BY <1>1, LoopKeeps, RestartKeepsWork DEF IInv
<1>2. CASE Refresh \/ \E s \in Git, ch \in Channels : Push(s, ch) \/ DeleteBranch(s, ch)
  <2>1. UNCHANGED <<worker, dirs>>
    BY <1>2 DEF Refresh, BeginUpdate, SkipDirectory, InitMirror, CloneMirror, FetchMirror,
       SyncHead, EndUpdate, EndRefresh, ResolveCluster, SameButMirror, Push, DeleteBranch
  <2> QED
    BY <1>2, <2>1, LoopKeeps, WorkersWait DEF IInv
<1>3. ASSUME NEW w \in Workers, Process(w) PROVE IInv'
  <2>1. WorkInv' /\ UNCHANGED <<remote, mirror, loop, pushes>>
    BY <1>3, ProcessKeeps
  <2>2. RemoteType' /\ RemoteInv' /\ pushes' \in Nat
    BY <2>1 DEF LoopInv, RemoteType, RemoteInv, loop
  <2> QED
    BY <2>1, <2>2, RemoteStep DEF IInv
<1>4. CASE UNCHANGED vars
  <2>1. RemoteType' /\ RemoteInv' /\ pushes' \in Nat
    BY <1>4 DEF LoopInv, RemoteType, RemoteInv, vars, loop
  <2> QED
    BY <1>4, <2>1, RemoteStep, WorkersWait DEF IInv, vars
<1> QED
  BY <1>1, <1>2, <1>3, <1>4 DEF Next

\* In every behaviour: mirrors hold what their branches name, the branches of
\* a source that the refresh has passed are as new as the refresh, and so is
\* what is cached; a worker's checkouts are of the version it was given and
\* complete for the sources it is past.
THEOREM SourcesInvariant == Spec => []IInv
  BY LoopInit, WorkInit, NextKeeps, PTL DEF Spec, IInv

\* Whatever is pushed, deleted, fetched, interrupted or restarted, the versions
\* that clusters and workers hold are in the object stores of the mirrors.
THEOREM VersionsAlwaysStay == Spec => []VersionsStay
<1>1. IInv => VersionsStay
  BY DEF IInv, LoopInv, ListInv, WorkInv, WorkerInv, VersionsStay, Versions, Available
<1> QED
  BY <1>1, SourcesInvariant, PTL

\* No cluster is resolved to a commit older than its branch was when the
\* refresh began, also when sources share a mirror or clusters a cache entry.
THEOREM VersionsAlwaysFresh == Spec => []VersionsFresh
<1>1. IInv => VersionsFresh
  BY DEF IInv, LoopInv, ListInv, Fresh, VersionsFresh
<1> QED
  BY <1>1, SourcesInvariant, PTL

\* A provisioner never sees a checkout with files missing or of another version.
THEOREM CheckoutAlwaysComplete == Spec => []CheckoutComplete
<1>1. IInv => CheckoutComplete
  <2> SUFFICES ASSUME IInv, NEW w \in Workers, worker[w].pc = "use",
                      NEW i \in DOMAIN Sources, Sources[i] \in Git
               PROVE  Complete(w, i)
    BY DEF CheckoutComplete, Complete
  <2>1. i < worker[w].i
    BY SourceFacts DEF IInv, WorkInv, WorkerType, WorkerInv
  <2> QED
    BY <2>1 DEF IInv, WorkInv, WorkerInv
<1> QED
  BY <1>1, SourcesInvariant, PTL

\* No checkout outlives the work of the worker that made it: failed and
\* cancelled checkouts and crashes leave nothing below the working directory.
THEOREM NothingLeftOver == Spec => []NoLeftovers
<1>1. IInv => NoLeftovers
  BY DEF IInv, WorkInv, DirsType, WorkerInv, NoLeftovers
<1> QED
  BY <1>1, SourcesInvariant, PTL
=============================================================================
