-------------------------- MODULE ControllerProofs --------------------------
(***************************************************************************)
(* Theorems about Controller for any number of clusters, workers, edits,   *)
(* faults and restarts: about the list, its workers and the problems they  *)
(* report; and about what is written to the registry and applied to the    *)
(* clusters, although refreshes use what they read some time ago and       *)
(* workers write back what they were started with: a cluster recorded as   *)
(* decommissioned is gone, no cluster goes back to an older version, and a *)
(* cluster that needs no update is not left half updated.                  *)
(***************************************************************************)
EXTENDS Controller, FiniteSetTheorems, SequenceTheorems, WellFoundedInduction, TLAPS

\* The types of the variables the list and the workers are made of.
ListTypeOK ==
    /\ state \in [Clusters -> {"absent", "idle", "processing", "processed"}]
    /\ cancelUpdate \in [Clusters -> Workers \cup {NoWorker}]
    /\ pendingUpdate \in Seq(Clusters)
    /\ pc \in [Workers -> {"select"} \cup BusyPCs]
    /\ job \in [Workers -> Clusters \cup {NoCluster}]

IdleWithoutJob == \A w \in Workers : pc[w] = "select" <=> job[w] = NoCluster

\* The inductive invariant behind ListConsistent and ExclusiveProcessing: the
\* former is almost inductive; what it lacks is that the workers that pick
\* clusters are the ones without a cluster, and the types.
ListInv == ListTypeOK /\ ListConsistent /\ IdleWithoutJob

-----------------------------------------------------------------------------
\* Two workers with the same cluster would both own its one CancelFunc.
LEMMA ListInvExcludes == ListInv => ExclusiveProcessing
  <1> SUFFICES ASSUME ListInv, NEW v \in Workers, NEW w \in Workers,
                      job[v] # NoCluster, job[v] = job[w]
               PROVE  v = w
    BY DEF ExclusiveProcessing
  <1> QED
    BY DEF ListInv, ListConsistent, HolderCancels

\* An empty list and idle workers, after a start and after a restart, satisfy
\* the invariant.
EmptyList ==
    /\ state = [c \in Clusters |-> "absent"]
    /\ cancelUpdate = [c \in Clusters |-> NoWorker]
    /\ pendingUpdate = << >>
    /\ pc = [w \in Workers |-> "select"]
    /\ job = [w \in Workers |-> NoCluster]

LEMMA EmptyListInv == EmptyList => ListInv
  <1> SUFFICES ASSUME EmptyList PROVE ListInv
    OBVIOUS
  <1> USE DEF EmptyList
  <1>1. pendingUpdate \in Seq(Clusters) /\ Len(pendingUpdate) = 0
    BY EmptySeq
  <1>2. ListTypeOK
    BY <1>1 DEF ListTypeOK
  <1>3. MarkedWhileHeld
    BY ConstantsAssumption DEF MarkedWhileHeld
  <1>4. HolderCancels
    BY DEF HolderCancels
  <1>5. PendingIdle /\ PendingOnce
    BY <1>1 DEF PendingIdle, PendingOnce
  <1>6. IdleWithoutJob
    BY DEF IdleWithoutJob
  <1> QED
    BY <1>2, <1>3, <1>4, <1>5, <1>6 DEF ListInv, ListConsistent

\* The steps of a worker between picking a cluster and giving it back leave the
\* list alone, and the worker keeps its cluster.
LEMMA BusyStepListInv ==
    ASSUME ListInv, NEW w \in Workers, pc[w] # "select",
           NEW p \in BusyPCs, pc' = [pc EXCEPT ![w] = p],
           UNCHANGED <<state, cancelUpdate, pendingUpdate, job>>
    PROVE  ListInv'
  <1>1. ListTypeOK'
    BY DEF ListInv, ListTypeOK
  <1>2. MarkedWhileHeld' /\ HolderCancels'
    BY DEF ListInv, ListConsistent, MarkedWhileHeld, HolderCancels
  <1>3. PendingIdle' /\ PendingOnce'
    BY DEF ListInv, ListConsistent, PendingIdle, PendingOnce
  <1>4. IdleWithoutJob'
    BY DEF ListInv, ListTypeOK, IdleWithoutJob, BusyPCs
  <1> QED
    BY <1>1, <1>2, <1>3, <1>4 DEF ListInv, ListConsistent

LEMMA SelectNextListInv ==
    ASSUME ListInv, NEW w \in Workers, SelectNext(w)
    PROVE  ListInv'
  <1> DEFINE c == Head(pendingUpdate)
  <1>1. /\ pc[w] = "select" /\ pendingUpdate # << >>
        /\ state' = [state EXCEPT ![c] = "processing"]
        /\ cancelUpdate' = [cancelUpdate EXCEPT ![c] = w]
        /\ job' = [job EXCEPT ![w] = c]
        /\ pc' = [pc EXCEPT ![w] = "start"]
        /\ pendingUpdate' = Tail(pendingUpdate)
    BY DEF SelectNext
  <1>2. pendingUpdate \in Seq(Clusters)
    BY DEF ListInv, ListTypeOK
  <1>3. /\ c \in Clusters
        /\ c = pendingUpdate[1]
        /\ pendingUpdate' \in Seq(Clusters)
        /\ Len(pendingUpdate) \in Nat \ {0}
        /\ Len(pendingUpdate') = Len(pendingUpdate) - 1
        /\ \A i \in 1..Len(pendingUpdate') : pendingUpdate'[i] = pendingUpdate[i + 1]
    BY <1>1, <1>2, HeadTailProperties, EmptySeq
  <1>4. state[c] = "idle"
    BY <1>3 DEF ListInv, ListConsistent, PendingIdle
  <1>5. job[w] = NoCluster /\ \A v \in Workers : job[v] # c
    BY <1>1, <1>3, <1>4 DEF ListInv, ListConsistent, MarkedWhileHeld, IdleWithoutJob
  <1> HIDE DEF c
  <1>6. ListTypeOK'
    BY <1>1, <1>3 DEF ListInv, ListTypeOK, BusyPCs
  <1>7. MarkedWhileHeld'
    BY <1>1, <1>3, <1>5, ConstantsAssumption
       DEF ListInv, ListTypeOK, ListConsistent, MarkedWhileHeld
  <1>8. HolderCancels'
    BY <1>1, <1>3, <1>5 DEF ListInv, ListTypeOK, ListConsistent, HolderCancels
  <1>9. PendingIdle' /\ PendingOnce'
    BY <1>1, <1>3 DEF ListInv, ListTypeOK, ListConsistent, PendingIdle, PendingOnce
  <1>10. IdleWithoutJob'
    BY <1>1, <1>3, ConstantsAssumption DEF ListInv, ListTypeOK, IdleWithoutJob
  <1> QED
    BY <1>6, <1>7, <1>8, <1>9, <1>10 DEF ListInv, ListConsistent

LEMMA ClusterProcessedListInv ==
    ASSUME ListInv, NEW w \in Workers, ClusterProcessed(w)
    PROVE  ListInv'
  <1> DEFINE c == job[w]
  <1>1. /\ pc[w] = "processed"
        /\ pc' = [pc EXCEPT ![w] = "select"]
        /\ job' = [job EXCEPT ![w] = NoCluster]
        /\ pendingUpdate' = pendingUpdate
    BY DEF ClusterProcessed
  <1>2. c \in Clusters /\ state[c] = "processing"
    BY <1>1 DEF ListInv, ListTypeOK, ListConsistent, MarkedWhileHeld, IdleWithoutJob
  <1>3. /\ state' = [state EXCEPT ![c] = "processed"]
        /\ cancelUpdate' = [cancelUpdate EXCEPT ![c] = NoWorker]
    BY <1>2 DEF ClusterProcessed
  <1>4. \A v \in Workers \ {w} : job[v] # c
    BY <1>2, ConstantsAssumption DEF ListInv, ListConsistent, HolderCancels
  <1>5. ListTypeOK'
    BY <1>1, <1>2, <1>3 DEF ListInv, ListTypeOK
  <1>6. MarkedWhileHeld'
    BY <1>1, <1>2, <1>3, <1>4, ConstantsAssumption
       DEF ListInv, ListTypeOK, ListConsistent, MarkedWhileHeld
  <1>7. HolderCancels'
    BY <1>1, <1>2, <1>3, <1>4 DEF ListInv, ListTypeOK, ListConsistent, HolderCancels
  <1>8. PendingIdle' /\ PendingOnce'
    BY <1>1, <1>2, <1>3 DEF ListInv, ListTypeOK, ListConsistent, PendingIdle, PendingOnce
  <1>9. IdleWithoutJob'
    BY <1>1 DEF ListInv, ListTypeOK, IdleWithoutJob
  <1> QED
    BY <1>5, <1>6, <1>7, <1>8, <1>9 DEF ListInv, ListConsistent

\* A refresh rebuilds the queue out of clusters nobody is processing, and keeps
\* the entry of every cluster somebody is processing.
LEMMA UpdateAvailableListInv ==
    ASSUME ListInv, UpdateAvailable
    PROVE  /\ ListInv'
           /\ \A c \in Clusters : /\ state'[c] = "processing" <=> state[c] = "processing"
                                  /\ state[c] = "processing" => cancelUpdate'[c] = cancelUpdate[c]
  <1>1. PICK waiting \in SUBSET Replaced :
            \E infos : pendingUpdate' \in SortedOrders(infos, waiting)
    BY DEF UpdateAvailable
  <1>2. /\ state' = [c \in Clusters |-> IF c \in Replaced THEN "idle"
                                        ELSE IF c \in Deleted THEN "absent"
                                        ELSE state[c]]
        /\ cancelUpdate' = [c \in Clusters |-> IF c \in Deleted THEN NoWorker
                                               ELSE cancelUpdate[c]]
        /\ pc' = pc /\ job' = job
    BY DEF UpdateAvailable
  <1>3. Replaced \subseteq Clusters
    BY ConstantsAssumption DEF Available, Replaced
  <1>4. \A c \in Clusters : /\ state'[c] = "processing" <=> state[c] = "processing"
                            /\ state[c] = "processing" => cancelUpdate'[c] = cancelUpdate[c]
    BY <1>2, <1>3 DEF Replaced, Deleted
  <1>5. /\ pendingUpdate' \in Seq(Clusters)
        /\ \A k \in 1..Len(pendingUpdate') : pendingUpdate'[k] \in Replaced
        /\ PendingOnce'
    <2>1. IsFiniteSet(waiting)
      BY <1>1, <1>3, ConstantsAssumption, FS_Subset
    <2>2. Cardinality(waiting) \in Nat
      BY <2>1, FS_CardinalityType
    <2>3. /\ pendingUpdate' \in [1..Cardinality(waiting) -> waiting]
          /\ \A i, j \in 1..Cardinality(waiting) :
                i # j => pendingUpdate'[i] # pendingUpdate'[j]
      BY <1>1 DEF SortedOrders
    <2>4. pendingUpdate' \in Seq(waiting) /\ Len(pendingUpdate') = Cardinality(waiting)
      BY <2>2, <2>3
    <2>5. pendingUpdate' \in Seq(Clusters)
      BY <2>4, <1>1, <1>3, SeqMonotonic
    <2> QED
      BY <1>1, <2>3, <2>4, <2>5 DEF PendingOnce
  <1>6. ListTypeOK'
    BY <1>2, <1>5 DEF ListInv, ListTypeOK
  <1>7. MarkedWhileHeld'
    BY <1>2, <1>4 DEF ListInv, ListConsistent, MarkedWhileHeld
  <1>8. HolderCancels'
    <2> SUFFICES ASSUME NEW w \in Workers, job[w] # NoCluster
                 PROVE  cancelUpdate'[job[w]] = w
      BY <1>2 DEF HolderCancels
    <2>1. job[w] \in Clusters /\ state[job[w]] = "processing"
      BY DEF ListInv, ListTypeOK, ListConsistent, MarkedWhileHeld
    <2> QED
      BY <1>4, <2>1 DEF ListInv, ListConsistent, HolderCancels
  <1>9. PendingIdle'
    BY <1>2, <1>3, <1>5 DEF PendingIdle
  <1>10. IdleWithoutJob'
    BY <1>2 DEF ListInv, IdleWithoutJob
  <1> QED
    BY <1>4, <1>5, <1>6, <1>7, <1>8, <1>9, <1>10 DEF ListInv, ListConsistent

\* What the steps of a busy worker have in common.
LEMMA BusySteps ==
    ASSUME ListInv, NEW w \in Workers,
           \/ StartProcess(w) \/ Announce(w) \/ ProvisionBegins(w) \/ DecommissionBegins(w)
           \/ ProvisionerReturns(w) \/ Report(w)
    PROVE  /\ pc[w] # "select"
           /\ \E p \in BusyPCs : pc' = [pc EXCEPT ![w] = p]
           /\ UNCHANGED <<state, cancelUpdate, pendingUpdate, job>>
  BY DEF StartProcess, Announce, ProvisionBegins, DecommissionBegins, ProvisionerReturns,
         Provisioned, Decommissioned, ProvisionerFails, Report, Goto, FailWith, listVars,
         BusyPCs

LEMMA ListInvStep == ListInv /\ [Next]_vars => ListInv'
  <1> SUFFICES ASSUME ListInv, [Next]_vars PROVE ListInv'
    OBVIOUS
  <1> DEFINE same == UNCHANGED <<state, cancelUpdate, pendingUpdate, pc, job>>
  <1>1. ASSUME same PROVE ListInv'
    BY <1>1 DEF ListInv, ListTypeOK, ListConsistent, MarkedWhileHeld, HolderCancels,
                PendingIdle, PendingOnce, IdleWithoutJob
  <1>2. CASE RefreshUpdate \/ ListClusters \/ RefreshFails
    BY <1>1, <1>2 DEF RefreshUpdate, ListClusters, RefreshFails, listVars, workerVars
  <1>3. CASE UpdateAvailable
    BY <1>3, UpdateAvailableListInv
  <1>4. ASSUME NEW w \in Workers, SelectNext(w) PROVE ListInv'
    BY <1>4, SelectNextListInv
  <1>5. ASSUME NEW w \in Workers, ClusterProcessed(w) PROVE ListInv'
    BY <1>5, ClusterProcessedListInv
  <1>6. ASSUME NEW w \in Workers,
               \/ StartProcess(w) \/ Announce(w) \/ ProvisionBegins(w) \/ DecommissionBegins(w)
               \/ ProvisionerReturns(w) \/ Report(w)
        PROVE  ListInv'
    BY <1>6, BusySteps, BusyStepListInv
  <1>7. ASSUME NEW c \in Clusters, UserEdits(c) PROVE ListInv'
    BY <1>1, <1>7 DEF UserEdits, listVars, workerVars
  <1>8. CASE PushConfig
    BY <1>1, <1>8 DEF PushConfig, listVars, workerVars
  <1>9. CASE Restart
    <2>1. EmptyList'
      BY <1>9 DEF Restart, EmptyList
    <2> QED
      BY <2>1, EmptyListInv, PTL
  <1>10. CASE UNCHANGED vars
    BY <1>1, <1>10 DEF vars, listVars, workerVars
  <1> QED
    BY <1>2, <1>3, <1>4, <1>5, <1>6, <1>7, <1>8, <1>9, <1>10
       DEF Next, Refresh, WorkerSteps

LEMMA InitListInv == Init => ListInv
  BY EmptyListInv DEF Init, InitManager, EmptyList

\* The list always agrees with the workers.
THEOREM ListIsConsistent == Spec => []ListConsistent
  <1>1. ListInv => ListConsistent
    BY DEF ListInv
  <1> QED
    BY <1>1, InitListInv, ListInvStep, PTL DEF Spec

\* No cluster is ever processed by two workers.
THEOREM ProcessingIsExclusive == Spec => []ExclusiveProcessing
  BY InitListInv, ListInvStep, ListInvExcludes, PTL DEF Spec

-----------------------------------------------------------------------------
(* The problem list *)

\* What holds of 0, and of i + 1 if of i, holds up to n.
LEMMA Upwards ==
    ASSUME NEW n \in Nat, NEW T, 0 \in T, \A i \in 0..(n - 1) : i \in T => i + 1 \in T
    PROVE  0..n \subseteq T
  <1> DEFINE U == {i \in 0..n : i \notin T}
  <1> SUFFICES ASSUME U # {} PROVE FALSE
    OBVIOUS
  <1>1. U \in SUBSET Nat
    OBVIOUS
  <1> HIDE DEF U
  <1>2. PICK m \in U : \A k \in U : ~(<<k, m>> \in OpToRel(<, Nat))
    BY <1>1, NatLessThanWellFounded, WFMin, Zenon
  <1>3. m \in 0..n /\ m \notin T
    BY DEF U
  <1>4. m # 0 /\ m - 1 \in 0..(n - 1) /\ (m - 1) + 1 = m
    BY <1>3
  <1>5. m - 1 \notin U
    <2>1. <<m - 1, m>> \in OpToRel(<, Nat)
      BY <1>3, <1>4 DEF OpToRel
    <2> QED
      BY <1>2, <2>1
  <1>6. m - 1 \in T
    BY <1>4, <1>5 DEF U
  <1> QED
    BY <1>3, <1>4, <1>6

\* What CompactFunc keeps of the first i elements: the recursive function of
\* Compact exists, and is a list that is never longer than its argument.
CompactOf(f, s, n) ==
    f = [i \in 0..n |->
            IF i = 0 THEN << >>
            ELSE IF i > 1 /\ s[i] = s[i - 1] THEN f[i - 1]
            ELSE Append(f[i - 1], s[i])]

LEMMA CompactExists ==
    ASSUME NEW X, NEW s \in Seq(X), NEW n \in 0..Len(s)
    PROVE  \E f \in [0..n -> Seq(X)] : CompactOf(f, s, n)
  <1> DEFINE T == {m \in 0..n : \E f \in [0..m -> Seq(X)] : CompactOf(f, s, m)}
  <1>0. n \in Nat
    OBVIOUS
  <1>1. 0 \in T
    <2> DEFINE f == [i \in 0..0 |-> << >>]
    <2>1. f \in [0..0 -> Seq(X)] /\ CompactOf(f, s, 0)
      BY DEF CompactOf
    <2>2. 0 \in 0..n
      BY <1>0
    <2> HIDE DEF f
    <2> QED
      BY <2>1, <2>2
  <1>2. ASSUME NEW m \in 0..(n - 1), m \in T PROVE m + 1 \in T
    <2>1. PICK f \in [0..m -> Seq(X)] : CompactOf(f, s, m)
      BY <1>2
    <2>2. m + 1 \in 1..Len(s) /\ m + 1 \in 0..n /\ m \in 0..m /\ s[m + 1] \in X
      BY <1>0
    <2> DEFINE k == m + 1
               last == IF k > 1 /\ s[k] = s[k - 1] THEN f[m] ELSE Append(f[m], s[k])
               g == [i \in 0..k |-> IF i = k THEN last ELSE f[i]]
    <2>3. last \in Seq(X)
      BY <2>2
    <2>4. g \in [0..k -> Seq(X)]
      <3> HIDE DEF last
      <3> QED
        BY <2>2, <2>3
    <2>5. ASSUME NEW i \in 0..k
          PROVE  g[i] = IF i = 0 THEN << >>
                        ELSE IF i > 1 /\ s[i] = s[i - 1] THEN g[i - 1]
                        ELSE Append(g[i - 1], s[i])
      <3>1. CASE i = k
        <4>1. g[i] = last /\ k - 1 = m /\ g[k - 1] = f[m] /\ k # 0
          BY <2>2, <3>1
        <4> HIDE DEF g
        <4> QED
          BY <3>1, <4>1
      <3>2. CASE i # k
        <4>1. i \in 0..m /\ g[i] = f[i] /\ (i # 0 => g[i - 1] = f[i - 1])
          BY <2>2, <3>2
        <4>2. f[i] = IF i = 0 THEN << >>
                     ELSE IF i > 1 /\ s[i] = s[i - 1] THEN f[i - 1]
                     ELSE Append(f[i - 1], s[i])
          BY <2>1, <4>1 DEF CompactOf
        <4> HIDE DEF g
        <4> QED
          BY <4>1, <4>2
      <3> QED
        BY <3>1, <3>2
    <2>6. CompactOf(g, s, k)
      <3>1. g = [i \in 0..k |-> g[i]]
        OBVIOUS
      <3> HIDE DEF g
      <3> QED
        BY <2>5, <3>1 DEF CompactOf
    <2> HIDE DEF g, k
    <2> QED
      BY <2>2, <2>4, <2>6 DEF k
  <1>3. n \in T
    <2> HIDE DEF T
    <2>1. 0..n \subseteq T
      BY <1>0, <1>1, <1>2, Upwards
    <2> QED
      BY <1>0, <2>1
  <1> QED
    BY <1>3

\* A list without repetitions loses nothing but a last element that is added to it
\* a second time.
LEMMA CompactAppend ==
    ASSUME NEW X, NEW l \in Seq(X), NEW t \in X, \A i \in 2..Len(l) : l[i] # l[i - 1]
    PROVE  Compact(Append(l, t)) = IF Len(l) > 0 /\ t = l[Len(l)] THEN l ELSE Append(l, t)
  <1> DEFINE s == Append(l, t)
             k == Len(l)
             n == Len(s)
             f == CHOOSE g : CompactOf(g, s, n)
  <1>0. /\ k \in Nat /\ n = k + 1 /\ s \in Seq(X) /\ s[k + 1] = t
        /\ \A i \in 1..k : s[i] = l[i] /\ l[i] \in X
    OBVIOUS
  <1>1. CompactOf(f, s, n)
    <2>1. n \in 0..Len(s)
      BY <1>0
    <2>2. \E g : CompactOf(g, s, n)
      BY <1>0, <2>1, CompactExists
    <2> QED
      BY <2>2, Zenon
  <1>2. Compact(s) = f[n]
    BY Zenon DEF Compact, CompactOf
  <1> HIDE DEF f
  <1>3. \A i \in 0..n : f[i] = IF i = 0 THEN << >>
                               ELSE IF i > 1 /\ s[i] = s[i - 1] THEN f[i - 1]
                               ELSE Append(f[i - 1], s[i])
    BY <1>1 DEF CompactOf
  <1> HIDE DEF s, n
  <1> DEFINE Kept(i) == /\ f[i] \in Seq(X) /\ Len(f[i]) = i
                        /\ \A j \in 1..i : f[i][j] = l[j]
             T == {i \in 0..k : Kept(i)}
  <1>4. 0 \in T
    <2>1. 0 \in 0..k /\ f[0] = << >>
      BY <1>0, <1>3
    <2>2. << >> \in Seq(X) /\ Len(<< >>) = 0 /\ 1..0 = {}
      OBVIOUS
    <2>3. f[0] \in Seq(X) /\ Len(f[0]) = 0 /\ \A j \in 1..0 : f[0][j] = l[j]
      BY <2>1, <2>2
    <2> QED
      BY <2>1, <2>3
  <1>5. ASSUME NEW i \in 0..(k - 1), i \in T PROVE i + 1 \in T
    <2>1. /\ i \in Nat /\ i + 1 \in 1..k /\ i + 1 \in 0..n /\ (i + 1) - 1 = i /\ i + 1 # 0
          /\ s[i + 1] = l[i + 1] /\ l[i + 1] \in X
      BY <1>0
    <2>2. i + 1 > 1 => s[i + 1] # s[i]
      <3>1. SUFFICES ASSUME i + 1 > 1 PROVE s[i + 1] # s[i]
        OBVIOUS
      <3>2. i + 1 \in 2..k /\ i \in 1..k
        BY <1>0, <3>1
      <3> QED
        BY <1>0, <2>1, <3>2
    <2>3. f[i + 1] = Append(f[i], l[i + 1])
      BY <1>3, <2>1, <2>2
    <2>4. f[i] \in Seq(X) /\ Len(f[i]) = i /\ \A j \in 1..i : f[i][j] = l[j]
      BY <1>5
    <2>5. /\ Append(f[i], l[i + 1]) \in Seq(X) /\ Len(Append(f[i], l[i + 1])) = i + 1
          /\ Append(f[i], l[i + 1])[i + 1] = l[i + 1]
          /\ \A j \in 1..i : Append(f[i], l[i + 1])[j] = f[i][j]
      BY <2>1, <2>4
    <2>6. Kept(i + 1)
      BY <2>1, <2>3, <2>4, <2>5
    <2> HIDE DEF Kept
    <2> QED
      BY <2>1, <2>6
  <1>6. Kept(k)
    <2> HIDE DEF Kept
    <2>1. 0..k \subseteq T
      <3> HIDE DEF T
      <3> QED
        BY <1>0, <1>4, <1>5, Upwards
    <2> QED
      BY <1>0, <2>1
  <1>7. f[k] = l
    BY <1>0, <1>6
  <1>8. f[n] = IF k > 0 /\ t = l[k] THEN l ELSE Append(l, t)
    <2>1. f[n] = IF n > 1 /\ s[n] = s[n - 1] THEN f[k] ELSE Append(f[k], s[n])
      BY <1>0, <1>3
    <2>2. n > 1 /\ s[n] = s[n - 1] <=> k > 0 /\ t = l[k]
      BY <1>0
    <2> QED
      BY <1>0, <1>7, <2>1, <2>2
  <1> QED
    BY <1>2, <1>8 DEF s

LEMMA AppendShape ==
    ASSUME NEW X, NEW l \in Seq(X), NEW t \in X
    PROVE  /\ Append(l, t) \in [1..(Len(l) + 1) -> X] /\ Len(Append(l, t)) = Len(l) + 1
           /\ Append(l, t)[Len(l) + 1] = t
           /\ \A i \in 1..Len(l) : Append(l, t)[i] = l[i]
  <1>1. Append(l, t) \in Seq(X) /\ Len(Append(l, t)) = Len(l) + 1
    OBVIOUS
  <1>2. Append(l, t) \in [1..(Len(l) + 1) -> X]
    BY <1>1, LenProperties
  <1> QED
    BY <1>1, <1>2

\* Cluster.Status keeps at most errorLimit problems, however many calls fail one
\* after the other: the newest of them is the last, none is repeated, and one is
\* dropped only from a full list, whose head then is the marker (processCluster).
THEOREM ProblemsBounded ==
    ASSUME NEW l \in ProblemLists, NEW t \in Titles
    PROVE  /\ AddProblem(l, t) \in ProblemLists /\ Len(AddProblem(l, t)) \in 1..ErrorLimit
           /\ Told(l, t, AddProblem(l, t))
  <1> DEFINE X == Titles \cup {Coalesced}
             all == Compact(Append(l, t))
             excess == Len(all) - ErrorLimit
             cut == [i \in 1..ErrorLimit |-> IF i = 1 THEN Coalesced ELSE all[excess + i]]
             k == Len(l)
  <1>0. ErrorLimit \in Nat \ {0}
    BY ConstantsAssumption
  <1>9. t \in X /\ t # Coalesced /\ t # "" /\ Coalesced \in X
    BY DEF Titles, Coalesced
  <1>1. /\ l \in Seq(X) /\ k \in 0..ErrorLimit
        /\ \A i \in 1..k : l[i] \in X
    <2>1. PICK n \in 0..ErrorLimit : l \in [1..n -> X]
      BY DEF ProblemLists
    <2>2. n \in Nat /\ l \in Seq(X) /\ Len(l) = n
      BY <1>0, <2>1
    <2> QED
      BY <2>1, <2>2
  <1>2. \A i \in 1..k : /\ l[i] = Coalesced => i = 1 /\ k = ErrorLimit
                        /\ i > 1 => l[i] # l[i - 1]
    BY DEF ProblemLists
  <1>3. all = IF k > 0 /\ t = l[k] THEN l ELSE Append(l, t)
    <2>1. \A i \in 2..Len(l) : l[i] # l[i - 1]
      BY <1>1, <1>2
    <2> HIDE DEF X
    <2> QED
      BY <1>1, <1>9, <2>1, CompactAppend DEF all
  <1>4. AddProblem(l, t) = IF excess > 0 THEN cut ELSE all
    BY DEF AddProblem
  <1>5. ASSUME NEW new, NEW m \in 1..ErrorLimit, new \in [1..m -> X], Len(new) = m,
               \A i \in 1..m : /\ new[i] = Coalesced => i = 1 /\ m = ErrorLimit
                               /\ i > 1 => new[i] # new[i - 1]
        PROVE  new \in ProblemLists
    <2>1. m \in 0..ErrorLimit
      BY <1>0
    <2>2. new \in UNION {[1..n -> X] : n \in 0..ErrorLimit}
      BY <1>5, <2>1
    <2> QED
      BY <1>5, <2>2 DEF ProblemLists
  <1> HIDE DEF X, all
  <1>6. CASE k > 0 /\ t = l[k]
    <2>1. all = l /\ ~(excess > 0) /\ k \in 1..ErrorLimit
      BY <1>0, <1>1, <1>3, <1>6
    <2>2. Told(l, t, l)
      <3>1. l[1] = Coalesced => Len(l) = ErrorLimit
        <4>1. 1 \in 1..k
          BY <2>1
        <4> QED
          BY <1>2, <4>1
      <3>2. \A i \in 1..Len(l) : \E j \in 1..Len(l) : l[j] = l[i]
        OBVIOUS
      <3> QED
        BY <1>6, <1>9, <3>1, <3>2 DEF Told
    <2> QED
      BY <1>4, <2>1, <2>2
  <1>7. CASE ~(k > 0 /\ t = l[k]) /\ k < ErrorLimit
    <2>1. all = Append(l, t) /\ k \in Nat /\ k + 1 \in 1..ErrorLimit
      BY <1>0, <1>1, <1>3, <1>7
    <2>2. /\ all \in [1..(k + 1) -> X] /\ Len(all) = k + 1 /\ all[k + 1] = t
          /\ \A i \in 1..k : all[i] = l[i]
      <3>1. /\ Append(l, t) \in [1..(k + 1) -> X] /\ Len(Append(l, t)) = k + 1
            /\ Append(l, t)[k + 1] = t
            /\ \A i \in 1..k : Append(l, t)[i] = l[i]
        <4>1. l \in Seq(X) /\ t \in X
          BY <1>1, <1>9
        <4> HIDE DEF excess, cut
        <4> QED
          BY <4>1, AppendShape
      <3> QED
        BY <2>1, <3>1, Zenon
    <2>3. AddProblem(l, t) = all
      BY <1>0, <1>4, <2>1, <2>2
    <2>4. ASSUME NEW i \in 1..(k + 1)
          PROVE  /\ all[i] # Coalesced
                 /\ i > 1 => all[i] # all[i - 1]
      <3>1. CASE i = k + 1
        <4>1. k > 0 => k \in 1..k
          BY <2>1
        <4>2. i > 1 => i - 1 = k /\ k > 0
          BY <2>1, <3>1
        <4> QED
          BY <1>7, <1>9, <2>2, <3>1, <4>1, <4>2
      <3>2. CASE i # k + 1
        <4>1. i \in 1..k /\ (i > 1 => i - 1 \in 1..k)
          BY <2>1, <3>2
        <4> QED
          BY <1>0, <1>2, <1>7, <2>1, <2>2, <4>1
      <3> QED
        BY <3>1, <3>2
    <2>5. all \in ProblemLists
      BY <1>5, <2>1, <2>2, <2>4
    <2>6. \A i \in 1..Len(l) : \E j \in 1..Len(all) : all[j] = l[i]
      <3> SUFFICES ASSUME NEW i \in 1..k PROVE \E j \in 1..Len(all) : all[j] = l[i]
        OBVIOUS
      <3>1. i \in 1..Len(all) /\ all[i] = l[i]
        BY <2>1, <2>2
      <3> QED
        BY <3>1
    <2>7. Told(l, t, all)
      <3>1. all[1] # Coalesced /\ all[Len(all)] = t
        BY <2>1, <2>2, <2>4
      <3> QED
        BY <1>9, <2>6, <3>1 DEF Told
    <2> QED
      BY <2>1, <2>2, <2>3, <2>5, <2>7
  <1>8. CASE ~(k > 0 /\ t = l[k]) /\ k = ErrorLimit
    <2>1. /\ all = Append(l, t) /\ Len(all) = ErrorLimit + 1 /\ excess = 1
          /\ all[ErrorLimit + 1] = t
          /\ \A i \in 1..ErrorLimit : all[i] = l[i]
      BY <1>0, <1>1, <1>3, <1>8
    <2>2. AddProblem(l, t) = cut
      <3> HIDE DEF cut
      <3> QED
        BY <1>4, <2>1
    <2>3. /\ cut[1] = Coalesced
          /\ \A i \in 2..ErrorLimit : cut[i] = all[i + 1] /\ i + 1 \in 2..(ErrorLimit + 1)
      BY <1>0, <2>1
    <2>4. \A i \in 2..(ErrorLimit + 1) : all[i] \in X /\ all[i] # Coalesced
      <3> SUFFICES ASSUME NEW i \in 2..(ErrorLimit + 1) PROVE all[i] \in X /\ all[i] # Coalesced
        OBVIOUS
      <3>1. CASE i = ErrorLimit + 1
        BY <1>0, <1>9, <2>1, <3>1
      <3>2. CASE i # ErrorLimit + 1
        <4>1. i \in 1..k /\ i # 1 /\ i \in 1..ErrorLimit
          BY <1>0, <1>8, <3>2
        <4> QED
          BY <1>1, <1>2, <2>1, <4>1
      <3> QED
        BY <3>1, <3>2
    <2>5. cut \in [1..ErrorLimit -> X] /\ Len(cut) = ErrorLimit
      <3>1. \A i \in 1..ErrorLimit : i # 1 => all[excess + i] \in X
        BY <1>0, <2>1, <2>4
      <3>2. \A i \in 1..ErrorLimit : (IF i = 1 THEN Coalesced ELSE all[excess + i]) \in X
        <4> HIDE DEF excess
        <4> QED
          BY <1>9, <3>1
      <3> HIDE DEF excess
      <3> QED
        BY <1>0, <3>2
    <2>6. ASSUME NEW i \in 1..ErrorLimit
          PROVE  /\ cut[i] = Coalesced => i = 1
                 /\ i > 1 => cut[i] # cut[i - 1]
      <3>1. CASE i = 1
        BY <3>1
      <3>2. CASE i # 1
        <4>1. i \in 2..ErrorLimit /\ cut[i] = all[i + 1] /\ i + 1 \in 2..(ErrorLimit + 1)
          BY <2>3, <3>2
        <4>2. cut[i] # Coalesced
          BY <2>4, <4>1
        <4>3. CASE i = 2
          BY <2>3, <4>2, <4>3
        <4>4. CASE i # 2
          <5>1. i - 1 \in 2..ErrorLimit /\ (i - 1) + 1 = i
            BY <1>0, <4>1, <4>4
          <5>3. cut[i - 1] = all[i]
            BY <2>3, <5>1
          <5>2. all[i + 1] # all[i]
            <6>1. CASE i = ErrorLimit
              BY <1>0, <1>8, <2>1, <6>1
            <6>2. CASE i # ErrorLimit
              <7>1. i + 1 \in 1..k /\ i \in 1..ErrorLimit /\ i + 1 \in 1..ErrorLimit /\ i + 1 > 1
                    /\ (i + 1) - 1 = i
                BY <1>8, <4>1, <6>2
              <7> QED
                BY <1>2, <2>1, <7>1
            <6> QED
              BY <6>1, <6>2
          <5> QED
            BY <4>1, <4>2, <5>1, <5>2, <5>3
        <4> QED
          BY <4>2, <4>3, <4>4
      <3> QED
        BY <3>1, <3>2
    <2>7. ErrorLimit > 1 => cut[ErrorLimit] = t
      BY <1>0, <2>1, <2>3
    <2> HIDE DEF cut
    <2>8. cut \in ProblemLists
      <3>1. ErrorLimit \in 1..ErrorLimit
        BY <1>0
      <3> QED
        BY <1>5, <2>5, <2>6, <3>1
    <2>9. Told(l, t, cut)
      BY <1>0, <1>8, <1>9, <2>3, <2>5, <2>7 DEF Told
    <2>10. ErrorLimit \in 1..ErrorLimit
      BY <1>0
    <2> QED
      BY <2>2, <2>5, <2>8, <2>9, <2>10
  <1> QED
    BY <1>0, <1>1, <1>6, <1>7, <1>8

-----------------------------------------------------------------------------
(* Types *)

LEMMA NoRecordType == NoRecord \in Records /\ NoInfo \in Infos /\ Absent \in Infras
  <1>1. << >> \in ProblemLists
    <2>1. << >> \in [1..0 -> Titles \cup {Coalesced}]
      OBVIOUS
    <2>2. 0 \in 0..ErrorLimit
      BY ConstantsAssumption
    <2>3. Len(<< >>) = 0 /\ 1..0 = {}
      OBVIOUS
    <2> QED
      BY <2>1, <2>2, <2>3 DEF ProblemLists
  <1>2. NoRecord \in Records
    BY <1>1, ConstantsAssumption DEF NoRecord, Records, Lifecycles
  <1> QED
    BY <1>2 DEF NoInfo, Infos, Absent, Infras

LEMMA ClusterInfoType ==
    ASSUME NEW r \in Records, NEW v \in 0..MaxConfig
    PROVE  ClusterInfo(r, v) \in Infos
  <1>1. VersionOf(r, v) \in Versions
    BY DEF VersionOf, Versions, Records
  <1> QED
    BY <1>1 DEF ClusterInfo, Infos, NextError

LEMMA WriteType ==
    ASSUME registry \in [Clusters -> Records], NEW c \in Clusters, NEW r \in Records,
           Write(c, r) \/ UNCHANGED registry
    PROVE  registry' \in [Clusters -> Records]
  BY DEF Write, Records

LEMMA ProcessedType ==
    ASSUME NEW c \in Clusters
    PROVE  Processed(c) \in [Clusters -> Nat]
  <1> DEFINE others == {d \in Clusters \ {c} : lastProcessed[d] > 0}
  <1>1. \A S \in SUBSET Clusters : Cardinality(S) \in Nat
    BY ConstantsAssumption, FS_Subset, FS_CardinalityType
  <1>2. Cardinality(others) + 1 \in Nat
    <2>1. others \in SUBSET Clusters
      OBVIOUS
    <2> HIDE DEF others
    <2> QED
      BY <1>1, <2>1
  <1>3. \A d \in Clusters :
            Cardinality({e \in others : lastProcessed[e] <= lastProcessed[d]}) \in Nat
    <2> TAKE d \in Clusters
    <2> DEFINE older == {e \in others : lastProcessed[e] <= lastProcessed[d]}
    <2>1. older \in SUBSET Clusters
      OBVIOUS
    <2> HIDE DEF older
    <2>2. Cardinality(older) \in Nat
      BY <1>1, <2>1
    <2> QED
      BY <2>2 DEF older
  <1> HIDE DEF others
  <1>4. Processed(c) = [d \in Clusters |->
            IF d = c THEN Cardinality(others) + 1
            ELSE IF lastProcessed[d] = 0 THEN 0
            ELSE Cardinality({e \in others : lastProcessed[e] <= lastProcessed[d]})]
    BY DEF Processed, others
  <1> QED
    BY <1>2, <1>3, <1>4

\* The cluster of a busy worker.
LEMMA BusyJob ==
    ASSUME ListInv, NEW w \in Workers, pc[w] # "select"
    PROVE  job[w] \in Clusters
  BY DEF ListInv, ListTypeOK, IdleWithoutJob

LEMMA FaultType ==
    ASSUME faults \in 0..MaxFaults, NEW call, Fault(call) \/ UNCHANGED faults
    PROVE  faults' \in 0..MaxFaults
  BY ConstantsAssumption DEF Fault

LEMMA TypeInit == Init => TypeOK
  <1> SUFFICES ASSUME Init PROVE TypeOK
    OBVIOUS
  <1>1. registry \in [Clusters -> Records]
    BY ConstantsAssumption DEF Init
  <1>2. infra \in [Clusters -> Infras]
    <2>1. \A c \in Clusters : InfraFor(registry[c]) \subseteq Infras
      <3> TAKE c \in Clusters
      <3>1. /\ registry[c].current \in Versions \cup {NoVersion}
            /\ registry[c].next \in Versions \cup {NoVersion}
        BY <1>1 DEF Records
      <3> SUFFICES ASSUME NEW i \in InfraFor(registry[c]) PROVE i \in Infras
        OBVIOUS
      <3>2. CASE i = [version |-> registry[c].current, complete |-> TRUE]
        BY <3>1, <3>2 DEF Infras
      <3>3. CASE \E b \in BOOLEAN : i = [version |-> registry[c].next, complete |-> b]
        BY <3>1, <3>3 DEF Infras
      <3> QED
        BY <3>2, <3>3 DEF InfraFor
    <2> QED
      BY <2>1 DEF Init
  <1>3. NoSnapshot \in [Clusters -> Records]
    BY NoRecordType DEF NoSnapshot
  <1>4. pendingUpdate \in Seq(Clusters)
    BY EmptySeq DEF Init, InitManager
  <1>5. info \in [Clusters -> Infos]
    BY NoRecordType DEF Init, InitManager
  <1>6. /\ head \in 0..MaxConfig /\ mirror \in 0..MaxConfig
        /\ edits \in 0..MaxEdits /\ faults \in 0..MaxFaults /\ restarts \in 0..MaxRestarts
    BY ConstantsAssumption DEF Init
  <1>7. /\ snapshot \in [Clusters -> Records]
        /\ refresh \in {"wait", "list", "apply"}
        /\ state \in [Clusters -> {"absent", "idle", "processing", "processed"}]
        /\ lastProcessed \in [Clusters -> Nat]
        /\ cancelUpdate \in [Clusters -> Workers \cup {NoWorker}]
    BY <1>3 DEF Init, InitManager
  <1>8. /\ pc \in [Workers -> {"select"} \cup BusyPCs]
        /\ job \in [Workers -> Clusters \cup {NoCluster}]
        /\ err \in [Workers -> Titles \cup {""}]
        /\ cancelled \in [Workers -> BOOLEAN]
    BY DEF Init, InitManager
  <1> QED
    BY <1>1, <1>2, <1>4, <1>5, <1>6, <1>7, <1>8 DEF TypeOK

\* Every step keeps the types: one lemma per action or group of actions.
LEMMA StartProcessType ==
    ASSUME TypeOK, ListInv, NEW w \in Workers, StartProcess(w)
    PROVE  TypeOK'
  <1>1. faults' \in 0..MaxFaults
    BY FaultType DEF TypeOK, StartProcess
  <1>2. /\ pc' \in [Workers -> {"select"} \cup BusyPCs]
        /\ err' \in [Workers -> Titles \cup {""}]
    BY DEF TypeOK, StartProcess, Goto, FailWith, BusyPCs, Titles
  <1> QED
    BY <1>1, <1>2 DEF TypeOK, StartProcess, listVars, refreshVars, worldVars

LEMMA UpdateLifecycleStatusType ==
    ASSUME TypeOK, NEW c \in Clusters, NEW r \in Records,
           UpdateLifecycleStatusOK(c, r) \/ UpdateLifecycleStatusFailed(c, r)
    PROVE  registry' \in [Clusters -> Records] /\ faults' \in 0..MaxFaults
  <1>1. registry' \in [Clusters -> Records]
    BY WriteType DEF TypeOK, UpdateLifecycleStatusOK, UpdateLifecycleStatusFailed
  <1>2. faults' \in 0..MaxFaults
    BY FaultType DEF TypeOK, UpdateLifecycleStatusOK, UpdateLifecycleStatusFailed
  <1> QED
    BY <1>1, <1>2

LEMMA AnnounceType ==
    ASSUME TypeOK, ListInv, NEW w \in Workers, Announce(w)
    PROVE  TypeOK'
  <1> DEFINE c == job[w]
             r == [info[c].cluster EXCEPT !.next = info[c].nextVersion]
  <1>1. c \in Clusters
    BY BusyJob DEF Announce
  <1>2. r \in Records
    <2>1. info[c].cluster \in Records /\ info[c].nextVersion \in Versions \cup {NoVersion}
      BY <1>1 DEF TypeOK, Infos
    <2> QED
      BY <2>1 DEF Records
  <1>3. info' = [info EXCEPT ![c].cluster = r]
    BY DEF Announce
  <1>4. /\ \/ UNCHANGED <<registry, faults>>
           \/ UpdateLifecycleStatusOK(c, r) \/ UpdateLifecycleStatusFailed(c, r)
        /\ Goto(w, "provision") \/ FailWith(w, "registry")
    BY DEF Announce
  <1> HIDE DEF c, r
  <1>5. info' \in [Clusters -> Infos]
    BY <1>1, <1>2, <1>3 DEF TypeOK, Infos
  <1>6. registry' \in [Clusters -> Records] /\ faults' \in 0..MaxFaults
    BY <1>1, <1>2, <1>4, UpdateLifecycleStatusType DEF TypeOK
  <1>7. /\ pc' \in [Workers -> {"select"} \cup BusyPCs]
        /\ err' \in [Workers -> Titles \cup {""}]
    BY <1>4 DEF TypeOK, Goto, FailWith, BusyPCs, Titles
  <1> QED
    BY <1>5, <1>6, <1>7 DEF TypeOK, Announce, refreshVars

LEMMA ReportType ==
    ASSUME TypeOK, ListInv, NEW w \in Workers, Report(w)
    PROVE  TypeOK'
  <1> DEFINE c == job[w]
             r == Reported(info[c].cluster, err[w])
  <1>1. c \in Clusters
    BY BusyJob DEF Report
  <1>2. r \in Records
    <2>1. info[c].cluster \in Records /\ err[w] \in Titles \cup {""}
      BY <1>1 DEF TypeOK, Infos
    <2>2. info[c].cluster.problems \in ProblemLists
      BY <2>1 DEF Records
    <2>3. << >> \in ProblemLists
      BY NoRecordType DEF NoRecord, Records
    <2> DEFINE p == IF err[w] = "" THEN << >>
                    ELSE AddProblem(info[c].cluster.problems, err[w])
    <2>4. p \in ProblemLists
      BY <2>1, <2>2, <2>3, ProblemsBounded
    <2>5. r = [info[c].cluster EXCEPT !.problems = p]
      BY DEF Reported
    <2> HIDE DEF p
    <2> QED
      BY <2>1, <2>4, <2>5 DEF Records
  <1>3. /\ \/ UNCHANGED <<info, registry, faults>>
           \/ /\ info' = [info EXCEPT ![c].cluster = r]
              /\ UpdateLifecycleStatusOK(c, r) \/ UpdateLifecycleStatusFailed(c, r)
        /\ Goto(w, "processed")
    BY DEF Report
  <1> HIDE DEF c, r
  <1>4. info' \in [Clusters -> Infos]
    <2>1. info \in [Clusters -> Infos]
      BY DEF TypeOK
    <2>2. CASE info' = [info EXCEPT ![c].cluster = r]
      BY <1>1, <1>2, <2>1, <2>2 DEF Infos
    <2> QED
      BY <1>3, <2>1, <2>2
  <1>5. registry' \in [Clusters -> Records] /\ faults' \in 0..MaxFaults
    BY <1>1, <1>2, <1>3, UpdateLifecycleStatusType DEF TypeOK
  <1>6. /\ pc' \in [Workers -> {"select"} \cup BusyPCs]
        /\ err' \in [Workers -> Titles \cup {""}]
    BY <1>3 DEF TypeOK, Goto, BusyPCs
  <1> QED
    BY <1>4, <1>5, <1>6 DEF TypeOK, Report, refreshVars

\* The steps in which a worker changes the infrastructure of its cluster.
LEMMA InfraType ==
    ASSUME TypeOK, NEW c \in Clusters, NEW i \in Infras,
           \/ infra' = infra
           \/ infra' = [infra EXCEPT ![c] = i]
           \/ infra' = [infra EXCEPT ![c].complete = TRUE]
    PROVE  infra' \in [Clusters -> Infras]
  <1>1. infra \in [Clusters -> Infras]
    BY DEF TypeOK
  <1>2. CASE infra' = infra \/ infra' = [infra EXCEPT ![c] = i]
    BY <1>1, <1>2
  <1>3. CASE infra' = [infra EXCEPT ![c].complete = TRUE]
    BY <1>1, <1>3 DEF Infras
  <1> QED
    BY <1>2, <1>3

LEMMA BeginsType ==
    ASSUME TypeOK, ListInv, NEW w \in Workers, ProvisionBegins(w) \/ DecommissionBegins(w)
    PROVE  TypeOK'
  <1> DEFINE c == job[w]
             v == info[c].nextVersion
  <1>1. c \in Clusters
    BY BusyJob DEF ProvisionBegins, DecommissionBegins
  <1>2. v \in Versions \cup {NoVersion}
    BY <1>1 DEF TypeOK, Infos
  <1>3. /\ [version |-> v, complete |-> FALSE] \in Infras
        /\ [version |-> NoVersion, complete |-> FALSE] \in Infras
    BY <1>2 DEF Infras
  <1>4. \/ infra' = infra
        \/ infra' = [infra EXCEPT ![c] = [version |-> v, complete |-> FALSE]]
        \/ infra' = [infra EXCEPT ![c] = [version |-> NoVersion, complete |-> FALSE]]
    BY DEF ProvisionBegins, DecommissionBegins
  <1>5. infra' \in [Clusters -> Infras]
    BY <1>1, <1>3, <1>4, InfraType
  <1>6. /\ pc' \in [Workers -> {"select"} \cup BusyPCs]
        /\ err' \in [Workers -> Titles \cup {""}]
    BY DEF TypeOK, ProvisionBegins, DecommissionBegins, Goto, BusyPCs
  <1> QED
    BY <1>5, <1>6 DEF TypeOK, ProvisionBegins, DecommissionBegins, listVars, refreshVars,
                      bounds

\* What a worker makes of its cluster's data when the provisioner is done.
LEMMA FinishedType ==
    ASSUME NEW r \in Records, NEW l \in Lifecycles, NEW v \in Versions \cup {NoVersion}
    PROVE  Finished(r, l, v) \in Records
  <1>1. << >> \in ProblemLists
    BY NoRecordType DEF NoRecord, Records
  <1> QED
    BY <1>1 DEF Finished, Records

LEMMA ReturnsType ==
    ASSUME TypeOK, ListInv, NEW w \in Workers, ProvisionerReturns(w)
    PROVE  TypeOK'
  <1> DEFINE c == job[w]
  <1>1. c \in Clusters
    BY BusyJob DEF ProvisionerReturns, Provisioned, Decommissioned, ProvisionerFails
  <1>2. faults' \in 0..MaxFaults
    BY FaultType DEF TypeOK, ProvisionerReturns, Provisioned, Decommissioned, ProvisionerFails
  <1>3. /\ pc' \in [Workers -> {"select"} \cup BusyPCs]
        /\ err' \in [Workers -> Titles \cup {""}]
    BY DEF TypeOK, ProvisionerReturns, Provisioned, Decommissioned, ProvisionerFails,
           Goto, FailWith, BusyPCs, Titles
  <1>4. infra' \in [Clusters -> Infras]
    <2>1. \/ infra' = infra \/ infra' = [infra EXCEPT ![c] = Absent]
          \/ infra' = [infra EXCEPT ![c].complete = TRUE]
      BY DEF ProvisionerReturns, Provisioned, Decommissioned, ProvisionerFails, worldVars
    <2> QED
      BY <1>1, <2>1, InfraType, NoRecordType
  <1>5. info' \in [Clusters -> Infos]
    <2>1. info \in [Clusters -> Infos]
      BY DEF TypeOK
    <2>2. ASSUME NEW r \in Records, info' = [info EXCEPT ![c].cluster = r]
          PROVE  info' \in [Clusters -> Infos]
      BY <1>1, <2>1, <2>2 DEF Infos
    <2>3. info[c].cluster \in Records /\ info[c].cluster.next \in Versions \cup {NoVersion}
      BY <1>1, <2>1 DEF Infos, Records
    <2>4. CASE Provisioned(w)
      BY <2>2, <2>3, <2>4, FinishedType DEF Provisioned, Lifecycles
    <2>5. CASE Decommissioned(w)
      BY <2>2, <2>3, <2>5, FinishedType DEF Decommissioned, Lifecycles
    <2>6. CASE ProvisionerFails(w)
      BY <2>1, <2>6 DEF ProvisionerFails, listVars
    <2> QED
      BY <2>4, <2>5, <2>6 DEF ProvisionerReturns
  <1> QED
    BY <1>2, <1>3, <1>4, <1>5
       DEF TypeOK, ProvisionerReturns, Provisioned, Decommissioned, ProvisionerFails,
           listVars, refreshVars, worldVars

LEMMA SelectNextType ==
    ASSUME TypeOK, ListInv, NEW w \in Workers, SelectNext(w)
    PROVE  TypeOK'
  <1>1. ListTypeOK'
    BY SelectNextListInv DEF ListInv
  <1>2. /\ err' \in [Workers -> Titles \cup {""}]
        /\ cancelled' \in [Workers -> BOOLEAN]
    BY DEF TypeOK, SelectNext
  <1> QED
    BY <1>1, <1>2 DEF TypeOK, ListTypeOK, SelectNext, refreshVars, worldVars, bounds

LEMMA ClusterProcessedType ==
    ASSUME TypeOK, ListInv, NEW w \in Workers, ClusterProcessed(w)
    PROVE  TypeOK'
  <1>1. ListTypeOK'
    BY ClusterProcessedListInv DEF ListInv
  <1>2. /\ err' \in [Workers -> Titles \cup {""}]
        /\ cancelled' \in [Workers -> BOOLEAN]
    BY DEF TypeOK, ClusterProcessed
  <1>3. lastProcessed' \in [Clusters -> Nat]
    <2>1. job[w] \in Clusters
      BY BusyJob DEF ClusterProcessed
    <2>2. lastProcessed' = Processed(job[w]) \/ lastProcessed' = lastProcessed
      BY DEF ClusterProcessed
    <2> QED
      BY <2>1, <2>2, ProcessedType DEF TypeOK
  <1> QED
    BY <1>1, <1>2, <1>3
       DEF TypeOK, ListTypeOK, ClusterProcessed, refreshVars, worldVars, bounds

LEMMA UpdateAvailableType ==
    ASSUME TypeOK, ListInv, UpdateAvailable
    PROVE  TypeOK'
  <1>1. ListTypeOK'
    BY UpdateAvailableListInv DEF ListInv
  <1>2. info' \in [Clusters -> Infos]
    <2>1. info' = [c \in Clusters |->
                        IF c \in Replaced THEN ClusterInfo(snapshot[c], mirror)
                        ELSE IF c \in Deleted THEN NoInfo
                        ELSE info[c]]
      BY DEF UpdateAvailable
    <2>2. \A c \in Clusters : ClusterInfo(snapshot[c], mirror) \in Infos
      BY ClusterInfoType DEF TypeOK
    <2>3. \A c \in Clusters : info[c] \in Infos
      BY DEF TypeOK
    <2> QED
      BY <2>1, <2>2, <2>3, NoRecordType
  <1>3. lastProcessed' \in [Clusters -> Nat]
    <2>1. lastProcessed' = [c \in Clusters |->
                                IF c \in Deleted THEN 0 ELSE lastProcessed[c]]
      BY DEF UpdateAvailable
    <2> QED
      BY <2>1 DEF TypeOK
  <1>4. cancelled' \in [Workers -> BOOLEAN]
    <2>1. cancelled' = [w \in Workers |-> cancelled[w] \/ Interrupts(w)]
      BY DEF UpdateAvailable
    <2>2. \A w \in Workers : (cancelled[w] \/ Interrupts(w)) \in BOOLEAN
      BY DEF TypeOK, Interrupts
    <2> QED
      BY <2>1, <2>2, Zenon
  <1>5. snapshot' \in [Clusters -> Records] /\ refresh' \in {"wait", "list", "apply"}
    BY NoRecordType DEF UpdateAvailable, NoSnapshot
  <1>6. UNCHANGED <<registry, head, infra, mirror, err, edits, faults, restarts>>
    BY DEF UpdateAvailable, worldVars, bounds
  <1> QED
    BY <1>1, <1>2, <1>3, <1>4, <1>5, <1>6 DEF TypeOK, ListTypeOK

LEMMA RefreshType ==
    ASSUME TypeOK, RefreshUpdate \/ ListClusters \/ RefreshFails
    PROVE  TypeOK'
  <1>1. CASE RefreshUpdate
    BY <1>1 DEF TypeOK, RefreshUpdate, listVars, workerVars, worldVars, bounds
  <1>2. CASE ListClusters
    BY <1>2 DEF TypeOK, ListClusters, listVars, workerVars, worldVars, bounds
  <1>3. CASE RefreshFails
    <2>1. faults' \in 0..MaxFaults
      BY <1>3, FaultType DEF TypeOK, RefreshFails
    <2> QED
      BY <1>3, <2>1 DEF TypeOK, RefreshFails, listVars, workerVars, worldVars
  <1> QED
    BY <1>1, <1>2, <1>3

LEMMA EditRecordType ==
    ASSUME registry \in [Clusters -> Records], NEW c \in Clusters, NEW kind,
           EditRecord(c, kind)
    PROVE  registry' \in [Clusters -> Records]
  <1> DEFINE r == registry[c]
  <1>1. CASE r.spec + 1 \in Specs /\ registry' = [registry EXCEPT ![c].spec = r.spec + 1]
    BY <1>1 DEF Records
  <1>2. CASE r.spec - 1 \in Specs /\ registry' = [registry EXCEPT ![c].spec = r.spec - 1]
    BY <1>2 DEF Records
  <1>3. CASE registry' = [registry EXCEPT ![c].blocked = ~ r.blocked]
    <2>1. registry[c].blocked \in BOOLEAN /\ (~ r.blocked) \in BOOLEAN
      BY DEF Records
    <2> DEFINE b == ~ r.blocked
    <2>2. b \in BOOLEAN /\ registry' = [registry EXCEPT ![c].blocked = b]
      BY <1>3, <2>1
    <2> HIDE DEF b
    <2> QED
      BY <2>2 DEF Records
  <1>4. CASE registry' = [registry EXCEPT ![c].lifecycle = "decommission-requested"]
    BY <1>4 DEF Records, Lifecycles
  <1>5. CASE registry' = [registry EXCEPT ![c] = NoRecord]
    BY <1>5, NoRecordType
  <1>6. CASE registry' = [registry EXCEPT ![c] = [NoRecord EXCEPT !.present = TRUE]]
    <2>1. [NoRecord EXCEPT !.present = TRUE] \in Records
      BY NoRecordType DEF Records
    <2> QED
      BY <1>6, <2>1
  <1> QED
    BY <1>1, <1>2, <1>3, <1>4, <1>5, <1>6 DEF EditRecord

LEMMA UsersType ==
    ASSUME TypeOK, PushConfig \/ \E c \in Clusters : UserEdits(c)
    PROVE  TypeOK'
  <1>1. CASE PushConfig
    <2>1. /\ head \in 0..MaxConfig /\ head < MaxConfig /\ head' = head + 1
          /\ edits \in 0..MaxEdits /\ edits < MaxEdits /\ edits' = edits + 1
      BY <1>1 DEF TypeOK, PushConfig
    <2>2. head' \in 0..MaxConfig /\ edits' \in 0..MaxEdits
      BY <2>1, ConstantsAssumption
    <2> QED
      BY <1>1, <2>2 DEF TypeOK, PushConfig, listVars, refreshVars, workerVars
  <1>2. ASSUME NEW c \in Clusters, UserEdits(c) PROVE TypeOK'
    <2>1. registry' \in [Clusters -> Records]
      BY <1>2, EditRecordType DEF TypeOK, UserEdits
    <2>2. edits \in 0..MaxEdits /\ edits < MaxEdits /\ edits' = edits + 1
      BY <1>2 DEF TypeOK, UserEdits
    <2>3. edits' \in 0..MaxEdits
      BY <2>2, ConstantsAssumption
    <2> QED
      BY <1>2, <2>1, <2>3 DEF TypeOK, UserEdits, listVars, refreshVars, workerVars
  <1> QED
    BY <1>1, <1>2

LEMMA RestartType ==
    ASSUME TypeOK, Restart
    PROVE  TypeOK'
  <1>1. pendingUpdate' \in Seq(Clusters) /\ restarts' \in 0..MaxRestarts
    <2>1. /\ restarts \in 0..MaxRestarts /\ restarts < MaxRestarts
          /\ restarts' = restarts + 1
          /\ pendingUpdate' = << >>
      BY DEF TypeOK, Restart
    <2> QED
      BY <2>1, ConstantsAssumption, EmptySeq
  <1>2. info' \in [Clusters -> Infos] /\ snapshot' \in [Clusters -> Records]
    BY NoRecordType DEF Restart, NoSnapshot
  <1>3. /\ state' \in [Clusters -> {"absent", "idle", "processing", "processed"}]
        /\ lastProcessed' \in [Clusters -> Nat]
        /\ cancelUpdate' \in [Clusters -> Workers \cup {NoWorker}]
        /\ pc' \in [Workers -> {"select"} \cup BusyPCs]
        /\ job' \in [Workers -> Clusters \cup {NoCluster}]
        /\ err' \in [Workers -> Titles \cup {""}]
        /\ cancelled' \in [Workers -> BOOLEAN]
        /\ refresh' \in {"wait", "list", "apply"}
    BY DEF Restart
  <1> QED
    BY <1>1, <1>2, <1>3 DEF TypeOK, Restart, worldVars

LEMMA TypeStep == TypeOK /\ ListInv /\ [Next]_vars => TypeOK'
  <1> SUFFICES ASSUME TypeOK, ListInv, [Next]_vars PROVE TypeOK'
    OBVIOUS
  <1>1. CASE Refresh
    BY <1>1, RefreshType, UpdateAvailableType DEF Refresh
  <1>2. ASSUME NEW w \in Workers, WorkerSteps(w) PROVE TypeOK'
    BY <1>2, SelectNextType, StartProcessType, AnnounceType, BeginsType, ReportType,
       ClusterProcessedType DEF WorkerSteps
  <1>3. ASSUME NEW w \in Workers, ProvisionerReturns(w) PROVE TypeOK'
    BY <1>3, ReturnsType
  <1>4. CASE PushConfig \/ \E c \in Clusters : UserEdits(c)
    BY <1>4, UsersType
  <1>5. CASE Restart
    BY <1>5, RestartType
  <1>6. CASE UNCHANGED vars
    BY <1>6 DEF TypeOK, vars, listVars, refreshVars, workerVars, worldVars, bounds
  <1> QED
    BY <1>1, <1>2, <1>3, <1>4, <1>5, <1>6 DEF Next

\* Every variable keeps its type.
THEOREM TypeCorrect == Spec => []TypeOK
  BY InitListInv, TypeInit, ListInvStep, TypeStep, PTL DEF Spec

-----------------------------------------------------------------------------
(* Problems *)

\* A step that leaves the data of a cluster and its worker alone.
LEMMA UntoldStep ==
    ASSUME TypeOK, TypeOK', NEW w \in Workers, job[w] \in Clusters,
           info'[job[w]] = info[job[w]], pc'[w] = pc[w] \/ pc[w] # "report"
    PROVE  KeepsTold(w)
  <1>1. info'[job[w]].cluster.problems \in ProblemLists
    BY DEF TypeOK, Infos, Records
  <1> QED
    BY <1>1 DEF KeepsTold

\* A worker that is still busy with its cluster has no error.
NoErrorYet ==
    \A w \in Workers :
        pc[w] \in BusyPCs \ {"report", "processed"} => err[w] = ""

LEMMA NoErrorStep ==
    ASSUME TypeOK, NoErrorYet, [Next]_vars
    PROVE  NoErrorYet'
  <1>0. pc \in [Workers -> {"select"} \cup BusyPCs] /\ err \in [Workers -> Titles \cup {""}]
    BY DEF TypeOK
  <1>1. ASSUME UNCHANGED <<pc, err>> PROVE NoErrorYet'
    BY <1>1 DEF NoErrorYet
  <1>2. ASSUME NEW v \in Workers, NEW p,
               pc' = [pc EXCEPT ![v] = p],
               \/ err' = err /\ pc[v] \in BusyPCs \ {"report", "processed"}
               \/ err' = err /\ p \notin BusyPCs \ {"report", "processed"}
               \/ \E e : err' = [err EXCEPT ![v] = e] /\ (e = "" \/ p \notin BusyPCs \ {"report", "processed"})
        PROVE  NoErrorYet'
    <2> SUFFICES ASSUME NEW w \in Workers, pc'[w] \in BusyPCs \ {"report", "processed"}
                 PROVE  err'[w] = ""
      BY DEF NoErrorYet
    <2>1. CASE w = v
      BY <1>0, <1>2, <2>1 DEF NoErrorYet
    <2>2. CASE w # v
      BY <1>0, <1>2, <2>2 DEF NoErrorYet
    <2> QED
      BY <2>1, <2>2
  <1>3. CASE Refresh
    BY <1>1, <1>3 DEF Refresh, RefreshUpdate, ListClusters, RefreshFails, UpdateAvailable, workerVars
  <1>4. ASSUME NEW w \in Workers, WorkerSteps(w) \/ ProvisionerReturns(w) PROVE NoErrorYet'
    <2>1. CASE SelectNext(w)
      BY <1>2, <2>1 DEF SelectNext
    <2>2. CASE ClusterProcessed(w)
      BY <1>2, <2>2 DEF ClusterProcessed
    <2>3. CASE Report(w)
      BY <1>2, <2>3 DEF Report, Goto
    <2>4. CASE StartProcess(w) \/ Announce(w)
      BY <1>2, <2>4 DEF StartProcess, Announce, Goto, FailWith, BusyPCs
    <2>5. CASE ProvisionBegins(w) \/ DecommissionBegins(w)
      BY <1>2, <2>5 DEF ProvisionBegins, DecommissionBegins, Goto, BusyPCs
    <2>6. CASE ProvisionerReturns(w)
      BY <1>2, <2>6 DEF ProvisionerReturns, Provisioned, Decommissioned, ProvisionerFails, Goto,
                        FailWith, BusyPCs
    <2> QED
      BY <1>4, <2>1, <2>2, <2>3, <2>4, <2>5, <2>6 DEF WorkerSteps
  <1>5. CASE PushConfig \/ \E c \in Clusters : UserEdits(c)
    BY <1>1, <1>5 DEF PushConfig, UserEdits, workerVars
  <1>6. CASE Restart
    BY <1>6 DEF Restart, NoErrorYet
  <1>7. CASE UNCHANGED vars
    BY <1>1, <1>7 DEF vars, workerVars
  <1> QED
    BY <1>3, <1>4, <1>5, <1>6, <1>7 DEF Next

\* What is told of a cluster while a worker has it, at every step of that worker.
LEMMA OwnStep ==
    ASSUME TypeOK, TypeOK', ListInv, NoErrorYet, NEW w \in Workers,
           WorkerSteps(w) \/ ProvisionerReturns(w),
           job[w] # NoCluster, job'[w] = job[w]
    PROVE  KeepsTold(w)
  <1> DEFINE c == job[w]
             old == info[c].cluster.problems
             new == info'[c].cluster.problems
  <1>0. /\ c \in Clusters /\ pc[w] # "select"
        /\ info \in [Clusters -> Infos] /\ pc \in [Workers -> {"select"} \cup BusyPCs]
        /\ info[c].cluster \in Records /\ err[w] \in Titles \cup {""} /\ job \in [Workers -> Clusters \cup {NoCluster}]
    BY DEF TypeOK, ListInv, IdleWithoutJob, Infos
  <1>1. old \in ProblemLists /\ new \in ProblemLists
    BY <1>0 DEF TypeOK, Infos, Records
  <1>2. CASE SelectNext(w) \/ ClusterProcessed(w)
    <2>1. ~ SelectNext(w)
      BY <1>0 DEF SelectNext
    <2>2. job'[w] = NoCluster
      BY <1>0, <1>2, <2>1 DEF ClusterProcessed
    <2> QED
      BY <2>2
  <1>3. CASE StartProcess(w) \/ ProvisionBegins(w) \/ DecommissionBegins(w) \/ ProvisionerFails(w)
    <2>1. info' = info /\ pc[w] # "report"
      BY <1>3 DEF StartProcess, ProvisionBegins, DecommissionBegins, ProvisionerFails, listVars
    <2> QED
      BY <1>1, <2>1 DEF KeepsTold
  <1>4. CASE Announce(w)
    <2>1. /\ pc[w] # "report"
          /\ info' = [info EXCEPT ![c].cluster = [info[c].cluster EXCEPT !.next = info[c].nextVersion]]
      BY <1>4 DEF Announce
    <2>2. new = old
      BY <1>0, <2>1 DEF Infos, Records
    <2> QED
      BY <1>1, <2>1, <2>2 DEF KeepsTold
  <1>5. CASE Provisioned(w) \/ Decommissioned(w)
    <2>1. /\ pc[w] \in {"provisioning", "decommissioning"}
          /\ \E l, v : info' = [info EXCEPT ![c].cluster = Finished(info[c].cluster, l, v)]
          /\ Goto(w, "report") \/ FailWith(w, "delete")
      BY <1>5 DEF Provisioned, Decommissioned
    <2>2. new = << >>
      <3>1. PICK l, v : info' = [info EXCEPT ![c].cluster = Finished(info[c].cluster, l, v)]
        BY <2>1
      <3>2. info'[c].cluster = Finished(info[c].cluster, l, v)
        BY <1>0, <3>1 DEF Infos
      <3>3. Finished(info[c].cluster, l, v).problems = << >>
        BY <1>0 DEF Records, Finished
      <3> QED
        BY <3>2, <3>3
    <2>3. err[w] = ""
      BY <2>1 DEF NoErrorYet, BusyPCs
    <2>4. Succeeds(w)
      BY <1>0, <2>1, <2>3 DEF Succeeds, Goto, FailWith, TypeOK
    <2> QED
      BY <1>1, <2>1, <2>2, <2>4 DEF KeepsTold
  <1>6. CASE Report(w)
    <2>1. pc[w] = "report"
      BY <1>6 DEF Report
    <2>2. CASE DryRun
      <3>1. info' = info
        BY <1>6, <2>2 DEF Report
      <3> QED
        BY <1>1, <2>2, <3>1 DEF KeepsTold
    <2>3. CASE ~ DryRun
      <3>1. info' = [info EXCEPT ![c].cluster = Reported(info[c].cluster, err[w])]
        BY <1>6, <2>3 DEF Report
      <3>2. new = IF err[w] = "" THEN << >> ELSE AddProblem(old, err[w])
        BY <1>0, <3>1 DEF Reported, Infos, Records
      <3>3. Told(old, err[w], new)
        <4>1. CASE err[w] = ""
          BY <3>2, <4>1 DEF Told
        <4>2. CASE err[w] # ""
          <5>1. Told(old, err[w], AddProblem(old, err[w]))
            BY <1>0, <1>1, <4>2, ProblemsBounded
          <5> QED
            BY <3>2, <4>2, <5>1
        <4> QED
          BY <4>1, <4>2
      <3>4. pc'[w] = "processed"
        BY <1>0, <1>6 DEF Report, Goto
      <3> QED
        BY <1>1, <2>1, <2>3, <3>3, <3>4, Zenon DEF KeepsTold
    <2> QED
      BY <2>2, <2>3
  <1> QED
    BY <1>2, <1>3, <1>4, <1>5, <1>6 DEF WorkerSteps, ProvisionerReturns

LEMMA FailureNext ==
    ASSUME TypeOK, TypeOK', ListInv, NoErrorYet, [Next]_vars
    PROVE  [FailureStep]_vars
  <1> SUFFICES ASSUME Next, NEW w \in Workers, job[w] # NoCluster, job'[w] = job[w]
               PROVE  KeepsTold(w)
    BY DEF FailureStep
  <1> DEFINE c == job[w]
  <1>0. c \in Clusters /\ state[c] = "processing"
    <2>1. c \in Clusters
      BY DEF TypeOK
    <2>2. \E v \in Workers : job[v] = c
      OBVIOUS
    <2> QED
      BY <2>1, <2>2 DEF ListInv, ListConsistent, MarkedWhileHeld
  <1>1. CASE info'[c] = info[c] /\ pc'[w] = pc[w]
    BY <1>0, <1>1, UntoldStep
  <1>2. CASE RefreshUpdate \/ ListClusters \/ RefreshFails
    BY <1>1, <1>2 DEF RefreshUpdate, ListClusters, RefreshFails, listVars, workerVars
  <1>3. CASE UpdateAvailable
    <2>1. c \notin Replaced /\ c \notin Deleted
      BY <1>0 DEF Replaced, Deleted
    <2>2. info'[c] = info[c] /\ pc' = pc
      BY <1>0, <1>3, <2>1 DEF UpdateAvailable
    <2> QED
      BY <1>1, <2>2
  <1>4. ASSUME NEW v \in Workers, WorkerSteps(v) \/ ProvisionerReturns(v), v # w
        PROVE  info'[c] = info[c] /\ pc'[w] = pc[w]
    <2>1. job[v] # c
      BY <1>4, ListInvExcludes DEF ExclusiveProcessing
    <2>2. \/ info' = info
          \/ \E r : info' = [info EXCEPT ![job[v]].cluster = r]
      BY <1>4 DEF WorkerSteps, ProvisionerReturns, SelectNext, StartProcess, Announce,
                  ProvisionBegins, DecommissionBegins, Report, ClusterProcessed,
                  Provisioned, Decommissioned, ProvisionerFails, listVars
    <2>3. \E p : pc' = [pc EXCEPT ![v] = p]
      BY <1>4 DEF WorkerSteps, ProvisionerReturns, SelectNext, StartProcess, Announce,
                  ProvisionBegins, DecommissionBegins, Report, ClusterProcessed,
                  Provisioned, Decommissioned, ProvisionerFails, Goto, FailWith
    <2>4. info \in [Clusters -> Infos] /\ pc \in [Workers -> {"select"} \cup BusyPCs]
      BY DEF TypeOK
    <2> QED
      BY <1>0, <1>4, <2>1, <2>2, <2>3, <2>4
  <1>5. CASE WorkerSteps(w) \/ ProvisionerReturns(w)
    BY <1>5, OwnStep
  <1>6. CASE PushConfig \/ \E d \in Clusters : UserEdits(d)
    BY <1>1, <1>6 DEF PushConfig, UserEdits, listVars, workerVars
  <1>7. ~ Restart
    BY DEF Restart
  <1> QED
    BY <1>1, <1>2, <1>3, <1>4, <1>5, <1>6, <1>7 DEF Next, Refresh

\* However many updates of a cluster fail, the report of its worker tells the latest
\* failure and either all the others or the marker, and nothing but a success, not
\* even a refresh or another worker, makes them disappear while it is processed.
THEOREM FailuresAreTold == Spec => FailuresTold
  <1>1. Init => NoErrorYet
    BY DEF Init, InitManager, NoErrorYet, BusyPCs
  <1>2. TypeOK /\ ListInv /\ NoErrorYet /\ [Next]_vars => NoErrorYet'
    BY NoErrorStep
  <1>3. TypeOK /\ TypeOK' /\ ListInv /\ NoErrorYet /\ [Next]_vars => [FailureStep]_vars
    BY FailureNext
  <1> QED
    BY <1>1, <1>2, <1>3, InitListInv, TypeInit, ListInvStep, TypeStep, PTL DEF Spec, FailuresTold

-----------------------------------------------------------------------------
\* Only the refresh loop cancels a context, and the CancelFunc it calls is the
\* one of the worker that has the blocked cluster.
THEOREM CancelsOnlyBlockedClusters == Spec => CancelsOnlyBlocked
  <1>1. ListInv /\ TypeOK /\ [Next]_vars => [CancelStep]_cancelled
    <2> SUFFICES ASSUME ListInv, TypeOK, [Next]_vars PROVE [CancelStep]_cancelled
      OBVIOUS
    <2>0. cancelled \in [Workers -> BOOLEAN]
      BY DEF TypeOK
    <2>1. CASE UpdateAvailable
      <3> SUFFICES ASSUME NEW w \in Workers, cancelled'[w], ~ cancelled[w]
                   PROVE  job[w] # NoCluster /\ snapshot[job[w]].blocked
        BY DEF CancelStep
      <3>1. PICK c \in Available : state[c] = "processing" /\ snapshot[c].blocked
                                  /\ cancelUpdate[c] = w
        BY <2>1 DEF UpdateAvailable, Interrupts, updateBlocked
      <3>2. c \in Clusters
        BY ConstantsAssumption DEF Available
      <3>3. PICK v \in Workers : job[v] = c
        BY <3>1, <3>2 DEF ListInv, ListConsistent, MarkedWhileHeld
      <3>4. v = w
        BY <3>1, <3>2, <3>3, ConstantsAssumption
           DEF ListInv, ListConsistent, HolderCancels
      <3> QED
        BY <3>1, <3>2, <3>3, <3>4, ConstantsAssumption
    <2>2. CASE Restart
      BY <2>2 DEF Restart, CancelStep
    <2>3. ASSUME NEW w \in Workers, SelectNext(w) \/ ClusterProcessed(w)
          PROVE  CancelStep
      BY <2>0, <2>3 DEF SelectNext, ClusterProcessed, CancelStep
    <2>4. ASSUME NEW w \in Workers,
                 \/ StartProcess(w) \/ Announce(w) \/ ProvisionBegins(w)
                 \/ DecommissionBegins(w) \/ ProvisionerReturns(w) \/ Report(w)
          PROVE  UNCHANGED cancelled
      BY <2>4 DEF StartProcess, Announce, ProvisionBegins, DecommissionBegins,
                  ProvisionerReturns, Provisioned, Decommissioned, ProvisionerFails, Report
    <2>5. CASE RefreshUpdate \/ ListClusters \/ RefreshFails
      BY <2>5 DEF RefreshUpdate, ListClusters, RefreshFails, workerVars
    <2>6. CASE PushConfig \/ \E c \in Clusters : UserEdits(c)
      BY <2>6 DEF PushConfig, UserEdits, workerVars
    <2>7. CASE UNCHANGED vars
      BY <2>7 DEF vars, workerVars
    <2> QED
      BY <2>1, <2>2, <2>3, <2>4, <2>5, <2>6, <2>7 DEF Next, Refresh, WorkerSteps
  <1> QED
    BY <1>1, InitListInv, TypeInit, ListInvStep, TypeStep, PTL
       DEF Spec, CancelsOnlyBlocked

-----------------------------------------------------------------------------
(* Refinement *)

\* Picking a cluster acquires its lease: the head of the queue is idle, and a
\* worker that is picking has no other cluster.
LEMMA SelectNextAcquires ==
    ASSUME ListInv, NEW w \in Workers, SelectNext(w)
    PROVE  \E c \in Clusters : Lease!Acquire(c, w)
  <1> DEFINE c == Head(pendingUpdate)
  <1>1. /\ pc[w] = "select" /\ pendingUpdate # << >>
        /\ state' = [state EXCEPT ![c] = "processing"]
        /\ cancelUpdate' = [cancelUpdate EXCEPT ![c] = w]
        /\ UNCHANGED infra
    BY DEF SelectNext, worldVars
  <1>2. pendingUpdate \in Seq(Clusters)
    BY DEF ListInv, ListTypeOK
  <1>3. c \in Clusters /\ c = pendingUpdate[1] /\ Len(pendingUpdate) \in Nat \ {0}
    BY <1>1, <1>2, HeadTailProperties, EmptySeq
  <1>4. state[c] = "idle"
    BY <1>3 DEF ListInv, ListConsistent, PendingIdle
  <1>5. job[w] = NoCluster
    BY <1>1 DEF ListInv, IdleWithoutJob
  <1> HIDE DEF c
  <1>6. Holder[c] = NoWorker
    BY <1>3, <1>4 DEF Holder
  <1>7. \A d \in Clusters : Holder[d] # w
    <2> SUFFICES ASSUME NEW d \in Clusters, Holder[d] = w PROVE FALSE
      OBVIOUS
    <2>1. state[d] = "processing" /\ cancelUpdate[d] = w
      BY ConstantsAssumption DEF Holder
    <2>2. PICK v \in Workers : job[v] = d
      BY <2>1 DEF ListInv, ListConsistent, MarkedWhileHeld
    <2>3. v = w
      BY <2>1, <2>2, ConstantsAssumption DEF ListInv, ListConsistent, HolderCancels
    <2> QED
      BY <1>5, <2>2, <2>3, ConstantsAssumption
  <1>8. Holder' = [Holder EXCEPT ![c] = w]
    BY <1>1, <1>3 DEF Holder, ListInv, ListTypeOK
  <1> QED
    BY <1>1, <1>3, <1>6, <1>7, <1>8 DEF Lease!Acquire

LEMMA ClusterProcessedReleases ==
    ASSUME ListInv, NEW w \in Workers, ClusterProcessed(w)
    PROVE  \E c \in Clusters : Lease!Release(c)
  <1> DEFINE c == job[w]
  <1>1. pc[w] = "processed" /\ UNCHANGED infra
    BY DEF ClusterProcessed, worldVars
  <1>2. c \in Clusters /\ state[c] = "processing" /\ cancelUpdate[c] = w
    BY <1>1, ConstantsAssumption
       DEF ListInv, ListTypeOK, ListConsistent, MarkedWhileHeld, HolderCancels, IdleWithoutJob
  <1>3. /\ state' = [state EXCEPT ![c] = "processed"]
        /\ cancelUpdate' = [cancelUpdate EXCEPT ![c] = NoWorker]
    BY <1>2 DEF ClusterProcessed
  <1> HIDE DEF c
  <1>4. Holder[c] # NoWorker
    BY <1>2, ConstantsAssumption DEF Holder
  <1>5. Holder' = [Holder EXCEPT ![c] = NoWorker]
    BY <1>2, <1>3 DEF Holder, ListInv, ListTypeOK
  <1> QED
    BY <1>1, <1>2, <1>4, <1>5 DEF Lease!Release

\* The infrastructure changes in the hands of the worker that has the lease.
LEMMA BusyStepWorks ==
    ASSUME TypeOK, ListInv, NEW w \in Workers,
           \/ StartProcess(w) \/ Announce(w) \/ ProvisionBegins(w) \/ DecommissionBegins(w)
           \/ ProvisionerReturns(w) \/ Report(w)
    PROVE  \E c \in Clusters : Lease!Work(c)
  <1> DEFINE c == job[w]
  <1>1. pc[w] # "select" /\ UNCHANGED <<state, cancelUpdate>>
    BY BusySteps
  <1>2. c \in Clusters
    BY <1>1, BusyJob
  <1>3. state[c] = "processing" /\ cancelUpdate[c] = w
    BY <1>2, ConstantsAssumption DEF ListInv, ListConsistent, MarkedWhileHeld, HolderCancels
  <1>4. Holder[c] # NoWorker /\ Holder' = Holder
    BY <1>1, <1>2, <1>3, ConstantsAssumption DEF Holder
  <1>5. infra' = infra \/ \E i : infra' = [infra EXCEPT ![c] = i]
    BY DEF StartProcess, Announce, ProvisionBegins, DecommissionBegins, ProvisionerReturns,
           Provisioned, Decommissioned, ProvisionerFails, Report, worldVars
  <1> HIDE DEF c
  <1>6. infra \in [Clusters -> Infras]
    BY DEF TypeOK
  <1>7. infra' = [infra EXCEPT ![c] = infra'[c]]
    BY <1>2, <1>5, <1>6
  <1> QED
    BY <1>2, <1>4, <1>7 DEF Lease!Work

LEMMA RefinementStep == TypeOK /\ ListInv /\ [Next]_vars => [Lease!Next]_<<Holder, infra>>
  <1> SUFFICES ASSUME TypeOK, ListInv, [Next]_vars PROVE [Lease!Next]_<<Holder, infra>>
    OBVIOUS
  <1>1. ASSUME UNCHANGED <<state, cancelUpdate, infra>> PROVE UNCHANGED <<Holder, infra>>
    BY <1>1 DEF Holder
  <1>2. CASE RefreshUpdate \/ ListClusters \/ RefreshFails
    BY <1>1, <1>2 DEF RefreshUpdate, ListClusters, RefreshFails, listVars, worldVars
  <1>3. CASE UpdateAvailable
    <2>1. UNCHANGED infra
      BY <1>3 DEF UpdateAvailable, worldVars
    <2>2. Holder' = Holder
      BY <1>3, UpdateAvailableListInv DEF Holder
    <2> QED
      BY <2>1, <2>2
  <1>4. ASSUME NEW w \in Workers, SelectNext(w) PROVE Lease!Next
    BY <1>4, SelectNextAcquires DEF Lease!Next
  <1>5. ASSUME NEW w \in Workers, ClusterProcessed(w) PROVE Lease!Next
    BY <1>5, ClusterProcessedReleases DEF Lease!Next
  <1>6. ASSUME NEW w \in Workers,
               \/ StartProcess(w) \/ Announce(w) \/ ProvisionBegins(w) \/ DecommissionBegins(w)
               \/ ProvisionerReturns(w) \/ Report(w)
        PROVE  Lease!Next
    BY <1>6, BusyStepWorks DEF Lease!Next
  <1>7. CASE PushConfig \/ \E c \in Clusters : UserEdits(c)
    BY <1>1, <1>7 DEF PushConfig, UserEdits, listVars
  <1>8. CASE Restart
    BY <1>8 DEF Restart, Holder, worldVars, Lease!Next, Lease!Die
  <1>9. CASE UNCHANGED vars
    BY <1>1, <1>9 DEF vars, listVars, worldVars
  <1> QED
    BY <1>2, <1>3, <1>4, <1>5, <1>6, <1>7, <1>8, <1>9 DEF Next, Refresh, WorkerSteps

\* The list and the workers implement the lease of UpdateLease.
THEOREM ListImplementsLease == Spec => ImplementsLease
  <1>1. Init => Lease!Init
    BY DEF Init, InitManager, Lease!Init, Holder
  <1> QED
    BY <1>1, InitListInv, TypeInit, ListInvStep, TypeStep, RefinementStep, PTL
       DEF Spec, ImplementsLease, Lease!Spec

-----------------------------------------------------------------------------
(* What a step does to one cluster *)

Queued(c) == \E i \in 1..Len(pendingUpdate) : pendingUpdate[i] = c

RefreshSame == UNCHANGED <<mirror, refresh, snapshot, head>>

WorldSame(c) == registry'[c] = registry[c] /\ infra'[c] = infra[c]

ListSame(c) == info'[c] = info[c] /\ state'[c] = state[c] /\ (Queued(c)' => Queued(c))

HeldSame(c) == \A w \in Workers : job'[w] = c => job[w] = c /\ pc'[w] = pc[w]

\* The steps about other clusters.
Elsewhere(c) == WorldSame(c) /\ ListSame(c) /\ HeldSame(c) /\ RefreshSame

\* RefreshUpdate and RefreshFails.
Mirrored(c) ==
    /\ WorldSame(c) /\ ListSame(c) /\ HeldSame(c)
    /\ refresh' # "apply" /\ mirror' \in {mirror, head} /\ head' = head

Listed(c) ==
    /\ WorldSame(c) /\ ListSame(c) /\ HeldSame(c)
    /\ snapshot'[c] = registry[c] /\ UNCHANGED <<mirror, head>>

\* UpdateAvailable: the entry is replaced, deleted or, while a worker has the
\* cluster, left alone.
Refreshed(c) ==
    /\ WorldSame(c) /\ HeldSame(c)
    /\ refresh = "apply" /\ refresh' = "wait" /\ UNCHANGED <<mirror, head>>
    /\ \/ /\ state[c] # "processing" /\ snapshot[c].lifecycle # "decommissioned"
          /\ info'[c] = ClusterInfo(snapshot[c], mirror) /\ state'[c] = "idle"
          /\ Queued(c)' => updatePriority(info'[c]) # updatePriorityNone
       \/ state[c] # "processing" /\ state'[c] = "absent" /\ ~Queued(c)'
       \/ state[c] = "processing" /\ ListSame(c)

Picked(c, w) ==
    /\ WorldSame(c) /\ RefreshSame
    /\ info'[c] = info[c] /\ Queued(c) /\ state[c] = "idle" /\ state'[c] = "processing"
    /\ pc'[w] = "start" /\ \A v \in Workers : job'[v] = c => v = w

Released(c) ==
    /\ WorldSame(c) /\ RefreshSame
    /\ info'[c] = info[c] /\ state[c] = "processing" /\ state'[c] = "processed"
    /\ Queued(c)' => Queued(c)
    /\ \A v \in Workers : job'[v] # c

\* The steps of the worker that has the cluster.
Works(c, w) ==
    /\ RefreshSame
    /\ state[c] = "processing" /\ state'[c] = "processing" /\ (Queued(c)' => Queued(c))
    /\ job[w] = c /\ \A v \in Workers : job'[v] = c => v = w

Written(c, cluster) ==
    /\ registry'[c].present = registry[c].present
    /\ registry'[c].spec = registry[c].spec
    /\ registry'[c].blocked = registry[c].blocked
    /\ registry'[c].lifecycle = cluster.lifecycle
    /\ registry'[c].current = cluster.current
    /\ registry'[c].next = cluster.next

StartedStep(c, w) ==
    /\ WorldSame(c) /\ info'[c] = info[c] /\ pc[w] = "start"
    /\ \/ pc'[w] = "report"
       \/ /\ pc'[w] = "announce" /\ ~info[c].nextError
          /\ info[c].cluster.lifecycle \in {"requested", "ready"}
       \/ /\ pc'[w] = "decommission"
          /\ info[c].cluster.lifecycle = "decommission-requested"

\* What Announce and Report leave alone of the data in the worker's hands.
SameTarget(c) ==
    /\ info'[c].nextVersion = info[c].nextVersion /\ info'[c].nextError = info[c].nextError
    /\ info'[c].cluster.spec = info[c].cluster.spec
    /\ info'[c].cluster.blocked = info[c].cluster.blocked

SameRecord(c) ==
    /\ info'[c].cluster.lifecycle = info[c].cluster.lifecycle
    /\ info'[c].cluster.current = info[c].cluster.current

AnnouncedStep(c, w) ==
    /\ infra'[c] = infra[c] /\ pc[w] = "announce"
    /\ SameTarget(c) /\ SameRecord(c) /\ info'[c].cluster.next = info[c].nextVersion
    /\ \/ DryRun /\ pc'[w] = "provision" /\ registry'[c] = registry[c]
       \/ ~DryRun /\ pc'[w] = "provision" /\ Written(c, info'[c].cluster)
       \/ /\ ~DryRun /\ pc'[w] = "report"
          /\ registry'[c] = registry[c] \/ Written(c, info'[c].cluster)

BegunStep(c, w) ==
    /\ registry'[c] = registry[c] /\ info'[c] = info[c]
    /\ pc[w] = "provision" /\ pc'[w] = "provisioning"
    /\ \/ /\ infra'[c] = infra[c]
          /\ DryRun \/ infra[c] = [version |-> info[c].nextVersion, complete |-> TRUE]
       \/ ~DryRun /\ infra'[c] = [version |-> info[c].nextVersion, complete |-> FALSE]

ProvisionedStep(c, w) ==
    /\ registry'[c] = registry[c] /\ pc[w] = "provisioning" /\ pc'[w] = "report"
    /\ SameTarget(c)
    /\ info'[c].cluster.lifecycle = "ready"
    /\ info'[c].cluster.current = info[c].cluster.next /\ info'[c].cluster.next = NoVersion
    /\ \/ DryRun /\ infra'[c] = infra[c]
       \/ ~DryRun /\ infra'[c] = [version |-> infra[c].version, complete |-> TRUE]

DecommissionStep(c, w) ==
    /\ registry'[c] = registry[c] /\ info'[c] = info[c]
    /\ pc[w] = "decommission" /\ pc'[w] = "decommissioning"
    /\ \/ infra'[c] = infra[c]
       \/ /\ ~DryRun /\ infra[c] # Absent
          /\ infra'[c] = [version |-> NoVersion, complete |-> FALSE]

DecommissionedStep(c, w) ==
    /\ registry'[c] = registry[c] /\ pc[w] = "decommissioning" /\ pc'[w] = "report"
    /\ SameTarget(c)
    /\ info'[c].cluster.lifecycle = "decommissioned"
    /\ info'[c].cluster.current = NoVersion /\ info'[c].cluster.next = NoVersion
    /\ \/ DryRun /\ infra'[c] = infra[c]
       \/ ~DryRun /\ infra'[c] = Absent

FailedStep(c, w) ==
    /\ WorldSame(c) /\ info'[c] = info[c] /\ pc'[w] = "report"
    /\ pc[w] \in {"provision", "provisioning", "decommission", "decommissioning"}

ReportedStep(c, w) ==
    /\ infra'[c] = infra[c] /\ pc[w] = "report" /\ pc'[w] = "processed"
    /\ SameTarget(c) /\ SameRecord(c) /\ info'[c].cluster.next = info[c].cluster.next
    /\ registry'[c] = registry[c] \/ (~DryRun /\ Written(c, info[c].cluster))

WorkStep(c, w) ==
    \/ StartedStep(c, w) \/ AnnouncedStep(c, w) \/ BegunStep(c, w) \/ ProvisionedStep(c, w)
    \/ DecommissionStep(c, w) \/ DecommissionedStep(c, w) \/ FailedStep(c, w)
    \/ ReportedStep(c, w)

\* A user moves a cluster forward, blocks it, wants it removed, or deletes or
\* creates its record.
Edited(c) ==
    /\ infra'[c] = infra[c] /\ ListSame(c) /\ HeldSame(c) /\ RefreshSame
    /\ \E kind \in EditKinds : EditRecord(c, kind)

Pushed(c) ==
    /\ WorldSame(c) /\ ListSame(c) /\ HeldSame(c)
    /\ UNCHANGED <<mirror, refresh, snapshot>> /\ head' = head + 1

Restarted(c) ==
    /\ WorldSame(c) /\ UNCHANGED <<mirror, head>>
    /\ refresh' = "wait" /\ state'[c] = "absent" /\ ~Queued(c)'
    /\ \A w \in Workers : job'[w] # c

StepOn(c) ==
    \/ Elsewhere(c) \/ Mirrored(c) \/ Listed(c) \/ Refreshed(c)
    \/ \E w \in Workers : Picked(c, w) \/ (Works(c, w) /\ WorkStep(c, w))
    \/ Released(c) \/ Edited(c) \/ Pushed(c) \/ Restarted(c)

-----------------------------------------------------------------------------
(* Every step is one of these *)

LEMMA RefreshOn ==
    ASSUME ListInv, NEW c \in Clusters, RefreshUpdate \/ ListClusters \/ RefreshFails
    PROVE  Mirrored(c) \/ Listed(c)
  <1>1. WorldSame(c) /\ ListSame(c) /\ HeldSame(c) /\ head' = head
    BY DEF RefreshUpdate, ListClusters, RefreshFails, worldVars, listVars, workerVars,
           WorldSame, ListSame, HeldSame, Queued
  <1> QED
    BY <1>1 DEF RefreshUpdate, ListClusters, RefreshFails, Mirrored, Listed

LEMMA UpdateOn ==
    ASSUME ListInv, NEW c \in Clusters, UpdateAvailable
    PROVE  Refreshed(c)
  <1> DEFINE U == {d \in Replaced : updatePriority(info'[d]) # updatePriorityNone}
  <1>1. /\ refresh = "apply" /\ refresh' = "wait" /\ UNCHANGED <<mirror, head>>
        /\ WorldSame(c) /\ HeldSame(c)
    BY DEF UpdateAvailable, worldVars, WorldSame, HeldSame
  <1>2. /\ info'[c] = IF c \in Replaced THEN ClusterInfo(snapshot[c], mirror)
                      ELSE IF c \in Deleted THEN NoInfo ELSE info[c]
        /\ state'[c] = IF c \in Replaced THEN "idle"
                       ELSE IF c \in Deleted THEN "absent" ELSE state[c]
    BY DEF UpdateAvailable
  <1>3. U \subseteq Clusters /\ IsFiniteSet(U)
    BY ConstantsAssumption, FS_Subset DEF Replaced, Available
  <1>4. Cardinality(U) \in Nat
    BY <1>3, FS_CardinalityType
  <1>5. pendingUpdate' \in [1..Cardinality(U) -> U]
    BY DEF UpdateAvailable, SortedOrders
  <1> HIDE DEF U
  <1>6. \A i \in 1..Len(pendingUpdate') : pendingUpdate'[i] \in U
    BY <1>4, <1>5
  <1>7. Queued(c)' => c \in U
    BY <1>6 DEF Queued
  <1>8. Queued(c)' => c \in Replaced /\ updatePriority(info'[c]) # updatePriorityNone
    BY <1>7 DEF U
  <1>9. CASE c \in Replaced
    BY <1>1, <1>2, <1>8, <1>9 DEF Refreshed, Replaced, Available
  <1>10. CASE c \in Deleted
    BY <1>1, <1>2, <1>8, <1>10 DEF Refreshed, Replaced, Deleted
  <1>11. CASE c \notin Replaced /\ c \notin Deleted
    <2>1. state[c] = "processing"
      BY <1>11 DEF Replaced, Deleted
    <2> QED
      BY <1>1, <1>2, <1>8, <1>11, <2>1 DEF Refreshed, ListSame
  <1> QED
    BY <1>9, <1>10, <1>11

LEMMA SelectOn ==
    ASSUME ListInv, NEW c \in Clusters, NEW w \in Workers, SelectNext(w)
    PROVE  Elsewhere(c) \/ Picked(c, w)
  <1> DEFINE d == Head(pendingUpdate)
  <1>1. /\ pendingUpdate # << >> /\ pc[w] = "select"
        /\ state' = [state EXCEPT ![d] = "processing"]
        /\ job' = [job EXCEPT ![w] = d] /\ pc' = [pc EXCEPT ![w] = "start"]
        /\ pendingUpdate' = Tail(pendingUpdate) /\ info' = info
        /\ WorldSame(c) /\ RefreshSame
    BY DEF SelectNext, refreshVars, worldVars, WorldSame, RefreshSame
  <1>2. pendingUpdate \in Seq(Clusters)
    BY DEF ListInv, ListTypeOK
  <1>3. /\ d \in Clusters /\ d = pendingUpdate[1]
        /\ Len(pendingUpdate) \in Nat \ {0}
        /\ Len(pendingUpdate') = Len(pendingUpdate) - 1
        /\ \A i \in 1..Len(pendingUpdate') : pendingUpdate'[i] = pendingUpdate[i + 1]
    BY <1>1, <1>2, HeadTailProperties, EmptySeq
  <1>4. state[d] = "idle" /\ Queued(d)
    BY <1>3 DEF ListInv, ListConsistent, PendingIdle, Queued
  <1>5. \A v \in Workers : job[v] # d
    BY <1>3, <1>4 DEF ListInv, ListConsistent, MarkedWhileHeld
  <1>6. Queued(c)' => Queued(c)
    BY <1>3 DEF Queued
  <1> HIDE DEF d
  <1>7. CASE c = d
    <2>1. state'[c] = "processing" /\ pc'[w] = "start"
      BY <1>1, <1>7 DEF ListInv, ListTypeOK
    <2>2. \A v \in Workers : job'[v] = c => v = w
      BY <1>1, <1>5, <1>7 DEF ListInv, ListTypeOK
    <2> QED
      BY <1>1, <1>4, <1>7, <2>1, <2>2 DEF Picked
  <1>8. CASE c # d
    BY <1>1, <1>6, <1>8 DEF Elsewhere, ListSame, HeldSame, ListInv, ListTypeOK
  <1> QED
    BY <1>7, <1>8

LEMMA ProcessedOn ==
    ASSUME ListInv, NEW c \in Clusters, NEW w \in Workers, ClusterProcessed(w)
    PROVE  Elsewhere(c) \/ Released(c)
  <1> DEFINE d == job[w]
  <1>1. /\ pc[w] = "processed" /\ pc' = [pc EXCEPT ![w] = "select"]
        /\ job' = [job EXCEPT ![w] = NoCluster]
        /\ info' = info /\ pendingUpdate' = pendingUpdate
        /\ WorldSame(c) /\ RefreshSame
    BY DEF ClusterProcessed, refreshVars, worldVars, WorldSame, RefreshSame
  <1>2. d \in Clusters /\ state[d] = "processing"
    BY <1>1 DEF ListInv, ListTypeOK, ListConsistent, MarkedWhileHeld, IdleWithoutJob
  <1>3. state' = [state EXCEPT ![d] = "processed"]
    BY <1>2 DEF ClusterProcessed
  <1>4. \A v \in Workers \ {w} : job[v] # d
    BY <1>2, ConstantsAssumption DEF ListInv, ListConsistent, HolderCancels
  <1>5. Queued(c)' => Queued(c)
    BY <1>1 DEF Queued
  <1>6. NoCluster \notin Clusters
    BY ConstantsAssumption
  <1> HIDE DEF d
  <1>7. CASE c = d
    <2>1. \A v \in Workers : job'[v] # c
      BY <1>1, <1>4, <1>6, <1>7 DEF ListInv, ListTypeOK
    <2> QED
      BY <1>1, <1>2, <1>3, <1>5, <1>7, <2>1 DEF Released, ListInv, ListTypeOK
  <1>8. CASE c # d
    BY <1>1, <1>3, <1>5, <1>6, <1>8 DEF Elsewhere, ListSame, HeldSame, ListInv, ListTypeOK
  <1> QED
    BY <1>7, <1>8

\* What a worker does to the cluster it has, and that it does nothing to others.
LEMMA WorkerOn ==
    ASSUME ListInv, NEW c \in Clusters, NEW w \in Workers,
           \/ StartProcess(w) \/ Announce(w) \/ ProvisionBegins(w) \/ DecommissionBegins(w)
           \/ ProvisionerReturns(w) \/ Report(w)
    PROVE  /\ job[w] \in Clusters /\ RefreshSame
           /\ job[w] = c => Works(c, w)
           /\ job[w] # c => HeldSame(c) /\ state'[c] = state[c] /\ (Queued(c)' => Queued(c))
  <1>1. /\ pc[w] # "select" /\ \E p \in BusyPCs : pc' = [pc EXCEPT ![w] = p]
        /\ UNCHANGED <<state, cancelUpdate, pendingUpdate, job>>
    BY BusySteps
  <1>2. job[w] \in Clusters /\ state[job[w]] = "processing"
    BY <1>1, BusyJob DEF ListInv, ListConsistent, MarkedWhileHeld
  <1>3. RefreshSame
    BY DEF StartProcess, Announce, ProvisionBegins, DecommissionBegins, ProvisionerReturns,
           Provisioned, Decommissioned, ProvisionerFails, Report, refreshVars, worldVars,
           RefreshSame
  <1>4. \A v \in Workers : job[v] = job[w] => v = w
    BY <1>2, ConstantsAssumption DEF ListInv, ListConsistent, HolderCancels
  <1>5. Queued(c)' => Queued(c)
    BY <1>1 DEF Queued
  <1>6. job[w] = c => Works(c, w)
    BY <1>1, <1>2, <1>3, <1>4, <1>5 DEF Works
  <1>7. job[w] # c => HeldSame(c)
    BY <1>1 DEF HeldSame, ListInv, ListTypeOK
  <1> QED
    BY <1>1, <1>2, <1>3, <1>5, <1>6, <1>7

\* registry.UpdateLifecycleStatus writes the lifecycle status and the status of
\* one cluster, or nothing.
LEMMA WriteOn ==
    ASSUME TypeOK, NEW c \in Clusters, NEW d \in Clusters, NEW r, Write(d, r)
    PROVE  /\ d = c => Written(c, r)
           /\ d # c => registry'[c] = registry[c]
  <1>1. registry \in [Clusters -> Records]
    BY DEF TypeOK
  <1>2. CASE d = c
    <2>1. registry[c] \in Records
      BY <1>1
    <2>2. registry'[c] = [registry[c] EXCEPT !.lifecycle = r.lifecycle, !.current = r.current,
                                             !.next = r.next, !.problems = r.problems]
      BY <1>1, <1>2 DEF Write
    <2> QED
      BY <1>2, <2>1, <2>2 DEF Written, Records
  <1>3. CASE d # c
    BY <1>1, <1>3 DEF Write
  <1> QED
    BY <1>2, <1>3

LEMMA StartOn ==
    ASSUME TypeOK, ListInv, NEW c \in Clusters, NEW w \in Workers, StartProcess(w)
    PROVE  Elsewhere(c) \/ (Works(c, w) /\ WorkStep(c, w))
  <1>1. WorldSame(c) /\ info'[c] = info[c] /\ pc[w] = "start"
    BY DEF StartProcess, worldVars, listVars, WorldSame
  <1>2. CASE job[w] = c
    <2>1. pc \in [Workers -> {"select"} \cup BusyPCs]
      BY DEF TypeOK
    <2>2. StartedStep(c, w)
      BY <1>1, <1>2, <2>1 DEF StartProcess, StartedStep, Goto, FailWith
    <2> QED
      BY <1>2, <2>2, WorkerOn DEF WorkStep
  <1>3. CASE job[w] # c
    BY <1>1, <1>3, WorkerOn DEF Elsewhere, ListSame
  <1> QED
    BY <1>2, <1>3

LEMMA AnnounceOn ==
    ASSUME TypeOK, ListInv, NEW c \in Clusters, NEW w \in Workers, Announce(w)
    PROVE  Elsewhere(c) \/ (Works(c, w) /\ WorkStep(c, w))
  <1> DEFINE d == job[w]
             r == [info[d].cluster EXCEPT !.next = info[d].nextVersion]
  <1>1. /\ d \in Clusters /\ info \in [Clusters -> Infos]
        /\ pc \in [Workers -> {"select"} \cup BusyPCs]
    BY WorkerOn DEF TypeOK
  <1>2. info[d].cluster \in Records /\ info[d] \in Infos
    BY <1>1 DEF Infos
  <1>3. /\ r.spec = info[d].cluster.spec /\ r.blocked = info[d].cluster.blocked
        /\ r.lifecycle = info[d].cluster.lifecycle /\ r.current = info[d].cluster.current
        /\ r.next = info[d].nextVersion
    BY <1>2 DEF Records
  <1>4. /\ info' = [info EXCEPT ![d].cluster = r] /\ infra' = infra /\ pc[w] = "announce"
        /\ \/ DryRun /\ Goto(w, "provision") /\ registry' = registry
           \/ ~DryRun /\ Goto(w, "provision") /\ UpdateLifecycleStatusOK(d, r)
           \/ ~DryRun /\ FailWith(w, "registry") /\ UpdateLifecycleStatusFailed(d, r)
    BY DEF Announce
  <1>5. /\ \/ DryRun /\ pc'[w] = "provision" /\ registry' = registry
           \/ ~DryRun /\ pc'[w] = "provision" /\ Write(d, r)
           \/ ~DryRun /\ pc'[w] = "report" /\ (registry' = registry \/ Write(d, r))
    BY <1>1, <1>4 DEF Goto, FailWith, UpdateLifecycleStatusOK, UpdateLifecycleStatusFailed
  <1> HIDE DEF r
  <1>6. CASE d = c
    <2>1. info'[c] = [info[c] EXCEPT !.cluster = r]
      BY <1>1, <1>4, <1>6
    <2>2. /\ info'[c].cluster = r /\ info'[c].nextVersion = info[c].nextVersion
          /\ info'[c].nextError = info[c].nextError
      BY <1>2, <1>6, <2>1 DEF Infos
    <2>3. /\ SameTarget(c) /\ SameRecord(c)
          /\ info'[c].cluster.next = info[c].nextVersion
      BY <1>3, <1>6, <2>2 DEF SameTarget, SameRecord
    <2>4. Write(d, r) => Written(c, info'[c].cluster)
      BY <1>6, <2>2, WriteOn
    <2>5. AnnouncedStep(c, w)
      BY <1>4, <1>5, <2>3, <2>4 DEF AnnouncedStep
    <2> QED
      BY <1>6, <2>5, WorkerOn DEF WorkStep
  <1>7. CASE d # c
    <2>1. info'[c] = info[c]
      BY <1>1, <1>4, <1>7
    <2>2. registry'[c] = registry[c]
      BY <1>1, <1>5, <1>7, WriteOn
    <2> QED
      BY <1>4, <1>7, <2>1, <2>2, WorkerOn DEF Elsewhere, ListSame, WorldSame
  <1> QED
    BY <1>6, <1>7

LEMMA BeginsOn ==
    ASSUME TypeOK, ListInv, NEW c \in Clusters, NEW w \in Workers,
           ProvisionBegins(w) \/ DecommissionBegins(w)
    PROVE  Elsewhere(c) \/ (Works(c, w) /\ WorkStep(c, w))
  <1>1. /\ infra \in [Clusters -> Infras] /\ job[w] \in Clusters
        /\ pc \in [Workers -> {"select"} \cup BusyPCs]
    BY WorkerOn DEF TypeOK
  <1>2. registry'[c] = registry[c] /\ info'[c] = info[c]
    BY DEF ProvisionBegins, DecommissionBegins, listVars
  <1>3. CASE job[w] = c
    <2>1. CASE ProvisionBegins(w)
      <3>1. pc[w] = "provision" /\ pc'[w] = "provisioning"
        BY <1>1, <2>1 DEF ProvisionBegins, Goto
      <3>2. \/ /\ infra'[c] = infra[c]
               /\ DryRun \/ infra[c] = [version |-> info[c].nextVersion, complete |-> TRUE]
            \/ ~DryRun /\ infra'[c] = [version |-> info[c].nextVersion, complete |-> FALSE]
        BY <1>1, <1>3, <2>1 DEF ProvisionBegins
      <3>6. BegunStep(c, w)
        BY <1>2, <3>1, <3>2 DEF BegunStep
      <3> QED
        BY <1>3, <3>6, WorkerOn DEF WorkStep
    <2>2. CASE DecommissionBegins(w)
      <3>1. pc[w] = "decommission" /\ pc'[w] = "decommissioning"
        BY <1>1, <2>2 DEF DecommissionBegins, Goto
      <3>2. \/ infra'[c] = infra[c]
            \/ /\ ~DryRun /\ infra[c] # Absent
               /\ infra'[c] = [version |-> NoVersion, complete |-> FALSE]
        BY <1>1, <1>3, <2>2 DEF DecommissionBegins
      <3>6. DecommissionStep(c, w)
        BY <1>2, <3>1, <3>2 DEF DecommissionStep
      <3> QED
        BY <1>3, <3>6, WorkerOn DEF WorkStep
    <2> QED
      BY <1>3, <2>1, <2>2, WorkerOn
  <1>4. CASE job[w] # c
    <2>1. infra'[c] = infra[c]
      BY <1>1, <1>4 DEF ProvisionBegins, DecommissionBegins
    <2> QED
      BY <1>2, <1>4, <2>1, WorkerOn DEF Elsewhere, ListSame, WorldSame
  <1> QED
    BY <1>3, <1>4

LEMMA ReturnsOn ==
    ASSUME TypeOK, ListInv, NEW c \in Clusters, NEW w \in Workers,
           Provisioned(w) \/ Decommissioned(w)
    PROVE  Elsewhere(c) \/ (Works(c, w) /\ WorkStep(c, w))
  <1> DEFINE d == job[w]
             x == info[d].cluster
             p == Finished(x, "ready", x.next)
             q == Finished(x, "decommissioned", NoVersion)
  <1>0. ProvisionerReturns(w)
    BY DEF ProvisionerReturns
  <1>1. /\ d \in Clusters /\ info \in [Clusters -> Infos] /\ infra \in [Clusters -> Infras]
        /\ pc \in [Workers -> {"select"} \cup BusyPCs]
    BY <1>0, WorkerOn DEF TypeOK
  <1>2. x \in Records /\ info[d] \in Infos /\ infra[d] \in Infras
    BY <1>1 DEF Infos
  <1>3. /\ p.spec = x.spec /\ p.blocked = x.blocked /\ p.lifecycle = "ready"
        /\ p.current = x.next /\ p.next = NoVersion
        /\ q.spec = x.spec /\ q.blocked = x.blocked /\ q.lifecycle = "decommissioned"
        /\ q.current = NoVersion /\ q.next = NoVersion
    BY <1>2 DEF Finished, Records
  <1>4. registry'[c] = registry[c] /\ pc'[w] = "report"
    BY <1>1 DEF Provisioned, Decommissioned, Goto, FailWith
  <1>5. \/ /\ Provisioned(w) /\ pc[w] = "provisioning"
           /\ info' = [info EXCEPT ![d].cluster = p]
           /\ infra' = IF DryRun THEN infra ELSE [infra EXCEPT ![d].complete = TRUE]
        \/ /\ Decommissioned(w) /\ pc[w] = "decommissioning"
           /\ info' = [info EXCEPT ![d].cluster = q]
           /\ infra' = IF DryRun THEN infra ELSE [infra EXCEPT ![d] = Absent]
    BY DEF Provisioned, Decommissioned
  <1> HIDE DEF p, q
  <1>6. CASE d = c
    <2>1. CASE Provisioned(w) /\ info' = [info EXCEPT ![d].cluster = p]
      <3>1. info'[c] = [info[c] EXCEPT !.cluster = p]
        BY <1>1, <1>6, <2>1
      <3>2. /\ info'[c].cluster = p /\ info'[c].nextVersion = info[c].nextVersion
            /\ info'[c].nextError = info[c].nextError
        BY <1>2, <1>6, <3>1 DEF Infos
      <3>3. infra' = IF DryRun THEN infra ELSE [infra EXCEPT ![d].complete = TRUE]
        BY <2>1 DEF Provisioned
      <3>4. \/ DryRun /\ infra'[c] = infra[c]
            \/ ~DryRun /\ infra'[c] = [version |-> infra[c].version, complete |-> TRUE]
        BY <1>1, <1>2, <1>6, <3>3 DEF Infras
      <3>5. pc[w] = "provisioning"
        BY <2>1 DEF Provisioned
      <3>6. /\ SameTarget(c) /\ info'[c].cluster.lifecycle = "ready"
            /\ info'[c].cluster.current = info[c].cluster.next
            /\ info'[c].cluster.next = NoVersion
        BY <1>3, <1>6, <3>2 DEF SameTarget
      <3>7. ProvisionedStep(c, w)
        BY <1>4, <3>4, <3>5, <3>6 DEF ProvisionedStep
      <3> QED
        BY <1>0, <1>6, <3>7, WorkerOn DEF WorkStep
    <2>2. CASE Decommissioned(w) /\ info' = [info EXCEPT ![d].cluster = q]
      <3>1. info'[c] = [info[c] EXCEPT !.cluster = q]
        BY <1>1, <1>6, <2>2
      <3>2. /\ info'[c].cluster = q /\ info'[c].nextVersion = info[c].nextVersion
            /\ info'[c].nextError = info[c].nextError
        BY <1>2, <1>6, <3>1 DEF Infos
      <3>3. \/ DryRun /\ infra'[c] = infra[c]
            \/ ~DryRun /\ infra'[c] = Absent
        BY <1>1, <1>6, <2>2 DEF Decommissioned
      <3>4. pc[w] = "decommissioning"
        BY <2>2 DEF Decommissioned
      <3>5. /\ SameTarget(c) /\ info'[c].cluster.lifecycle = "decommissioned"
            /\ info'[c].cluster.current = NoVersion /\ info'[c].cluster.next = NoVersion
        BY <1>3, <1>6, <3>2 DEF SameTarget
      <3>6. DecommissionedStep(c, w)
        BY <1>4, <3>3, <3>4, <3>5 DEF DecommissionedStep
      <3> QED
        BY <1>0, <1>6, <3>6, WorkerOn DEF WorkStep
    <2> QED
      BY <1>0, <1>5, <1>6, <2>1, <2>2, WorkerOn
  <1>7. CASE d # c
    <2>1. info'[c] = info[c] /\ infra'[c] = infra[c]
      BY <1>1, <1>5, <1>7
    <2> QED
      BY <1>0, <1>4, <1>7, <2>1, WorkerOn DEF Elsewhere, ListSame, WorldSame
  <1> QED
    BY <1>6, <1>7

LEMMA FailsOn ==
    ASSUME TypeOK, ListInv, NEW c \in Clusters, NEW w \in Workers, ProvisionerFails(w)
    PROVE  Elsewhere(c) \/ (Works(c, w) /\ WorkStep(c, w))
  <1>0. ProvisionerReturns(w)
    BY DEF ProvisionerReturns
  <1>1. WorldSame(c) /\ info'[c] = info[c]
    BY DEF ProvisionerFails, WorldSame, worldVars, listVars
  <1>2. FailedStep(c, w)
    BY <1>1 DEF ProvisionerFails, FailedStep, FailWith, TypeOK
  <1> QED
    BY <1>0, <1>1, <1>2, WorkerOn DEF Elsewhere, ListSame, WorkStep

LEMMA ReportOn ==
    ASSUME TypeOK, ListInv, NEW c \in Clusters, NEW w \in Workers, Report(w)
    PROVE  Elsewhere(c) \/ (Works(c, w) /\ WorkStep(c, w))
  <1> DEFINE d == job[w]
             r == Reported(info[d].cluster, err[w])
  <1>1. /\ d \in Clusters /\ info \in [Clusters -> Infos]
        /\ pc \in [Workers -> {"select"} \cup BusyPCs]
    BY WorkerOn DEF TypeOK
  <1>2. info[d].cluster \in Records /\ info[d] \in Infos
    BY <1>1 DEF Infos
  <1>3. /\ r.spec = info[d].cluster.spec /\ r.blocked = info[d].cluster.blocked
        /\ r.lifecycle = info[d].cluster.lifecycle /\ r.current = info[d].cluster.current
        /\ r.next = info[d].cluster.next
    BY <1>2 DEF Records, Reported
  <1>4. /\ infra' = infra /\ pc[w] = "report" /\ pc'[w] = "processed"
        /\ \/ info' = info /\ registry' = registry
           \/ /\ ~DryRun /\ info' = [info EXCEPT ![d].cluster = r]
              /\ registry' = registry \/ Write(d, r)
    BY <1>1 DEF Report, Goto, UpdateLifecycleStatusOK, UpdateLifecycleStatusFailed
  <1> HIDE DEF r
  <1>5. CASE d = c
    <2>1. \/ info'[c] = info[c]
          \/ info'[c] = [info[c] EXCEPT !.cluster = r]
      BY <1>1, <1>4, <1>5
    <2>2. /\ info'[c].cluster = r \/ info'[c] = info[c]
          /\ info'[c].nextVersion = info[c].nextVersion /\ info'[c].nextError = info[c].nextError
      BY <1>2, <1>5, <2>1 DEF Infos
    <2>3. /\ SameTarget(c) /\ SameRecord(c)
          /\ info'[c].cluster.next = info[c].cluster.next
      BY <1>3, <1>5, <2>2 DEF SameTarget, SameRecord
    <2>4. Write(d, r) => Written(c, info[c].cluster)
      <3>1. Write(d, r) => Written(c, r)
        BY <1>5, WriteOn
      <3> QED
        BY <1>3, <1>5, <3>1 DEF Written
    <2>5. ReportedStep(c, w)
      <3>1. registry'[c] = registry[c] \/ (~DryRun /\ Written(c, info[c].cluster))
        BY <1>4, <2>4
      <3> QED
        BY <1>4, <2>3, <3>1 DEF ReportedStep
    <2> QED
      BY <1>5, <2>5, WorkerOn DEF WorkStep
  <1>6. CASE d # c
    <2>1. info'[c] = info[c]
      BY <1>1, <1>4, <1>6
    <2>2. registry'[c] = registry[c]
      BY <1>1, <1>4, <1>6, WriteOn
    <2> QED
      BY <1>4, <1>6, <2>1, <2>2, WorkerOn DEF Elsewhere, ListSame, WorldSame
  <1> QED
    BY <1>5, <1>6

LEMMA UsersOn ==
    ASSUME TypeOK, ListInv, NEW c \in Clusters, PushConfig \/ \E d \in Clusters : UserEdits(d)
    PROVE  Elsewhere(c) \/ Edited(c) \/ Pushed(c)
  <1>1. /\ ListSame(c) /\ HeldSame(c) /\ infra'[c] = infra[c]
        /\ UNCHANGED <<mirror, refresh, snapshot>>
    BY DEF PushConfig, UserEdits, listVars, refreshVars, workerVars, ListSame, HeldSame, Queued
  <1>2. CASE PushConfig
    BY <1>1, <1>2 DEF PushConfig, Pushed, WorldSame
  <1>3. ASSUME NEW d \in Clusters, UserEdits(d) PROVE Elsewhere(c) \/ Edited(c)
    <2>1. head' = head /\ \E kind \in EditKinds : EditRecord(d, kind)
      BY <1>3 DEF UserEdits
    <2>2. CASE d = c
      BY <1>1, <2>1, <2>2 DEF Edited, RefreshSame
    <2>3. CASE d # c
      <3>1. registry \in [Clusters -> Records]
        BY DEF TypeOK
      <3>2. registry'[c] = registry[c]
        BY <2>1, <2>3, <3>1 DEF EditRecord
      <3> QED
        BY <1>1, <2>1, <3>2 DEF Elsewhere, WorldSame, RefreshSame
    <2> QED
      BY <2>2, <2>3
  <1> QED
    BY <1>2, <1>3

LEMMA RestartOn ==
    ASSUME NEW c \in Clusters, Restart
    PROVE  Restarted(c)
  <1>1. pendingUpdate' = << >>
    BY DEF Restart
  <1>2. Len(pendingUpdate') = 0
    BY <1>1, EmptySeq
  <1>3. ~Queued(c)'
    BY <1>2 DEF Queued
  <1> QED
    BY <1>3, ConstantsAssumption DEF Restart, Restarted, WorldSame, worldVars

LEMMA StepsOn ==
    ASSUME TypeOK, ListInv, [Next]_vars, NEW c \in Clusters
    PROVE  StepOn(c)
  <1>1. CASE Refresh
    BY <1>1, RefreshOn, UpdateOn DEF Refresh, StepOn
  <1>2. ASSUME NEW w \in Workers, WorkerSteps(w) PROVE StepOn(c)
    BY <1>2, SelectOn, StartOn, AnnounceOn, BeginsOn, ReportOn, ProcessedOn
       DEF WorkerSteps, StepOn
  <1>3. ASSUME NEW w \in Workers, ProvisionerReturns(w) PROVE StepOn(c)
    BY <1>3, ReturnsOn, FailsOn DEF ProvisionerReturns, StepOn
  <1>4. CASE PushConfig \/ \E d \in Clusters : UserEdits(d)
    BY <1>4, UsersOn DEF StepOn
  <1>5. CASE Restart
    BY <1>5, RestartOn DEF StepOn
  <1>6. CASE UNCHANGED vars
    BY <1>6 DEF vars, listVars, refreshVars, workerVars, worldVars, StepOn, Elsewhere,
                WorldSame, ListSame, HeldSame, RefreshSame, Queued
  <1> QED
    BY <1>1, <1>2, <1>3, <1>4, <1>5, <1>6 DEF Next

\* What users do to the record of a cluster.
LEMMA EditOn ==
    ASSUME TypeOK, NEW c \in Clusters, NEW kind, EditRecord(c, kind)
    PROVE  /\ registry'[c].lifecycle = "decommissioned"
              => registry[c].lifecycle = "decommissioned"
           /\ kind \notin {"revert", "delete", "create"} =>
                 /\ registry'[c].spec >= registry[c].spec
                 /\ registry'[c].current = registry[c].current
                 /\ registry'[c].next = registry[c].next
           /\ kind \notin {"decommission", "delete", "create"} =>
                 registry'[c].lifecycle = registry[c].lifecycle
  <1>1. registry \in [Clusters -> Records] /\ registry[c] \in Records
    BY DEF TypeOK
  <1>2. registry[c].spec \in Nat
    BY <1>1, ConstantsAssumption DEF Records
  <1>3. CASE kind = "spec" /\ registry' = [registry EXCEPT ![c].spec = registry[c].spec + 1]
    <2>1. registry'[c] = [registry[c] EXCEPT !.spec = registry[c].spec + 1]
      BY <1>1, <1>3
    <2> QED
      BY <1>1, <1>2, <1>3, <2>1 DEF Records
  <1>4. CASE kind = "revert" /\ registry' = [registry EXCEPT ![c].spec = registry[c].spec - 1]
    <2>1. registry'[c] = [registry[c] EXCEPT !.spec = registry[c].spec - 1]
      BY <1>1, <1>4
    <2> QED
      BY <1>1, <1>2, <1>4, <2>1 DEF Records
  <1>5. CASE kind = "block" /\ registry' = [registry EXCEPT ![c].blocked = ~registry[c].blocked]
    <2>1. registry'[c] = [registry[c] EXCEPT !.blocked = ~registry[c].blocked]
      BY <1>1, <1>5
    <2> QED
      BY <1>1, <1>2, <1>5, <2>1 DEF Records
  <1>6. CASE /\ kind = "decommission"
             /\ registry' = [registry EXCEPT ![c].lifecycle = "decommission-requested"]
    <2>1. registry'[c] = [registry[c] EXCEPT !.lifecycle = "decommission-requested"]
      BY <1>1, <1>6
    <2> QED
      BY <1>1, <1>2, <1>6, <2>1 DEF Records
  <1>7. CASE kind \in {"delete", "create"} /\ EditRecord(c, kind)
    <2>1. \/ registry'[c] = NoRecord
          \/ registry'[c] = [NoRecord EXCEPT !.present = TRUE]
      BY <1>1, <1>7 DEF EditRecord
    <2>2. registry'[c].lifecycle = "requested"
      BY <2>1 DEF NoRecord
    <2> QED
      BY <1>7, <2>2
  <1> QED
    BY <1>3, <1>4, <1>5, <1>6, <1>7 DEF EditRecord

-----------------------------------------------------------------------------
(* A cluster that is recorded as decommissioned is gone *)

LEMMA QueuedIdle ==
    ASSUME ListInv, NEW c \in Clusters, Queued(c)
    PROVE  state[c] = "idle"
  BY DEF Queued, ListInv, ListConsistent, PendingIdle

\* A refresh does not bring back a decommissioned cluster, a worker says so only
\* of a cluster it has removed, and announces an update before it changes a
\* cluster: a stale refresh may start a cluster again after its removal, but
\* then the registry does not say any more that it is gone.
GoneOf(c) ==
    /\ registry[c].lifecycle = "decommissioned" => infra[c] = Absent
    /\ state[c] = "idle" => info[c].cluster.lifecycle # "decommissioned"
    /\ \A w \in Workers : job[w] = c =>
          /\ info[c].cluster.lifecycle = "decommissioned" =>
                /\ pc[w] \in {"report", "processed"}
                /\ DryRun \/ infra[c] = Absent
          /\ pc[w] \in {"provision", "provisioning"} /\ ~DryRun =>
                registry[c].lifecycle # "decommissioned"

GoneInv == \A c \in Clusters : GoneOf(c)

LEMMA GoneStep ==
    ASSUME TypeOK, ListInv, NEW c \in Clusters, GoneOf(c), StepOn(c)
    PROVE  GoneOf(c)'
  <1>1. CASE Elsewhere(c) \/ Mirrored(c) \/ Listed(c) \/ Pushed(c)
    BY <1>1 DEF GoneOf, Elsewhere, Mirrored, Listed, Pushed, WorldSame, ListSame, HeldSame
  <1>2. CASE Refreshed(c)
    <2>1. ClusterInfo(snapshot[c], mirror).cluster = snapshot[c]
      BY DEF ClusterInfo
    <2>2. state[c] # "processing" => \A w \in Workers : job[w] # c
      BY DEF ListInv, ListConsistent, MarkedWhileHeld
    <2> QED
      BY <1>2, <2>1, <2>2 DEF GoneOf, Refreshed, WorldSame, ListSame, HeldSame
  <1>3. ASSUME NEW w \in Workers, Picked(c, w) PROVE GoneOf(c)'
    BY <1>3 DEF GoneOf, Picked, WorldSame
  <1>4. ASSUME NEW w \in Workers, Works(c, w), WorkStep(c, w) PROVE GoneOf(c)'
    <2> USE DEF GoneOf
    <2>1. /\ state'[c] # "idle" /\ job[w] = c /\ \A v \in Workers : job'[v] = c => v = w
      BY <1>4 DEF Works
    <2>2. CASE StartedStep(c, w) \/ FailedStep(c, w)
      BY <2>1, <2>2 DEF StartedStep, FailedStep, WorldSame
    <2>3. CASE AnnouncedStep(c, w)
      BY <2>1, <2>3 DEF AnnouncedStep, SameRecord, Written
    <2>4. CASE BegunStep(c, w)
      BY <2>1, <2>4 DEF BegunStep
    <2>5. CASE ProvisionedStep(c, w)
      BY <2>1, <2>5 DEF ProvisionedStep
    <2>6. CASE DecommissionStep(c, w)
      BY <2>1, <2>6 DEF DecommissionStep
    <2>7. CASE DecommissionedStep(c, w)
      BY <2>1, <2>7 DEF DecommissionedStep
    <2>8. CASE ReportedStep(c, w)
      BY <2>1, <2>8 DEF ReportedStep, SameRecord, Written
    <2> QED
      BY <1>4, <2>2, <2>3, <2>4, <2>5, <2>6, <2>7, <2>8 DEF WorkStep
  <1>5. CASE Released(c) \/ Restarted(c)
    BY <1>5 DEF GoneOf, Released, Restarted, WorldSame
  <1>6. CASE Edited(c)
    <2>1. registry'[c].lifecycle = "decommissioned" => registry[c].lifecycle = "decommissioned"
      BY <1>6, EditOn DEF Edited
    <2> QED
      BY <1>6, <2>1 DEF GoneOf, Edited, ListSame, HeldSame
  <1> QED
    BY <1>1, <1>2, <1>3, <1>4, <1>5, <1>6 DEF StepOn

\* When the manager starts for the first time, a cluster recorded as
\* decommissioned has no version: that is how the record is written.
InitiallyGone ==
    \A r \in InitialRegistries : \A c \in Clusters :
        r[c].lifecycle = "decommissioned" => r[c].current = NoVersion /\ r[c].next = NoVersion

\* No worker provisions a cluster while the registry says that it is decommissioned,
\* so nothing is about to bring it back.
NotBroughtBack ==
    \A c \in Clusters, w \in Workers :
        registry[c].lifecycle = "decommissioned" /\ job[w] = c /\ ~DryRun
        => pc[w] \notin {"provision", "provisioning"}

\* A cluster whose record in the registry says decommissioned has no infrastructure,
\* and no worker (of a manager that is not only trying) provisions it: whatever
\* users do to the record, however stale a refresh is, and wherever workers fail
\* or the manager dies.  Nothing is said of clusters without a record: one that is
\* deleted before it is decommissioned leaves its infrastructure.
THEOREM DecommissionedClustersGone ==
    ASSUME InitiallyGone
    PROVE  Spec => []DecommissionedIsGone /\ []NotBroughtBack
  <1>1. Init => GoneInv
    <2> SUFFICES ASSUME Init, NEW c \in Clusters PROVE GoneOf(c)
      BY DEF GoneInv
    <2>1. /\ registry \in InitialRegistries /\ infra[c] \in InfraFor(registry[c])
          /\ state[c] = "absent" /\ \A w \in Workers : job[w] # c
      BY ConstantsAssumption DEF Init, InitManager
    <2>2. registry[c].lifecycle = "decommissioned" => infra[c] = Absent
      BY <2>1 DEF InitiallyGone, InfraFor, Absent
    <2> QED
      BY <2>1, <2>2 DEF GoneOf
  <1>2. TypeOK /\ ListInv /\ GoneInv /\ [Next]_vars => GoneInv'
    BY StepsOn, GoneStep DEF GoneInv
  <1>3. GoneInv => DecommissionedIsGone
    BY DEF GoneInv, GoneOf, DecommissionedIsGone
  <1>4. GoneInv => NotBroughtBack
    BY DEF GoneInv, GoneOf, NotBroughtBack
  <1> QED
    BY <1>1, <1>2, <1>3, <1>4, InitListInv, TypeInit, ListInvStep, TypeStep, PTL DEF Spec

-----------------------------------------------------------------------------
(* Nothing goes back to an older version *)

\* Users only move forward: nobody takes back an edit, or deletes a record and
\* creates it again.
OnlyForward == EditKinds \cap {"revert", "delete", "create"} = {}

\* What was applied or announced before is not newer than what is wanted.
InitiallyForward ==
    \A r \in InitialRegistries : \A c \in Clusters :
        /\ r[c].current.spec <= r[c].spec /\ r[c].current.config <= 0
        /\ r[c].next.spec <= r[c].spec /\ r[c].next.config <= 0

\* What runs is older than what a worker is going to apply, which is older than
\* what the refresh loop is going to hand to workers, which is older than what
\* the registry says.  NoVersion is older than every version.
OrderOf(c) ==
    /\ infra[c].version.spec <= registry[c].spec
    /\ infra[c].version.config <= mirror
    /\ state[c] # "absent" =>
          /\ info[c].cluster.spec <= registry[c].spec
          /\ infra[c].version.spec <= info[c].cluster.spec
          /\ info[c].nextVersion # NoVersion =>
                /\ info[c].nextVersion.spec = info[c].cluster.spec
                /\ info[c].nextVersion.config <= mirror
                /\ infra[c].version.config <= info[c].nextVersion.config
    /\ refresh = "apply" =>
          /\ snapshot[c].spec <= registry[c].spec
          /\ infra[c].version.spec <= snapshot[c].spec
          /\ state[c] # "absent" => info[c].cluster.spec <= snapshot[c].spec

OrderInv == mirror <= head /\ \A c \in Clusters : OrderOf(c)

LEMMA NoVersionFields == NoVersion.spec = -1 /\ NoVersion.config = -1
  BY DEF NoVersion

LEMMA VersionFields ==
    ASSUME NEW v \in Versions \cup {NoVersion}
    PROVE  /\ v.spec \in Int /\ v.config \in Int /\ v.spec >= -1 /\ v.config >= -1
           /\ v # NoVersion => v.spec \in Specs
  <1>1. CASE v \in Versions
    <2>1. v.spec \in Specs /\ v.config \in 0..MaxConfig
      BY <1>1 DEF Versions
    <2>2. Specs \subseteq Nat /\ MaxConfig \in Nat
      BY ConstantsAssumption
    <2>3. v.spec \in Nat
      BY <2>1, <2>2, Zenon
    <2>4. v.config \in Nat
      <3> DEFINE k == v.config
      <3>1. k \in 0..MaxConfig
        BY <2>1
      <3> HIDE DEF k
      <3>2. k \in Nat
        BY <2>2, <3>1
      <3> QED
        BY <3>2 DEF k
    <2> QED
      BY <2>1, <2>3, <2>4
  <1>2. CASE v = NoVersion
    BY <1>2, NoVersionFields
  <1> QED
    BY <1>1, <1>2

LEMMA RecordFields ==
    ASSUME NEW r \in Records
    PROVE  /\ r.spec \in Nat
           /\ r.current.spec \in Int /\ r.current.config \in Int /\ r.current.spec >= -1
           /\ r.next.spec \in Int /\ r.next.config \in Int
  <1>1. /\ r.spec \in Nat /\ r.current \in Versions \cup {NoVersion}
        /\ r.next \in Versions \cup {NoVersion}
    BY ConstantsAssumption DEF Records
  <1> QED
    BY <1>1, VersionFields

\* The numbers that are compared.
NumbersOf(c) ==
    /\ registry[c].spec \in Nat /\ snapshot[c].spec \in Nat /\ info[c].cluster.spec \in Nat
    /\ infra[c].version.spec \in Int /\ infra[c].version.config \in Int
    /\ info[c].nextVersion.spec \in Int /\ info[c].nextVersion.config \in Int
    /\ info[c].nextVersion.config >= -1
    /\ mirror \in Nat /\ head \in Nat

LEMMA Numbers ==
    ASSUME TypeOK, NEW c \in Clusters
    PROVE  NumbersOf(c)
  <1>1. /\ registry[c] \in Records /\ snapshot[c] \in Records /\ info[c].cluster \in Records
        /\ infra[c].version \in Versions \cup {NoVersion}
        /\ info[c].nextVersion \in Versions \cup {NoVersion}
        /\ mirror \in Nat /\ head \in Nat
    <2>1. /\ registry[c] \in Records /\ snapshot[c] \in Records
          /\ info[c] \in Infos /\ infra[c] \in Infras
      BY DEF TypeOK
    <2>2. mirror \in Nat /\ head \in Nat
      <3>1. mirror \in 0..MaxConfig /\ head \in 0..MaxConfig
        BY DEF TypeOK
      <3>2. MaxConfig \in Nat
        BY ConstantsAssumption
      <3> QED
        BY <3>1, <3>2
    <2> QED
      BY <2>1, <2>2 DEF Infos, Infras
  <1> QED
    BY <1>1, RecordFields, VersionFields DEF NumbersOf

LEMMA NewInfo ==
    ASSUME NEW r, NEW k
    PROVE  /\ ClusterInfo(r, k).cluster = r
           /\ ClusterInfo(r, k).nextError <=> r.spec \in BadSpecs
           /\ ClusterInfo(r, k).nextVersion =
                 IF r.spec \in BadSpecs THEN NoVersion ELSE VersionOf(r, k)
           /\ VersionOf(r, k).spec = r.spec /\ VersionOf(r, k).config = k
           /\ VersionOf(r, k).blocked = r.blocked /\ VersionOf(r, k).lifecycle = r.lifecycle
  BY DEF ClusterInfo, NextError, VersionOf

LEMMA MirrorNext ==
    ASSUME TypeOK, mirror <= head, [Next]_vars
    PROVE  mirror' <= head' /\ mirror <= mirror'
  <1>1. mirror \in Nat /\ head \in Nat
    <2>1. mirror \in 0..MaxConfig /\ head \in 0..MaxConfig
      BY DEF TypeOK
    <2>2. MaxConfig \in Nat
      BY ConstantsAssumption
    <2> QED
      BY <2>1, <2>2
  <1>2. CASE RefreshUpdate
    BY <1>1, <1>2 DEF RefreshUpdate, worldVars
  <1>3. CASE PushConfig
    BY <1>1, <1>3 DEF PushConfig, refreshVars
  <1>4. ASSUME mirror' = mirror /\ head' = head
        PROVE  mirror' <= head' /\ mirror <= mirror'
    BY <1>1, <1>4
  <1>5. ASSUME NEW w \in Workers, WorkerSteps(w) \/ ProvisionerReturns(w)
        PROVE  mirror' = mirror /\ head' = head
    BY <1>5 DEF WorkerSteps, ProvisionerReturns, SelectNext, StartProcess, Announce,
           ProvisionBegins, DecommissionBegins, Report, ClusterProcessed, Provisioned,
           Decommissioned, ProvisionerFails, refreshVars, worldVars
  <1>6. CASE \/ ListClusters \/ RefreshFails \/ UpdateAvailable \/ Restart \/ UNCHANGED vars
             \/ \E c \in Clusters : UserEdits(c)
    BY <1>4, <1>6 DEF ListClusters, RefreshFails, UpdateAvailable, Restart, UserEdits, vars,
                      refreshVars, worldVars
  <1> QED
    BY <1>2, <1>3, <1>4, <1>5, <1>6 DEF Next, Refresh

LEMMA OrderStep ==
    ASSUME TypeOK, TypeOK', ListInv, OnlyForward, mirror <= head, mirror <= mirror',
           NEW c \in Clusters, OrderOf(c), StepOn(c)
    PROVE  OrderOf(c)'
  <1>0. NumbersOf(c) /\ NumbersOf(c)'
    BY Numbers, PTL
  <1> USE <1>0 DEF OrderOf, NumbersOf
  <1>1. CASE Elsewhere(c) \/ Mirrored(c) \/ Pushed(c)
    BY <1>1 DEF Elsewhere, Mirrored, Pushed, RefreshSame, WorldSame, ListSame
  <1>2. CASE Listed(c)
    BY <1>2 DEF Listed, WorldSame, ListSame
  <1>3. CASE Refreshed(c)
    BY <1>3, NewInfo DEF Refreshed, WorldSame, ListSame
  <1>4. ASSUME NEW w \in Workers, Picked(c, w) PROVE OrderOf(c)'
    BY <1>4 DEF Picked, WorldSame, RefreshSame
  <1>5. ASSUME NEW w \in Workers, Works(c, w), WorkStep(c, w) PROVE OrderOf(c)'
    <2>1. state[c] # "absent" /\ state'[c] # "absent" /\ RefreshSame
      BY <1>5 DEF Works
    <2>2. CASE StartedStep(c, w) \/ FailedStep(c, w)
      BY <2>1, <2>2 DEF StartedStep, FailedStep, WorldSame, RefreshSame
    <2>3. CASE AnnouncedStep(c, w)
      BY <2>1, <2>3 DEF AnnouncedStep, SameTarget, Written, RefreshSame
    <2>4. CASE BegunStep(c, w)
      <3>1. infra'[c].version \in {infra[c].version, info[c].nextVersion}
        BY <2>4 DEF BegunStep
      <3>2. info[c].nextVersion = NoVersion =>
               info[c].nextVersion.spec = -1 /\ info[c].nextVersion.config = -1
        BY NoVersionFields
      <3> QED
        BY <2>1, <2>4, <3>1, <3>2 DEF BegunStep, RefreshSame
    <2>5. CASE ProvisionedStep(c, w)
      <3>1. infra'[c].version = infra[c].version
        BY <2>5 DEF ProvisionedStep
      <3> QED
        BY <2>1, <2>5, <3>1 DEF ProvisionedStep, SameTarget, RefreshSame
    <2>6. CASE DecommissionStep(c, w) \/ DecommissionedStep(c, w)
      <3>1. infra'[c].version \in {infra[c].version, NoVersion}
        BY <2>6 DEF DecommissionStep, DecommissionedStep, Absent
      <3>2. infra'[c].version.spec <= infra[c].version.spec \/ infra'[c].version.spec = -1
        BY <3>1, NoVersionFields
      <3>4. infra'[c].version.config <= infra[c].version.config \/ infra'[c].version.config = -1
        BY <3>1, NoVersionFields
      <3>3. registry'[c] = registry[c] /\ SameTarget(c)
        BY <2>6 DEF DecommissionStep, DecommissionedStep, SameTarget
      <3> QED
        BY <2>1, <3>2, <3>3, <3>4 DEF SameTarget, RefreshSame
    <2>7. CASE ReportedStep(c, w)
      BY <2>1, <2>7 DEF ReportedStep, SameTarget, Written, RefreshSame
    <2> QED
      BY <1>5, <2>2, <2>3, <2>4, <2>5, <2>6, <2>7 DEF WorkStep
  <1>6. CASE Released(c)
    BY <1>6 DEF Released, WorldSame, RefreshSame
  <1>7. CASE Restarted(c)
    BY <1>7 DEF Restarted, WorldSame
  <1>8. CASE Edited(c)
    <2>1. registry'[c].spec >= registry[c].spec
      BY <1>8, EditOn DEF Edited, OnlyForward
    <2> QED
      BY <1>8, <2>1 DEF Edited, ListSame, RefreshSame
  <1> QED
    BY <1>1, <1>2, <1>3, <1>4, <1>5, <1>6, <1>7, <1>8 DEF StepOn

LEMMA OrderInit == InitiallyForward /\ Init => OrderInv
  <1> SUFFICES ASSUME InitiallyForward, Init, NEW c \in Clusters
               PROVE  OrderOf(c)
    BY DEF OrderInv, Init
  <1>1. /\ registry \in InitialRegistries /\ infra[c] \in InfraFor(registry[c])
        /\ state[c] = "absent" /\ refresh = "wait" /\ mirror = 0
    BY DEF Init, InitManager
  <1>2. /\ registry[c].current.spec <= registry[c].spec /\ registry[c].current.config <= 0
        /\ registry[c].next.spec <= registry[c].spec /\ registry[c].next.config <= 0
    BY <1>1 DEF InitiallyForward
  <1>3. infra[c].version \in {registry[c].current, registry[c].next}
    BY <1>1 DEF InfraFor
  <1> QED
    BY <1>1, <1>2, <1>3 DEF OrderOf

LEMMA OrderNext ==
    ASSUME OnlyForward
    PROVE  TypeOK /\ TypeOK' /\ ListInv /\ OrderInv /\ [Next]_vars => OrderInv'
  <1> SUFFICES ASSUME TypeOK, TypeOK', ListInv, OrderInv, [Next]_vars PROVE OrderInv'
    OBVIOUS
  <1>1. mirror' <= head'
    BY MirrorNext DEF OrderInv
  <1>2. \A c \in Clusters : OrderOf(c)'
    BY StepsOn, MirrorNext, OrderStep DEF OrderInv
  <1> QED
    BY <1>1, <1>2 DEF OrderInv

\* Everything so far in one invariant.
ForwardInv == TypeOK /\ ListInv /\ OrderInv

LEMMA ForwardInvariant ==
    ASSUME OnlyForward, InitiallyForward
    PROVE  Spec => []ForwardInv
  <1>1. Init => OrderInv
    BY OrderInit
  <1> QED
    BY <1>1, OrderNext, InitListInv, TypeInit, ListInvStep, TypeStep, PTL DEF Spec, ForwardInv

\* As long as users only move forward, no worker applies an older version than
\* one that was applied before, although it may work on what was read from the
\* registry long ago and apply the same version again.
THEOREM NeverRollsBack ==
    ASSUME OnlyForward, InitiallyForward
    PROVE  Spec => NoRollback
  <1>1. ForwardInv /\ [Next]_vars => ForwardStep
    <2> SUFFICES ASSUME ForwardInv, [Next]_vars, NEW c \in Clusters,
                        infra[c].version # NoVersion, infra'[c].version # NoVersion
                 PROVE  /\ infra'[c].version.spec >= infra[c].version.spec
                        /\ infra'[c].version.config >= infra[c].version.config
      BY DEF ForwardStep
    <2>1. NumbersOf(c) /\ OrderOf(c) /\ StepOn(c)
      BY Numbers, StepsOn DEF ForwardInv, OrderInv
    <2>2. \/ infra'[c].version = infra[c].version
          \/ infra'[c].version = info[c].nextVersion /\ state[c] = "processing"
      <3>1. CASE \E w \in Workers : Works(c, w) /\ WorkStep(c, w)
        BY <3>1 DEF Works, WorkStep, StartedStep, AnnouncedStep, BegunStep, ProvisionedStep,
                    DecommissionStep, DecommissionedStep, FailedStep, ReportedStep, WorldSame, Absent
      <3> QED
        BY <2>1, <3>1 DEF StepOn, Elsewhere, Mirrored, Listed, Refreshed, Picked, Released,
                          Edited, Pushed, Restarted, WorldSame
    <2>3. CASE infra'[c].version = infra[c].version
      BY <2>1, <2>3 DEF NumbersOf
    <2>4. CASE infra'[c].version = info[c].nextVersion /\ state[c] = "processing"
      BY <2>1, <2>4 DEF NumbersOf, OrderOf
    <2> QED
      BY <2>2, <2>3, <2>4
  <1>2. ForwardInv /\ [Next]_vars => [ForwardStep]_infra
    BY <1>1
  <1> QED
    BY <1>2, ForwardInvariant, PTL DEF Spec, NoRollback

-----------------------------------------------------------------------------
(* A cluster that needs no update is not left half updated *)

\* Users also ask for no removal: a request that arrives during an update is
\* overwritten when the update ends, and then the refresh that has seen it
\* removes a cluster that is recorded as up to date.
OnlyUpdates == OnlyForward /\ "decommission" \notin EditKinds

Leaving(r) == r.lifecycle \in {"decommission-requested", "decommissioned"}

\* The recorded version is not the one that is wanted, and never will be.
Behind(r, config) ==
    \/ r.current.spec < r.spec
    \/ r.current.config < config
    \/ r.current.lifecycle # r.lifecycle

\* The recorded version is one that could be applied.
CurrentOK(r, config) ==
    r.current # NoVersion =>
        /\ ~r.current.blocked /\ r.current.spec \notin BadSpecs
        /\ r.current.spec <= r.spec /\ r.current.config <= config

\* While an update is announced, the record is behind.
RecordOK(r, config) ==
    CurrentOK(r, config) /\ (r.next # NoVersion => Behind(r, config))

InitiallyRecorded ==
    \A r \in InitialRegistries : \A c \in Clusters : RecordOK(r[c], 0)

Runs(c, v) == infra[c] = [version |-> v, complete |-> TRUE]

\* The target of an entry is computed from its data.
TargetOK(c) ==
    /\ info[c].nextError <=> info[c].cluster.spec \in BadSpecs
    /\ ~info[c].nextError =>
          /\ info[c].nextVersion # NoVersion
          /\ info[c].nextVersion.spec = info[c].cluster.spec
          /\ info[c].nextVersion.blocked = info[c].cluster.blocked
          /\ info[c].nextVersion.lifecycle = info[c].cluster.lifecycle
          /\ info[c].nextVersion.config <= mirror
          /\ info[c].cluster.current.config <= info[c].nextVersion.config

InfoOK(c) ==
    /\ RecordOK(info[c].cluster, mirror)
    /\ Leaving(info[c].cluster) <=> Leaving(registry[c])

\* What a worker knows of the cluster it has.  From the announcement to the
\* report the registry says that the cluster is behind; what is reported is
\* behind as well, or what runs.
HeldOK(c, p) ==
    /\ p \notin {"report", "processed"} =>
          /\ ~info[c].cluster.blocked /\ TargetOK(c)
          /\ Leaving(info[c].cluster) \/ Behind(info[c].cluster, mirror)
    /\ p \in {"announce", "provision", "provisioning"} =>
          ~info[c].nextError /\ ~Leaving(info[c].cluster)
    /\ p \in {"provision", "provisioning"} =>
          /\ info[c].cluster.next = info[c].nextVersion
          /\ DryRun \/ Behind(registry[c], mirror)
    /\ p = "provisioning" => DryRun \/ infra[c].version = info[c].nextVersion
    /\ p \in {"decommission", "decommissioning"} => Leaving(info[c].cluster)
    /\ p = "report" =>
          \/ DryRun \/ Leaving(info[c].cluster) \/ Behind(info[c].cluster, mirror)
          \/ Runs(c, info[c].cluster.current)

AppliedOf(c) ==
    /\ Queued(c) => updatePriority(info[c]) # updatePriorityNone
    /\ RecordOK(registry[c], mirror)
    /\ refresh = "apply" =>
          /\ RecordOK(snapshot[c], mirror)
          /\ Leaving(snapshot[c]) <=> Leaving(registry[c])
    /\ state[c] = "idle" => InfoOK(c) /\ TargetOK(c)
    /\ \A w \in Workers : job[w] = c => InfoOK(c) /\ HeldOK(c, pc[w])
    /\ \/ Leaving(registry[c]) \/ Behind(registry[c], head)
       \/ Runs(c, registry[c].current)

AppliedInv == \A c \in Clusters : AppliedOf(c)

\* Versions are records of four fields.
LEMMA SameVersion ==
    ASSUME NEW u \in Versions, NEW v \in Versions,
           u.config = v.config, u.spec = v.spec, u.blocked = v.blocked,
           u.lifecycle = v.lifecycle
    PROVE  u = v
  BY DEF Versions

\* A cluster that is queued for an update is behind, or to be removed.
LEMMA UrgentBehind ==
    ASSUME TypeOK, NEW c \in Clusters, TargetOK(c), RecordOK(info[c].cluster, mirror),
           updatePriority(info[c]) # updatePriorityNone
    PROVE  /\ ~info[c].cluster.blocked
           /\ Leaving(info[c].cluster) \/ Behind(info[c].cluster, mirror)
  <1> DEFINE x == info[c].cluster
             v == info[c].nextVersion
  <1>1. /\ x \in Records /\ v \in Versions \cup {NoVersion} /\ NumbersOf(c)
        /\ info[c].nextError \in BOOLEAN
    BY Numbers DEF TypeOK, Infos
  <1>2. /\ x.current \in Versions \cup {NoVersion} /\ x.current.spec \in Int
        /\ x.current.config \in Int /\ x.blocked \in BOOLEAN
    BY <1>1, RecordFields DEF Records
  <1>3. ~x.blocked
    BY DEF updatePriority, updateBlocked
  <1> SUFFICES ASSUME ~Leaving(x), ~Behind(x, mirror) PROVE FALSE
    BY <1>3
  <1>4. x.current # NoVersion
    BY <1>1, NoVersionFields DEF Behind, NumbersOf
  <1>5. /\ ~x.current.blocked /\ x.current.spec \notin BadSpecs
        /\ x.current.spec = x.spec /\ x.current.config = mirror
        /\ x.current.lifecycle = x.lifecycle
    BY <1>1, <1>2, <1>4 DEF RecordOK, CurrentOK, Behind, NumbersOf
  <1>6. ~info[c].nextError /\ x.next = NoVersion
    BY <1>5 DEF TargetOK, RecordOK
  <1>7. v # x.current
    BY <1>3, <1>6 DEF updatePriority, updateBlocked, Leaving
  <1>8. /\ v # NoVersion /\ v.spec = x.spec /\ v.blocked = x.blocked
        /\ v.lifecycle = x.lifecycle /\ v.config <= mirror /\ x.current.config <= v.config
    BY <1>6 DEF TargetOK
  <1>9. v \in Versions /\ x.current \in Versions
    BY <1>1, <1>2, <1>4, <1>8
  <1>10. v.config = x.current.config
    BY <1>1, <1>2, <1>5, <1>8 DEF NumbersOf
  <1>11. v.blocked = x.current.blocked
    <2>1. v.blocked \in BOOLEAN /\ x.current.blocked \in BOOLEAN
      BY <1>9 DEF Versions
    <2> QED
      BY <1>3, <1>5, <1>8, <2>1
  <1> QED
    BY <1>5, <1>7, <1>8, <1>9, <1>10, <1>11, SameVersion

\* The numbers in a record, and the ones compared with them.
RecordNumbers(r) ==
    r.spec \in Nat /\ r.current.spec \in Int /\ r.current.config \in Int

AllNumbers(c) ==
    /\ NumbersOf(c) /\ RecordNumbers(registry[c]) /\ RecordNumbers(snapshot[c])
    /\ RecordNumbers(info[c].cluster)

LEMMA AppliedNumbers ==
    ASSUME TypeOK, NEW c \in Clusters
    PROVE  AllNumbers(c)
  <1>1. /\ registry[c] \in Records /\ snapshot[c] \in Records /\ info[c].cluster \in Records
    <2>1. info[c] \in Infos
      BY DEF TypeOK
    <2> QED
      BY <2>1 DEF TypeOK, Infos
  <1> QED
    BY <1>1, Numbers, RecordFields DEF AllNumbers, RecordNumbers

\* What is behind stays behind when the configuration or the record moves on.
LEMMA StaysBehind ==
    ASSUME NEW r, NEW s, NEW j \in Int, NEW k \in Int, j <= k,
           RecordNumbers(r), RecordNumbers(s), r.spec <= s.spec,
           s.current = r.current, s.lifecycle = r.lifecycle, Behind(r, j)
    PROVE  Behind(s, k)
  BY DEF Behind, RecordNumbers

LEMMA StaysOK ==
    ASSUME NEW r, NEW s, NEW j \in Int, NEW k \in Int, j <= k,
           RecordNumbers(r), RecordNumbers(s), r.spec <= s.spec,
           s.current = r.current, s.lifecycle = r.lifecycle, s.next = r.next, RecordOK(r, j)
    PROVE  RecordOK(s, k)
  <1>1. CurrentOK(s, k)
    BY DEF RecordOK, CurrentOK, RecordNumbers
  <1>2. s.next # NoVersion => Behind(s, k)
    BY StaysBehind DEF RecordOK
  <1> QED
    BY <1>1, <1>2 DEF RecordOK

\* What the steps of the lemmas below have in common.
Moving(c) ==
    /\ AllNumbers(c) /\ AllNumbers(c)' /\ ListInv /\ ListInv' /\ TypeOK
    /\ mirror <= head /\ mirror' <= head' /\ mirror <= mirror' /\ head <= head'
    /\ OrderOf(c) /\ AppliedOf(c)

\* Data in memory that is not changed stays right while the mirror moves on.
LEMMA SameInfoOK ==
    ASSUME NEW c, Moving(c), info'[c] = info[c], Leaving(registry[c])' <=> Leaving(registry[c])
    PROVE  /\ InfoOK(c) => InfoOK(c)'
           /\ TargetOK(c) => TargetOK(c)'
           /\ Behind(info[c].cluster, mirror) => Behind(info[c].cluster, mirror)'
  <1>1. /\ RecordNumbers(info[c].cluster) /\ RecordNumbers(info'[c].cluster)
        /\ mirror \in Int /\ mirror' \in Int /\ mirror <= mirror'
        /\ info[c].nextVersion.config \in Int
    BY DEF Moving, AllNumbers, NumbersOf
  <1>2. info[c].cluster.spec <= info'[c].cluster.spec
    BY <1>1 DEF RecordNumbers
  <1>3. RecordOK(info[c].cluster, mirror) => RecordOK(info'[c].cluster, mirror')
    BY <1>1, <1>2, StaysOK
  <1>4. Behind(info[c].cluster, mirror) => Behind(info'[c].cluster, mirror')
    BY <1>1, <1>2, StaysBehind
  <1>5. InfoOK(c) => InfoOK(c)'
    BY <1>3 DEF InfoOK
  <1>6. TargetOK(c) => TargetOK(c)'
    BY <1>1 DEF TargetOK
  <1> QED
    BY <1>4, <1>5, <1>6

LEMMA SameHeldOK ==
    ASSUME NEW c, Moving(c), WorldSame(c), info'[c] = info[c], NEW p, HeldOK(c, p)
    PROVE  HeldOK(c, p)'
  <1>1. /\ TargetOK(c) => TargetOK(c)'
        /\ Behind(info[c].cluster, mirror) => Behind(info[c].cluster, mirror)'
    BY SameInfoOK DEF WorldSame
  <1>2. Behind(registry[c], mirror) => Behind(registry'[c], mirror')
    <2>1. /\ RecordNumbers(registry[c]) /\ mirror \in Int /\ mirror' \in Int
          /\ mirror <= mirror' /\ registry'[c] = registry[c]
          /\ registry[c].spec <= registry'[c].spec
      BY DEF Moving, AllNumbers, NumbersOf, WorldSame
    <2> QED
      BY <2>1, StaysBehind
  <1>3. Runs(c, info[c].cluster.current) => Runs(c, info[c].cluster.current)'
    BY DEF Runs, WorldSame
  <1> QED
    BY <1>1, <1>2, <1>3 DEF HeldOK, WorldSame

\* The registry's own part, when nothing of the cluster changes.
LEMMA SameRegistryOK ==
    ASSUME NEW c, Moving(c), WorldSame(c)
    PROVE  /\ RecordOK(registry[c], mirror)'
           /\ \/ Leaving(registry[c])' \/ Behind(registry[c], head)'
              \/ Runs(c, registry[c].current)'
           /\ Leaving(registry[c])' <=> Leaving(registry[c])
  <1>1. /\ RecordNumbers(registry[c]) /\ mirror \in Int /\ mirror' \in Int /\ head \in Int
        /\ mirror <= mirror' /\ registry'[c] = registry[c] /\ head' \in Int /\ head <= head'
        /\ registry[c].spec <= registry'[c].spec
    BY DEF Moving, AllNumbers, NumbersOf, WorldSame
  <1>2. RecordOK(registry'[c], mirror')
    BY <1>1, StaysOK DEF Moving, AppliedOf
  <1>3. Behind(registry[c], head) => Behind(registry'[c], head')
    BY <1>1, StaysBehind
  <1> QED
    BY <1>1, <1>2, <1>3 DEF Moving, AppliedOf, Runs, WorldSame

\* Steps that leave the cluster's entry, and what runs, alone.
LEMMA QuietStep ==
    ASSUME NEW c, Moving(c), WorldSame(c), ListSame(c), HeldSame(c),
           refresh' = "apply" =>
              \/ refresh = "apply" /\ snapshot'[c] = snapshot[c]
              \/ snapshot'[c] = registry[c]
    PROVE  AppliedOf(c)'
  <1>1. /\ RecordOK(registry[c], mirror)'
        /\ \/ Leaving(registry[c])' \/ Behind(registry[c], head)'
           \/ Runs(c, registry[c].current)'
        /\ Leaving(registry[c])' <=> Leaving(registry[c])
    BY SameRegistryOK
  <1>2. InfoOK(c) /\ TargetOK(c) => InfoOK(c)' /\ TargetOK(c)'
    BY <1>1, SameInfoOK DEF ListSame
  <1>3. ASSUME NEW w \in Workers, job'[w] = c PROVE InfoOK(c)' /\ HeldOK(c, pc[w])'
    <2>1. job[w] = c /\ pc'[w] = pc[w]
      BY <1>3 DEF HeldSame
    <2>2. InfoOK(c) /\ HeldOK(c, pc[w])
      BY <2>1 DEF Moving, AppliedOf
    <2>3. PICK p : p = pc[w]
      OBVIOUS
    <2>4. HeldOK(c, p)'
      BY <2>2, <2>3, SameHeldOK DEF ListSame
    <2>5. HeldOK(c, pc[w])'
      BY <2>1, <2>3, <2>4
    <2> QED
      BY <1>1, <2>2, <2>5, SameInfoOK DEF ListSame
  <1>4. refresh' = "apply" =>
           RecordOK(snapshot[c], mirror)' /\ (Leaving(snapshot[c])' <=> Leaving(registry[c])')
    <2>1. CASE refresh = "apply" /\ snapshot'[c] = snapshot[c]
      <3>1. /\ RecordNumbers(snapshot[c]) /\ mirror \in Int /\ mirror' \in Int
            /\ mirror <= mirror' /\ snapshot[c].spec <= snapshot'[c].spec
            /\ RecordOK(snapshot[c], mirror) /\ (Leaving(snapshot[c]) <=> Leaving(registry[c]))
        BY <2>1 DEF Moving, AllNumbers, NumbersOf, AppliedOf
      <3>2. RecordOK(snapshot'[c], mirror')
        BY <2>1, <3>1, StaysOK
      <3> QED
        BY <1>1, <2>1, <3>1, <3>2
    <2>2. CASE snapshot'[c] = registry[c]
      BY <1>1, <2>2 DEF WorldSame
    <2> QED
      BY <2>1, <2>2
  <1>5. Queued(c)' => updatePriority(info'[c]) # updatePriorityNone
    BY DEF Moving, AppliedOf, ListSame
  <1>6. state'[c] = "idle" => InfoOK(c)' /\ TargetOK(c)'
    BY <1>2 DEF Moving, AppliedOf, ListSame
  <1> QED
    BY <1>1, <1>3, <1>4, <1>5, <1>6 DEF AppliedOf

LEMMA RefreshedStep ==
    ASSUME NEW c \in Clusters, Moving(c), Refreshed(c)
    PROVE  AppliedOf(c)'
  <1>1. refresh = "apply" /\ refresh' = "wait" /\ WorldSame(c) /\ HeldSame(c) /\ mirror' = mirror
    BY DEF Refreshed
  <1>2. CASE state[c] = "processing" /\ ListSame(c)
    BY <1>1, <1>2, QuietStep
  <1>3. CASE state[c] # "processing"
    <2>1. \A w \in Workers : job'[w] # c
      BY <1>1, <1>3 DEF HeldSame, Moving, ListInv, ListConsistent, MarkedWhileHeld
    <2>2. /\ RecordOK(registry[c], mirror)'
          /\ \/ Leaving(registry[c])' \/ Behind(registry[c], head)'
             \/ Runs(c, registry[c].current)'
          /\ Leaving(registry[c])' <=> Leaving(registry[c])
      BY <1>1, SameRegistryOK
    <2>3. CASE state'[c] = "absent" /\ ~Queued(c)'
      BY <1>1, <2>1, <2>2, <2>3 DEF AppliedOf
    <2>4. CASE /\ info'[c] = ClusterInfo(snapshot[c], mirror) /\ state'[c] = "idle"
               /\ Queued(c)' => updatePriority(info'[c]) # updatePriorityNone
      <3>1. info'[c].cluster = snapshot[c]
        BY <2>4, NewInfo
      <3>2. RecordOK(snapshot[c], mirror) /\ (Leaving(snapshot[c]) <=> Leaving(registry[c]))
        BY <1>1 DEF Moving, AppliedOf
      <3>3. InfoOK(c)'
        BY <1>1, <2>2, <3>1, <3>2 DEF InfoOK
      <3>4. snapshot[c] \in Records
        BY DEF Moving, TypeOK
      <3>5. snapshot[c].lifecycle # ""
        BY <3>4 DEF Records, Lifecycles
      <3>6. snapshot[c].current.config <= mirror
        <4>1. mirror \in Nat /\ RecordNumbers(snapshot[c])
          BY DEF Moving, AllNumbers, NumbersOf
        <4>2. snapshot[c].current = NoVersion => snapshot[c].current.config = -1
          BY NoVersionFields
        <4> QED
          BY <3>2, <4>1, <4>2 DEF RecordOK, CurrentOK, RecordNumbers
      <3>7. /\ info'[c].nextError <=> snapshot[c].spec \in BadSpecs
            /\ ~info'[c].nextError => info'[c].nextVersion = VersionOf(snapshot[c], mirror)
        <4>1. info'[c] = ClusterInfo(snapshot[c], mirror)
          BY <2>4
        <4>2. /\ ClusterInfo(snapshot[c], mirror).nextError <=> snapshot[c].spec \in BadSpecs
              /\ ~ClusterInfo(snapshot[c], mirror).nextError =>
                    ClusterInfo(snapshot[c], mirror).nextVersion = VersionOf(snapshot[c], mirror)
          BY NewInfo
        <4> QED
          BY <4>1, <4>2, Zenon
      <3>8. VersionOf(snapshot[c], mirror) # NoVersion
        BY <3>5 DEF VersionOf, NoVersion
      <3>9. mirror \in Nat
        BY DEF Moving, AllNumbers, NumbersOf
      <3>10. TargetOK(c)'
        BY <1>1, <3>1, <3>6, <3>7, <3>8, <3>9, NewInfo DEF TargetOK
      <3> QED
        BY <1>1, <2>1, <2>2, <2>4, <3>3, <3>10 DEF AppliedOf
    <2> QED
      BY <1>3, <2>3, <2>4 DEF Refreshed
  <1> QED
    BY <1>2, <1>3 DEF Refreshed

\* The parts of the invariant that matter while a worker has the cluster.
LEMMA HeldApplied ==
    ASSUME NEW c \in Clusters, Moving(c), NEW w \in Workers, Works(c, w),
           RecordOK(registry[c], mirror)',
           Leaving(registry[c])' <=> Leaving(registry[c]),
           InfoOK(c)', HeldOK(c, pc[w])',
           \/ Leaving(registry[c])' \/ Behind(registry[c], head)'
           \/ Runs(c, registry[c].current)'
    PROVE  AppliedOf(c)'
  <1>1. /\ state'[c] = "processing" /\ RefreshSame /\ \A v \in Workers : job'[v] = c => v = w
    BY DEF Works
  <1>2. ~Queued(c)'
    BY <1>1 DEF Moving, ListInv, ListConsistent, PendingIdle, Queued
  <1>3. \A v \in Workers : job'[v] = c => InfoOK(c)' /\ HeldOK(c, pc[v])'
    BY <1>1
  <1>4. refresh' = "apply" =>
           RecordOK(snapshot[c], mirror)' /\ (Leaving(snapshot[c])' <=> Leaving(registry[c])')
    BY <1>1 DEF RefreshSame, Moving, AppliedOf
  <1> QED
    BY <1>1, <1>2, <1>3, <1>4 DEF AppliedOf

LEMMA PickedStep ==
    ASSUME NEW c \in Clusters, Moving(c), NEW w \in Workers, Picked(c, w)
    PROVE  AppliedOf(c)'
  <1>1. /\ WorldSame(c) /\ RefreshSame /\ info'[c] = info[c] /\ state'[c] = "processing"
        /\ Queued(c) /\ state[c] = "idle"
        /\ pc'[w] = "start" /\ \A v \in Workers : job'[v] = c => v = w
    BY DEF Picked
  <1>2. ~Queued(c)'
    BY <1>1 DEF Moving, ListInv, ListConsistent, PendingIdle, Queued
  <1>3. /\ RecordOK(registry[c], mirror)'
        /\ \/ Leaving(registry[c])' \/ Behind(registry[c], head)'
           \/ Runs(c, registry[c].current)'
        /\ Leaving(registry[c])' <=> Leaving(registry[c])
    BY <1>1, SameRegistryOK
  <1>4. InfoOK(c) /\ TargetOK(c) /\ updatePriority(info[c]) # updatePriorityNone
    BY <1>1 DEF Moving, AppliedOf
  <1>5. InfoOK(c)' /\ TargetOK(c)'
    BY <1>1, <1>3, <1>4, SameInfoOK
  <1>6. /\ ~info[c].cluster.blocked
        /\ Leaving(info[c].cluster) \/ Behind(info[c].cluster, mirror)
    BY <1>4, UrgentBehind DEF Moving, InfoOK
  <1>7. HeldOK(c, pc[w])'
    BY <1>1, <1>5, <1>6 DEF HeldOK, RefreshSame
  <1>8. refresh' = "apply" =>
           RecordOK(snapshot[c], mirror)' /\ (Leaving(snapshot[c])' <=> Leaving(registry[c])')
    BY <1>1, <1>3 DEF RefreshSame, Moving, AppliedOf
  <1> QED
    BY <1>1, <1>2, <1>3, <1>5, <1>7, <1>8 DEF AppliedOf

\* Steps between the announcement and the report that leave the record in hand
\* as it is.
LEMMA UnwrittenStep ==
    ASSUME NEW c \in Clusters, Moving(c), NEW w \in Workers, Works(c, w),
           StartedStep(c, w) \/ FailedStep(c, w)
    PROVE  AppliedOf(c)'
  <1>1. WorldSame(c) /\ info'[c] = info[c] /\ RefreshSame
    BY DEF StartedStep, FailedStep, Works
  <1>2. /\ RecordOK(registry[c], mirror)'
        /\ \/ Leaving(registry[c])' \/ Behind(registry[c], head)'
           \/ Runs(c, registry[c].current)'
        /\ Leaving(registry[c])' <=> Leaving(registry[c])
    BY <1>1, SameRegistryOK
  <1>3. InfoOK(c) /\ HeldOK(c, pc[w])
    BY DEF Works, Moving, AppliedOf
  <1>4. pc[w] \notin {"report", "processed"}
    BY DEF StartedStep, FailedStep
  <1>5. /\ ~info[c].cluster.blocked /\ TargetOK(c)
        /\ Leaving(info[c].cluster) \/ Behind(info[c].cluster, mirror)
    BY <1>3, <1>4 DEF HeldOK
  <1>6. InfoOK(c)' /\ TargetOK(c)'
    BY <1>1, <1>2, <1>3, <1>5, SameInfoOK
  <1>7. \/ pc'[w] = "report"
        \/ /\ pc'[w] = "announce" /\ ~info[c].nextError
           /\ info[c].cluster.lifecycle \in {"requested", "ready"}
        \/ pc'[w] = "decommission" /\ info[c].cluster.lifecycle = "decommission-requested"
    BY DEF StartedStep, FailedStep
  <1>8. info[c].cluster.lifecycle \in {"requested", "ready"} => ~Leaving(info[c].cluster)
    BY DEF Leaving
  <1>9. info[c].cluster.lifecycle = "decommission-requested" => Leaving(info[c].cluster)
    BY DEF Leaving
  <1>10. HeldOK(c, pc[w])'
    BY <1>1, <1>5, <1>6, <1>7, <1>8, <1>9 DEF HeldOK, RefreshSame
  <1> QED
    BY <1>2, <1>6, <1>10, HeldApplied

LEMMA BeginStep ==
    ASSUME NEW c \in Clusters, Moving(c), NEW w \in Workers, Works(c, w),
           BegunStep(c, w) \/ DecommissionStep(c, w)
    PROVE  AppliedOf(c)'
  <1>1. registry'[c] = registry[c] /\ info'[c] = info[c] /\ RefreshSame
    BY DEF BegunStep, DecommissionStep, Works
  <1>2. InfoOK(c) /\ HeldOK(c, pc[w])
    BY DEF Works, Moving, AppliedOf
  <1>3. /\ RecordOK(registry[c], mirror)' /\ (Leaving(registry[c])' <=> Leaving(registry[c]))
    BY <1>1 DEF RefreshSame, Moving, AppliedOf
  <1>4. InfoOK(c)' /\ (TargetOK(c) => TargetOK(c)')
    BY <1>1, <1>2, <1>3, SameInfoOK
  <1>5. HeldOK(c, pc[w])'
    <2>1. CASE BegunStep(c, w)
      <3>1. DryRun \/ infra'[c].version = info[c].nextVersion
        BY <2>1 DEF BegunStep
      <3> QED
        BY <1>1, <1>2, <1>4, <2>1, <3>1 DEF HeldOK, BegunStep, RefreshSame
    <2>2. CASE DecommissionStep(c, w)
      BY <1>1, <1>2, <1>4, <2>2 DEF HeldOK, DecommissionStep, RefreshSame
    <2> QED
      BY <2>1, <2>2
  <1>6. \/ Leaving(registry[c])' \/ Behind(registry[c], head)'
        \/ Runs(c, registry[c].current)'
    <2>1. CASE infra'[c] = infra[c]
      BY <1>1, <2>1, SameRegistryOK DEF WorldSame
    <2>2. CASE BegunStep(c, w) /\ ~DryRun
      <3>1. Behind(registry[c], mirror)
        BY <1>2, <2>2 DEF BegunStep, HeldOK
      <3>2. /\ RecordNumbers(registry[c]) /\ mirror \in Int /\ head' \in Int
            /\ mirror <= head' /\ registry[c].spec <= registry'[c].spec
        BY <1>1 DEF RefreshSame, Moving, AllNumbers, NumbersOf, RecordNumbers
      <3>3. Behind(registry'[c], head')
        BY <1>1, <3>1, <3>2, StaysBehind
      <3> QED
        BY <3>3
    <2>3. CASE DecommissionStep(c, w)
      BY <1>1, <1>2, <2>3 DEF DecommissionStep, HeldOK, InfoOK
    <2> QED
      BY <2>1, <2>2, <2>3 DEF BegunStep
  <1> QED
    BY <1>3, <1>4, <1>5, <1>6, HeldApplied

\* A record that a worker writes is right and behind, or what runs, if the one in
\* its hands is: the registry has moved on at most.
LEMMA WriteStep ==
    ASSUME NEW c, Moving(c), NEW x, RecordNumbers(x), x.spec <= registry[c].spec,
           RecordOK(x, mirror), Leaving(x) <=> Leaving(registry[c]), RefreshSame,
           registry'[c] = registry[c] \/ Written(c, x), infra'[c] = infra[c],
           Leaving(x) \/ Behind(x, mirror) \/ Runs(c, x.current)
    PROVE  /\ RecordOK(registry[c], mirror)'
           /\ Leaving(registry[c])' <=> Leaving(registry[c])
           /\ \/ Leaving(registry[c])' \/ Behind(registry[c], head)'
              \/ Runs(c, registry[c].current)'
           /\ Written(c, x) /\ Behind(x, mirror) => Behind(registry[c], mirror)'
  <1>1. CASE registry'[c] = registry[c] /\ ~Written(c, x)
    BY <1>1, SameRegistryOK DEF WorldSame
  <1>2. CASE Written(c, x)
    <2>1. /\ registry'[c].spec = registry[c].spec /\ registry'[c].lifecycle = x.lifecycle
          /\ registry'[c].current = x.current /\ registry'[c].next = x.next
      BY <1>2 DEF Written
    <2>2. /\ RecordNumbers(registry'[c]) /\ mirror \in Int /\ head \in Int
          /\ mirror <= mirror /\ mirror <= head /\ mirror' = mirror /\ head' = head
          /\ x.spec <= registry'[c].spec
      BY <2>1 DEF Moving, AllNumbers, NumbersOf, RefreshSame
    <2>3. RecordOK(registry'[c], mirror)
      BY <2>1, <2>2, StaysOK
    <2>4. Behind(x, mirror) => Behind(registry'[c], mirror) /\ Behind(registry'[c], head)
      BY <2>1, <2>2, StaysBehind
    <2>5. Leaving(registry'[c]) <=> Leaving(x)
      BY <2>1 DEF Leaving
    <2>6. Runs(c, x.current) => Runs(c, registry[c].current)'
      BY <2>1 DEF Runs
    <2> QED
      BY <2>2, <2>3, <2>4, <2>5, <2>6
  <1> QED
    BY <1>1, <1>2

LEMMA AnnounceStep ==
    ASSUME NEW c \in Clusters, Moving(c), NEW w \in Workers, Works(c, w), AnnouncedStep(c, w)
    PROVE  AppliedOf(c)'
  <1> DEFINE x == info[c].cluster
             y == info'[c].cluster
  <1>1. /\ infra'[c] = infra[c] /\ RefreshSame /\ pc[w] = "announce"
        /\ y.spec = x.spec /\ y.blocked = x.blocked /\ y.lifecycle = x.lifecycle
        /\ y.current = x.current /\ y.next = info[c].nextVersion
        /\ info'[c].nextVersion = info[c].nextVersion /\ info'[c].nextError = info[c].nextError
    BY DEF AnnouncedStep, SameTarget, SameRecord, Works
  <1>2. InfoOK(c) /\ HeldOK(c, pc[w]) /\ state[c] = "processing"
    BY DEF Works, Moving, AppliedOf
  <1>3. /\ ~x.blocked /\ TargetOK(c) /\ Behind(x, mirror) /\ ~info[c].nextError /\ ~Leaving(x)
    BY <1>1, <1>2 DEF HeldOK
  <1>4. /\ Behind(y, mirror) /\ ~Leaving(y) /\ RecordOK(y, mirror)
    BY <1>1, <1>2, <1>3 DEF Behind, Leaving, RecordOK, CurrentOK, InfoOK
  <1>5. /\ RecordNumbers(y) /\ y.spec <= registry[c].spec /\ (Leaving(y) <=> Leaving(registry[c]))
    BY <1>1, <1>2, <1>3, <1>4 DEF Moving, AllNumbers, RecordNumbers, OrderOf, InfoOK
  <1>6. registry'[c] = registry[c] \/ Written(c, y)
    BY DEF AnnouncedStep
  <1> HIDE DEF x, y
  <1>7. /\ RecordOK(registry[c], mirror)'
        /\ Leaving(registry[c])' <=> Leaving(registry[c])
        /\ \/ Leaving(registry[c])' \/ Behind(registry[c], head)'
           \/ Runs(c, registry[c].current)'
        /\ Written(c, y) => Behind(registry[c], mirror)'
    BY <1>1, <1>4, <1>5, <1>6, WriteStep
  <1>8. mirror' = mirror
    BY <1>1 DEF RefreshSame
  <1>9. InfoOK(c)'
    BY <1>4, <1>5, <1>7, <1>8 DEF InfoOK, y
  <1>10. TargetOK(c)'
    BY <1>1, <1>3, <1>8 DEF TargetOK, x, y
  <1>11. \/ pc'[w] = "report"
         \/ pc'[w] = "provision" /\ (DryRun \/ Written(c, y))
    BY DEF AnnouncedStep, y
  <1>12. HeldOK(c, pc[w])'
    BY <1>1, <1>3, <1>4, <1>7, <1>8, <1>10, <1>11 DEF HeldOK, x, y
  <1> QED
    BY <1>7, <1>9, <1>12, HeldApplied

LEMMA FinishStep ==
    ASSUME NEW c \in Clusters, Moving(c), NEW w \in Workers, Works(c, w),
           ProvisionedStep(c, w) \/ DecommissionedStep(c, w)
    PROVE  AppliedOf(c)'
  <1>1. registry'[c] = registry[c] /\ RefreshSame /\ pc'[w] = "report"
    BY DEF ProvisionedStep, DecommissionedStep, Works
  <1>2. InfoOK(c) /\ HeldOK(c, pc[w])
    BY DEF Works, Moving, AppliedOf
  <1>3. /\ RecordOK(registry[c], mirror)' /\ (Leaving(registry[c])' <=> Leaving(registry[c]))
    BY <1>1 DEF RefreshSame, Moving, AppliedOf
  <1>4. CASE ProvisionedStep(c, w)
    <2>1. /\ info'[c].cluster.spec = info[c].cluster.spec
          /\ info'[c].cluster.lifecycle = "ready"
          /\ info'[c].cluster.current = info[c].nextVersion
          /\ info'[c].cluster.next = NoVersion
      BY <1>2, <1>4 DEF ProvisionedStep, SameTarget, HeldOK
    <2>2. /\ ~info[c].nextError /\ ~info[c].cluster.blocked /\ TargetOK(c)
          /\ ~Leaving(info[c].cluster)
          /\ DryRun \/ (Behind(registry[c], mirror) /\ infra[c].version = info[c].nextVersion)
      BY <1>2, <1>4 DEF ProvisionedStep, HeldOK
    <2>3. CurrentOK(info'[c].cluster, mirror)
      <3>1. info[c].cluster.spec \in Nat
        BY DEF Moving, AllNumbers, NumbersOf
      <3> QED
        BY <2>1, <2>2, <3>1 DEF CurrentOK, TargetOK
    <2>4. InfoOK(c)'
      BY <1>1, <1>2, <1>3, <2>1, <2>2, <2>3 DEF InfoOK, RecordOK, Leaving, RefreshSame
    <2>5. DryRun \/ Runs(c, info[c].cluster.current)'
      BY <1>4, <2>1, <2>2 DEF ProvisionedStep, Runs
    <2>6. HeldOK(c, pc[w])'
      BY <1>1, <2>5 DEF HeldOK
    <2>7. \/ Leaving(registry[c])' \/ Behind(registry[c], head)'
          \/ Runs(c, registry[c].current)'
      <3>1. CASE DryRun
        BY <1>1, <1>4, <3>1, SameRegistryOK DEF ProvisionedStep, WorldSame
      <3>2. CASE ~DryRun
        <4>1. /\ RecordNumbers(registry[c]) /\ mirror \in Int /\ head' \in Int
              /\ mirror <= head' /\ registry[c].spec <= registry'[c].spec
          BY <1>1 DEF RefreshSame, Moving, AllNumbers, NumbersOf, RecordNumbers
        <4>2. Behind(registry'[c], head')
          BY <1>1, <2>2, <3>2, <4>1, StaysBehind
        <4> QED
          BY <4>2
      <3> QED
        BY <3>1, <3>2
    <2> QED
      BY <1>3, <2>4, <2>6, <2>7, HeldApplied
  <1>5. CASE DecommissionedStep(c, w)
    <2>1. /\ info'[c].cluster.lifecycle = "decommissioned"
          /\ info'[c].cluster.current = NoVersion /\ info'[c].cluster.next = NoVersion
          /\ Leaving(info[c].cluster)
      BY <1>2, <1>5 DEF DecommissionedStep, HeldOK
    <2>2. Leaving(registry[c]) /\ Leaving(info'[c].cluster)
      BY <1>2, <2>1 DEF InfoOK, Leaving
    <2>3. InfoOK(c)'
      BY <1>1, <2>1, <2>2 DEF InfoOK, RecordOK, CurrentOK
    <2>4. HeldOK(c, pc[w])'
      BY <1>1, <2>2 DEF HeldOK
    <2> QED
      BY <1>1, <1>3, <2>2, <2>3, <2>4, HeldApplied
  <1> QED
    BY <1>4, <1>5

LEMMA ReportStep ==
    ASSUME NEW c \in Clusters, Moving(c), NEW w \in Workers, Works(c, w), ReportedStep(c, w)
    PROVE  AppliedOf(c)'
  <1> DEFINE x == info[c].cluster
             y == info'[c].cluster
  <1>1. /\ infra'[c] = infra[c] /\ RefreshSame /\ pc[w] = "report" /\ pc'[w] = "processed"
        /\ y.spec = x.spec /\ y.lifecycle = x.lifecycle
        /\ y.current = x.current /\ y.next = x.next
        /\ registry'[c] = registry[c] \/ (~DryRun /\ Written(c, x))
    BY DEF ReportedStep, SameTarget, SameRecord, Works
  <1>2. InfoOK(c) /\ HeldOK(c, pc[w]) /\ state[c] = "processing"
    BY DEF Works, Moving, AppliedOf
  <1>3. /\ RecordOK(x, mirror) /\ (Leaving(x) <=> Leaving(registry[c]))
        /\ DryRun \/ Leaving(x) \/ Behind(x, mirror) \/ Runs(c, x.current)
    BY <1>1, <1>2 DEF HeldOK, InfoOK
  <1>4. RecordNumbers(x) /\ x.spec <= registry[c].spec /\ mirror' = mirror
    BY <1>1, <1>2 DEF Moving, AllNumbers, OrderOf, RefreshSame
  <1>5. RecordOK(y, mirror) /\ (Leaving(y) <=> Leaving(x))
    BY <1>1, <1>3 DEF RecordOK, CurrentOK, Behind, Leaving
  <1> HIDE DEF x, y
  <1>6. /\ RecordOK(registry[c], mirror)'
        /\ Leaving(registry[c])' <=> Leaving(registry[c])
        /\ \/ Leaving(registry[c])' \/ Behind(registry[c], head)'
           \/ Runs(c, registry[c].current)'
    <2>1. CASE registry'[c] = registry[c]
      BY <1>1, <2>1, SameRegistryOK DEF WorldSame
    <2>2. CASE ~DryRun /\ Written(c, x)
      BY <1>1, <1>3, <1>4, <2>2, WriteStep
    <2> QED
      BY <1>1, <2>1, <2>2
  <1>7. InfoOK(c)'
    BY <1>3, <1>4, <1>5, <1>6 DEF InfoOK, y
  <1>8. HeldOK(c, pc[w])'
    BY <1>1 DEF HeldOK
  <1> QED
    BY <1>6, <1>7, <1>8, HeldApplied

LEMMA EditedStep ==
    ASSUME OnlyUpdates, NEW c \in Clusters, Moving(c), Edited(c)
    PROVE  AppliedOf(c)'
  <1>1. /\ infra'[c] = infra[c] /\ ListSame(c) /\ HeldSame(c) /\ RefreshSame
        /\ registry'[c].spec >= registry[c].spec
        /\ registry'[c].current = registry[c].current
        /\ registry'[c].next = registry[c].next
        /\ registry'[c].lifecycle = registry[c].lifecycle
    BY EditOn DEF Edited, OnlyUpdates, OnlyForward, Moving
  <1>2. /\ RecordNumbers(registry[c]) /\ RecordNumbers(registry'[c])
        /\ mirror' = mirror /\ head' = head /\ mirror \in Int /\ head \in Int
        /\ mirror <= mirror /\ head <= head
        /\ registry[c].spec <= registry'[c].spec
    BY <1>1 DEF Moving, AllNumbers, NumbersOf, RefreshSame, RecordNumbers
  <1>3. RecordOK(registry'[c], mirror)
    BY <1>1, <1>2, StaysOK DEF Moving, AppliedOf
  <1>4. /\ Behind(registry[c], mirror) => Behind(registry'[c], mirror)
        /\ Behind(registry[c], head) => Behind(registry'[c], head)
    BY <1>1, <1>2, StaysBehind
  <1>5. Leaving(registry'[c]) <=> Leaving(registry[c])
    BY <1>1 DEF Leaving
  <1>6. /\ InfoOK(c) => InfoOK(c)'
        /\ TargetOK(c) => TargetOK(c)'
    BY <1>1, <1>5, SameInfoOK DEF ListSame
  <1>7. ASSUME NEW w \in Workers, job'[w] = c PROVE InfoOK(c)' /\ HeldOK(c, pc[w])'
    <2>1. job[w] = c /\ pc'[w] = pc[w]
      BY <1>1, <1>7 DEF HeldSame
    <2>2. InfoOK(c) /\ HeldOK(c, pc[w])
      BY <2>1 DEF Moving, AppliedOf
    <2>3. Runs(c, info[c].cluster.current)' <=> Runs(c, info[c].cluster.current)
      BY <1>1 DEF Runs, ListSame
    <2> QED
      BY <1>1, <1>2, <1>4, <1>6, <2>1, <2>2, <2>3 DEF HeldOK, ListSame
  <1>8. Runs(c, registry[c].current) => Runs(c, registry[c].current)'
    BY <1>1 DEF Runs
  <1> QED
    BY <1>1, <1>2, <1>3, <1>4, <1>5, <1>6, <1>7, <1>8
       DEF AppliedOf, Moving, ListSame, RefreshSame

LEMMA LeftStep ==
    ASSUME NEW c \in Clusters, Moving(c), Released(c) \/ Restarted(c)
    PROVE  AppliedOf(c)'
  <1>1. /\ WorldSame(c) /\ state'[c] # "idle" /\ \A w \in Workers : job'[w] # c
        /\ mirror' = mirror
        /\ refresh' = "apply" => refresh = "apply" /\ snapshot' = snapshot
    BY DEF Released, Restarted, RefreshSame
  <1>2. ~Queued(c)'
    BY <1>1 DEF Moving, ListInv, ListConsistent, PendingIdle, Queued
  <1>3. /\ RecordOK(registry[c], mirror)'
        /\ \/ Leaving(registry[c])' \/ Behind(registry[c], head)'
           \/ Runs(c, registry[c].current)'
        /\ Leaving(registry[c])' <=> Leaving(registry[c])
    BY <1>1, SameRegistryOK
  <1>4. refresh' = "apply" =>
           RecordOK(snapshot[c], mirror)' /\ (Leaving(snapshot[c])' <=> Leaving(registry[c])')
    BY <1>1, <1>3 DEF Moving, AppliedOf
  <1> QED
    BY <1>1, <1>2, <1>3, <1>4 DEF AppliedOf

LEMMA AppliedStep ==
    ASSUME OnlyUpdates, NEW c \in Clusters, Moving(c), StepOn(c)
    PROVE  AppliedOf(c)'
  <1>1. CASE Elsewhere(c) \/ Mirrored(c) \/ Listed(c) \/ Pushed(c)
    BY <1>1, QuietStep DEF Elsewhere, Mirrored, Listed, Pushed, RefreshSame
  <1>2. CASE Refreshed(c)
    BY <1>2, RefreshedStep
  <1>3. ASSUME NEW w \in Workers, Picked(c, w) PROVE AppliedOf(c)'
    BY <1>3, PickedStep
  <1>4. ASSUME NEW w \in Workers, Works(c, w), WorkStep(c, w) PROVE AppliedOf(c)'
    BY <1>4, UnwrittenStep, BeginStep, AnnounceStep, FinishStep, ReportStep DEF WorkStep
  <1>5. CASE Released(c) \/ Restarted(c)
    BY <1>5, LeftStep
  <1>6. CASE Edited(c)
    BY <1>6, EditedStep
  <1> QED
    BY <1>1, <1>2, <1>3, <1>4, <1>5, <1>6 DEF StepOn

LEMMA HeadGrows ==
    ASSUME TypeOK, [Next]_vars
    PROVE  head <= head'
  <1>1. head \in Nat
    <2>1. head \in 0..MaxConfig /\ MaxConfig \in Nat
      BY ConstantsAssumption DEF TypeOK
    <2> QED
      BY <2>1
  <1>2. head' = head \/ head' = head + 1
    BY DEF Next, Refresh, RefreshUpdate, ListClusters, RefreshFails, UpdateAvailable,
           WorkerSteps, SelectNext, StartProcess, Announce, ProvisionBegins,
           DecommissionBegins, Report, ClusterProcessed, ProvisionerReturns, Provisioned,
           Decommissioned, ProvisionerFails, UserEdits, PushConfig, Restart, vars, worldVars
  <1> QED
    BY <1>1, <1>2

LEMMA AppliedInit ==
    ASSUME InitiallyRecorded
    PROVE  Init => AppliedInv
  <1> SUFFICES ASSUME Init, NEW c \in Clusters PROVE AppliedOf(c)
    BY DEF AppliedInv
  <1>1. /\ registry \in InitialRegistries /\ infra[c] \in InfraFor(registry[c])
        /\ state[c] = "absent" /\ refresh = "wait" /\ mirror = 0 /\ head = 0
        /\ pendingUpdate = << >> /\ \A w \in Workers : job[w] # c
    BY ConstantsAssumption DEF Init, InitManager
  <1>2. ~Queued(c)
    BY <1>1, EmptySeq DEF Queued
  <1>3. RecordOK(registry[c], 0)
    BY <1>1 DEF InitiallyRecorded
  <1>4. Behind(registry[c], 0) \/ Runs(c, registry[c].current)
    BY <1>1, <1>3 DEF RecordOK, InfraFor, Runs
  <1> QED
    BY <1>1, <1>2, <1>3, <1>4 DEF AppliedOf

LEMMA AppliedNext ==
    ASSUME OnlyUpdates
    PROVE  ForwardInv /\ ForwardInv' /\ AppliedInv /\ [Next]_vars => AppliedInv'
  <1> SUFFICES ASSUME ForwardInv, ForwardInv', AppliedInv, [Next]_vars, NEW c \in Clusters
               PROVE  AppliedOf(c)'
    BY DEF AppliedInv
  <1>1. TypeOK /\ TypeOK' /\ ListInv /\ ListInv' /\ OrderInv /\ OrderInv'
    BY DEF ForwardInv
  <1>2. AllNumbers(c) /\ AllNumbers(c)'
    BY <1>1, AppliedNumbers, PTL
  <1>3. mirror <= head /\ mirror' <= head' /\ mirror <= mirror' /\ head <= head'
    BY <1>1, MirrorNext, HeadGrows DEF OrderInv
  <1>4. Moving(c)
    BY <1>1, <1>2, <1>3 DEF Moving, OrderInv, AppliedInv
  <1>5. StepOn(c)
    BY <1>1, StepsOn
  <1> QED
    BY <1>4, <1>5, AppliedStep

\* A cluster that nothing is going to touch any more is not left half updated:
\* wherever updates fail, workers are cancelled, the manager dies or answers of
\* the registry are lost, and however stale a refresh is, as long as users only
\* move clusters forward.
THEOREM SettledClustersApplied ==
    ASSUME OnlyUpdates, InitiallyForward, InitiallyRecorded
    PROVE  Spec => []SettledIsApplied
  <1>1. Init => AppliedInv
    BY AppliedInit
  <1>2. TypeOK /\ AppliedInv => SettledIsApplied
    <2> SUFFICES ASSUME TypeOK, AppliedInv, NEW c \in Clusters,
                        Wanted(c), Urgency(c) = updatePriorityNone
                 PROVE  infra[c] = [version |-> registry[c].current, complete |-> TRUE]
      BY DEF SettledIsApplied
    <2>1. ~Leaving(registry[c])
      BY DEF Wanted, Leaving
    <2>2. VersionOf(registry[c], head) = registry[c].current
      <3>1. /\ ClusterInfo(registry[c], head).cluster = registry[c]
            /\ ~ClusterInfo(registry[c], head).nextError
            /\ ClusterInfo(registry[c], head).nextVersion = VersionOf(registry[c], head)
        BY NewInfo DEF Wanted
      <3> QED
        BY <3>1 DEF Wanted, Urgency, updatePriority, updateBlocked, updatePriorityNone,
                    updatePriorityNormal, updatePriorityAlreadyUpdating,
                    updatePriorityDecommissionRequested
    <2>3. /\ registry[c].current.spec = registry[c].spec
          /\ registry[c].current.config = head
          /\ registry[c].current.lifecycle = registry[c].lifecycle
      BY <2>2, NewInfo
    <2>4. ~Behind(registry[c], head)
      <3>1. registry[c].spec \in Nat /\ head \in Nat
        BY Numbers DEF NumbersOf
      <3> QED
        BY <2>3, <3>1 DEF Behind
    <2> QED
      BY <2>1, <2>4 DEF AppliedInv, AppliedOf, Runs
  <1>3. OnlyForward
    BY DEF OnlyUpdates
  <1> QED
    BY <1>1, <1>2, <1>3, AppliedNext, ForwardInvariant, PTL DEF Spec, ForwardInv
=============================================================================
