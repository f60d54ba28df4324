------------------------------- MODULE Drain -------------------------------
(***************************************************************************)
(* KubernetesNodePoolManager.drain: all pods of a cordoned node are        *)
(* evicted, in parallel as long as that works, then one by one; a pod that *)
(* its PodDisruptionBudget (PDB) protects is deleted by force when enough  *)
(* time has passed since the drain started, since the last deletion by     *)
(* force, and since the pod and its siblings in the PDB were created.      *)
(*                                                                         *)
(* Time is counted in ages that stop growing at Horizon, beyond which no   *)
(* comparison of the code changes any more.  The start of the drain and    *)
(* the last deletion are kept in memory and in annotations of the node; a  *)
(* manager that crashed reads the annotations.                             *)
(***************************************************************************)
EXTENDS Integers, FiniteSets

CONSTANTS
    Pods,            \* the pods on the node when the drain starts
    Guarded,         \* the ones that a PDB covers, all by the same
    Unevictable,     \* the ones in more than one PDB, which are never evicted
    Budget,          \* the PDB allows that many pods to be unavailable
    InitialAges,     \* possible ages of the pods when the drain starts
    ForceEvictionGracePeriod, ForceEvictionInterval, MinPodLifetime,
    MinHealthyPDBSiblingLifetime, MinUnhealthyPDBSiblingLifetime,
    Horizon,         \* beyond all of these
    MaxFaults,       \* bound: crashes of the manager and failing calls
    MaxReplacements  \* bound: pods that are replaced by somebody else

ASSUME DrainAssumption ==
    /\ Guarded \subseteq Pods /\ Unevictable \subseteq Guarded
    /\ Budget \in Nat /\ MaxFaults \in Nat /\ MaxReplacements \in Nat
    /\ Horizon \in Nat
    /\ {ForceEvictionGracePeriod, ForceEvictionInterval, MinPodLifetime,
        MinHealthyPDBSiblingLifetime, MinUnhealthyPDBSiblingLifetime} \subseteq 0..Horizon
    /\ InitialAges \subseteq 0..Horizon

VARIABLES
    at,           \* where each pod is: on the "node", also when it is
                  \* "terminating", "missing", or "away" on another node,
                  \* where it is "leaving" when it is terminating
    ready,        \* the pods that are ready
    age,          \* time since each pod was created
    startNote,    \* the annotation drain-start, as its age; Never if absent
    forcedNote,   \* the annotation last-forced-drain, as its age
    sinceDrain,   \* time since a manager first began to drain the node
    pc,           \* where the manager is
    drainStart,   \* its variable drainStart, as an age
    lastForced,   \* its variable lastForcedTermination, as an age
    todo,         \* the pods of the list that it has still to try
    listedAge,    \* the age of each pod object in that list
    evicted,      \* evictParallel has evicted something
    faults, replacements

world == <<at, ready, age>>
notes == <<startNote, forcedNote>>
memory == <<drainStart, lastForced>>
pass == <<todo, listedAge, evicted>>
bounds == <<faults, replacements>>
vars == <<world, notes, sinceDrain, pc, memory, pass, bounds>>

Never == -1
Older(t) == IF t = Never \/ t = Horizon THEN t ELSE t + 1

OnNode == {p \in Pods : at[p] \in {"node", "terminating"}}
Step(from, to) == pc = from /\ pc' = to

-----------------------------------------------------------------------------
(* The Kubernetes API *)

\* A PDB counts the pods that are not ready or do not exist; it has no say on
\* a pod that is terminating anyway.
Allowed(p) ==
    \/ p \notin Guarded \/ at[p] = "terminating"
    \/ p \notin Unevictable /\ Cardinality(Guarded \ ready) < Budget

\* A pod that is evicted or deleted is gone when waitForPodTermination
\* returns, or it takes longer than its grace period and stays for a while.
Terminating(p) == IF p \in OnNode THEN "terminating" ELSE "leaving"

Gone(p) ==
    /\ \E place \in {"missing", Terminating(p)} : at' = [at EXCEPT ![p] = place]
    /\ ready' = ready \ {p}
    /\ UNCHANGED age

Terminates(p) ==
    /\ at[p] \in {"terminating", "leaving"}
    /\ at' = [at EXCEPT ![p] = "missing"]
    /\ UNCHANGED <<ready, age, notes, sinceDrain, pc, memory, pass, bounds>>

\* The owner of a pod creates it again, somewhere else and under its name.
Recreate(p) ==
    /\ at[p] = "missing"
    /\ at' = [at EXCEPT ![p] = "away"]
    /\ age' = [age EXCEPT ![p] = 0]
    /\ UNCHANGED <<ready, notes, sinceDrain, pc, memory, pass, bounds>>

BecomesReady(p) ==
    /\ at[p] = "away" /\ p \notin ready
    /\ ready' = ready \cup {p}
    /\ UNCHANGED <<at, age, notes, sinceDrain, pc, memory, pass, bounds>>

\* A pod of the node dies or is deleted by somebody else.
Replaced(p) ==
    /\ replacements < MaxReplacements
    /\ at[p] = "node"
    /\ Gone(p)
    /\ replacements' = replacements + 1
    /\ UNCHANGED <<notes, sinceDrain, pc, memory, pass, faults>>

Tick ==
    /\ age' = [p \in Pods |-> Older(age[p])]
    /\ listedAge' = [p \in Pods |-> Older(listedAge[p])]
    /\ startNote' = Older(startNote) /\ forcedNote' = Older(forcedNote)
    /\ sinceDrain' = Older(sinceDrain)
    /\ drainStart' = Older(drainStart) /\ lastForced' = Older(lastForced)
    /\ UNCHANGED <<at, ready, pc, todo, evicted, bounds>>

-----------------------------------------------------------------------------
(* drain *)

\* A bug: the annotation of an earlier drain is not used.
StartFromNow ==
    /\ Step("start", "fast")
    /\ drainStart' = 0
    /\ startNote' = drainStart'
    /\ lastForced' = forcedNote
    /\ sinceDrain' = IF sinceDrain = Never THEN 0 ELSE sinceDrain
    /\ UNCHANGED <<world, forcedNote, pass, bounds>>

\* The annotations are read, and the start is written if it was not there.
Start ==
    /\ Step("start", "fast")
    /\ drainStart' = IF startNote = Never THEN 0 ELSE startNote
    /\ startNote' = drainStart'
    /\ lastForced' = forcedNote
    /\ sinceDrain' = IF sinceDrain = Never THEN 0 ELSE sinceDrain
    /\ UNCHANGED <<world, forcedNote, pass, bounds>>

\* evictablePods, at the top of both loops.
List(from, to) ==
    /\ Step(from, IF OnNode = {} THEN "done" ELSE to)
    /\ todo' = OnNode
    /\ listedAge' = age
    /\ evicted' = FALSE
    /\ UNCHANGED <<world, notes, sinceDrain, memory, bounds>>

\* evictPod of a pod that is gone or has moved is a success.
Evict(p) == IF p \in OnNode THEN Allowed(p) /\ Gone(p) ELSE UNCHANGED world

EvictFast(p) ==
    /\ pc = "parallel" /\ p \in todo
    /\ todo' = todo \ {p}
    /\ \/ Evict(p) /\ evicted' = TRUE
       \/ p \in OnNode /\ ~Allowed(p) /\ UNCHANGED <<world, evicted>>
    /\ UNCHANGED <<notes, sinceDrain, pc, memory, listedAge, bounds>>

\* The fast loop goes on as long as something was evicted.
EvictedFast ==
    /\ todo = {}
    /\ Step("parallel", IF evicted THEN "fast" ELSE "slow")
    /\ UNCHANGED <<world, notes, sinceDrain, memory, pass, bounds>>

\* evictOrForceTerminatePod: the first pod that can be evicted ends the pass.
EvictSlow(p) ==
    /\ Step("onebyone", "slow") /\ p \in todo
    /\ Evict(p)
    /\ UNCHANGED <<notes, sinceDrain, memory, pass, bounds>>

Siblings(p) == {q \in Guarded \ {p} : p \in Guarded /\ at[q] # "missing"}

OldEnough(q) == age[q] >= IF q \in ready THEN MinHealthyPDBSiblingLifetime
                          ELSE MinUnhealthyPDBSiblingLifetime

\* A bug: siblings that are not ready are waited for.
AllowedWhenReady(p) ==
    /\ drainStart >= ForceEvictionGracePeriod
    /\ lastForced = Never \/ lastForced >= ForceEvictionInterval
    /\ listedAge[p] >= MinPodLifetime
    /\ \A q \in Siblings(p) : q \in ready /\ OldEnough(q)

forceTerminationAllowed(p) ==
    /\ drainStart >= ForceEvictionGracePeriod
    /\ lastForced = Never \/ lastForced >= ForceEvictionInterval
    /\ listedAge[p] >= MinPodLifetime
    /\ \A q \in Siblings(p) : OldEnough(q)

\* Its PDB protects the pod: delete it by force, or try the next one, also
\* when the siblings cannot be listed.
Refused(p) ==
    /\ pc = "onebyone" /\ p \in todo
    /\ p \in OnNode /\ ~Allowed(p)
    /\ \/ /\ forceTerminationAllowed(p)
          /\ pc' = "delete" /\ todo' = {p} /\ UNCHANGED faults
       \/ /\ ~forceTerminationAllowed(p)
          /\ todo' = todo \ {p} /\ UNCHANGED <<pc, faults>>
       \/ /\ faults < MaxFaults
          /\ faults' = faults + 1
          /\ todo' = todo \ {p} /\ UNCHANGED pc
    /\ UNCHANGED <<world, notes, sinceDrain, memory, listedAge, evicted, replacements>>

NoneTaken ==
    /\ todo = {}
    /\ Step("onebyone", "slow")
    /\ UNCHANGED <<world, notes, sinceDrain, memory, pass, bounds>>

\* deletePod deletes whatever has the name of the pod by now.
Delete(p) ==
    /\ Step("delete", "annotate") /\ p \in todo
    /\ IF at[p] = "missing" THEN UNCHANGED world ELSE Gone(p)
    /\ UNCHANGED <<notes, sinceDrain, memory, pass, bounds>>

Annotate ==
    /\ Step("annotate", "slow")
    /\ lastForced' = 0
    /\ forcedNote' = 0
    /\ UNCHANGED <<world, startNote, sinceDrain, drainStart, pass, bounds>>

\* The manager crashes, or the drain ends with an error; the next update of
\* the cluster drains the node again.
Crash ==
    /\ faults < MaxFaults
    /\ pc \notin {"start", "done"}
    /\ pc' = "start"
    /\ drainStart' = Never /\ lastForced' = Never
    /\ todo' = {} /\ evicted' = FALSE /\ listedAge' = age
    /\ faults' = faults + 1
    /\ UNCHANGED <<world, notes, sinceDrain, replacements>>

Progress ==
    \/ Start \/ List("fast", "parallel") \/ EvictedFast
    \/ List("slow", "onebyone") \/ NoneTaken \/ Annotate
    \/ \E p \in Pods : EvictFast(p) \/ EvictSlow(p) \/ Refused(p) \/ Delete(p)

Owners == \E p \in Pods : Recreate(p)
Kubelets == \E p \in Pods : Terminates(p)

Finished == pc = "done" /\ UNCHANGED vars

Init ==
    /\ at = [p \in Pods |-> "node"]
    /\ ready = Pods
    /\ age \in [Pods -> InitialAges]
    /\ startNote = Never /\ forcedNote = Never
    /\ sinceDrain = Never
    /\ pc = "start" /\ drainStart = Never /\ lastForced = Never
    /\ todo = {} /\ listedAge = age /\ evicted = FALSE
    /\ faults = 0 /\ replacements = 0

Next ==
    \/ Progress \/ Owners \/ Kubelets \/ Tick \/ Crash \/ Finished
    \/ \E p \in Pods : BecomesReady(p) \/ Replaced(p)

Spec == Init /\ [][Next]_vars

\* The drain goes on, pods that are told to end do, owners create their pods
\* again, and time passes; no pod needs to become ready.
FairSpec ==
    /\ Spec /\ WF_vars(Progress) /\ WF_vars(Tick)
    /\ WF_vars(Owners) /\ WF_vars(Kubelets)

-----------------------------------------------------------------------------
(* Properties *)

ForceDeleted(p) ==
    /\ pc = "delete" /\ pc' = "annotate"
    /\ at[p] \in {"node", "away"} /\ at'[p] \in {"missing", "terminating", "leaving"}

TimersKeptStep ==
    /\ \A p \in Pods : ForceDeleted(p) =>
          /\ sinceDrain >= ForceEvictionGracePeriod
          /\ forcedNote = Never \/ forcedNote >= ForceEvictionInterval
          /\ p \in OnNode => age[p] >= MinPodLifetime
    /\ pc = "start" /\ pc' = "fast" /\ startNote # Never => startNote' >= startNote

\* node_pool_manager.go: "Start forcefully evicting pods
\* <ForceEvictionGracePeriod> after node drain started", also when the manager
\* is restarted during the drain, and a restart does not begin a new period;
\* "Wait at least <ForceEvictionInterval> between force evictions to allow
\* controllers to catch up", as far as the annotation last-forced-drain, from
\* which a restarted manager goes on, records them; and "Only force evict pods
\* that are at least <MinPodLifetime> old", for pods that are still on the node
\* when they are deleted (deletePod deletes by name: a successor elsewhere may
\* be younger).
TimersKept == [][TimersKeptStep]_vars

\* The drain ends, whatever the PDBs say.
DrainEnds == <>(pc = "done")
=============================================================================
