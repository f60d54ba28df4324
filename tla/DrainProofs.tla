---------------------------- MODULE DrainProofs ----------------------------
(***************************************************************************)
(* What holds of every drain, whatever the pods, the budget and the times  *)
(* of the configuration: the timers of deletions by force are kept, also   *)
(* by a manager that is restarted.                                         *)
(***************************************************************************)
EXTENDS Drain, TLAPS

Age == 0..Horizon
Mark == Age \cup {Never}

Places == {"node", "terminating", "missing", "away", "leaving"}

TypeOK ==
    /\ at \in [Pods -> Places]
    /\ ready \subseteq Pods
    /\ age \in [Pods -> Age] /\ listedAge \in [Pods -> Age]
    /\ startNote \in Mark /\ forcedNote \in Mark /\ sinceDrain \in Mark
    /\ drainStart \in Mark /\ lastForced \in Mark
    /\ pc \in {"start", "fast", "parallel", "slow", "onebyone", "delete",
               "annotate", "done"}
    /\ todo \subseteq Pods
    /\ evicted \in BOOLEAN
    /\ faults \in Nat /\ replacements \in Nat

\* No annotation of the node claims a drain that began before the first one.
NoteInv == startNote # Never => sinceDrain >= startNote

\* What a manager that drains holds in memory is what the node's annotations
\* say: a manager that takes over goes on where this one stops.
MemoryInv == pc # "start" => drainStart = startNote /\ lastForced = forcedNote

\* A pod that is on the node is the one that was listed.
ListInv == \A p \in OnNode : age[p] >= listedAge[p]

\* The pod to be deleted has passed forceTerminationAllowed, and no time that
\* passes until it is deleted changes that.
DeleteInv == pc = "delete" =>
    /\ drainStart >= ForceEvictionGracePeriod
    /\ lastForced = Never \/ lastForced >= ForceEvictionInterval
    /\ \A p \in todo : listedAge[p] >= MinPodLifetime

IInv == TypeOK /\ NoteInv /\ MemoryInv /\ ListInv /\ DeleteInv

\* Ages grow up to the horizon, beyond which nothing is compared with them.
LEMMA OlderKeeps ==
    ASSUME NEW t \in Mark
    PROVE  /\ Older(t) \in Mark
           /\ Older(t) = Never <=> t = Never
           /\ Older(t) >= t
           /\ t \in Age => Older(t) \in Age
           /\ \A u \in Mark : u # Never /\ t >= u => Older(t) >= Older(u)
  BY DrainAssumption DEF Older, Mark, Age, Never

LEMMA InitEstablishes == Init => IInv
<1> SUFFICES ASSUME Init PROVE IInv
  OBVIOUS
<1>1. TypeOK
  <2>1. age \in [Pods -> Age] /\ Never \in Mark
    BY DrainAssumption DEF Init, Age, Mark
  <2>2. at \in [Pods -> Places]
    BY DEF Init, Places
  <2> QED
    BY <2>1, <2>2 DEF Init, TypeOK
<1>2. NoteInv /\ MemoryInv /\ DeleteInv
  BY DEF Init, NoteInv, MemoryInv, DeleteInv
<1>3. ListInv
  BY <1>1 DEF Init, TypeOK, ListInv, OnNode, Age
<1> QED
  BY <1>1, <1>2, <1>3 DEF IInv

\* A pod that ends was on the node or does not come to it; its age stays.
LEMMA GoneKeeps ==
    ASSUME NEW p \in Pods, TypeOK, Gone(p)
    PROVE  /\ at' \in [Pods -> Places]
           /\ ready' \subseteq Pods
           /\ age' = age
           /\ OnNode' \subseteq OnNode
  BY DEF TypeOK, Gone, OnNode, Terminating, Places

\* Nothing but the pods and the bounds changes.
LEMMA WorldStep ==
    ASSUME IInv,
           at' \in [Pods -> Places], ready' \subseteq Pods, age' \in [Pods -> Age],
           OnNode' \subseteq OnNode,
           \A p \in OnNode' : age'[p] = age[p],
           faults' \in Nat, replacements' \in Nat,
           UNCHANGED <<notes, sinceDrain, pc, memory, pass>>
    PROVE  IInv'
<1> USE DEF IInv, notes, memory, pass
<1>1. TypeOK'
  BY DEF TypeOK
<1>2. NoteInv' /\ MemoryInv'
  BY DEF NoteInv, MemoryInv
<1>3. ListInv'
  BY DEF ListInv
<1>4. DeleteInv'
  BY DEF DeleteInv
<1> QED
  BY <1>1, <1>2, <1>3, <1>4

\* A step of the manager that leaves its timers, its list and the annotations
\* alone, and does not go to the deletion.
LEMMA ManagerStep ==
    ASSUME IInv,
           at' \in [Pods -> Places], ready' \subseteq Pods, age' = age,
           OnNode' \subseteq OnNode,
           pc # "start",
           pc' \in {"fast", "parallel", "slow", "onebyone", "annotate", "done"},
           todo' \subseteq Pods, evicted' \in BOOLEAN, faults' \in Nat,
           listedAge' \in {age, listedAge},
           UNCHANGED <<notes, sinceDrain, memory, replacements>>
    PROVE  IInv'
<1> USE DEF IInv, notes, memory
<1>1. TypeOK'
  BY DEF TypeOK
<1>2. NoteInv' /\ MemoryInv' /\ DeleteInv'
  BY DEF NoteInv, MemoryInv, DeleteInv
<1>3. ListInv'
  BY DEF ListInv, TypeOK, Age, OnNode
<1> QED
  BY <1>1, <1>2, <1>3

\* Time passes for the annotations, the memory and the pods alike.
LEMMA TickKeeps == ASSUME IInv, Tick PROVE IInv'
<1> USE DEF IInv
<1>1. TypeOK'
  <2>1. age' \in [Pods -> Age] /\ listedAge' \in [Pods -> Age]
    BY OlderKeeps DEF TypeOK, Tick, Mark
  <2>2. /\ startNote' \in Mark /\ forcedNote' \in Mark /\ sinceDrain' \in Mark
        /\ drainStart' \in Mark /\ lastForced' \in Mark
    BY OlderKeeps DEF TypeOK, Tick
  <2> QED
    BY <2>1, <2>2 DEF TypeOK, Tick, bounds
<1>2. NoteInv'
  BY OlderKeeps DEF TypeOK, Tick, NoteInv
<1>3. MemoryInv'
  BY DEF Tick, MemoryInv
<1>4. ListInv'
  <2> SUFFICES ASSUME NEW p \in OnNode' PROVE age'[p] >= listedAge'[p]
    BY DEF ListInv
  <2>1. /\ p \in OnNode /\ p \in Pods
        /\ age'[p] = Older(age[p]) /\ listedAge'[p] = Older(listedAge[p])
    BY DEF Tick, OnNode
  <2>2. age[p] \in Mark /\ listedAge[p] \in Mark /\ listedAge[p] # Never
    BY <2>1, DrainAssumption DEF TypeOK, Age, Mark, Never
  <2> QED
    BY <2>1, <2>2, OlderKeeps DEF ListInv
<1>5. DeleteInv'
  <2> SUFFICES ASSUME pc = "delete" PROVE DeleteInv'
    BY DEF Tick, DeleteInv
  <2>1. drainStart' >= ForceEvictionGracePeriod
    BY OlderKeeps, DrainAssumption DEF Tick, TypeOK, DeleteInv, Mark, Age, Never
  <2>2. lastForced' = Never \/ lastForced' >= ForceEvictionInterval
    BY OlderKeeps, DrainAssumption DEF Tick, TypeOK, DeleteInv, Mark, Age, Never
  <2>3. ASSUME NEW p \in todo' PROVE listedAge'[p] >= MinPodLifetime
    <3>1. p \in todo /\ p \in Pods /\ listedAge'[p] = Older(listedAge[p])
      BY DEF Tick, TypeOK
    <3>2. Older(listedAge[p]) >= listedAge[p] /\ Older(listedAge[p]) \in Age
      BY <3>1, OlderKeeps DEF TypeOK, Mark
    <3> QED
      BY <3>1, <3>2, DrainAssumption DEF TypeOK, DeleteInv, Age
  <2> QED
    BY <2>1, <2>2, <2>3 DEF DeleteInv
<1> QED
  BY <1>1, <1>2, <1>3, <1>4, <1>5

\* A manager that takes over goes on with the annotations.
LEMMA StartKeeps == ASSUME IInv, Start PROVE IInv'
<1> USE DEF IInv, Start, Step, world, pass, bounds
<1>1. TypeOK'
  BY DrainAssumption DEF TypeOK, Mark, Age
<1>2. NoteInv'
  <2>1. CASE startNote = Never
    BY <2>1 DEF TypeOK, NoteInv, Mark, Age, Never
  <2>2. CASE startNote # Never
    BY <2>2 DEF TypeOK, NoteInv, Mark, Age, Never
  <2> QED
    BY <2>1, <2>2
<1>3. MemoryInv' /\ DeleteInv'
  BY DEF MemoryInv, DeleteInv
<1>4. ListInv'
  BY DEF ListInv, OnNode
<1> QED
  BY <1>1, <1>2, <1>3, <1>4

LEMMA RefusedKeeps == ASSUME IInv, NEW p \in Pods, Refused(p) PROVE IInv'
<1> USE DEF Refused, world, notes, memory
<1>1. CASE pc' = pc
  BY <1>1, ManagerStep DEF IInv, TypeOK, OnNode
<1>2. CASE pc' # pc
  <2>1. pc' = "delete" /\ todo' = {p} /\ forceTerminationAllowed(p) /\ pc = "onebyone"
    BY <1>2
  <2>2. TypeOK'
    BY <2>1 DEF IInv, TypeOK
  <2>3. NoteInv' /\ MemoryInv'
    BY <2>1 DEF IInv, NoteInv, MemoryInv
  <2>4. ListInv'
    BY <2>1 DEF IInv, ListInv, OnNode
  <2>5. DeleteInv'
    BY <2>1 DEF DeleteInv, forceTerminationAllowed
  <2> QED
    BY <2>2, <2>3, <2>4, <2>5 DEF IInv
<1> QED
  BY <1>1, <1>2

LEMMA AnnotateKeeps == ASSUME IInv, Annotate PROVE IInv'
<1> USE DEF IInv, Annotate, Step, world, pass, bounds
<1>1. TypeOK'
  BY DrainAssumption DEF TypeOK, Mark, Age
<1>2. NoteInv' /\ MemoryInv' /\ DeleteInv'
  BY DEF NoteInv, MemoryInv, DeleteInv
<1>3. ListInv'
  BY DEF ListInv, OnNode
<1> QED
  BY <1>1, <1>2, <1>3

LEMMA CrashKeeps == ASSUME IInv, Crash PROVE IInv'
<1> USE DEF IInv, Crash, world, notes
<1>1. TypeOK'
  <2>1. Never \in Mark /\ faults' \in Nat
    BY DEF TypeOK, Mark
  <2> QED
    BY <2>1 DEF TypeOK
<1>2. NoteInv' /\ MemoryInv' /\ DeleteInv'
  BY DEF NoteInv, MemoryInv, DeleteInv
<1>3. ListInv'
  BY DEF ListInv, OnNode, TypeOK, Age
<1> QED
  BY <1>1, <1>2, <1>3

LEMMA NextKeeps == ASSUME IInv, [Next]_vars PROVE IInv'
<1> USE DEF world, notes, memory, pass, bounds
<1> TypeOK
  BY DEF IInv
<1>1. CASE Start
  BY <1>1, StartKeeps
<1>2. ASSUME NEW from \in {"fast", "slow"}, NEW to \in {"parallel", "onebyone"},
             List(from, to)
      PROVE  IInv'
  <2>1. /\ at' = at /\ ready' = ready /\ age' = age /\ OnNode' = OnNode
        /\ pc # "start" /\ pc' \in {"parallel", "onebyone", "done"}
        /\ todo' = OnNode /\ OnNode \subseteq Pods
    BY <1>2 DEF List, Step, OnNode
  <2> QED
    BY <1>2, <2>1, ManagerStep DEF List, TypeOK
<1>3. CASE EvictedFast
  BY <1>3, ManagerStep DEF EvictedFast, Step, TypeOK, OnNode
<1>4. CASE NoneTaken
  BY <1>4, ManagerStep DEF NoneTaken, Step, TypeOK, OnNode
<1>5. CASE Annotate
  BY <1>5, AnnotateKeeps
<1>6. ASSUME NEW p \in Pods, EvictFast(p) \/ EvictSlow(p) \/ Delete(p) PROVE IInv'
  <2>1. /\ at' \in [Pods -> Places] /\ ready' \subseteq Pods /\ age' = age
        /\ OnNode' \subseteq OnNode
    <3>1. CASE Gone(p)
      BY <3>1, GoneKeeps
    <3>2. CASE UNCHANGED world
      BY <3>2 DEF TypeOK, OnNode
    <3> QED
      BY <1>6, <3>1, <3>2 DEF EvictFast, EvictSlow, Evict, Delete
  <2> QED
    BY <1>6, <2>1, ManagerStep DEF EvictFast, EvictSlow, Delete, Step, TypeOK
<1>7. ASSUME NEW p \in Pods, Refused(p) PROVE IInv'
  BY <1>7, RefusedKeeps
<1>8. ASSUME NEW p \in Pods, Recreate(p) \/ Terminates(p) \/ BecomesReady(p) PROVE IInv'
  <2>1. /\ at' \in [Pods -> Places] /\ ready' \subseteq Pods /\ age' \in [Pods -> Age]
        /\ OnNode' \subseteq OnNode /\ \A q \in OnNode' : age'[q] = age[q]
    BY <1>8, DrainAssumption
    DEF TypeOK, Recreate, Terminates, BecomesReady, OnNode, Places, Age
  <2> QED
    BY <1>8, <2>1, WorldStep DEF Recreate, Terminates, BecomesReady, TypeOK
<1>9. ASSUME NEW p \in Pods, Replaced(p) PROVE IInv'
  <2>1. /\ at' \in [Pods -> Places] /\ ready' \subseteq Pods /\ age' = age
        /\ OnNode' \subseteq OnNode
    BY <1>9, GoneKeeps DEF Replaced
  <2> QED
    BY <1>9, <2>1, WorldStep DEF Replaced, TypeOK
<1>10. CASE Tick
  BY <1>10, TickKeeps
<1>11. CASE Crash
  BY <1>11, CrashKeeps
<1>12. CASE UNCHANGED vars
  BY <1>12, WorldStep DEF vars, TypeOK, OnNode
<1> QED
  BY <1>1, <1>2, <1>3, <1>4, <1>5, <1>6, <1>7, <1>8, <1>9, <1>10, <1>11, <1>12
  DEF Next, Progress, Owners, Kubelets, Finished

\* What the inductive invariant says of a step: the timers are kept.
LEMMA TimersKeptByStep == ASSUME IInv, [Next]_vars PROVE [TimersKeptStep]_vars
<1> SUFFICES ASSUME Next PROVE TimersKeptStep
  OBVIOUS
<1>1. ASSUME NEW p \in Pods, ForceDeleted(p)
      PROVE  /\ sinceDrain >= ForceEvictionGracePeriod
             /\ forcedNote = Never \/ forcedNote >= ForceEvictionInterval
             /\ p \in OnNode => age[p] >= MinPodLifetime
  <2>1. pc = "delete"
    BY <1>1 DEF ForceDeleted
  <2>2. \E q \in Pods : Delete(q)
    BY <1>1 DEF ForceDeleted, Next, Progress, Owners, Kubelets, Finished, Start, List,
       EvictedFast, NoneTaken, Annotate, EvictFast, EvictSlow, Refused, Recreate,
       Terminates, Tick, Crash, BecomesReady, Replaced, Step, vars
  <2>3. PICK q \in Pods : Delete(q)
    BY <2>2
  <2>4. q = p
    BY <1>1, <2>3 DEF ForceDeleted, Delete, Gone, world, IInv, TypeOK
  <2>5. p \in todo
    BY <2>3, <2>4 DEF Delete
  <2>6. sinceDrain >= ForceEvictionGracePeriod
    BY <2>1, DrainAssumption
    DEF IInv, TypeOK, NoteInv, MemoryInv, DeleteInv, Mark, Age, Never
  <2>7. forcedNote = Never \/ forcedNote >= ForceEvictionInterval
    BY <2>1 DEF IInv, MemoryInv, DeleteInv
  <2>8. p \in OnNode => age[p] >= MinPodLifetime
    BY <2>1, <2>5, DrainAssumption DEF IInv, TypeOK, ListInv, DeleteInv, Age
  <2> QED
    BY <2>6, <2>7, <2>8
<1>2. ASSUME pc = "start", pc' = "fast", startNote # Never PROVE startNote' >= startNote
  <2>1. Start
    BY <1>2 DEF Next, Progress, Owners, Kubelets, Finished, List,
       EvictedFast, NoneTaken, Annotate, EvictFast, EvictSlow, Refused, Delete, Recreate,
       Terminates, Tick, Crash, BecomesReady, Replaced, Step, vars
  <2> QED
    BY <1>2, <2>1 DEF Start, IInv, TypeOK, Mark, Age, Never
<1> QED
  BY <1>1, <1>2 DEF TimersKeptStep

\* In every behaviour of the drain, the memory of the manager agrees with the
\* annotations it would be restarted from, and the pod it is about to delete
\* by force has passed all checks of forceTerminationAllowed.
THEOREM DrainInvariant == Spec => []IInv
  BY InitEstablishes, NextKeeps, PTL DEF Spec

\* No drain deletes a pod by force before ForceEvictionGracePeriod has passed
\* since it first began, within ForceEvictionInterval of the last deletion on
\* record, or a pod of the node younger than MinPodLifetime; and no restart
\* begins a new period: for any pods, budget, times, and any number of faults.
THEOREM DrainTimersKept == Spec => TimersKept
  BY DrainInvariant, TimersKeptByStep, PTL DEF Spec, TimersKept
=============================================================================
