----------------------------- MODULE UpdateLease -----------------------------
(***************************************************************************)
(* What the ClusterList promises to the rest of the manager: a cluster is  *)
(* leased to at most one update worker, a worker holds at most one lease,  *)
(* nobody takes a lease away from a worker that holds it (only the death   *)
(* of the whole process does), and the infrastructure of a cluster changes *)
(* only while the cluster is leased.                                       *)
(***************************************************************************)
CONSTANTS Clusters, Workers, Nobody

VARIABLES holder, infra

Acquire(c, w) ==
    /\ holder[c] = Nobody
    /\ \A d \in Clusters : holder[d] # w
    /\ holder' = [holder EXCEPT ![c] = w]
    /\ UNCHANGED infra

Work(c) ==
    /\ holder[c] # Nobody
    /\ infra' = [infra EXCEPT ![c] = infra'[c]]
    /\ UNCHANGED holder

Release(c) ==
    /\ holder[c] # Nobody
    /\ holder' = [holder EXCEPT ![c] = Nobody]
    /\ UNCHANGED infra

Die ==
    /\ holder' = [c \in Clusters |-> Nobody]
    /\ UNCHANGED infra

Init == holder = [c \in Clusters |-> Nobody]

Next ==
    \/ \E c \in Clusters : Work(c) \/ Release(c) \/ \E w \in Workers : Acquire(c, w)
    \/ Die

Spec == Init /\ [][Next]_<<holder, infra>>
=============================================================================
