-------------------------- MODULE MCRollingUpdate --------------------------
(* Instances of RollingUpdate for TLC. *)
EXTENDS RollingUpdate, TLC

CONSTANTS o1, o2, o3, n1, n2, n3, n4, n5, za, zb

\* Odd instances in one zone, even ones in another.
TwoZones == [i \in Instances |-> IF i \in {o1, o3, n1, n3, n5} THEN za ELSE zb]

Pool(ready, pending) == [i \in Instances |-> IF i \in ready THEN "ready"
                                             ELSE IF i \in pending THEN "pending" ELSE "unused"]

OnDemand(instances) == [inst |-> instances, autoscaled |-> FALSE, spot |-> FALSE, removal |-> FALSE]

AllOld == {OnDemand(Pool(Old, {}))}

\* A new node may run already, because the autoscaler or a failure asked for it
\* after the template had changed; an old one may still be starting.
AllOldOrOneNew ==
    AllOld \cup
    {OnDemand(Pool((Old \cup {n1}) \ S, S)) : S \in {{}} \cup {{i} : i \in Old}}

\* An on-demand pool and a spot pool that are updated, and one that is removed.
UpdateSpotRemoval ==
    {OnDemand(Pool(Old \cup {n1, n2}, {})),
     [OnDemand(Pool({o2}, {o1})) EXCEPT !.spot = TRUE, !.autoscaled = TRUE],
     [OnDemand(Pool({o1, o2, n1}, {})) EXCEPT !.removal = TRUE, !.autoscaled = TRUE]}

\* Instances of a zone that start alike may be exchanged.
Symmetry == Permutations({o1, o3}) \cup Permutations({n3, n5}) \cup Permutations({n2, n4})
=============================================================================
