---------------------------- MODULE MCCLCUpdate ----------------------------
(* The instance of CLCUpdate for TLC. *)
EXTENDS CLCUpdate, TLC

CONSTANTS o1, o2, n1, n2, za

OneZone == [i \in Instances |-> za]

Ready(S) == [i \in Instances |-> IF i \in S THEN "ready" ELSE "unused"]

Scenario(nodes, scaled, removal) ==
    [inst |-> Ready(nodes), autoscaled |-> scaled, spot |-> FALSE, removal |-> removal]

\* A pool with two old nodes is updated, one with an old and a new node is
\* removed, and both happen to a pool with one node that the autoscaler changes.
UpdateOrRemoval ==
    {Scenario({o1, o2}, FALSE, FALSE), Scenario({o1, n1}, FALSE, TRUE),
     Scenario({o1}, TRUE, FALSE), Scenario({o1}, TRUE, TRUE)}
=============================================================================
