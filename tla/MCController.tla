---------------------------- MODULE MCController ----------------------------
(* Instances of Controller for TLC. *)
EXTENDS Controller, TLC

\* A cluster that is up to date, one that is new, and one in a state the
\* controller does not know.
UpToDate == [NoRecord EXCEPT !.present = TRUE, !.lifecycle = "ready",
                             !.current = [config |-> 0, spec |-> 0, blocked |-> FALSE,
                                          lifecycle |-> "ready"]]
New == [NoRecord EXCEPT !.present = TRUE]
Creating == [New EXCEPT !.lifecycle = "creating"]

\* Up to date again, after two updates to something else failed.
FailedBefore == [UpToDate EXCEPT !.problems = <<"config", "get">>]

AllFailedBefore == {[c \in Clusters |-> FailedBefore]}
AnyKind == [Clusters -> {UpToDate, New, Creating}]
OneNew == {[[c \in Clusters |-> UpToDate] EXCEPT ![CHOOSE c \in Clusters : TRUE] = New]}

Symmetry == Permutations(Clusters) \cup Permutations(Workers)
=============================================================================
