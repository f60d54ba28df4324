---------------------------- MODULE MCProvision ----------------------------
(* Instances of Provision for TLC. *)
EXTENDS Provision

First == [gone |-> FALSE, version |-> 1, pools |-> {"w1", "w2"}, karpenter |-> {"k1"},
          objects |-> {"app", "job"}, preDelete |-> {}, postDelete |-> {},
          preStacks |-> {}, postStacks |-> {}]

\* A pool and an object are removed, another object is replaced.
Second == [First EXCEPT !.version = 2, !.pools = {"w1"}, !.karpenter = {},
                        !.objects = {"job"}, !.preDelete = {"job"}, !.postDelete = {"app"},
                        !.postStacks = {"lb"}]

Small == [First EXCEPT !.pools = {"cp"}, !.objects = {"app"}]
Gone == [Small EXCEPT !.gone = TRUE]

Tiny == [Small EXCEPT !.pools = {}, !.karpenter = {}, !.objects = {}]

On(who, configs) == [provider |-> who, plan |-> configs]

UpdateOrRemove == {On("aws", <<First, Second>>), On("aws", <<Small, Gone>>),
                   On("eks", <<Tiny, [Tiny EXCEPT !.gone = TRUE]>>)}
InfraManifests == <<"infra">>

\* The configurations delete no stack that they or later ones have.
ASSUME NamesAssumption == NamesApart /\ NamesNotReused
=============================================================================
