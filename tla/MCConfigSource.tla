--------------------------- MODULE MCConfigSource ---------------------------
(* Instances of ConfigSource for TLC. *)
EXTENDS ConfigSource, TLC

ThreeSources == <<"main", "local", "extra">>
OwnNames == "main" :> "kubernetes" @@ "extra" :> "extras"
\* A cluster follows one branch, another takes one source from a second branch.
ChannelOfCluster == "c1" :> "dev" @@ "c2" :> "dev"
OverridesOfCluster == "c1" :> <<>> @@ "c2" :> ("extra" :> "stable")
=============================================================================
