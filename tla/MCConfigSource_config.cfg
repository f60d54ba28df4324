SPECIFICATION FairSpec
CONSTANTS
    Sources <- ThreeSources
    RepoName <- OwnNames
    Channels = {"dev", "stable"}
    Clusters = {"c1", "c2"}
    Channel <- ChannelOfCluster
    Overrides <- OverridesOfCluster
    Workers = {"w1"}
    TreeSize = 1
    MaxPushes = 2
    MaxFaults = 1
INVARIANTS
    VersionsStay
    VersionsFresh
    CheckoutComplete
    NoLeftovers
PROPERTIES
    Refreshes
