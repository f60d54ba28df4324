SPECIFICATION FairSpec
CONSTANTS
    p1 = p1
    p2 = p2
    p3 = p3
    Pods = {p1, p2, p3}
    Guarded = {p1, p2, p3}
    Unevictable = {p1, p2}
    Budget = 1
    InitialAges = {0, 2}
    ForceEvictionGracePeriod = 1
    ForceEvictionInterval = 2
    MinPodLifetime = 2
    MinHealthyPDBSiblingLifetime = 1
    MinUnhealthyPDBSiblingLifetime = 2
    Horizon = 2
    MaxFaults = 1
    MaxReplacements = 1
PROPERTIES
    TimersKept
    DrainEnds
