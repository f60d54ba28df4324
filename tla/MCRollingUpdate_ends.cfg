SPECIFICATION FairSpec
CONSTANTS
    o1 = o1
    o2 = o2
    o3 = o3
    n1 = n1
    n2 = n2
    n3 = n3
    n4 = n4
    n5 = n5
    za = za
    zb = zb
    Instances = {o1, o2, o3, n1, n2, n3, n4, n5}
    Zones = {za, zb}
    ZoneOf <- TwoZones
    Volumes = {o1}
    Old = {o1, o2, o3}
    Scenarios <- UpdateSpotRemoval
    MinSize = 2
    MaxSize = 6
    MaxFailures = 0
    MaxScalings = 1
    StrategySurge = 2
    MaxAborts = 1
INVARIANTS
    RemovedMeansEmpty
PROPERTIES
    Ends
