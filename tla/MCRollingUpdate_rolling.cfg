SPECIFICATION Spec
CONSTANTS
    o1 = o1
    o2 = o2
    o3 = o3
    n1 = n1
    n2 = n2
    n3 = n3
    n4 = n4
    n5 = n5
    za = za
    zb = zb
    Instances = {o1, o2, o3, n1, n2, n3, n4, n5}
    Zones = {za, zb}
    ZoneOf <- TwoZones
    Volumes = {o2}
    Old = {o1, o2, o3}
    Scenarios <- AllOldOrOneNew
    MinSize = 0
    MaxSize = 4
    MaxFailures = 1
    MaxScalings = 0
    StrategySurge = 1
    MaxAborts = 1
SYMMETRY Symmetry
INVARIANTS
    CapacityKept
    VolumesMatched
    DoneMeansUpdated
PROPERTIES
    DrainNotUndone
