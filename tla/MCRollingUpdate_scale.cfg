SPECIFICATION FairSpec
CONSTANTS
    o1 = o1
    o2 = o2
    o3 = o3
    n1 = n1
    n2 = n2
    n3 = n3
    n4 = n4
    n5 = n5
    za = za
    zb = zb
    Instances = {o1, o2, n1, n2}
    Zones = {za, zb}
    ZoneOf <- TwoZones
    Volumes = {}
    Old = {o1, o2}
    Scenarios <- AllOld
    MinSize = 0
    MaxSize = 4
    MaxFailures = 0
    MaxScalings = 0
    StrategySurge = 2
    MaxAborts = 0
PROPERTIES
    ScaleTakesEffect
