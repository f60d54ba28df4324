SPECIFICATION FairSpec
CONSTANTS
    o1 = o1
    o2 = o2
    n1 = n1
    n2 = n2
    za = za
    Instances = {o1, o2, n1, n2}
    Zones = {za}
    ZoneOf <- OneZone
    Volumes = {}
    Old = {o1, o2}
    Scenarios <- UpdateOrRemoval
    MinSize = 0
    MaxSize = 4
    MaxFailures = 0
    MaxScalings = 1
    RollbackRetries = 1
    MaxCancels = 1
    MaxCrashes = 1
    MaxFaults = 1
INVARIANTS
    RollbackStops
    DoneMeansUpdated
    RemovedNotReplaced
PROPERTIES
    Ends
