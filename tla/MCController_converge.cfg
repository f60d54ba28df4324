SPECIFICATION HangingSpec
CONSTANTS
    c1 = c1
    c2 = c2
    w1 = w1
    NoCluster = NoCluster
    NoWorker = NoWorker
    Clusters = {c1, c2}
    Managed = {c1, c2}
    Workers = {w1}
    ErrorLimit = 1
    DryRun = FALSE
    Specs = {0, 1}
    BadSpecs = {}
    MaxConfig = 0
    InitialRegistries <- OneNew
    EditKinds = {"spec", "block"}
    MaxEdits = 1
    FailingCalls = {"provisioner"}
    MaxFaults = 0
    FaultsForever = TRUE
    MaxRestarts = 1
PROPERTIES
    Convergence
    BlockStops
    NoStarvation
