SPECIFICATION Spec
CONSTANTS
    c1 = c1
    c2 = c2
    w1 = w1
    w2 = w2
    NoCluster = NoCluster
    NoWorker = NoWorker
    Clusters = {c1, c2}
    Managed = {c1, c2}
    Workers = {w1, w2}
    ErrorLimit = 2
    DryRun = FALSE
    Specs = {0, 1}
    BadSpecs = {}
    MaxConfig = 0
    InitialRegistries <- AnyKind
    EditKinds = {"delete", "create", "decommission"}
    MaxEdits = 2
    FailingCalls = {"refresh", "get", "registry", "provisioner", "delete"}
    MaxFaults = 0
    FaultsForever = FALSE
    MaxRestarts = 1
SYMMETRY Symmetry
INVARIANTS
    ExclusiveProcessing
    DecommissionedIsGone
PROPERTIES
    ImplementsLease
