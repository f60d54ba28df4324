SPECIFICATION FairSpec
CONSTANTS
    Stack = {"etcd", "main", "infra", "lb", "cp", "w1", "w2"}
    Skew = TRUE
    EtcdStack = "etcd"
    MainStack = "main"
    InfraStacks <- InfraManifests
    IngressStacks = {"lb"}
    Masters = {"cp"}
    Workers = {"w1", "w2"}
    KarpenterPools = {"k1"}
    Objects = {"app", "job"}
    Scenarios <- UpdateOrRemove
    MaxRounds = 2
    MaxFaults = 1
    MaxRecreations = 1
    Replaces = FALSE
CHECK_DEADLOCK FALSE
INVARIANTS
    SuccessMeansCurrent
    NothingLeftOnAWS
PROPERTIES
    DeletedIsGone
    OnlyEmptyPoolsRemoved
    MainStackLast
    Converges
