SPECIFICATION Spec
CONSTANTS
    AddrBits = 10
    ByteBits = 4
    MaxRetries = 2
INVARIANTS
    NetworksRight
    RenderingRight
    DataRight
    KubernetesRight
    BackendsRight
    FilesRight
CHECK_DEADLOCK FALSE
