SPECIFICATION Spec
CONSTANTS
    a = a
    b = b
    p1 = p1
    p2 = p2
    i1 = i1
    i2 = i2
    NoConfig = NoConfig
    NoRegistry = NoRegistry
    Malformed = Malformed
    Namespaces = {a, b}
    Pods = {p1, p2}
    NamespaceOf <- OnePodEach
    Images = {i1, i2}
    RepositoryOf <- OneRepository
    Configs <- AllConfigs
    MaxRequests = 2
    MaxPodChanges = 2
    MaxConfigChanges = 1
    MaxFaults = 1
    MaxJobs = 1
SYMMETRY WorkloadSymmetry
INVARIANTS TypeOK Mirrored RequestsCovered MergeExact CatalogueExact
CHECK_DEADLOCK FALSE
