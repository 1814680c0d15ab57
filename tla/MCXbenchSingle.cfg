CONSTANTS
    c1 = c1
    c2 = c2
    driver = driver
    backend = backend
    proxy = proxy
    s1 = s1
    Clusters = {c1}
    Members = {driver, backend}
    Sessions = {s1}
    ClusterOf <- OneSession
    NumEnvs = 1
    MemberEnv <- OneEnv
    CloudOf <- OneCloud
    RegionOf <- OnlyRegion
    Storage <- BackendEbs
    SelfManaged = {}
    SharedEnvs = {}
    NamePrefix <- OwnName
    MaxLaunch = 2
    MaxBoots = 1
    Backends = {backend}
    MaxEnvs = 2
    MayFail = TRUE
    MayCrash = TRUE
    Commands <- WithoutTests
SPECIFICATION Spec
INVARIANTS
    TypeOK
    ReadyIsComplete
    ReadyIsReachable
PROPERTIES
    NeverForgetRunning
    FollowsLifecycle
