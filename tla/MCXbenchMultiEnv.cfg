CONSTANTS
    c1 = c1
    c2 = c2
    driver = driver
    backend = backend
    proxy = proxy
    s1 = s1
    Clusters = {c1}
    Members = {driver, backend, proxy}
    Sessions = {s1}
    ClusterOf <- OneSession
    NumEnvs = 2
    MemberEnv <- TwoEnvs
    CloudOf <- TwoClouds
    RegionOf <- TwoRegions
    Storage <- NoStorage
    SelfManaged = {proxy}
    SharedEnvs = {2}
    NamePrefix <- OwnName
    MaxLaunch = 2
    MaxBoots = 1
    Backends = {backend}
    MaxEnvs = 4
    MayFail = TRUE
    MayCrash = TRUE
    Commands <- WithoutNuke
SPECIFICATION Spec
INVARIANTS
    ReadyIsComplete
PROPERTIES
    NeverForgetRunning
    FollowsLifecycle
