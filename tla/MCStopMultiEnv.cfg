CONSTANTS
    c1 = c1
    c2 = c2
    driver = driver
    backend = backend
    proxy = proxy
    s1 = s1
    Clusters = {c1}
    Members = {driver, backend}
    Sessions = {s1}
    ClusterOf <- OneSession
    NumEnvs = 2
    MemberEnv <- TwoEnvs
    CloudOf <- TwoClouds
    RegionOf <- TwoRegions
    Storage <- NoStorage
    SelfManaged = {}
    SharedEnvs = {}
    NamePrefix <- OwnName
    MaxLaunch = 1
    MaxBoots = 1
    Backends = {backend}
    MaxEnvs = 2
    MayFail = FALSE
    MayCrash = FALSE
    Commands <- AllCommands
SPECIFICATION Spec
INVARIANTS
    DownIsStopped
