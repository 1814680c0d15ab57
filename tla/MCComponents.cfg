SPECIFICATION Spec
CONSTANTS
    Deployments <- MCDeployments
    MaxEnvs = 2
    Attempts = 3
    MaxFaults = 1
INVARIANTS
    TypeOK
    TargetsRemoved
PROPERTIES
    ReadyIsInstalled
    OnlyCleanDropsData
    StartServes
    CommandEnds
