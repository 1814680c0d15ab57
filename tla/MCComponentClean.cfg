SPECIFICATION Spec
CONSTANTS
    Deployments <- MCCleanDeployments
    MaxEnvs = 2
    Attempts = 2
    MaxFaults = 0
PROPERTIES
    CleanUninstalls
