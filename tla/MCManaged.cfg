SPECIFICATION Spec
CONSTANTS
    Clusters = {c1, c2}
    Deployments <- AllClouds
    MaxServices = 2
    MaxBoots = 2
    MaxEnvs = 3
    MaxPolls = 1
INVARIANTS TypeOK OneService
PROPERTIES CleanDeletes ReadyIsServed OnlyOwnDeprovision CommandEnds
