CONSTANTS
    NodeDelays <- TwoAttempts
    NodeMaxDelay = 3
    SshDelays <- ThreeAttempts
    SshMaxDelay = 2
    ConnectTimeout = 1
    Timeout = 2
    Apis = {"run", "_unsafe_run"}
SPECIFICATION Spec
INVARIANTS
    TypeOK
    ReturnsLastRun
    RepeatsOnlyLost
    NodeRunEndsInTime
