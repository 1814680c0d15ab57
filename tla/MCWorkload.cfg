CONSTANTS
    h1 = h1
    h2 = h2
    Hosts = {h1, h2}
    HeadNode = h1
    DriverSets <- OneOrTwo
    Benchmarks = {"sysbench", "benchbase", "hammerdb"}
    Threads <- TwoThreads
    Repeats = 2
    Attempts = 2
    MaxRuns = 2
SPECIFICATION Spec
INVARIANTS
    TypeOK
    OneLoadPerDriver
    RowsAreWhole
    RowsAreOwn
    StopMeansComplete
PROPERTIES
    RunIsOver
