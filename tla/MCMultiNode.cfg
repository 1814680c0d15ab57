CONSTANTS
    h1 = h1
    h2 = h2
    Hosts = {h1, h2}
    Delays <- ThreeAttempts
    MaxDelay = 6
    Timeout = 3
    Methods = {"run_on_all_nodes", "scp_to_all_nodes"}
SPECIFICATION Spec
SYMMETRY SameHosts
INVARIANTS
    TypeOK
    RanEverywhere
