SPECIFICATION RegistryFairSpec
CONSTANTS
    p3 = p3
    h1 = h1
    h2 = h2
    Proc = {p1, p2, p3, p4}
    Host = {h1, h2}
    HostOf <- MCHostOf
    Pid = {p1, p2, p3, p4}
    PidOf <- MCPidOf
    Nobody = Nobody
    Adverse <- MCBoth
INVARIANTS
    RegistrySound
PROPERTIES
    AtMostOneStays
CHECK_DEADLOCK FALSE
