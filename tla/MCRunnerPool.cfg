SPECIFICATION FairSpec
CONSTANTS
    Runner = {cpp}
    Slot = {s1, s2, s3}
    TcParallel = 1
    Replicas = 1
    None = None
INVARIANTS
    PoolSound
    NobodyStranded
PROPERTIES
    StartDisturbsNobody
    EveryCallEnds
