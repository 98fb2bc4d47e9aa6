SPECIFICATION FairSpec
CONSTANTS
    s1 = s1
    s2 = s2
    Submitters = {s1, s2}
    PoolSize = 2
    PruneEvery = 2
    MaxBackoff = 2
    MaxFaults = 1
INVARIANTS
    TypeOK
    NoCircularWait
PROPERTIES
    EveryTaskEnds
    RowsComeAndGo
    PaceRecovers
