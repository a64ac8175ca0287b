\* One cluster, three object types, two of them slow, every third cycle in full,
\* beside a cluster that only fails or hangs; one at a time, so that each may
\* queue behind the other.  Fair goroutines, ticker and time.
CONSTANTS
    Clusters = {c1, c2}
    Silent = {c2}
    SystemType = Sys
    Gen1Types = {Sys, Vol}
    Gen2Types = {Sys, Vol, Sdt}
    StateTypes = {Vol, Sdt}
    SlowTypes = {Vol, Sdt}
    EveryN = 3
    MaxConcurrent = 1
    Timeout = 2
    Grace = 1
SPECIFICATION MCSpec
INVARIANTS
    TypeOK
    UpIsHonest
    StatAgeBounded
    StateIsFresh
    OneSamplePerSeries
    LoopIsolation
PROPERTIES
    CyclesEnd
    LoopStops
\* A cancelled loop stops.
CHECK_DEADLOCK FALSE
