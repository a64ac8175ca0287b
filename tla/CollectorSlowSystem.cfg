\* System itself is a slow type.
CONSTANTS
    Silent = {}
    Clusters = {c1}
    SystemType = Sys
    Gen1Types = {Sys, Vol}
    Gen2Types = {Sys, Vol, Sdt}
    StateTypes = {Vol, Sdt}
    SlowTypes = {Sys, Sdt}
    EveryN = 3
    MaxConcurrent = 0
    Timeout = 2
    Grace = 1
SPECIFICATION Spec
INVARIANTS
    OneSamplePerSeries
CHECK_DEADLOCK FALSE
