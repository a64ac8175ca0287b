\* One cluster, decimated as in Collector.cfg, against the promise of continuous series.
CONSTANTS
    Silent = {}
    Clusters = {c1}
    SystemType = Sys
    Gen1Types = {Sys, Vol}
    Gen2Types = {Sys, Vol, Sdt}
    StateTypes = {Vol, Sdt}
    SlowTypes = {Vol, Sdt}
    EveryN = 3
    MaxConcurrent = 0
    Timeout = 2
    Grace = 1
SPECIFICATION Spec
INVARIANTS
    SeriesContinuous
CHECK_DEADLOCK FALSE
