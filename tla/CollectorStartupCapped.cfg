\* The first cycle with a cap of one: its deadline is shared by the queue.
CONSTANTS
    Silent = {}
    Clusters = {c1, c2, c3}
    SystemType = Sys
    Gen1Types = {Sys, Vol}
    Gen2Types = {Sys, Vol}
    StateTypes = {}
    SlowTypes = {}
    EveryN = 1
    MaxConcurrent = 1
    Timeout = 2
    Grace = 1
SPECIFICATION Spec
INVARIANTS
    Isolation
\* A cancelled loop stops.
CHECK_DEADLOCK FALSE
