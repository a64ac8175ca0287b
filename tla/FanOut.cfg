\* Three per-type goroutines under a limit of two, another caller of the same
\* client, and two closers: every interleaving of slots, decrements, locks and
\* closes.  No symmetry, since liveness is checked too.
CONSTANTS
    t1 = t1
    t2 = t2
    t3 = t3
    r1 = r1
    Callers <- MCCallers
    Closers = {k1, k2}
    Types <- MCTypes
    Skips <- MCSkips
    Limit = 2
SPECIFICATION FanFairSpec
INVARIANTS
    TypeOK
    FanTypeOK
    NoLostWakeup
    NoDoubleCloseOfChannel
    OneCloseWins
    DrainsWithoutLateSignal
    NoStragglers
PROPERTIES
    GateStaysShut
    CloseReturns
    ImplementsStatisticsCall
    CallReturns
\* When the client is closed, no call under way and the other caller idle there
\* is nothing left to do.
CHECK_DEADLOCK FALSE
