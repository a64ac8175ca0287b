\* Two workers, both fault patterns, one loss of all tokens at the gateway.
\* No symmetry, since EveryCallReturns is checked too.
CONSTANTS
    Workers = {w1, w2}
    NoToken = NoToken
    Nobody = Nobody
    AccessTTL = 5
    RefreshTTL = 8
    Margin = 3
    Latency = 1
    UseDelay = 1
    FaultPatterns <- MCFaultPatterns
    MaxTime = 10
    MaxEpoch = 1
SPECIFICATION FairSpec
INVARIANTS
    TypeOK
    SentTokenAccepted
    OutageAfterForgetBounded
    LoginHealsRefresh
PROPERTIES
    NoDoubleLogin
    EveryCallReturns
