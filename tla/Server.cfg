\* Two edits of the file or rotations of a password file, any signals, a shutdown at any time.
CONSTANTS
    SigHup = SigHup
    Watcher = Watcher
    Main = Main
    Configs <- MCConfigs
    Inputs <- MCInputs
    Env <- MCEnv
    Invalid <- MCInvalid
    MaxEdits = 2
    MaxSignals = 1
    MaxPools = 3
SPECIFICATION MCSpec
INVARIANTS
    TypeOK
    PoolHasOneOwner
    SerialReloadsLeakNothing
    ConfigTakesEffect
    PoolsUsable
PROPERTIES
    StoreFollowsConfig
\* The process exits.
CHECK_DEADLOCK FALSE
