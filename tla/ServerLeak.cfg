\* The same, against the promise that every running loop can be stopped.
CONSTANTS
    SigHup = SigHup
    Watcher = Watcher
    Main = Main
    Configs <- MCConfigs
    Inputs <- MCInputs
    Env <- MCEnv
    Invalid <- MCInvalid
    MaxEdits = 2
    MaxSignals = 1
    MaxPools = 3
SPECIFICATION Spec
INVARIANTS
    LoopsStoppable
\* The process exits.
CHECK_DEADLOCK FALSE
