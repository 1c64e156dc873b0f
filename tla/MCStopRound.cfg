SPECIFICATION StoppingSpec
CONSTANTS
    Parts = {"stop"}
    WorldSize = 2
    Mode = "round"
    NEpochs = 2
    NWindows = 2
    CkptInterval = 3
    MaxFaults = 0
    MaxSignals = 1
    Worlds = {{0}, {0, 1}}
    Environments = {{}, {"RANK", "WORLD_SIZE"}, {"LOCAL_WORLD_SIZE"}}
    StartMethods = {"spawn", "fork"}
    LaunchSignals = 1
    LaunchFaults = 1
    None = None
CHECK_DEADLOCK FALSE
INVARIANTS
    NobodyStranded
