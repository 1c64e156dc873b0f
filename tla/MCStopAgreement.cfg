SPECIFICATION StoppingSpec
CONSTANTS
    Parts = {"stop", "launch"}
    WorldSize = 2
    Mode = "window"
    NEpochs = 2
    NWindows = 2
    CkptInterval = 3
    MaxFaults = 2
    MaxSignals = 1
    Worlds = {{0}, {0, 1}}
    Environments = {{}, {"RANK", "WORLD_SIZE"}, {"LOCAL_WORLD_SIZE"}}
    StartMethods = {"spawn", "fork"}
    LaunchSignals = 1
    LaunchFaults = 1
    None = None
CHECK_DEADLOCK FALSE
INVARIANTS
    RanksAgree
    LaunchIsSound
PROPERTY
    RunsEnd
