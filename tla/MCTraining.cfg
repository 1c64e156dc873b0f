SPECIFICATION TrainingSpec
CONSTANTS
    Parts = {"run", "rounds"}
    None = None
    Configs <- AllModes
    NEpochs = 2
    MaxFaults = 2
    MaxStops = 1
CHECK_DEADLOCK FALSE
INVARIANTS
    CursorIsWhole
    RoundsAreWhole
PROPERTY
    TrainingEnds
