SPECIFICATION TrainingSpec
CONSTANTS
    Parts = {"run"}
    None = None
    Configs <- RoundSignal
    NEpochs = 2
    MaxFaults = 0
    MaxStops = 1
CHECK_DEADLOCK FALSE
INVARIANTS
    ResumeAfterCursor
