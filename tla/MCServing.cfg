CONSTANTS
    None = None
    Parts = {"text", "device", "choice", "plan", "fp8", "recurrence", "experts", "scoring"}
    Plans <- ManyPlans
    Ladder <- ManyRecipes
    PerfClass <- OfFormat
    Trigger = 2
SPECIFICATION ServingSpec
CHECK_DEADLOCK FALSE
INVARIANTS
    TextIsExact
    DeviceKeepsRequestsApart
    SelectionIsCurrent
    ServesTheMeasuredBest
    ScalingFollowsTheModule
    FastFormsAgree
PROPERTY
    EngineKeepsItsSelection
