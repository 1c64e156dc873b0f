CONSTANTS
    None = None
    Parts = {"plan"}
    Plans <- OnePlan
    Ladder <- OneRecipes
    PerfClass <- OneFormat
    Trigger = 3
SPECIFICATION ServingSpec
CHECK_DEADLOCK FALSE
INVARIANT
    HotShapesAreTuned
