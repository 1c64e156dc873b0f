SPECIFICATION FairSpec
CONSTANTS
    r1 = r1
    r2 = r2
    r3 = r3
    r4 = r4
    Requests = {r1, r2}
    PromptLen <- PairPrompt
    MaxTokens <- PairTokens
    Penalized = {}
    MaxBatchSize = 2
    PoolTokens = 5
    MaxSeqLen = 5
    TokenBudget = 2
    EnableOverlap = TRUE
    MaxVersion = 1
    MaxFaults = 2
    MaxStarts = 2
INVARIANTS
    KVIsGivenBackSafely
PROPERTIES
    EventContract
    WeightsChangeBetweenRequests
    EverythingLeaves
CHECK_DEADLOCK FALSE
