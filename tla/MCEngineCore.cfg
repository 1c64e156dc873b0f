SPECIFICATION Spec
CONSTANTS
    r1 = r1
    r2 = r2
    r3 = r3
    r4 = r4
    Requests = {r1, r2, r3, r4}
    PromptLen <- BatchPrompt
    MaxTokens <- BatchTokens
    Penalized = {r3}
    MaxBatchSize = 2
    PoolTokens = 5
    MaxSeqLen = 6
    TokenBudget = 1
    EnableOverlap = TRUE
    MaxVersion = 0
    MaxFaults = 0
    MaxStarts = 1
INVARIANTS
    BooksBalance
    DecodeInputsCurrent
PROPERTY
    AdmittedInOrder
CHECK_DEADLOCK FALSE
