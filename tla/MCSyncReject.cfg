CONSTANTS
    Parts = {"calls"}
    c1 = c1
    c2 = c2
    r1 = r1
    r2 = r2
    r3 = r3
    None = None
    One = 2
    MaxSeqLen = 3
    Callers <- MCCallers
    Calls <- MCCalls
    Models <- MCModels
    Consumers <- MCConsumers
    Kinds <- MCKinds
    Reqs <- MCReqs
    Lengths <- MCTokens
    BatchSize = 1
    Pool = 4
    Raises = 0
SPECIFICATION FrontEndSpec
CHECK_DEADLOCK FALSE
INVARIANT
    RejectedOnlyWithoutCapacity
