CONSTANTS
    t1 = t1
    t2 = t2
    t3 = t3
    s1 = s1
    s2 = s2
    n1 = n1
    n2 = n2
    None = None
    Threads = {t1, t2, t3}
    Setups <- MCSetups
    Extras <- NoExtras
    StaleAge = 1
    MaxObjects = 3
    MaxFaults = 1
    GradParams <- MCGradParams
    Bytes <- MCBytes
    Cap = 2
    Workloads <- MCWorkloads
    Groups <- MCGroups
    Cost <- MCCost
    Touched <- MCTouched
    Savers = {s1, s2}
    Names = {n1, n2}
    LearnerJobs <- MCJobs
    LearnerLayouts <- MCLayouts
    LearnerWindows <- MCWindows
    LearnerGoals <- MCGoals
    LearnerOverlong <- MCOverlong
    LearnerConfigs <- MCConfigs
    LearnerKits <- MCKits
    LearnerSizes <- MCSizes
    Parts = {"replay", "gradients", "optimizer", "store", "data", "sharded", "lesson",
             "lineage", "matrix", "offload"}
SPECIFICATION LearnerSpec
SYMMETRY Symmetry
INVARIANTS
    RolloutsAreCurrent
    GradientsAreWhole
    OptimizerIsWhole
    CheckpointsAreWhole
    DataIsLearnedOnce
    LayoutsDoNotShow
    LearnsTheSelection
    RunsResumeWhole
    HostStateIsWhole
