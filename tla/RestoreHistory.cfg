CONSTANTS
    m1 = m1  m2 = m2  a1 = a1  a2 = a2  d1 = d1  r1 = r1  r2 = r2
    Job <- MC_Jobs2
    Manual <- MC_Manual1
    Activation <- MC_None
    Remover <- MC_None
    Restore <- MC_Restore1
    SourceParts <- MC_Full
    RestoreParts <- MC_Full
    Switches <- MC_None
    Keep = 1
    ToolsFail = FALSE
    NotifyFails = FALSE
    SlowDb = FALSE
    Crashes = FALSE
    MaxWrites = 0
SPECIFICATION Spec
INVARIANT RestoreIsRecorded
CHECK_DEADLOCK FALSE
