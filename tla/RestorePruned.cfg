CONSTANTS
    m1 = m1  m2 = m2  a1 = a1  a2 = a2  d1 = d1  r1 = r1  r2 = r2
    Job <- MC_Jobs3
    Manual <- MC_Manual1
    Activation <- MC_Auto1
    Remover <- MC_None
    Restore <- MC_Restore1
    SourceParts <- MC_UploadsOnly
    RestoreParts <- MC_UploadsOnly
    Switches <- MC_None
    Keep = 1
    ToolsFail = TRUE
    NotifyFails = FALSE
    SlowDb = FALSE
    Crashes = FALSE
    MaxWrites = 0
SPECIFICATION Spec
INVARIANT Recoverable
CHECK_DEADLOCK FALSE
