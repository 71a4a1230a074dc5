CONSTANTS
    m1 = m1  m2 = m2  a1 = a1  a2 = a2  d1 = d1  r1 = r1  r2 = r2
    Job <- MC_Jobs3
    Manual <- MC_Manual1
    Activation <- MC_None
    Remover <- MC_None
    Restore <- MC_Restore1
    SourceParts <- MC_Full
    RestoreParts <- MC_AnyParts
    Switches <- MC_None
    Keep = 1
    ToolsFail = TRUE
    NotifyFails = TRUE
    SlowDb = FALSE
    Crashes = TRUE
    MaxWrites = 1
SPECIFICATION Spec
INVARIANTS DownloadIsComplete EmergencyOnDisk UploadsRestoreIsRecorded
CHECK_DEADLOCK FALSE
