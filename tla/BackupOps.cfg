CONSTANTS
    m1 = m1  m2 = m2  a1 = a1  a2 = a2  d1 = d1  r1 = r1  r2 = r2
    Job <- MC_Jobs2
    Manual <- MC_Manual1
    Activation <- MC_Auto2
    Remover <- MC_Remover1
    Restore <- MC_None
    SourceParts <- MC_UploadsOnly
    RestoreParts <- MC_Full
    Switches <- MC_Switches
    Keep = 1
    ToolsFail = TRUE
    NotifyFails = TRUE
    SlowDb = FALSE
    Crashes = TRUE
    MaxWrites = 0
SPECIFICATION FairSpec
INVARIANTS OneAutoBackup SuccessHasArchive
PROPERTY EveryBackupEnds
