--------------------------- MODULE BackupCenterMC ---------------------------
(* Instances of BackupCenter for TLC. *)
EXTENDS BackupCenter

CONSTANTS m1, m2, a1, a2, d1, r1, r2

MC_Jobs2 == 1..2
MC_Jobs3 == 1..3
MC_Jobs4 == 1..4
MC_None == {}
MC_Manual1 == {m1}
MC_Manual2 == {m1, m2}
MC_Auto1 == {a1}
MC_Auto2 == {a1, a2}
MC_Remover1 == {d1}
MC_Restore1 == {r1}
MC_Restore2 == {r1, r2}

MC_AnyParts == {{"database"}, {"uploads"}, {"database", "uploads"}}
MC_Full == {{"database", "uploads"}}
MC_Switches == {<<{}, {"uploads"}>>, <<{"uploads"}, {}>>}
MC_UploadsOnly == {{"uploads"}}

=============================================================================
