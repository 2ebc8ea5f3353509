SPECIFICATION SDSpec
CONSTANTS
    MaxNum = 2
    MaxShown = 199
    SyncMod = 256
    PerSecond = 10
    LastSecond = 8
    Burst = 1
    Configs <- BothSigns
    Durations <- Changing
    Flash = 3
    PowerUp <- PartOfAPhase
    ByteMod = 3
    WordMod = 65536
INVARIANTS OwnNumber NoOvershoot CountExact FaceFresh TakenInTime StudyTypeOK OneTimed LearnsLength PostsStableLength
PROPERTIES ShowsAsSign EndsWithPhase PostsAtPhaseStart
