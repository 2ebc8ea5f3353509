SPECIFICATION CommSpec
CONSTANTS
    MaxNum = 3
    MaxShown = 2
    SyncMod = 16
    PerSecond = 10
    LastSecond = 8
    Burst = 1
    Messages <- NationalPosts
    Configs <- MotorSign
    Lamps <- RedGreen
INVARIANTS NoOvershoot CountExact
PROPERTIES ForeignOnlyInWindow
