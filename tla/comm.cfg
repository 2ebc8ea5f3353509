SPECIFICATION LedSignSpec
CONSTANTS
    MaxNum = 2
    MaxShown = 2
    SyncMod = 5
    PerSecond = 3
    LastSecond = 2
    Burst = 1
    Messages <- TotalPerColour
    Configs <- MotorSign
    Lamps <- RedGreen
INVARIANTS CommTypeOK OwnNumber FaceFresh LedsShowFace
PROPERTIES ShowsAsSign
