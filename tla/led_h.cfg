SPECIFICATION LedSignSpec
CONSTANTS
    MaxNum = 2
    MaxShown = 2
    SyncMod = 5
    PerSecond = 3
    LastSecond = 2
    Burst = 1
    Messages <- WithH
    Configs <- RedOnly
    Lamps <- RedGreen
INVARIANTS OneColour
