SPECIFICATION CommSpec
CONSTANTS
    MaxNum = 2
    MaxShown = 2
    SyncMod = 5
    PerSecond = 3
    LastSecond = 2
    Burst = 1
    Messages <- WithCommands
    Configs <- MotorSign
    Lamps <- RedGreen
PROPERTIES OffObeyed
