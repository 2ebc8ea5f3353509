SPECIFICATION RcvSpec
CONSTANTS
    Lengths <- FrameLengths
    BufLen = 8
    FifoLen = 6
    FirstWait = 20
    NextWait = 2
    Rate = 1
    Pause <- NextWaits
    Quiet <- Settled
    Latency <- Slice
INVARIANTS RcvTypeOK NoByteForgotten ParsesFrameEnd ParsesWholeFrame ParsedInTime
PROPERTIES DeliversFrames
