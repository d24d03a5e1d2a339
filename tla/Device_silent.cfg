SPECIFICATION DevSpec
CONSTANTS
    Models = {m1, m2}
    Period = 1
    MinPacket = 8
    MaxItems = 2
    MaxFrames = 3
INVARIANT CalledPerFrameToSend
CHECK_DEADLOCK FALSE
