SPECIFICATION PingFairSpec
CONSTANTS
    Works = {w1, w2}
    MaxPings = 3
PROPERTY EveryPingAnswered
CHECK_DEADLOCK FALSE
