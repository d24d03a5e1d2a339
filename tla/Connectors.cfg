SPECIFICATION MCSpec
CONSTANTS
    MaxMsgs = 4
    MaxStarts = 2
    Size <- Sizes
    BufferSize = 2
    Works = {w1, w2}
    MaxPings = 3
    u1 = u1
    u2 = u2
    Uuids = {u1, u2}
    Name <- Named
    Handlers = {h1, h2}
    Threshold = 1
    MaxTime = 2
INVARIANTS ConnectorsTypeOK Heard QuietAfterStop LossesAccountedFor RelaysInOrder
    ClientThere MapsAgree
PROPERTIES StopReturns EventuallyHanded  SourceStops
CONSTRAINT FewInHand
CHECK_DEADLOCK FALSE
