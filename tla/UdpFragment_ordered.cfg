SPECIFICATION Spec
CONSTANTS
    Size = {1, 2, 4, 5}
    FragmentSize = 2
    IdModulus = 6
    MaxFrames = 4
    Events = {"lose"}
INVARIANTS TypeOK ReceivedIsHandedOver
PROPERTY InOrder
CHECK_DEADLOCK FALSE
