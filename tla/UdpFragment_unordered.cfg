SPECIFICATION Spec
CONSTANTS
    Size = {2, 3, 4}
    FragmentSize = 2
    IdModulus = 3
    MaxFrames = 3
    Events = {"lose", "reorder", "duplicate", "restart"}
INVARIANTS RightBytes NoneLeftComplete NothingUsedTwice
CHECK_DEADLOCK FALSE
