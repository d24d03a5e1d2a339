SPECIFICATION Spec
CONSTANTS
    Subject = {s1}
    hip = hip
    knee = knee
    Joint = {hip, knee}
    Unset = Unset
    Skeleton <- TwoShapes
    Value = {0, 2}
    Narrow <- Exact
    Ulp = 0
    Threshold = 0
    KeyframePeriod = 2
    Capacity = 1
    Animated = {"rotation"}
    Events = {"rebuild", "lose"}
INVARIANTS StreamInv SkeletonWhole
