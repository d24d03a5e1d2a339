SPECIFICATION Spec
CONSTANTS
    Subject = {s1}
    hip = hip
    knee = knee
    Joint = {hip, knee}
    Unset = Unset
    Skeleton <- TwoShapes
    Value = {0, 1}
    Narrow <- Exact
    Ulp = 0
    Threshold = 0
    KeyframePeriod = 3
    Capacity = 1
    Animated = {"translation"}
    Events = {"rebuild"}
PROPERTY UpdatesMatchSkeleton
