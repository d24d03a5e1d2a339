SPECIFICATION FairSpec
CONSTANTS
    Subject = {s1}
    hip = hip
    knee = knee
    Joint = {hip, knee}
    Unset = Unset
    Skeleton <- OneJoint
    Value = {0, 1}
    Narrow <- Exact
    Ulp = 0
    Threshold = 0
    KeyframePeriod = 2
    Capacity = 1
    Animated = {"translation"}
    Events = {"toggle", "rebuild", "upset", "lose", "restart"}
PROPERTY Repaired
