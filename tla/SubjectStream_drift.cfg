SPECIFICATION Spec
CONSTANTS
    Subject = {s1}
    hip = hip
    knee = knee
    Joint = {hip, knee}
    Unset = Unset
    Skeleton <- OneJoint
    Value = {0, 1, 2, 3}
    Narrow <- Floor2
    Ulp = 1
    Threshold = 1
    KeyframePeriod = 3
    Capacity = 1
    Animated = {"translation"}
    Events = {"toggle", "lose"}
INVARIANT TypeOK
PROPERTY WholePoses
