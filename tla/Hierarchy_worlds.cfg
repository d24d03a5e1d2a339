SPECIFICATION Spec
CONSTANTS
    Shapes <- ThreeThenOne
    Value = {v, w, x}
    Huge = {w}
    Burst = {x}
    NaN = NaN
CONSTRAINT OneOverflow
INVARIANTS RightWorlds WorldsSettled CycleNeverReported
PROPERTIES CallsEnd OverflowSticks
