SPECIFICATION Spec
CONSTANTS
    Shapes <- OneOfThree
    Value = {v}
    Huge = {}
    Burst = {}
    NaN = NaN
INVARIANT AllComputed
