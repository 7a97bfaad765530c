CONSTANTS
    i1 = i1
    i2 = i2
    i3 = i3
    k1 = k1
    k2 = k2
    v1 = v1
    v2 = v2
    NONE = NONE
    Instances <- MCInstances
    Keys <- MCKeys
    Values <- MCValues
    Gen <- MCGenRacy
    MaxCalls = 2
SPECIFICATION Spec
SYMMETRY MCSymmetry
INVARIANTS
    SavedOncePerInstance
