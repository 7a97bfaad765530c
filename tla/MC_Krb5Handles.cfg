CONSTANTS
    N = 5
SPECIFICATION Spec
INVARIANTS
    TypeOK
    NoDanglingHandle
