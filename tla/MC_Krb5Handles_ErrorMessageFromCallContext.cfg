CONSTANTS
    N = 4
SPECIFICATION Spec
INVARIANTS
    ErrorMessageFromCallContext
