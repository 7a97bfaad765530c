CONSTANTS
    N = 2
SPECIFICATION Spec
PROPERTIES
    OnlySessionTeardownFatal
