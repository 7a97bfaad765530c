CONSTANTS
    f1 = f1
    f2 = f2
    f3 = f3
    s1 = s1
    s2 = s2
    s3 = s3
    NONE = NONE
    Files <- MCFiles
    Slots <- MCTwoSlots
    MaxFaults = 2
    Timeouts = TRUE
SPECIFICATION Spec
PROPERTY
    PublishedNeverTruncated
