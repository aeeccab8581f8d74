\* A zero-copy fetch that failed is retried without any fault.
CONSTANTS
    n1 = n1
    n2 = n2
    Nothing = none
    Names <- MCNames
    NameOrder <- MCOrder
    Src <- MCSrc
    DirEntryChoices <- MCPlainPart
    Values = {0, 1}
    MaxFaults = 1
    MaxAttempts = 2
SPECIFICATION Spec
INVARIANT NoFailureWithoutFault
\* A fetch ends in a part or in a failure with no retry left.
CHECK_DEADLOCK FALSE
