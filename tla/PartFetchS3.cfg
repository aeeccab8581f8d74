\* Zero-copy fetch of a part with or without a projection, one fault, one retry.
CONSTANTS
    n1 = n1
    n2 = n2
    Nothing = none
    Names <- MCNames
    NameOrder <- MCOrder
    Src <- MCSrc
    DirEntryChoices <- MCAnyPart
    Values = {0, 1}
    MaxFaults = 1
    MaxAttempts = 2
SPECIFICATION Spec
INVARIANTS TypeOK FramingAgrees
PROPERTIES ImplementsPartTransfer
\* A fetch ends in a part or in a failure with no retry left.
CHECK_DEADLOCK FALSE
