\* Zero-copy fetch of a part with a projection, without faults.
CONSTANTS
    n1 = n1
    n2 = n2
    Nothing = none
    Names <- MCNames
    NameOrder <- MCOrder
    Src <- MCSrc
    DirEntryChoices <- MCProjPart
    Values = {0, 1}
    MaxFaults = 0
    MaxAttempts = 2
SPECIFICATION Spec
INVARIANT HealthyPartNeverReportedBroken
\* A fetch ends in a part or in a failure with no retry left.
CHECK_DEADLOCK FALSE
