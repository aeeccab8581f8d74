\* A malicious sender names a projection or a skip-copy entry "../x".
CONSTANTS
    Base = b
    p1 = p1
    n1 = n1
    n2 = n2
    Escape = esc
    Nothing = none
    Names = {n1, n2}
    NameOrder <- MCNameOrder
    ProjSeqs <- MCOneProjection
    FilesOf <- MCFilesOf
    Src <- MCSrc
    Values = {0, 1}
    TamperKinds = {"proj", "skip"}
    FaultKinds = {"cancel", "break", "corrupt"}
    MaxFaults = 1
    MaxAttempts = 2
    Implicit = {n1, n2}
    MapFile = m
    SrcOffset <- MCSrcOffset
    CompactChoices = {FALSE}
    PartTypes = {"Wide"}
    HasOldVersion = {TRUE, FALSE}
SPECIFICATION Spec
INVARIANT PathSafety
CHECK_DEADLOCK FALSE
