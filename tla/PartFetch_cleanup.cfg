\* Fetch of a part with a projection, cancelled at some point.
CONSTANTS
    Base = b
    p1 = p1
    n1 = n1
    n2 = n2
    Escape = esc
    Nothing = none
    Names = {n1, n2}
    NameOrder <- MCNameOrder
    ProjSeqs <- MCOneProjection
    FilesOf <- MCFilesOf
    Src <- MCSrc
    Values = {0, 1}
    TamperKinds = {}
    FaultKinds = {"cancel"}
    MaxFaults = 1
    MaxAttempts = 2
    Implicit = {n1, n2}
    MapFile = m
    SrcOffset <- MCSrcOffset
    CompactChoices = {FALSE}
    PartTypes = {"Wide"}
    HasOldVersion = {FALSE}
SPECIFICATION Spec
INVARIANT FailedFetchLeavesNoDownloadDir
CHECK_DEADLOCK FALSE
