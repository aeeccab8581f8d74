\* Incremental fetch of a part with a projection, no faults.
CONSTANTS
    Base = b
    p1 = p1
    n1 = n1
    n2 = n2
    Escape = esc
    Nothing = none
    Names = {n1, n2}
    NameOrder <- MCNameOrder
    ProjSeqs <- MCOneProjection
    FilesOf <- MCFilesOf
    Src <- MCSrc
    Values = {0, 1}
    TamperKinds = {}
    FaultKinds = {"cancel", "break", "corrupt"}
    MaxFaults = 0
    MaxAttempts = 2
    Implicit = {n1, n2}
    MapFile = m
    SrcOffset <- MCSrcOffset
    CompactChoices = {FALSE}
    PartTypes = {"Wide"}
    HasOldVersion = {TRUE}
SPECIFICATION Spec
INVARIANT HealthyPartNeverReportedBroken
CHECK_DEADLOCK FALSE
