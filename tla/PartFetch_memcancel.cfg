\* Fetch of an in-memory part, cancelled while its block is in flight.
CONSTANTS
    Base = b
    p1 = p1
    n1 = n1
    n2 = n2
    Escape = esc
    Nothing = none
    Names = {n1, n2}
    NameOrder <- MCNameOrder
    ProjSeqs <- MCOneProjection
    FilesOf <- MCFilesOf
    Src <- MCSrc
    Values = {0, 1}
    TamperKinds = {}
    FaultKinds = {"cancel"}
    MaxFaults = 1
    MaxAttempts = 2
    Implicit = {n1, n2}
    MapFile = m
    SrcOffset <- MCSrcOffset
    CompactChoices = {FALSE}
    PartTypes = {"InMemory"}
    HasOldVersion = {FALSE}
SPECIFICATION Spec
PROPERTY NoChunkAfterCancel
CHECK_DEADLOCK FALSE
