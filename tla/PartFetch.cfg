\* A part with or without a projection, fetched with or without an old
\* version, with one fault and one retry.
CONSTANTS
    Base = b
    p1 = p1
    n1 = n1
    n2 = n2
    Escape = esc
    Nothing = none
    Names = {n1, n2}
    NameOrder <- MCNameOrder
    ProjSeqs <- MCAnyProjections
    FilesOf <- MCFilesOf
    Src <- MCSrc
    Values = {0, 1}
    TamperKinds = {"file"}
    FaultKinds = {"cancel", "break", "corrupt"}
    MaxFaults = 1
    MaxAttempts = 2
    Implicit = {n1, n2}
    MapFile = m
    SrcOffset <- MCSrcOffset
    CompactChoices = {FALSE, TRUE}
    PartTypes = {"Wide", "InMemory"}
    HasOldVersion = {TRUE, FALSE}
SPECIFICATION Spec
INVARIANTS TypeOK FramingAgrees SkipEntriesLinkable MapFileInOffsetOrder
    ManifestComplete
PROPERTIES ImplementsPartTransfer
CHECK_DEADLOCK FALSE
