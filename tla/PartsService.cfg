\* The server: admission of FetchPart and the list/exist queries over one
\* table whose parts move through their lifecycle.
CONSTANTS
    r1 = r1
    r2 = r2
    r3 = r3
    t1 = t1
    t2 = t2
    p1 = p1
    a = a
    b = b
    f = f
    g = g
    All = All
    NoFilter = NoFilter
    Requests <- MCRequests
    Tables <- MCTables
    TableOf <- MCTableOf
    MaxParallelSends = 2
    MaxParallelSendsForTable = 1
    PartOf <- MCPartOf
    Parts <- MCParts
    Partitions <- MCPartitions
    PartitionOf <- MCPartitionOf
    DropRangeParts = {}
    Filters = {f, g}
    BadFilters = {g}
    FilterMatch <- MCFilterMatch
SPECIFICATION Spec
INVARIANT TypeOK
INVARIANT ListedPartStaysFetchable
PROPERTY RejectionJustified
