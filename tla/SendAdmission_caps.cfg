\* Admission: the caps on parallel sends are not exceeded (violated).
CONSTANTS
    r1 = r1
    r2 = r2
    r3 = r3
    t1 = t1
    t2 = t2
    Requests <- MCRequests
    Tables <- MCTables
    TableOf <- MCTableOf
    MaxParallelSends = 2
    MaxParallelSendsForTable = 1
SPECIFICATION Spec
INVARIANT SendsWithinCaps
CHECK_DEADLOCK FALSE
