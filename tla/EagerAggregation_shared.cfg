\* sum(x) and max(x) over the same argument x, pushed below join 10.
CONSTANTS
    Plans <- MCSharedArgumentPlans
    Settings <- MCSettings
    Contents <- MCContents
    StatsChoices <- MCStatsChoices
    LocalAggId = 40
INIT Init
NEXT Next
INVARIANT SemanticEquivalence
CHECK_DEADLOCK FALSE
