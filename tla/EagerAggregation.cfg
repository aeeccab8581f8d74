\* One application of the rule to every plan of MCPlans under every setting.
CONSTANTS
    Plans <- MCAllPlans
    Settings <- MCSettings
    Contents <- MCContents
    StatsChoices <- MCStatsChoices
    LocalAggId = 40
INIT Init
NEXT Next
INVARIANTS TypeOK RewriteWellFormed SemanticEquivalence
\* transformImpl returns: done, refused and error are final
CHECK_DEADLOCK FALSE
