CONSTANTS
    NumTags <- MCNumTags
    QueryCount <- MCQueryCount
    VarTags <- MCVarTags
    Values = {v1, v2}
    NoValue = NoValue

SPECIFICATION Spec

PROPERTY CachedValueNeverChanges
