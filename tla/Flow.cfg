SPECIFICATION FairSpec
CONSTANTS
    v1 = v1
    undef = undef
    Undef = undef
    Scripts <- FlowScripts
    Vals <- OneVal
    MaxOps = 3
    MaxFiles = 1
    MaxBlocks = 2
    MaxIter = 1
    MaxPolicy = 3
INVARIANTS
    ContextsMatch
    ScopesMatch
    ReturnConsumed
PROPERTIES
    ReturnPropagates
    ReturnEnds
