SPECIFICATION Spec
CONSTANTS
    v1 = v1
    undef = undef
    Undef = undef
    Scripts <- StaleScripts
    Vals <- OneVal
    MaxOps = 3
    MaxFiles = 1
    MaxBlocks = 2
    MaxIter = 2
    MaxPolicy = 4
INVARIANTS
    SignalHasLoop
