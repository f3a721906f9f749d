SPECIFICATION Spec
CONSTANTS
    Plans <- MCPlans
    Configs <- MCConfigs
INVARIANTS
    BuildIsCurrent
    ConfigsApart
    NoReentry
    PackagesExact
CHECK_DEADLOCK FALSE
