SPECIFICATION Spec
CONSTANTS
    Plans <- MCDashboardPlans
    Configs <- MCConfigs
INVARIANT
    DashboardBuilds
CHECK_DEADLOCK FALSE
