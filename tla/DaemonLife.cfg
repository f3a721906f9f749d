SPECIFICATION Spec
CONSTANTS
    FrontEnds = {f1, f2}
    Daemons = {d1, d2}
    None = None
    Commands = {"run", "restart_force", "clean"}
    MaxCommands = 3
    MaxCrashes = 1
    MaxPings = 1
    MaxWaits = 1
    MaxTries = 1
INVARIANTS OneDaemon
PROPERTIES BuildsTakeTurns FrontEndsEnd
CHECK_DEADLOCK FALSE
