SPECIFICATION Spec
CONSTANTS
    None = None
    root = root
    Root <- MCRoot
    Files <- MCFiles
    Tree <- MCTree
    Packages <- MCPackages
    Scripts <- MCScripts
    HostEnv <- MCHostEnv
INVARIANTS StacksAligned LocksScoped SubmissionFresh ActivesAligned FetchedOnce ReplayFaithful PropertiesMirrored
PROPERTIES MakeAvailableComplete
