CONSTANTS
    Launches <- MCLaunches
    Traces <- MCTraces
    Lists = {1, 2, 5, 10, 12, 16}
    ScanLimit = 10
    TopKs = {0, 1, 2, 3, 4, 5, 6, 8}
    ThreadsPerBlock = 3
SPECIFICATION Spec
INVARIANTS
    TypeOK
    OwnDrafts
    FlagMeansAllDone
    StrandedOnlyAtBound
    FirstPageOnly
    DeviceFollowsSimulator
    BothPathsAgree
    ReplayServesInOrder
    PlansAreSound
PROPERTIES
    LauncherEnds
CHECK_DEADLOCK FALSE
