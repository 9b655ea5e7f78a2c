SPECIFICATION SafetySpec
ACTION_CONSTRAINT IntoFewAccidents
CONSTANTS
    backend = backend
    fullstack = fullstack
    image = image
    shared = shared
    clone = clone
    Nobody = Nobody
    Tasks <- MCTasks
    Paths <- MCPaths
    PathOf <- MCPathOf
    Chain <- MCChain
    GitTasks <- MCGitTasks
    Requests = {r1}
    MaxBuilds = 2
    MaxCrashes = 1
    MaxFaults = 2
INVARIANTS
    TypeOK
    SlotAccounting
    WorkersDisjoint
    FinishedScheduled
    LostRowsClosed
    FailedKeepsWorkspace
    CancelAnswerTruthful
    ProcessReachable
    HistoryAgrees
PROPERTIES
    CancelledIsFinal
\* Builds are finite in number: when all have ended and every request is
\* answered, nothing is left to happen.
CHECK_DEADLOCK FALSE
