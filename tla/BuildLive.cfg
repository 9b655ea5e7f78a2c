SPECIFICATION LiveSpec
CONSTANTS
    backend = backend
    fullstack = fullstack
    image = image
    shared = shared
    clone = clone
    Nobody = Nobody
    Tasks <- MCTasks
    Paths <- MCPaths
    PathOf <- OnePathOf
    Chain <- MCChain
    GitTasks = {}
    Requests = {r1}
    MaxBuilds = 2
    MaxCrashes = 0
    MaxFaults = 0
PROPERTIES
    EveryBuildEnds
    EveryDeleteAnswered
    CancelledInLineNeverRuns
    MemoryReclaimed
\* Builds are finite in number: when all have ended and every request is
\* answered, nothing is left to happen.
CHECK_DEADLOCK FALSE
