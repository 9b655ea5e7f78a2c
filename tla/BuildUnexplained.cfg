SPECIFICATION SafetySpec
CONSTANTS
    backend = backend
    fullstack = fullstack
    image = image
    shared = shared
    clone = clone
    Nobody = Nobody
    Tasks <- MCTasks
    Paths <- MCPaths
    PathOf <- MCPathOf
    Chain <- MCChain
    GitTasks <- MCGitTasks
    Requests = {r1}
    MaxBuilds = 1
    MaxCrashes = 0
    MaxFaults = 0
INVARIANTS
    FailedBuildsExplained
\* Builds are finite in number: when all have ended and every request is
\* answered, nothing is left to happen.
CHECK_DEADLOCK FALSE
