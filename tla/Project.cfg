SPECIFICATION Spec
CONSTANTS
    image = image
    site = site
    backend = backend
    tool = tool
    shared = shared
    own = own
    Nobody = Nobody
    NoBuild = NoBuild
    User = User
    Tasks <- MCBuilds
    Paths <- MCPaths
    PathOf <- MCPathOf
    Builds <- MCBuilds
    Chain <- MCChain
    Full = {tool}
    WithEnv = {image, site}
    MaxCrashes = 2
    MaxEdits = 2
INVARIANTS
    LockTypeOK
    MutualExclusion
    OneLockPerPath
    FilesTypeOK
    FilesReturned
    BuildsFromOwnFiles
    LoadedOnce
    NewestSource
PROPERTIES
    NoBarging
    EveryBuildServed
    SerialSpec
\* The builds are finite in number and each runs once: all of them leaving
\* is the end.
CHECK_DEADLOCK FALSE
