SPECIFICATION FilesSpec
CONSTANTS
    image = image
    site = site
    backend = backend
    tool = tool
    NoBuild = NoBuild
    User = User
    Builds <- MCBuilds
    Chain <- MCChain
    Full = {tool}
    WithEnv = {image}
    MaxCrashes = 0
    MaxEdits = 1
INVARIANT EnvRestored
\* The builds are finite in number and each runs once: all of them leaving
\* is the end.
CHECK_DEADLOCK FALSE
