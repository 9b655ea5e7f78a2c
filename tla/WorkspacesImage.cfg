SPECIFICATION Spec
CONSTANTS
    binary = binary
    docker = docker
    img = img
    none = none
    Tasks = {binary, docker}
    Images = {img}
    NoImage = none
    ImageOf <- OneOfEach
    SuccessTTL = 1
    FailedTTL = 2
    OrphanTTL = 1
    ImageTTL = 1
    MaxAge = 3
    MaxCrashes = 0
    MaxFaults = 0
PROPERTIES
    RemovedOnceExported
