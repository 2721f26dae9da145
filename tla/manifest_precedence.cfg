CONSTANTS
    Scenarios <- BothManifests
    Loader = loader
    Other = other
    Threads = {loader, other}
    HexLength = 3
    Alphabetical <- SomeOrder
    NotAString = notAString
    Disk <- SomeDisk
    Unreachable = {"unreachable"}
    ManifestLike = {"manifest1"}
SPECIFICATION Spec
INVARIANT FirstManifestPreferred
