CONSTANTS
    Scenarios <- SomeScenarios
    Loader = loader
    Other = other
    Threads = {loader, other}
    HexLength = 3
    Alphabetical <- SomeOrder
    NotAString = notAString
    Disk <- SomeDisk
    Unreachable = {"unreachable"}
    ManifestLike = {"manifest1"}
SPECIFICATION Spec
INVARIANTS
    TypeOK
    MetadataOwn
    CryptomattesOwn
    FailsExactlyIfWrong
    HashesAsWritten
    BrokenManifestSurvives
    LoggerKept
PROPERTIES
    Returns
