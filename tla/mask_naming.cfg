CONSTANTS
    Hashes <- SomeHashes
    Zeros <- ZeroHashes
    Names <- SomeNames
    Hex <- HexOf
    MaxManifest = 2
    MaxArguments = 2
SPECIFICATION Spec
INVARIANTS
    TypeOK
    ThrowsOnUnknown
    NoMislabelledMask
    EachMaskNamed
