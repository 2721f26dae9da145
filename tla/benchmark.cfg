CONSTANTS
    Main = main
    Writers = {main, decoder}
    Nobody = nobody
    MaxScopes = 3
    Sessions = 2
    Runs = 2
    Iterations = 1
SPECIFICATION Spec
INVARIANTS
    TypeOK
    TraceWellFormed
    SamplesOfThisRun
PROPERTIES
    Ends
