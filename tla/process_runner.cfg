SPECIFICATION Spec
CONSTANTS
    MaxOutput = 3
    Chunks <- MCChunks
    MaxReceived = 6
INVARIANTS
    OutputIsAccounted
    KillIsReported
PROPERTIES
    NoKillAfterEnd
    ImplementsResult
    Settles
