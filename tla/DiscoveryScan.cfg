\* Chunks of three addresses, two at a time, over laps of four and three.
SPECIFICATION Spec
CONSTANTS
    RangeLists <- SomeRanges
    NoFingerprint = NoFingerprint
    NumHosts = 3
    CHUNK_MAX_IPS = 3
    CONCURRENCY_LIMIT = 2
    MaxCrashes = 2
    MaxEdits = 3
INVARIANTS
    DiscoveryTypeOK
    CursorIsSound
PROPERTIES
    LapIsWhole
    RestartTakesEffect
    DeclaredIsProbed
    PinnedGetTheirTurn
