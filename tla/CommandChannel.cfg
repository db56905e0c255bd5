\* Two heartbeats and two connections may overlap.
SPECIFICATION ChannelSpec
CONSTANTS
    Commands = {c1}
    Beats = {h1, h2}
    NoBeat = NoBeat
    Sockets = {s1, s2}
    NoSocket = NoSocket
    ProcessedCap = 1
    MaxRestarts = 1
SYMMETRY Symmetry
INVARIANTS
    TypeOK
    RunsOncePerLife
    RecordedOutcomeIsReal
