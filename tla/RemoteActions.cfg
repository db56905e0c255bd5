\* One batch of two items; the third command is the one a cut tick leaves over.
SPECIFICATION Spec
CONSTANTS
    b1 = b1
    i1 = i1
    i2 = i2
    Batches = {b1}
    NoBatch = NoBatch
    Items <- TwoItems
    BatchOf <- SameBatch
    NoCommand = NoCommand
    Commands = {c1, c2, c3}
    Beats = {h1}
    NoBeat = NoBeat
    Sockets = {s1}
    NoSocket = NoSocket
    ProcessedCap = 3
    MaxRestarts = 0
    MaxFailures = 1
SYMMETRY Symmetry
INVARIANTS
    ActionsTypeOK
    SentIsComplete
    ClosedMeansRun
PROPERTIES
    ClosedIsFinal
    NoSecondCommand
