\* One batch of one item; the second command is the one a cut tick leaves over.
SPECIFICATION FairSpec
CONSTANTS
    b1 = b1
    i1 = i1
    i2 = i2
    Batches = {b1}
    NoBatch = NoBatch
    Items <- OneItem
    BatchOf <- ItsBatch
    NoCommand = NoCommand
    Commands = {c1, c2}
    Beats = {h1}
    NoBeat = NoBeat
    Sockets = {s1}
    NoSocket = NoSocket
    ProcessedCap = 3
    MaxRestarts = 0
    MaxFailures = 1
PROPERTIES
    CancelledStaysCancelled
    NothingWaits
