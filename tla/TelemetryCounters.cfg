\* One printer whose counter moves, one exchange at a time, a batch smaller
\* than the queue, and a scan that may take the printer twice.
SPECIFICATION DropsSpec
CONSTANTS
    Devices = {d1}
    Absent = Absent
    Slots = {s1}
    NoSlot = NoSlot
    MaxRows = 2
    MaxCounter = 2
    BatchLimit = 1
    ScanLimit = 2
    BackpressureLimit = 1
INVARIANTS
    QueueBounded
    OldestFirst
    
PROPERTY ImplementsReliableTelemetry
\* The rows are bounded, so the printers and the queue come to rest.
CHECK_DEADLOCK FALSE
