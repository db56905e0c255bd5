\* One exchange at a time, batches of one row; counters do not matter here.
SPECIFICATION FairSpec
CONSTANTS
    Devices = {d1}
    Absent = Absent
    Slots = {s1}
    NoSlot = NoSlot
    MaxRows = 2
    MaxCounter = 1
    BatchLimit = 1
    ScanLimit = 1
    BackpressureLimit = 1
PROPERTY EverythingIsSettled
\* The rows are bounded, so the printers and the queue come to rest.
CHECK_DEADLOCK FALSE
