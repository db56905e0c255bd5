\* Two exchanges may overlap: a live one and one the agent gave up.
SPECIFICATION Spec
CONSTANTS
    Devices = {d1, d2}
    Absent = Absent
    Slots = {s1, s2}
    NoSlot = NoSlot
    MaxRows = 2
    MaxCounter = 1
    BatchLimit = 2
    ScanLimit = 2
    BackpressureLimit = 0
SYMMETRY Symmetry
INVARIANTS
    TypeOK
    AcknowledgedIsHandled
    StoredAtMostOnce
    WebhookAtMostOnce
    AcknowledgedIsEvaluated
\* The rows are bounded, so the printers and the queue come to rest.
CHECK_DEADLOCK FALSE
