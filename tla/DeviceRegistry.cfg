SPECIFICATION Spec
CONSTANTS
    a1 = a1
    a2 = a2
    a3 = a3
    c1 = c1
    c2 = c2
    Agents = {a1, a2, a3}
    Clients = {c1, c2}
    ClientOf <- TwoSites
    Serials = {s1, s2}
    Placeholders = {p1}
    NoSerial = none
    Ips = {i1}
    NoIp = noip
    Handlers = {h1, h2}
    Lines = {l1}
    MaxRows = 3
    MaxRequests = 2
    MaxEdits = 1
SYMMETRY Interchangeable
CHECK_DEADLOCK FALSE
INVARIANTS
    DeviceTypeOK
    RowsAreCoherent
    LateReadingsOnly
    ReadingsStayWithTheirPrinter
    LinesKeepTheirDevice
