\* Two printers of two clients, two rules.
SPECIFICATION FairSpec
CONSTANTS
    d1 = d1
    d2 = d2
    c1 = c1
    c2 = c2
    own = own
    global = global
    Devices = {d1, d2}
    Clients = {c1, c2}
    ClientOf <- ItsClient
    Types = {t1, t2}
    Rules = {own, global}
    NoRule = NoRule
    RuleClient <- RuleOf
    AnyClient = AnyClient
    Enabled = {own, global}
    AutoCloses = {global}
    MaxAlerts = 2
    MaxEdits = 2
    MaxFaults = 1
INVARIANT IncidentsTypeOK
PROPERTY OpenAlertHasIncident
