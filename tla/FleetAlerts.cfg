\* One agent with one printer: what they share is the status of the agent.
SPECIFICATION FairFleetSpec
CONSTANTS
    a1 = a1
    d1 = d1
    Agents = {a1}
    Devices = {d1}
    AgentOf <- OneSite
    MaxSilences = 2
    MaxEdits = 1
    MaxFaults = 1
INVARIANTS FleetTypeOK RetiredStaysQuiet
PROPERTY MonitorKeepsUp
