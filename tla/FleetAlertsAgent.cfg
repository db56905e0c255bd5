\* One agent, no failure, nobody in the portal.
SPECIFICATION FairFleetSpec
CONSTANTS
    a1 = a1
    d1 = d1
    Agents = {a1}
    Devices = {d1}
    AgentOf <- OneSite
    MaxSilences = 1
    MaxEdits = 0
    MaxFaults = 0
PROPERTY AgentAlertResolves
