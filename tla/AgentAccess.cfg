\* Two tokens expire at most once each; one fault, one operation of the portal.
SPECIFICATION FairSpec
CONSTANTS
    IpRanges = {none, r1}
    NoRanges = none
    MaxTokens = 2
    MaxFaults = 1
    MaxEdits = 1
INVARIANTS
    AccessTypeOK
    PairIsHeld
    RevokedStaysOut
PROPERTIES
    AgentCatchesUp
