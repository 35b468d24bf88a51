SPECIFICATION AgentSpec
CONSTANTS
    d1 = d1
    d2 = d2
    AgentDevices <- TwoDevices
    Fixed <- OneFixed
    MaxChanges = 3
    MaxFails = 2
    FailPoints <- Anywhere
INVARIANT AgentTypeOK
 
 
