SPECIFICATION AgentSpec
CONSTANTS
    d1 = d1
    d2 = d2
    AgentDevices <- TwoDevices
    Fixed <- OneFixed
    MaxChanges = 2
    MaxFails = 0
    FailPoints = {}
PROPERTY GoneReported
