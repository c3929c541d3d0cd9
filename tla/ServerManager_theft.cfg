SPECIFICATION Spec
CONSTANTS
    CreateSessionNum = 2
    MaxID = 10
    NumServers = 2
    ConnectFails = TRUE
    MaxLost = 3
PROPERTY OnlyBrokenRenewed
