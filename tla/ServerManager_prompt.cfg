SPECIFICATION FairSpec
CONSTANTS
    CreateSessionNum = 2
    MaxID = 10
    NumServers = 3
    ConnectFails = FALSE
    MaxLost = 1
INVARIANTS
    TypeOK
    LiveConnectionsOwned
    KeysNotSpare
    InstancesListed
    ConnectedChecked
    SessionsDistinct
PROPERTIES
    OnlyBrokenRenewed
    BrokenRenewed
