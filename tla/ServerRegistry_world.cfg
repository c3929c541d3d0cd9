SPECIFICATION LiveSpec
CONSTANTS
    room = room
    game = game
    ID = {1, 2}
    Peer = {room, game}
    Types <- WorldTypes
    TypeOf <- WorldTypeOf
    None = None
    MaxPackets = 2
    MaxWaiting = 2
INVARIANTS
    TypeOK
    EntriesOwned
    RegistrationsTaken
PROPERTIES
    ConnectedStay
    FoundAgain
