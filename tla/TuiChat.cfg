SPECIFICATION MCSpec
CONSTANTS
    h1 = h1
    h2 = h2
    Homes = {h1, h2}
    MaxSessions = 2
    MaxTurns = 2
    MaxBatch = 2
INVARIANTS
    TypeOK
    ModalAnswersItsRequest
    BusyTurnIsReachable
    ConversationsDoNotMix
    PersistsOnlyNewMessages
PROPERTIES
    ComposerIsFreed
