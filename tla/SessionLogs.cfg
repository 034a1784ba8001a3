SPECIFICATION Spec
CONSTANTS
    p1 = p1
    p2 = p2
    named = named
    Processes = {p1, p2}
    Named = {named}
    MaxCounter = 1
    MaxTurns = 2
    MaxMessages = 1
    MaxEdits = 1
SYMMETRY Symmetry
INVARIANTS
    TypeOK
    TurnsAreLoggedInOrder
    ConversationIsOnDisk
