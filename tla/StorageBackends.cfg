SPECIFICATION Spec
CONSTANTS
    Clients = {c1, c2, c3}
    Keys = {k1}
    Payloads = {p1, p2}
    MaxVersion = 1
    MaxEntries = 3
INVARIANTS
    TypeOK
    AckedEntriesKept
PROPERTIES
    ImplementsAppendLog
