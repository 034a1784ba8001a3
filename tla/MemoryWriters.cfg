SPECIFICATION Spec
CONSTANTS
    a1 = a1
    a2 = a2
    m1 = m1
    m2 = m2
    c1 = c1
    c2 = c2
    t1 = t1
    Actors = {a1, a2}
    Ids = {m1, m2}
    Contents = {c1, c2}
    Tags = {t1}
    MaxOps = 4
    MaxOverlapOps = 3
SYMMETRY Symmetry
INVARIANTS
    TypeOK
    HistoryMatchesRecord
    IndexedOnce
    MergedTagsSurvive
    IndexedMemoriesExist
    RetrievedWasVetted
