\* Two packages of one row, two workers; one of them dies or falls behind, or an object is
\* deleted; one new decision of the user's. MCStart says where a behaviour begins.
SPECIFICATION MCSpec
CONSTANTS
    Batches = {b1, b2}
    b1 = b1
    b2 = b2
    c1 = c1
    c2 = c2
    Contents = {c1, c2}
    Exports <- MCExports
    RowCount = 1
    Workers = {w1, w2}
    MaxMishaps = 1
    MaxChoices = 1
    Other = other
    None = None
INVARIANTS
    TypeOK
    CompletedMeansDone
PROPERTIES
    ImportedOnce
    ImportEnds
