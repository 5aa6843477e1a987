\* Two pictures of a house that two packages describe; the field takes two.
SPECIFICATION Spec
CONSTANTS
    Assets = {1, 2}
    RecordCount = 2
    Workers = {w1, w2}
    Own = Own
    Limit = 2
    MaxEvents = 2
    None = None
SYMMETRY WorkersAlike
INVARIANTS
    TypeOK
    UserEditsKept
    AttachedAtRest
\* The user has made his edits, and every picture is stored.
CHECK_DEADLOCK FALSE
