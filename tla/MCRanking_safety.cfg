SPECIFICATION Spec
CONSTANTS
    q1 = q1
    Users = {1, 2, 3}
    Scores = {0, 1, 2}
    Readers = {q1}
    Limits = {1, 2}
    Offsets = {0, 1, 3}
    Windows = {0, 1, 2}
INVARIANTS
    TypeOK
    StoresAgree
    RanksWithinTotal
