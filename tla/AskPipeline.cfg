CONSTANTS
    Requests = {r1, r2}
    Earlier = {r0}
    Questions = {q1, q2}
    Near <- AllNear
    Topics = {t1}
    Sessions = {s1}
    None = None
    Cap = 1
SYMMETRY Symmetry
SPECIFICATION Spec
INVARIANTS
    TypeOK
    TableBounded
    ServedFits
    TurnsAreOfAnswered
CHECK_DEADLOCK FALSE
