CONSTANTS
    Card = {c1, c2}
    Text = {t1, t2}
    Filters = {f1, f2}
    Absent = Absent
    Builder = {b1, b2}
    Batch = 1
    MaxWrites = 1
SPECIFICATION Spec
INVARIANTS
    TypeOK
    IndexIsSound
    OkMeansCurrent
SYMMETRY Symmetry
CHECK_DEADLOCK FALSE
