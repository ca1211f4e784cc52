CONSTANTS
    Card = {c1}
    Text = {t1}
    Filters = {f1}
    Absent = Absent
    Builder = {b1}
    Batch = 1
    MaxWrites = 0
SPECIFICATION Spec
INVARIANTS
    ReadyMeansSearchable
SYMMETRY Symmetry
CHECK_DEADLOCK FALSE
