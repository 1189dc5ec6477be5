SPECIFICATION Spec
CONSTANTS
    Task = {t1, t2, t3, t4, t5}
    Blob = {b1, b2}
SYMMETRY TaskSymmetry
INVARIANTS TypeOK NoPanic Exclusive WaitersHaveHolder
