SPECIFICATION Spec
CONSTANTS
    u1 = u1
    t1 = t1  t2 = t2  t3 = t3  d1 = d1
    Trainer <- MCTrainer
    Users = {u1}
    Trainings = {t1, t2, t3}
    Deletions = {d1}
    Heavy = TRUE
    Keep = 1
    MaxFaults = 1
INVARIANTS
    ModelsArePresent
    OrphansWereDropped
    RetentionBounds
    InductiveInv
SYMMETRY MCSymmetry
PROPERTIES
    RetentionSparesNewest
    ShelfSpec
CHECK_DEADLOCK FALSE
