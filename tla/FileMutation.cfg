CONSTANTS
    w1 = w1
    w2 = w2
    d = d
    p = p
    Requests = {w1, w2, d}
    Paths = {p}
    PathOf <- Target
    Directories = {d}
CHECK_DEADLOCK FALSE
SPECIFICATION MutationSpec
INVARIANTS
    AnswersHonest
    WholeFiles
    NoLateOverwrite
