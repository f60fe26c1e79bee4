SPECIFICATION Spec
CONSTANTS
    a = a
    b = b
    c = c
    Dirs = {root, a, b, c}
    Root = root
    Repositories <- RootsAndTrees
INVARIANTS TypeOK ReportedRight MissedBesideInvalid
CHECK_DEADLOCK FALSE
