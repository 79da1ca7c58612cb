CONSTANTS
    p = p
    q = q
    n = n
    x = x
    y = y
    k = k
    c1 = c1
    c2 = c2
    NoCall = NoCall
    NoPointer = NoPointer
    Pointers = {p, q}
    Scalars = {n}
    Regions = {x, y, k}
    ConstantRegions = {k}
    Calls = {c1, c2}
    ProgramsToAsk <- MCPrograms
SPECIFICATION Spec
CHECK_DEADLOCK FALSE
INVARIANTS
    CallsAreCovered
    DependencesAreCovered
    AccessesAreCovered
