CONSTANTS
    el = el
    ea = ea
    g = g
    h = h
    t1 = t1
    t2 = t2
    NoVI = NoVI
    ExternallyLinkableRegions = el
    ExternallyAccessibleRegions = ea
    VIs = {el, ea, g, h, t1, t2}
    Regions = {el, g, h}
    MaxRelations = 3
    MaxEnumerated = 1
    MaxMentioned = 3
SPECIFICATION Spec
SYMMETRY Symmetric
CHECK_DEADLOCK FALSE
INVARIANTS
    TypeOK
    PointsToIsAndersen
    ReverseIsInverse
    TransformsDistinct
    EscapeIsClosed
