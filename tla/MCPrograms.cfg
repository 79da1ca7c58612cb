CONSTANTS
    el = el
    ea = ea
    g = g
    h = h
    t = t
    u = u
    VIs = {el, ea, g, h, t, u}
    Regions = {el, g, h}
    ExternallyLinkableRegions = el
    ExternallyAccessibleRegions = ea
    NoVI = NoVI
    NoAR <- MCNull
    NoAlg <- MCNull
    ARs <- MCARs
    Algs <- MCAlgs
    Systems = {}
    Programs <- MCPrograms
SPECIFICATION AndersenSpec
INVARIANTS
    SetsAreAndersen
