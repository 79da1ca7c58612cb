CONSTANTS
    f = f
    x = x
    y = y
    p = p
    q = q
    s = s
    rx = rx
    ry = ry
    NoAR = NoAR
    NoVI = NoVI
    NoAlg = NoAlg
    ARs <- MCARs
    VIs <- MCVIs
    Algs <- MCAlgs
    Systems <- MCSystems
SPECIFICATION Spec
INVARIANTS
    DoneIsComplete
