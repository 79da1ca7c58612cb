CONSTANTS
    f = f
    x = x
    y = y
    a1 = a1
    a2 = a2
    a3 = a3
    NoAR = NoAR
    NoVI = NoVI
    NoAlg = NoAlg
    ARs <- MCARs
    VIs <- MCVIs
    Algs <- MCAlgs
    Systems <- CyclicSystems
SPECIFICATION FairSpec
INVARIANTS
    TypeOK
    IteratorsValid
    DepthsMirrorStack
    WellRouted
    TargetsBelow
    RetriedWorkRemains
    PositionsInRange
    Precise
    EndMeansDone
PROPERTIES
    DoneIsForever
    QueryAnswered
