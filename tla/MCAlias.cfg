CONSTANTS
    a1 = a1
    a2 = a2
    none = none
    x = x
    y = y
    z = z
    c1 = c1
    c2 = c2
    u = u
    v = v
    w = w
    t = t
    n = n
    NoAR = NoAR
    NoVI = NoVI
    NoAnswer = NoAnswer
    NoClient = NoClient
    NoData = NoData
    NoSet = NoSet
    NoValue = NoValue
    ARs = {a1, a2, none}
    VIs = {x, y, z}
    Values = {u, v, w}
    EmptyAnalysisResult = none
    ValueInfoMaps <- MCMaps
    NonLazyOptions = {FALSE}
    ReliableSets = {{a1, a2, none}, {a2, none}}
    Clients = {}
    External = {z}
    ConstantGV = {x}
    Local = {y}
    NewValues = {}
SPECIFICATION AASpec
INVARIANTS
    AATypeOK
    AliasIsExact
    ConstantMemoryIsExact
PROPERTIES
    QueryIsAnswered
