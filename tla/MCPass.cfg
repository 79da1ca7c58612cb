CONSTANTS
    a1 = a1
    a2 = a2
    none = none
    u = u
    v = v
    w = w
    t = t
    x = x
    y = y
    c1 = c1
    c2 = c2
    NoAR = NoAR
    NoVI = NoVI
    NoAnswer = NoAnswer
    NoClient = NoClient
    NoData = NoData
    NoSet = NoSet
    ARs = {a1, a2, none}
    VIs = {x, y}
    Values = {u, v, w, t}
    EmptyAnalysisResult = none
    ValueInfoMaps <- MCMaps
    NonLazyOptions = {FALSE, TRUE}
    ReliableSets = {{a1, a2, none}, {a2, none}}
    Clients = {c1, c2}
SPECIFICATION Spec
INVARIANTS
    QueriesAnswerTruly
    EnumeratorsExact
    NonLazyIsWhole
