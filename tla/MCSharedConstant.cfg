CONSTANTS
    g = g
    h = h
    a = a
    f = f
    e = e
    c = c
    d = d
    p = p
    x = x
    i = i
    j = j
    k = k
    t = t
    u = u
    null = null
    b0 = b0
    b1 = b1
    b2 = b2
    b3 = b3
    NoBlock = NoBlock
    NoValue = NoValue
    NoVI = NoVI
    NoFunction = NoFunction
    GlobalVariables = {g, h}
    GlobalAliases = {a}
    Functions = {e}
    Constants = {c, d}
    Arguments = {}
    Instructions = {}
    Allocas = {}
    OtherValues = {null}
    BasicBlocks = {}
    MaxValueInfos = 2
    ModulesToRun <- SharedConstantModules
SPECIFICATION Spec
CHECK_DEADLOCK FALSE
INVARIANTS
    AnalyzedOnce
