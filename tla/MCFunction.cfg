CONSTANTS
    g = g
    h = h
    a = a
    f = f
    e = e
    c = c
    d = d
    p = p
    x = x
    i = i
    j = j
    k = k
    t = t
    u = u
    null = null
    b0 = b0
    b1 = b1
    b2 = b2
    b3 = b3
    NoBlock = NoBlock
    NoValue = NoValue
    NoVI = NoVI
    NoFunction = NoFunction
    GlobalVariables = {g}
    GlobalAliases = {}
    Functions = {f, e}
    Constants = {}
    Arguments = {p}
    Instructions = {x, i, j, k, t, u}
    Allocas = {x}
    OtherValues = {null}
    BasicBlocks = {b0, b1, b2, b3}
    MaxValueInfos = 5
    ModulesToRun <- FunctionModules
SPECIFICATION Spec
CHECK_DEADLOCK FALSE
INVARIANTS
    UsedAfterExecuted
    RelationsMeanProgram
    RelationsArise
    NothingDangles
