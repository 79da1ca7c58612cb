CONSTANTS
    f = f
    x = x
    y = y
    a1 = a1
    a2 = a2
    a3 = a3
    NoAR = NoAR
    NoVI = NoVI
    NoAlg = NoAlg
    NoAnswer = NoAnswer
    ARs <- MCARs
    VIs <- MCVIs
    Algs <- MCAlgs
    Systems <- SettledSystems
SPECIFICATION Spec
INVARIANTS
    EquationsPreserved
PROPERTIES
    ImplementsLazySets
