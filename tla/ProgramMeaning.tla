---------------------------- MODULE ProgramMeaning ----------------------------
(***************************************************************************)
(* What the constructs of a module mean to Andersen's analysis, as a set   *)
(* of relations in which every value has a ValueInfo of its own: without   *)
(* an order, a cache, values that share a ValueInfo or values that have    *)
(* none. It is what InstructionAnalyzer is compared with.                  *)
(***************************************************************************)
EXTENDS IR

CONSTANTS NoValue,       \* the null Value *
          MaxValueInfos  \* bound: ValueInfos made for one Value, or for none

ASSUME NoValueAssumption == NoValue \notin Values

(* A ValueInfo is named by its V field and the number of ValueInfos that   *)
(* were made for the same V before it.                                     *)
VIs == [V : Values \cup {NoValue}, n : 0 .. MaxValueInfos - 1]

ValueInfo(v, n) == [V |-> v, n |-> n]

EL == ValueInfo(NoValue, 0)   \* ExternallyLinkableRegions
EA == ValueInfo(NoValue, 1)   \* ExternallyAccessibleRegions

(* The ValueInfos that stand for regions if they are made.                 *)
Regions == {EL} \cup {ValueInfo(v, 0) : v \in GlobalVariables \cup Functions \cup Allocas}

PT == INSTANCE PointsTo

Relation(t, s, d) == PT!Relation(t, s, d)

RegionOf(v) == ValueInfo(v, 0)

(* The ValueInfo whose points-to set is what v may point to. *)
Meant(M, v) ==
    IF v \in M.declarations THEN EL
    ELSE IF v \in GlobalVariables \cup Functions /\ mayBeOverridden(M, v) THEN ValueInfo(v, 1)
    ELSE ValueInfo(v, 0)

(* What external code does; see RelationHandler!createData. *)
ExternalRelations ==
    {Relation("DEPENDS_ON", EA, EL), Relation("ARGUMENT_FROM_CALLER", EA, EL),
     Relation("RETURNED_TO_CALLER", EA, EL)}
        \cup {Relation(t, EA, EA) : t \in {"ARGUMENT_TO_CALLEE", "LOADED_FROM",
                                          "RETURNED_FROM_CALLEE", "STORED_TO"}}

(* A symbol that others can replace may denote an external region, one     *)
(* that others can name is a region they can link to.                      *)
LinkageRelations(M, g) ==
    {Relation("DEPENDS_ON", Meant(M, g), EL) : x \in {g} \cap M.overridable}
        \cup {Relation("DEPENDS_ON", EL, Meant(M, g)) : x \in {g} \ M.local}

GlobalRelations(M, g) ==
    LET Operands == {Meant(M, o) : o \in ToSet(M.operands[g])}
    IN  LinkageRelations(M, g) \cup
        IF g \in GlobalAliases THEN {Relation("DEPENDS_ON", Meant(M, g), o) : o \in Operands}
        ELSE {Relation("DEPENDS_ON", Meant(M, g), RegionOf(g)) : x \in {g} \cap M.overridable}
                \cup IF g \in Functions THEN {}
                     ELSE {Relation("STORED_TO", o, RegionOf(g)) : o \in Operands}

(* An instruction without a result has its ValueInfo to itself: it stands  *)
(* for what a memcpy copies or for what va_start reads. A va_list holds    *)
(* its own address; to copy one from nowhere is undefined.                 *)
InstructionRelations(M, f, i) ==
    LET Op(k) == Meant(M, M.operands[i][k])
        Own   == Meant(M, i)
        N     == Len(M.operands[i])
        Load(s, a)  == Relation("LOADED_FROM", s, a)
        Store(s, a) == Relation("STORED_TO", s, a)
    IN  CASE M.opcode[i] \in {"load", "va_arg"}       -> {Load(Own, Op(1))}
          [] M.opcode[i] \in {"store", "memset"}      -> {Store(Op(2), Op(1))}
          [] M.opcode[i] \in {"cmpxchg", "atomicrmw"} -> {Load(Own, Op(1)), Store(Op(2), Op(1))}
          [] M.opcode[i] \in {"memcpy", "memmove"}    -> {Load(Own, Op(2)), Store(Own, Op(1))}
          [] M.opcode[i] = "va_copy"  -> {Load(Own, Op(1)), Store(Own, Op(2))}
                                             \cup IF M.operands[i][1] \in OtherValues THEN {}
                                                  ELSE {Store(Op(2), Op(2))}
          [] M.opcode[i] = "va_start" -> {Relation("ARGUMENT_FROM_CALLER", Own, RegionOf(f)),
                                          Store(Own, Op(1)), Store(Op(1), Op(1))}
          [] M.opcode[i] = "call"     -> {Relation("ARGUMENT_TO_CALLEE", Op(k), Op(1)) : k \in 2 .. N}
                                             \cup IF i \in M.void THEN {}
                                                  ELSE {Relation("RETURNED_FROM_CALLEE", Own, Op(1))}
          [] M.opcode[i] = "ret"      -> {Relation("RETURNED_TO_CALLER", Op(k), RegionOf(f)) : k \in 1 .. N}
          [] M.opcode[i] \in {"phi", "user"} -> {Relation("DEPENDS_ON", Own, Op(k)) : k \in 1 .. N}
          [] OTHER -> {}

FunctionRelations(M, f) ==
    {Relation("ARGUMENT_FROM_CALLER", Meant(M, a), RegionOf(f)) : a \in ToSet(M.args[f])}
        \cup UNION {InstructionRelations(M, f, i) : i \in UNION {ToSet(M.code[b]) : b \in Body(M, f)}}

(* All that a module does. *)
Meaning(M) ==
    ExternalRelations
        \cup UNION {GlobalRelations(M, g) : g \in Globals \ M.declarations}
        \cup UNION {{Relation("DEPENDS_ON", Meant(M, c), Meant(M, o)) : o \in ToSet(M.operands[c])} : c \in Constants}
        \cup UNION {FunctionRelations(M, f) : f \in Functions \ M.declarations}
===============================================================================
