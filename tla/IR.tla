---------------------------------- MODULE IR ----------------------------------
(***************************************************************************)
(* LLVM modules, as far as instruction analysis looks at them: which       *)
(* values there are, what their operands are, how globals are linked, and  *)
(* the dominator tree of every function.                                   *)
(***************************************************************************)
EXTENDS Integers, Sequences, SequencesExt, FiniteSets

CONSTANTS GlobalVariables, GlobalAliases, Functions,
          Constants,      \* users that are neither globals nor instructions
          Arguments, Instructions,
          Allocas,        \* the instructions that are alloca instructions
          OtherValues,    \* basic blocks, metadata, inline assembly
          BasicBlocks, NoBlock

Globals == GlobalVariables \cup GlobalAliases \cup Functions
Values  == Globals \cup Constants \cup Arguments \cup Instructions \cup OtherValues

ASSUME AllocasAssumption == Allocas \subseteq Instructions

(* A value is of one kind. *)
ASSUME KindsAssumption ==
    /\ GlobalVariables \cap (GlobalAliases \cup Functions) = {}
    /\ GlobalAliases \cap Functions = {}
    /\ Globals \cap (Constants \cup Arguments \cup Instructions \cup OtherValues) = {}
    /\ Constants \cap (Arguments \cup Instructions \cup OtherValues) = {}
    /\ Arguments \cap (Instructions \cup OtherValues) = {}
    /\ Instructions \cap OtherValues = {}

ASSUME BlocksAssumption == NoBlock \notin BasicBlocks

(* "user" is every instruction that does not access memory and has no      *)
(* visitor of its own: casts, selects, arithmetic, branches, ...           *)
Opcodes == {"alloca", "load", "va_arg", "store", "memset", "cmpxchg", "atomicrmw", "memcpy", "memmove",
            "va_start", "va_copy", "va_end", "fence", "call", "ret", "phi", "user"}

(* Those that never have a result, and those that have so many operands.   *)
Effects == {"store", "memset", "memcpy", "memmove", "va_start", "va_copy", "va_end", "fence", "ret"}
NeedOne == {"load", "va_arg", "va_start", "call"}
NeedTwo == {"store", "memset", "cmpxchg", "atomicrmw", "memcpy", "memmove", "va_copy"}

(* The operands of a variable are its initializer, those of an alias its   *)
(* aliasee. Operands of instructions are in the order in which             *)
(* InstructionAnalyzer asks for them: the called value of a call first,    *)
(* the pointer of a store first, the source of a va_copy first.            *)
Users == GlobalVariables \cup GlobalAliases \cup Constants \cup Instructions

Modules == [declarations : SUBSET (GlobalVariables \cup Functions),
            local        : SUBSET Globals,
            overridable  : SUBSET Globals,
            operands     : [Users -> Seq(Values)],
            opcode       : [Instructions -> Opcodes],
            void         : SUBSET Instructions,
            args         : [Functions -> Seq(Arguments)],
            entry        : [Functions -> BasicBlocks \cup {NoBlock}],
            code         : [BasicBlocks -> Seq(Instructions)],
            idom         : [BasicBlocks -> BasicBlocks \cup {NoBlock}]]

-----------------------------------------------------------------------------
isDeclaration(M, g)   == g \in M.declarations
hasLocalLinkage(M, g) == g \in M.local
mayBeOverridden(M, g) == g \in M.overridable

(* The module's own regions of memory and code. *)
DefinedRegions(M) == (GlobalVariables \cup Functions) \ M.declarations

(* A block that has no place in a dominator tree is unreachable. *)
isReachableFromEntry(M, b) ==
    M.idom[b] # NoBlock \/ \E f \in Functions : M.entry[f] = b

DomTreeChildren(M, b) == {c \in BasicBlocks : M.idom[c] = b}

getParent(M, i) == CHOOSE b \in BasicBlocks : i \in ToSet(M.code[b])

Placed(M) == UNION {ToSet(M.code[b]) : b \in BasicBlocks}

Executable(M) ==
    UNION {ToSet(M.code[b]) : b \in {c \in BasicBlocks : isReachableFromEntry(M, c)}}

-----------------------------------------------------------------------------
(* What the verifier makes sure of. *)

(* Every way from the root to b goes through a: a is in every set that has *)
(* b and goes on to the immediate dominators of its members.               *)
StrictlyDominates(M, a, b) ==
    /\ a # b
    /\ \A S \in SUBSET BasicBlocks :
          b \in S /\ (\A c \in S : M.idom[c] \in S \cup {NoBlock}) => a \in S

(* The definition d is executed before every execution of the instruction i. *)
DominatesUse(M, d, i) ==
    LET b == getParent(M, i)
    IN  \/ d \in Placed(M) /\ StrictlyDominates(M, getParent(M, d), b)
        \/ \E j, k \in DOMAIN M.code[b] : j < k /\ M.code[b][j] = d /\ M.code[b][k] = i

(* The blocks of f that can be executed. *)
Body(M, f) ==
    {b \in BasicBlocks : \/ b = M.entry[f]
                         \/ M.entry[f] # NoBlock /\ StrictlyDominates(M, M.entry[f], b)}

(* A global, or a part of one: what an alias may stand for. *)
IsAddress(M, o) ==
    o \in Globals \/ (o \in Constants /\ M.operands[o] # <<>> /\ Head(M.operands[o]) \in Globals)

(* The global that it is, or is a part of. *)
getAliasedGlobal(M, a) ==
    LET o == M.operands[a][1] IN IF o \in Constants THEN Head(M.operands[o]) ELSE o

(* The chain from the alias a ends in a variable or a function. *)
resolveAliasedGlobal(M, a) ==
    LET Chain[n \in 0 .. Cardinality(GlobalAliases)] ==
            IF n = 0 THEN a
            ELSE IF Chain[n - 1] \in GlobalAliases THEN getAliasedGlobal(M, Chain[n - 1]) ELSE Chain[n - 1]
    IN  Chain[Cardinality(GlobalAliases)]

(* Declarations are not local, and definitions that other modules may      *)
(* replace are not local either.                                           *)
WellLinked(M) ==
    /\ M.local \cap (M.declarations \cup M.overridable) = {}
    /\ \A a \in GlobalAliases :
          /\ IsAddress(M, M.operands[a][1])
          /\ resolveAliasedGlobal(M, a) \in GlobalVariables \cup Functions
    /\ \A f \in Functions : isDeclaration(M, f) <=> M.entry[f] = NoBlock

(* An operand has a value, what is not executed is made of nothing that    *)
(* is, and instructions have the operands and results of their opcodes.    *)
WellTyped(M) ==
    /\ \A v \in GlobalVariables : Len(M.operands[v]) = IF isDeclaration(M, v) THEN 0 ELSE 1
    /\ \A a \in GlobalAliases : Len(M.operands[a]) = 1
    /\ \A v \in Users : ToSet(M.operands[v]) \cap M.void = {}
    /\ \A v \in Users \ Instructions : ToSet(M.operands[v]) \cap (Arguments \cup Instructions) = {}
    /\ \A i \in Instructions :
          /\ M.opcode[i] = "alloca" <=> i \in Allocas
          /\ M.opcode[i] \in Effects => i \in M.void
          /\ M.opcode[i] \in NeedOne => Len(M.operands[i]) >= 1
          /\ M.opcode[i] \in NeedTwo => Len(M.operands[i]) >= 2

(* An instruction is in one place, a block in one tree, and every function *)
(* has a tree of its own.                                                  *)
WellPlaced(M) ==
    /\ \A b, c \in BasicBlocks : \A j \in DOMAIN M.code[b], k \in DOMAIN M.code[c] :
          M.code[b][j] = M.code[c][k] => b = c /\ j = k
    /\ \A b \in BasicBlocks : M.idom[b] # NoBlock => \E f \in Functions : b \in Body(M, f)
    /\ \A f \in Functions : M.entry[f] # NoBlock =>
          /\ M.idom[M.entry[f]] = NoBlock
          /\ \A g \in Functions : M.entry[g] = M.entry[f] => g = f

(* An operand of a reachable instruction is defined in the same function,  *)
(* and before it, unless the instruction is a PHI node.                    *)
DefinedBeforeUse(M) ==
    /\ \A f \in Functions : \A b \in Body(M, f) : \A i \in ToSet(M.code[b]) :
          \A d \in ToSet(M.operands[i]) \cap Executable(M) : getParent(M, d) \in Body(M, f)
    /\ \A i \in Executable(M) : \A d \in ToSet(M.operands[i]) \cap Instructions :
          M.opcode[i] # "phi" => DominatesUse(M, d, i)

WellFormed(M) == WellLinked(M) /\ WellTyped(M) /\ WellPlaced(M) /\ DefinedBeforeUse(M)
===============================================================================
