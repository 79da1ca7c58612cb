-------------------------- MODULE InstructionAnalyzer --------------------------
(***************************************************************************)
(* Instruction analysis: how InstructionAnalyzer::Visitor goes over a      *)
(* module, which ValueInfos it makes for the values it meets, and which    *)
(* relations it hands to RelationHandler. Data is what it fills.           *)
(*                                                                         *)
(* analyzeValue calls itself through the operands of constants and         *)
(* globals. The recursion is an explicit stack of frames: the handler that *)
(* is running, the operands that it has still to ask for and the           *)
(* ValueInfos that it got for the others. Asserts are invariants: the      *)
(* model goes on as a build without them does.                             *)
(***************************************************************************)
EXTENDS ProgramMeaning

CONSTANTS NoVI,         \* the null ValueInfo *
          NoFunction,
          ModulesToRun  \* the modules that the pass may be run on

ASSUME NullsAssumption ==
    NoFunction \notin Functions /\ NoVI \notin [V : Values \cup {NoValue}, n : Nat]

ASSUME ModulesAssumption == \A m \in ModulesToRun : m \in Modules /\ WellFormed(m)

VARIABLES
    M,                   \* the module
    ValueInfos,          \* Data: Value -> its ValueInfo, null if it points to nothing
    GlobalRegionInfos,   \* Data: defined region -> its ValueInfo
    AnonymousValueInfos, \* Data
    created,             \* every ValueInfo that was made
    relations,           \* the relations that were handled, in order
    stack,               \* the handlers that are running, outermost first
    toAnalyze,           \* the globals that the constructor has still to come to
    CurrentFunction,
    PHINodeWork,         \* the PHI nodes whose operands are to be analyzed
    path,                \* the dominator tree iterator: path from the root
    visited,             \* the blocks that it has been to
    code                 \* what is left of the block

data   == <<ValueInfos, GlobalRegionInfos, AnonymousValueInfos, created>>
walk   == <<toAnalyze, CurrentFunction, PHINodeWork, path, visited, code>>
vars   == <<M, data, relations, stack, walk>>

-----------------------------------------------------------------------------
(* The frames. *)

Frame(h, v, ops) == [handler |-> h, V |-> v, todo |-> ops, got |-> <<>>]

Call(h, v, ops) == stack' = Append(stack, Frame(h, v, ops))
Return          == stack' = Front(stack)

Top  == Last(stack)
V    == Top.V
Got  == Top.got

(* The ValueInfos of vis that exist, in their order. *)
NonNull(vis) ==
    LET Of[n \in 0 .. Len(vis)] ==
            IF n = 0 THEN <<>>
            ELSE IF vis[n] = NoVI THEN Of[n - 1] ELSE Append(Of[n - 1], vis[n])
    IN  Of[Len(vis)]

Real == NonNull(Got)

(* The running handler has all its operands. *)
Ready(handlers) == stack # <<>> /\ Top.todo = <<>> /\ Top.handler \in handlers

(* The value the running handler calls analyzeValue for. *)
Asks(v) == stack # <<>> /\ Top.todo # <<>> /\ v = Head(Top.todo)

-----------------------------------------------------------------------------
(* Effects. *)

analyzed(v) == v \in DOMAIN ValueInfos

NewValueInfo(v) == ValueInfo(v, Cardinality({vi \in created : vi.V = v}))

Create(vi) == created' = created \cup {vi}

(* The map m with an entry for v. *)
With(m, v, vi) == [w \in DOMAIN m \cup {v} |-> IF w = v THEN vi ELSE m[w]]

cache(v, vi) == ValueInfos' = With(ValueInfos, v, vi)
cacheNewValueInfo(v) == cache(v, NewValueInfo(v)) /\ Create(NewValueInfo(v))
cacheNil(v) == cache(v, NoVI) /\ UNCHANGED created

(* Bug: no reference is kept. *)
createAnonymousValueInfo_NotKept == Create(NewValueInfo(NoValue)) /\ UNCHANGED AnonymousValueInfos

createAnonymousValueInfo ==
    /\ Create(NewValueInfo(NoValue))
    /\ AnonymousValueInfos' = Append(AnonymousValueInfos, NewValueInfo(NoValue))

handle(rels) == relations' = relations \o rels

(* A relation that is handled only if one of its operands exists. *)
If(condition, rels) == IF condition THEN rels ELSE <<>>

(* Bug: the ValueInfo of an overridable symbol is taken for its region. *)
getGlobalRegionInfo_ValueInfo(g) == ValueInfos[g]

(* Every use follows the analysis of g, which makes the region. *)
getGlobalRegionInfo(g) == GlobalRegionInfos[g]

-----------------------------------------------------------------------------
(* analyzeValue *)

(* A value that was analyzed before, or has been now. *)
AnalyzedValue ==
    /\ stack # <<>> /\ Top.todo # <<>> /\ analyzed(Head(Top.todo))
    /\ stack' = [stack EXCEPT ![Len(stack)].todo = Tail(@),
                              ![Len(stack)].got = Append(@, ValueInfos[Head(Top.todo)])]
    /\ UNCHANGED <<M, data, relations, walk>>

Unanalyzed(v, kind) == Asks(v) /\ v \in kind /\ ~analyzed(v)

AnalyzeDeclaration(v) ==
    /\ Unanalyzed(v, M.declarations)
    /\ cache(v, EL)
    /\ UNCHANGED <<M, GlobalRegionInfos, AnonymousValueInfos, created, relations, stack, walk>>

AnalyzeArgument(v) ==
    /\ Unanalyzed(v, Arguments)
    /\ cacheNewValueInfo(v)
    /\ handle(<<Relation("ARGUMENT_FROM_CALLER", NewValueInfo(v), getGlobalRegionInfo(CurrentFunction))>>)
    /\ UNCHANGED <<M, GlobalRegionInfos, AnonymousValueInfos, stack, walk>>

(* An instruction that is not executed, or a value of another kind. *)
AnalyzeNil(v) ==
    /\ Unanalyzed(v, Instructions \cup OtherValues)
    /\ cacheNil(v)
    /\ UNCHANGED <<M, GlobalRegionInfos, AnonymousValueInfos, relations, stack, walk>>

(* Bug: the user is cached before its operands, and again after them. *)
analyzeUser_CachesFirst(v) ==
    /\ Unanalyzed(v, Constants)
    /\ cacheNewValueInfo(v)
    /\ Call("user", v, M.operands[v])
    /\ UNCHANGED <<M, GlobalRegionInfos, AnonymousValueInfos, relations, walk>>

analyzeUser(v) ==
    /\ Unanalyzed(v, Constants)
    /\ Call("user", v, M.operands[v])
    /\ UNCHANGED <<M, data, relations, walk>>

analyzeGlobalAlias(v) ==
    /\ Unanalyzed(v, GlobalAliases)
    /\ cacheNewValueInfo(v)
    /\ Call("alias", v, M.operands[v])
    /\ UNCHANGED <<M, GlobalRegionInfos, AnonymousValueInfos, relations, walk>>

(* Bug: the region of a definition that may be overridden doubles as its   *)
(* ValueInfo.                                                              *)
MakeGlobal_OneValueInfo(v) ==
    LET Region   == NewValueInfo(v)
    IN  /\ GlobalRegionInfos' = With(GlobalRegionInfos, v, Region)
        /\ created' = created \cup {Region}
        /\ cache(v, Region)
        /\ handle(If(mayBeOverridden(M, v), <<Relation("DEPENDS_ON", Region, EL)>>))

(* getGlobalRegionInfo makes the region; its ValueInfo, or a new one if    *)
(* the definition may be overridden, is cached before the initializer is   *)
(* looked at.                                                              *)
MakeGlobal(v) ==
    LET Region   == NewValueInfo(v)
        Symbol   == ValueInfo(v, Region.n + 1)
        Weak     == mayBeOverridden(M, v)
    IN  /\ GlobalRegionInfos' = With(GlobalRegionInfos, v, Region)
        /\ created' = created \cup IF Weak THEN {Region, Symbol} ELSE {Region}
        /\ cache(v, IF Weak THEN Symbol ELSE Region)
        /\ handle(If(Weak, <<Relation("DEPENDS_ON", Symbol, Region), Relation("DEPENDS_ON", Symbol, EL)>>))

Initializer(v) == IF v \in GlobalVariables THEN M.operands[v] ELSE <<>>

(* Bug: the symbol is cached after its initializer has been analyzed. *)
analyzeGlobalRegion_CachesLate(v) ==
    /\ Unanalyzed(v, DefinedRegions(M))
    /\ \/ Initializer(v) = <<>> /\ MakeGlobal(v)
       \/ Initializer(v) # <<>> /\ UNCHANGED <<GlobalRegionInfos, created, ValueInfos, relations>>
    /\ Call("region", v, Initializer(v))
    /\ UNCHANGED <<M, AnonymousValueInfos, walk>>

analyzeGlobalRegion(v) ==
    /\ Unanalyzed(v, DefinedRegions(M))
    /\ MakeGlobal(v)
    /\ Call("region", v, Initializer(v))
    /\ UNCHANGED <<M, AnonymousValueInfos, walk>>

AnalyzeValue ==
    \/ AnalyzedValue
    \/ \E v \in Values : \/ AnalyzeDeclaration(v) \/ AnalyzeArgument(v) \/ AnalyzeNil(v)
                         \/ analyzeUser(v) \/ analyzeGlobalAlias(v) \/ analyzeGlobalRegion(v)

-----------------------------------------------------------------------------
(* What the handlers do when they have their operands. Some handlers of    *)
(* the code relate one operand before they ask for the next one: their     *)
(* relations come here after those of the last operand's analysis instead. *)

(* analyzeGlobalValue, at its end: others can link to what is not local. *)
Linkable == If(~hasLocalLinkage(M, V), <<Relation("DEPENDS_ON", EL, ValueInfos[V])>>)

EndGlobalRegion ==
    /\ Ready({"region"})
    /\ handle([k \in DOMAIN Real |-> Relation("STORED_TO", Real[k], getGlobalRegionInfo(V))] \o Linkable)
    /\ Return
    /\ UNCHANGED <<M, data, walk>>

(* Bug: an alias is never overridden. *)
EndGlobalAlias_IsFinal ==
    /\ Ready({"alias"})
    /\ handle(<<Relation("DEPENDS_ON", ValueInfos[V], Got[1])>> \o Linkable)
    /\ Return
    /\ UNCHANGED <<M, data, walk>>

(* Bug: the alias gets another ValueInfo when its aliasee is known; by then *)
(* the initializer of what it stands for may have mentioned the first.     *)
EndGlobalAlias_CachesAgain ==
    LET Alias == NewValueInfo(V)
    IN  /\ Ready({"alias"})
        /\ cacheNewValueInfo(V)
        /\ handle(<<Relation("DEPENDS_ON", Alias, Got[1])>>
                  \o If(mayBeOverridden(M, V), <<Relation("DEPENDS_ON", Alias, EL)>>)
                  \o If(~hasLocalLinkage(M, V), <<Relation("DEPENDS_ON", EL, Alias)>>))
        /\ Return
        /\ UNCHANGED <<M, GlobalRegionInfos, AnonymousValueInfos, walk>>

EndGlobalAlias ==
    /\ Ready({"alias"})
    /\ handle(<<Relation("DEPENDS_ON", ValueInfos[V], Got[1])>>
              \o If(mayBeOverridden(M, V), <<Relation("DEPENDS_ON", ValueInfos[V], EL)>>)
              \o Linkable)
    /\ Return
    /\ UNCHANGED <<M, data, walk>>

(* Bug: operands that point to nothing are counted. *)
EndUser_CountsNil ==
    /\ Ready({"user"})
    /\ \/ Len(Got) = 0 /\ cacheNil(V) /\ handle(<<>>)
       \/ Len(Got) = 1 /\ cache(V, Got[1]) /\ UNCHANGED created /\ handle(<<>>)
       \/ /\ Len(Got) > 1
          /\ cacheNewValueInfo(V)
          /\ handle([k \in DOMAIN Got |-> Relation("DEPENDS_ON", NewValueInfo(V), Got[k])])
    /\ Return
    /\ UNCHANGED <<M, GlobalRegionInfos, AnonymousValueInfos, walk>>

EndUser ==
    /\ Ready({"user"})
    /\ \/ Len(Real) = 0 /\ cacheNil(V) /\ handle(<<>>)
       \/ Len(Real) = 1 /\ cache(V, Real[1]) /\ UNCHANGED created /\ handle(<<>>)
       \/ /\ Len(Real) > 1
          /\ cacheNewValueInfo(V)
          /\ handle([k \in DOMAIN Real |-> Relation("DEPENDS_ON", NewValueInfo(V), Real[k])])
    /\ Return
    /\ UNCHANGED <<M, GlobalRegionInfos, AnonymousValueInfos, walk>>

(* The result of an instruction that gets it from operand k in the way t,  *)
(* with further relations; nothing if operand k points to nothing.         *)
ResultFrom(t, k, before, after) ==
    IF Got[k] # NoVI
    THEN cacheNewValueInfo(V) /\ handle(before \o <<Relation(t, NewValueInfo(V), Got[k])>> \o after)
    ELSE cacheNil(V) /\ handle(before)

visitLoadInst ==
    /\ Ready({"load", "va_arg"})
    /\ ResultFrom("LOADED_FROM", 1, <<>>, <<>>)
    /\ Return
    /\ UNCHANGED <<M, GlobalRegionInfos, AnonymousValueInfos, walk>>

visitStoreInst ==
    /\ Ready({"store", "memset"})
    /\ handle(If(NoVI \notin ToSet(Got), <<Relation("STORED_TO", Got[2], Got[1])>>))
    /\ Return
    /\ UNCHANGED <<M, data, walk>>

visitAtomicMutateInst ==
    /\ Ready({"cmpxchg", "atomicrmw"})
    /\ ResultFrom("LOADED_FROM", 1, <<>>, If(Got[2] # NoVI, <<Relation("STORED_TO", Got[2], Got[1])>>))
    /\ Return
    /\ UNCHANGED <<M, GlobalRegionInfos, AnonymousValueInfos, walk>>

visitMemTransferInst ==
    /\ Ready({"memcpy", "memmove"})
    /\ LET Loaded == NewValueInfo(NoValue)
       IN  IF NoVI \notin ToSet(Got)
           THEN /\ createAnonymousValueInfo
                /\ handle(<<Relation("LOADED_FROM", Loaded, Got[2]), Relation("STORED_TO", Loaded, Got[1])>>)
           ELSE UNCHANGED <<created, AnonymousValueInfos, relations>>
    /\ Return
    /\ UNCHANGED <<M, ValueInfos, GlobalRegionInfos, walk>>

visitVACopyInst ==
    /\ Ready({"va_copy"})
    /\ LET Contents == NewValueInfo(NoValue)
       IN  IF NoVI \notin ToSet(Got)
           THEN /\ createAnonymousValueInfo
                /\ handle(<<Relation("LOADED_FROM", Contents, Got[1]),
                            Relation("STORED_TO", Contents, Got[2]),
                            Relation("STORED_TO", Got[2], Got[2])>>)
           ELSE UNCHANGED <<created, AnonymousValueInfos, relations>>
    /\ Return
    /\ UNCHANGED <<M, ValueInfos, GlobalRegionInfos, walk>>

visitVAStartInst ==
    /\ Ready({"va_start"})
    /\ LET Args == NewValueInfo(NoValue)
       IN  /\ createAnonymousValueInfo
           /\ handle(<<Relation("ARGUMENT_FROM_CALLER", Args, getGlobalRegionInfo(CurrentFunction))>>
                     \o If(Got[1] # NoVI, <<Relation("STORED_TO", Got[1], Got[1]),
                                            Relation("STORED_TO", Args, Got[1])>>))
    /\ Return
    /\ UNCHANGED <<M, ValueInfos, GlobalRegionInfos, walk>>

visitCallSite ==
    /\ Ready({"call"})
    /\ LET Actual   == NonNull(Tail(Got))
           Passed   == If(Got[1] # NoVI, [k \in DOMAIN Actual |-> Relation("ARGUMENT_TO_CALLEE", Actual[k], Got[1])])
       IN  IF V \in M.void
           THEN handle(Passed) /\ UNCHANGED <<ValueInfos, created>>
           ELSE ResultFrom("RETURNED_FROM_CALLEE", 1, Passed, <<>>)
    /\ Return
    /\ UNCHANGED <<M, GlobalRegionInfos, AnonymousValueInfos, walk>>

visitReturnInst ==
    /\ Ready({"ret"})
    /\ handle([k \in DOMAIN Real |->
                  Relation("RETURNED_TO_CALLER", Real[k], getGlobalRegionInfo(CurrentFunction))])
    /\ Return
    /\ UNCHANGED <<M, data, walk>>

(* The loop over the operands of a PHI node in processFunction. *)
EndPHINode ==
    /\ Ready({"phi"})
    /\ handle([k \in DOMAIN Real |-> Relation("DEPENDS_ON", ValueInfos[V], Real[k])])
    /\ Return
    /\ UNCHANGED <<M, data, walk>>

(* The constructor has analyzed a global. *)
EndVisitGlobal ==
    /\ Ready({"global", "argument"})
    /\ Return
    /\ UNCHANGED <<M, data, relations, walk>>

Finish ==
    \/ EndGlobalRegion \/ EndGlobalAlias \/ EndUser \/ EndPHINode \/ EndVisitGlobal
    \/ visitLoadInst \/ visitStoreInst \/ visitAtomicMutateInst \/ visitMemTransferInst
    \/ visitVACopyInst \/ visitVAStartInst \/ visitCallSite \/ visitReturnInst

-----------------------------------------------------------------------------
(* The walk: the constructor and processFunction. *)

Idle == stack = <<>>

(* Variables come first, then aliases, then functions, in module order;    *)
(* any order of each is some module's.                                     *)
Turn(v) ==
    /\ v \in toAnalyze
    /\ v \notin GlobalVariables => toAnalyze \cap GlobalVariables = {}
    /\ v \in Functions => toAnalyze \cap GlobalAliases = {}

VisitGlobal(v) ==
    /\ Idle /\ CurrentFunction = NoFunction /\ Turn(v)
    /\ v \in Functions => isDeclaration(M, v)
    /\ toAnalyze' = toAnalyze \ {v}
    /\ Call("global", v, <<v>>)
    /\ UNCHANGED <<M, data, relations, CurrentFunction, PHINodeWork, path, visited, code>>

(* The function itself, and then its arguments. *)
processFunction(f) ==
    /\ Idle /\ CurrentFunction = NoFunction /\ Turn(f)
    /\ f \in Functions \ M.declarations
    /\ toAnalyze' = toAnalyze \ {f}
    /\ CurrentFunction' = f
    /\ Call("argument", f, <<f>> \o M.args[f])
    /\ UNCHANGED <<M, data, relations, PHINodeWork, path, visited, code>>

Unfinished == {k \in DOMAIN path : ~(DomTreeChildren(M, path[k]) \subseteq visited)}

(* Bug: the blocks are visited in any order. *)
NextBlock_AnyOrder(b) ==
    /\ Idle /\ CurrentFunction # NoFunction /\ code = <<>>
    /\ b \notin visited /\ (b = M.entry[CurrentFunction] \/ M.idom[b] # NoBlock)
    /\ path' = Append(path, b)
    /\ visited' = visited \cup {b}
    /\ code' = M.code[b]
    /\ UNCHANGED <<M, data, relations, stack, toAnalyze, CurrentFunction, PHINodeWork>>

(* df_iterator: the root first, then a child of the deepest node on the    *)
(* path that has one left.                                                 *)
NextBlock(b) ==
    /\ Idle /\ CurrentFunction # NoFunction /\ code = <<>>
    /\ \/ visited = {} /\ b = M.entry[CurrentFunction] /\ path' = <<b>>
       \/ \E k \in Unfinished :
             /\ \A j \in Unfinished : j <= k
             /\ b \in DomTreeChildren(M, path[k]) \ visited
             /\ path' = Append(SubSeq(path, 1, k), b)
    /\ visited' = visited \cup {b}
    /\ code' = M.code[b]
    /\ UNCHANGED <<M, data, relations, stack, toAnalyze, CurrentFunction, PHINodeWork>>

Visits(opcodes) ==
    /\ Idle /\ code # <<>> /\ M.opcode[Head(code)] \in opcodes
    /\ code' = Tail(code)
    /\ UNCHANGED <<M, GlobalRegionInfos, AnonymousValueInfos, relations,
                   toAnalyze, CurrentFunction, path, visited>>

(* cacheNewRegion: the new ValueInfo is one of Regions. *)
visitAllocaInst ==
    /\ Visits({"alloca"})
    /\ cacheNewValueInfo(Head(code))
    /\ UNCHANGED <<stack, PHINodeWork>>

visitPHINode ==
    /\ Visits({"phi"})
    /\ cacheNewValueInfo(Head(code))
    /\ PHINodeWork' = Append(PHINodeWork, Head(code))
    /\ UNCHANGED stack

visitNothing ==
    /\ Visits({"fence", "va_end"})
    /\ UNCHANGED <<ValueInfos, created, stack, PHINodeWork>>

VisitOperands ==
    /\ Visits(Opcodes \ {"alloca", "phi", "fence", "va_end"})
    /\ LET I == Head(code) IN Call(M.opcode[I], I, M.operands[I])
    /\ UNCHANGED <<ValueInfos, created, PHINodeWork>>

BlocksDone == Idle /\ visited # {} /\ code = <<>> /\ Unfinished = {}

ProcessPHINode ==
    /\ BlocksDone /\ PHINodeWork # <<>>
    /\ LET PHI == Head(PHINodeWork) IN Call("phi", PHI, M.operands[PHI])
    /\ PHINodeWork' = Tail(PHINodeWork)
    /\ UNCHANGED <<M, data, relations, toAnalyze, CurrentFunction, path, visited, code>>

EndFunction ==
    /\ BlocksDone /\ PHINodeWork = <<>>
    /\ CurrentFunction' = NoFunction
    /\ path' = <<>> /\ visited' = {}
    /\ UNCHANGED <<M, data, relations, stack, toAnalyze, PHINodeWork, code>>

Walk == \/ \E v \in Globals : VisitGlobal(v)
        \/ \E f \in Functions : processFunction(f)
        \/ \E b \in BasicBlocks : NextBlock(b)
        \/ visitAllocaInst \/ visitPHINode \/ visitNothing \/ VisitOperands
        \/ ProcessPHINode \/ EndFunction

Arising == INSTANCE ArisingRelations WITH
    ExternallyLinkableRegions <- EL, ExternallyAccessibleRegions <- EA

(* The state after createData. *)
Init ==
    /\ M \in ModulesToRun
    /\ ValueInfos = <<>> /\ GlobalRegionInfos = <<>> /\ AnonymousValueInfos = <<>>
    /\ created = {EL, EA}
    /\ relations = Arising!createData
    /\ stack = <<>>
    /\ toAnalyze = Globals
    /\ CurrentFunction = NoFunction
    /\ PHINodeWork = <<>> /\ path = <<>> /\ visited = {} /\ code = <<>>

Next == AnalyzeValue \/ Finish \/ Walk

Spec == Init /\ [][Next]_vars

Done == Idle /\ toAnalyze = {} /\ CurrentFunction = NoFunction

-----------------------------------------------------------------------------
(* Data *)

(* Bug: the regions of symbols that are their own region come up again. *)
visitValueInfos_RegionsTwice(vi) ==
    Cardinality({v \in DOMAIN ValueInfos : ValueInfos[v] = vi /\ v = vi.V})
        + Cardinality({g \in DOMAIN GlobalRegionInfos : GlobalRegionInfos[g] = vi})
        + Cardinality({k \in DOMAIN AnonymousValueInfos : AnonymousValueInfos[k] = vi})
        + (IF vi \in {EL, EA} THEN 1 ELSE 0)

(* How many times Data::visitValueInfos comes to the ValueInfo vi. *)
visitValueInfos(vi) ==
    Cardinality({v \in DOMAIN ValueInfos : ValueInfos[v] = vi /\ v = vi.V})
        + Cardinality({g \in DOMAIN GlobalRegionInfos : GlobalRegionInfos[g] = vi /\ ValueInfos[g] # vi})
        + Cardinality({k \in DOMAIN AnonymousValueInfos : AnonymousValueInfos[k] = vi})
        + (IF vi \in {EL, EA} THEN 1 ELSE 0)

-----------------------------------------------------------------------------
(* Properties. *)

Frames == [handler : Opcodes \cup {"region", "alias", "global", "argument"}, V : Values,
           todo : Seq(Values), got : Seq(VIs \cup {NoVI})]

(* The types of the variables. No relation has a null operand.             *)
TypeOK ==
    /\ M \in Modules
    /\ created \subseteq VIs
    /\ DOMAIN ValueInfos \subseteq Values
    /\ \A v \in DOMAIN ValueInfos : ValueInfos[v] \in created \cup {NoVI}
    /\ DOMAIN GlobalRegionInfos \subseteq DefinedRegions(M)
    /\ \A g \in DOMAIN GlobalRegionInfos : GlobalRegionInfos[g] \in created \cap Regions
    /\ ToSet(AnonymousValueInfos) \subseteq created
    /\ \A k \in DOMAIN relations : relations[k].Src \in created /\ relations[k].Dst \in created
    /\ stack \in Seq(Frames)
    /\ toAnalyze \subseteq Globals
    /\ CurrentFunction \in Functions \cup {NoFunction}
    /\ PHINodeWork \in Seq(Instructions)
    /\ path \in Seq(BasicBlocks) /\ visited \subseteq BasicBlocks
    /\ code \in Seq(Instructions)

(* The handlers that cache the value they run for when they end. *)
Caches(frame) ==
    \/ frame.handler \in {"user", "load", "va_arg", "cmpxchg", "atomicrmw"}
    \/ frame.handler = "call" /\ frame.V \notin M.void

(* InstructionAnalyzer.cpp:331, assert(!analyzed(V)) in cache: when the    *)
(* analysis of a value ends, nothing that it asked for on the way has      *)
(* analyzed the value itself.                                              *)
AnalyzedOnce ==
    stack # <<>> /\ Top.todo = <<>> /\ Caches(Top) => V \notin DOMAIN ValueInfos

(* What a constant is made of, and what a global is initialized with or    *)
(* stands for.                                                             *)
Mentions(m, v) == IF v \in Users \ Instructions THEN ToSet(m.operands[v]) ELSE {}

(* v is in every set that has what v mentions and what its members do.     *)
MentionsItself(m, v) ==
    \A S \in SUBSET Values :
        Mentions(m, v) \subseteq S /\ (\A w \in S : Mentions(m, w) \subseteq S) => v \in S

(* The assert fails for nothing but constants of which a global is made    *)
(* that they mention, whatever else is in a circle.                        *)
CirclesOnlyAgain ==
    stack # <<>> /\ Top.todo = <<>> /\ Caches(Top) /\ V \in DOMAIN ValueInfos =>
        V \in Constants /\ MentionsItself(M, V)

(* InstructionAnalyzer.cpp:387, "Instruction used before executed": every  *)
(* instruction that an operand names has been visited, in whatever order   *)
(* the dominator tree lists the children of a node, or is unreachable.     *)
UsedAfterExecuted ==
    \A i \in Instructions :
        Asks(i) /\ i \notin DOMAIN ValueInfos => i \notin Executable(M)

(* The recursion of analyzeValue ends: it does not come back to a global   *)
(* whose analysis is under way, which alone could lead it in a circle.     *)
RecursionEnds ==
    \A j, k \in DOMAIN stack :
        /\ stack[j].handler \in {"region", "alias"}
        /\ stack[k].handler \in {"region", "alias"}
        /\ stack[j].V = stack[k].V
        => j = k

(* The relations say what the program does: the points-to set of every     *)
(* value the analysis knows, by way of its ValueInfo, and the contents of  *)
(* every region are those of the module's meaning; and it knows all values *)
(* that can be used in code that is executed (AndersenPass.cpp:61: only    *)
(* unreachable instructions have none).                                    *)
RelationsMeanProgram ==
    Done =>
        LET A == PT!Andersen(ToSet(relations))
            B == PT!Andersen(Meaning(M))
            Found(v) == IF ValueInfos[v] = NoVI THEN {} ELSE PT!pt(A, ValueInfos[v])
            True(v)  == IF v \in Instructions \ Executable(M) THEN {} ELSE PT!pt(B, Meant(M, v))
            Results  == {i \in Executable(M) \ M.void : M.opcode[i] \in
                            {"alloca", "load", "va_arg", "cmpxchg", "atomicrmw", "call", "phi", "user"}}
        IN  /\ Globals \cup Results \subseteq DOMAIN ValueInfos
            /\ \A v \in DOMAIN ValueInfos : Found(v) = True(v)
            /\ \A u \in PT!Unknowns : u[1] # "points-to" => A[u] = B[u]

(* What RelationHandler relies on: each relation is one that can arise     *)
(* after those before it. A result is defined before it is mentioned, and  *)
(* only regions of functions with a body are related with parameters.      *)
RelationsArise ==
    Done => \A k \in Len(Arising!createData) + 1 .. Len(relations) :
                Arising!Arises(ToSet(SubSeq(relations, 1, k - 1)), relations[k])

(* What Data counts references to. *)
Owned == {ValueInfos[v] : v \in DOMAIN ValueInfos}
             \cup {GlobalRegionInfos[g] : g \in DOMAIN GlobalRegionInfos}
             \cup ToSet(AnonymousValueInfos) \cup {EL, EA}

(* ValueInfo.h:50: a ValueInfo is deleted, with its sets, when Data has no *)
(* reference to it any more. No relation that has been handled and no      *)
(* handler that is running has a plain pointer to one of these.            *)
NothingDangles ==
    /\ \A k \in DOMAIN relations : {relations[k].Src, relations[k].Dst} \subseteq Owned
    /\ \A k \in DOMAIN stack : ToSet(stack[k].got) \subseteq Owned \cup {NoVI}

(* Data.cpp:98-121: visitValueInfos comes to every ValueInfo once. It has  *)
(* no list of them and tells by the V fields which entries are aliases.    *)
VisitedOnce ==
    Done => /\ DOMAIN GlobalRegionInfos \subseteq DOMAIN ValueInfos
            /\ \A vi \in created : visitValueInfos(vi) = 1
===============================================================================
