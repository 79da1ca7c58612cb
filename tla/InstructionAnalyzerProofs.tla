--------------------- MODULE InstructionAnalyzerProofs ---------------------
(***************************************************************************)
(* Theorems about InstructionAnalyzer, for every set of values and blocks  *)
(* and every well-formed module: its recursion through constants and       *)
(* globals ends, no instruction is used before it has been executed, and   *)
(* only constants in a circle are analyzed again while they are analyzed.  *)
(***************************************************************************)
EXTENDS InstructionAnalyzer, DataLemmas

-----------------------------------------------------------------------------
(* The frames of the recursion, for the module m. *)

NodeHandlers == Opcodes \ {"alloca", "phi", "fence", "va_end"}

(* The values that the handler of a frame asks for. *)
Needs(m, fr) ==
    CASE fr.handler = "global"   -> {fr.V}
      [] fr.handler = "argument" -> {fr.V} \cup ToSet(m.args[fr.V])
      [] OTHER                   -> IF fr.V \in Users THEN ToSet(m.operands[fr.V]) ELSE {}

IsFrame(m, fr) ==
    /\ DOMAIN fr = {"handler", "V", "todo", "got"}
    /\ fr.todo \in Seq(Needs(m, fr))

(* The frames of constants and globals. *)
Nested(m, fr) ==
    \/ fr.handler = "region" /\ fr.V \in DefinedRegions(m)
    \/ fr.handler = "alias" /\ fr.V \in GlobalAliases
    \/ fr.handler = "user" /\ fr.V \in Constants

(* The frame of an instruction that is being visited. *)
IsNode(m, fr) == fr.handler \in NodeHandlers /\ fr.V \in Instructions /\ fr.handler = m.opcode[fr.V]

(* The frames that the walk begins. *)
Outermost(m, fr) ==
    \/ fr.handler = "global" /\ fr.V \in Globals
    \/ fr.handler = "argument" /\ fr.V \in Functions \ m.declarations
    \/ fr.handler = "phi" /\ fr.V \in Instructions /\ m.opcode[fr.V] = "phi"
    \/ IsNode(m, fr)

(* The outermost frame is of what the walk has come to, every other one of *)
(* the constant or global that the one below it asks for.                  *)
Framed(m, s) ==
    /\ s \in Seq(ToSet(s))
    /\ \A k \in DOMAIN s : IsFrame(m, s[k]) /\ IF k = 1 THEN Outermost(m, s[k]) ELSE Nested(m, s[k])
    /\ \A k \in DOMAIN s : k > 1 => s[k - 1].todo # <<>> /\ s[k].V = Head(s[k - 1].todo)

(* What a module is. *)
LEMMA ModuleType ==
    ASSUME NEW m \in ModulesToRun
    PROVE  /\ m \in Modules /\ WellFormed(m)
           /\ m.declarations \subseteq GlobalVariables \cup Functions
           /\ m.void \subseteq Instructions
           /\ m.operands \in [Users -> Seq(Values)]
           /\ m.opcode \in [Instructions -> Opcodes]
           /\ m.args \in [Functions -> Seq(Arguments)]
           /\ m.entry \in [Functions -> BasicBlocks \cup {NoBlock}]
           /\ m.code \in [BasicBlocks -> Seq(Instructions)]
           /\ m.idom \in [BasicBlocks -> BasicBlocks \cup {NoBlock}]
BY ModulesAssumption DEF Modules

(* No handler is of two kinds. *)
LEMMA HandlerNames ==
    /\ NodeHandlers \cap {"region", "alias", "global", "argument", "phi", "alloca", "fence", "va_end"} = {}
    /\ "user" \in NodeHandlers /\ NodeHandlers \subseteq Opcodes
    /\ Opcodes \cap {"region", "alias", "global", "argument"} = {}
    /\ "phi" \in Opcodes
BY DEF NodeHandlers, Opcodes

(* Sequences of anything. *)
LEMMA SeqOfMembers ==
    ASSUME NEW T, NEW s \in Seq(T)
    PROVE  s \in Seq(ToSet(s))
<1>1. \A k \in DOMAIN s : s[k] \in ToSet(s)
  BY DEF ToSet
<1> QED  BY <1>1, SeqOverSubset

LEMMA ToSetInside ==
    ASSUME NEW T, NEW s \in Seq(T)
    PROVE  ToSet(s) \subseteq T
BY ElementOfSeq, LenProperties DEF ToSet

(* A frame is pushed or popped, or gets what it has asked for. *)
LEMMA FrontFrames ==
    ASSUME NEW m, NEW s, Framed(m, s), s # <<>>
    PROVE  /\ Framed(m, Front(s))
           /\ Len(s) \in Nat /\ DOMAIN s = 1 .. Len(s) /\ Len(s) >= 1
           /\ DOMAIN Front(s) = 1 .. Len(s) - 1 /\ Len(Front(s)) = Len(s) - 1
           /\ \A k \in 1 .. Len(s) - 1 : Front(s)[k] = s[k]
           /\ Last(s) = s[Len(s)]
           /\ Front(s) = <<>> <=> Len(s) = 1
<1> DEFINE T == ToSet(s)
           t == Front(s)
<1>1. PICK n \in Nat : Len(s) = n /\ n >= 1 /\ DOMAIN s = 1 .. n
  BY LenProperties, EmptySeq DEF Framed
<1>2. s \in Seq(T)
  BY DEF Framed
<1>3. /\ t \in Seq(T) /\ Len(t) = n - 1
      /\ \A j \in 1 .. n - 1 : t[j] = s[j]
  <2> HIDE DEF T
  <2> QED  BY <1>1, <1>2, FrontProperties
<1> HIDE DEF T, t
<1>4. DOMAIN t = 1 .. n - 1 /\ (t = <<>> <=> n - 1 = 0)
  BY <1>3, LenProperties, EmptySeq
<1>5. t \in Seq(ToSet(t))
  BY <1>3, SeqOfMembers
<1>6. Framed(m, t)
  BY <1>1, <1>3, <1>4, <1>5 DEF Framed
<1> QED  BY <1>1, <1>3, <1>4, <1>6 DEF t, Last

LEMMA PushedFrames ==
    ASSUME NEW m, NEW s, Framed(m, s), NEW fr, IsFrame(m, fr),
           \/ Len(s) = 0 /\ Outermost(m, fr)
           \/ s # <<>> /\ Nested(m, fr) /\ Last(s).todo # <<>> /\ fr.V = Head(Last(s).todo)
    PROVE  /\ Framed(m, Append(s, fr))
           /\ Len(s) \in Nat /\ DOMAIN s = 1 .. Len(s)
           /\ DOMAIN Append(s, fr) = 1 .. Len(s) + 1 /\ Len(Append(s, fr)) = Len(s) + 1
           /\ Append(s, fr) # <<>>
           /\ \A k \in 1 .. Len(s) : Append(s, fr)[k] = s[k]
           /\ Append(s, fr)[Len(s) + 1] = fr
<1> DEFINE T == ToSet(s) \cup {fr}
           t == Append(s, fr)
<1>1. PICK n \in Nat : Len(s) = n /\ DOMAIN s = 1 .. n /\ (s = <<>> <=> n = 0)
  BY LenProperties, EmptySeq DEF Framed
<1>2. s \in Seq(T)
  <2>1. \A k \in DOMAIN s : s[k] \in T
    BY DEF ToSet
  <2> HIDE DEF T
  <2> QED  BY <2>1, SeqOverSubset DEF Framed
<1>3. fr \in T
  OBVIOUS
<1> HIDE DEF T
<1>4. /\ t \in Seq(T) /\ Len(t) = n + 1 /\ t # <<>>
      /\ \A j \in 1 .. n : t[j] = s[j]
      /\ t[n + 1] = fr
  BY <1>1, <1>2, <1>3, AppendProperties
<1> HIDE DEF t
<1>5. DOMAIN t = 1 .. n + 1
  BY <1>4, LenProperties
<1>6. n > 0 => Last(s) = s[n]
  BY <1>1 DEF Last
<1>7. t \in Seq(ToSet(t))
  BY <1>4, SeqOfMembers
<1>8. ASSUME NEW k \in 1 .. n + 1
      PROVE  /\ IsFrame(m, t[k]) /\ IF k = 1 THEN Outermost(m, t[k]) ELSE Nested(m, t[k])
             /\ k > 1 => t[k - 1].todo # <<>> /\ t[k].V = Head(t[k - 1].todo)
  <2>1. CASE k \in 1 .. n
    <3>1. t[k] = s[k] /\ k \in DOMAIN s
      BY <1>1, <1>4, <2>1
    <3>2. k > 1 => t[k - 1] = s[k - 1]
      BY <1>4, <2>1
    <3> QED  BY <3>1, <3>2 DEF Framed
  <2>2. CASE k = n + 1
    <3>1. t[k] = fr
      BY <1>4, <2>2
    <3>2. CASE n = 0
      BY <1>1, <2>2, <3>1, <3>2
    <3>3. CASE n > 0
      <4>1. t[k - 1] = Last(s) /\ k # 1
        BY <1>1, <1>4, <1>6, <2>2, <3>3
      <4> QED  BY <1>1, <3>1, <3>3, <4>1
    <3> QED  BY <1>1, <3>2, <3>3
  <2> QED  BY <2>1, <2>2
<1>9. Framed(m, t)
  BY <1>5, <1>7, <1>8 DEF Framed
<1> QED  BY <1>1, <1>4, <1>5, <1>9 DEF t

Answered(s, vi) == [s EXCEPT ![Len(s)].todo = Tail(@), ![Len(s)].got = Append(@, vi)]

LEMMA AnsweredFrames ==
    ASSUME NEW m, NEW s, Framed(m, s), s # <<>>, Last(s).todo # <<>>, NEW vi
    PROVE  /\ Framed(m, Answered(s, vi))
           /\ Answered(s, vi) # <<>>
           /\ DOMAIN Answered(s, vi) = DOMAIN s
           /\ 1 \in DOMAIN s
           /\ \A k \in DOMAIN s : Answered(s, vi)[k].handler = s[k].handler /\ Answered(s, vi)[k].V = s[k].V
<1> DEFINE t == Answered(s, vi)
           T == ToSet(s)
<1>1. PICK n \in Nat : Len(s) = n /\ n >= 1 /\ DOMAIN s = 1 .. n /\ s \in [1 .. n -> T]
  BY LenProperties, EmptySeq DEF Framed
<1> DEFINE fr == s[n]
           gr == [fr EXCEPT !.todo = Tail(@), !.got = Append(@, vi)]
<1>2. Last(s) = fr /\ IsFrame(m, fr) /\ fr \in T
  BY <1>1 DEF Last, Framed, ToSet
<1>3. t = [s EXCEPT ![n] = gr]
  BY <1>1 DEF Answered
<1>4. DOMAIN fr = {"handler", "V", "todo", "got"} /\ fr.todo \in Seq(Needs(m, fr)) /\ fr.todo # <<>>
  BY <1>2 DEF IsFrame
<1>5. Tail(fr.todo) \in Seq(Needs(m, fr))
  BY <1>4, HeadTailProperties
<1>6. DOMAIN gr = DOMAIN fr /\ gr.handler = fr.handler /\ gr.V = fr.V /\ gr.todo = Tail(fr.todo)
  BY <1>4
<1> HIDE DEF gr, fr, t
<1>7. Needs(m, gr) = Needs(m, fr)
  BY <1>6 DEF Needs
<1>8. IsFrame(m, gr)
  BY <1>4, <1>5, <1>6, <1>7 DEF IsFrame
<1>9. t \in [1 .. n -> T \cup {gr}] /\ t[n] = gr /\ \A k \in 1 .. n : k # n => t[k] = s[k]
  <2> HIDE DEF T
  <2> QED  BY <1>1, <1>3
<1>10. t \in Seq(ToSet(t)) /\ DOMAIN t = 1 .. n /\ Len(t) = n /\ t # <<>>
  <2>1. t \in Seq(T \cup {gr})
    BY <1>9, SeqDef
  <2>2. DOMAIN t = 1 .. n
    BY <1>9
  <2> QED  BY <1>1, <2>1, <2>2, SeqOfMembers, LenProperties, EmptySeq
<1>11. IF n = 1 THEN Outermost(m, gr) ELSE Nested(m, gr)
  <2>1. IF n = 1 THEN Outermost(m, fr) ELSE Nested(m, fr)
    BY <1>1 DEF Framed, fr
  <2> QED  BY <1>6, <2>1 DEF Outermost, IsNode, Nested
<1>12. ASSUME NEW k \in 1 .. n
       PROVE  /\ IsFrame(m, t[k]) /\ IF k = 1 THEN Outermost(m, t[k]) ELSE Nested(m, t[k])
              /\ k > 1 => t[k - 1].todo # <<>> /\ t[k].V = Head(t[k - 1].todo)
  <2>1. CASE k # n
    BY <1>1, <1>9, <2>1 DEF Framed
  <2>2. CASE k = n
    <3>1. k > 1 => s[k - 1].todo # <<>> /\ s[k].V = Head(s[k - 1].todo)
      BY <1>1, <2>2 DEF Framed
    <3> QED  BY <1>6, <1>8, <1>9, <1>11, <2>2, <3>1 DEF fr
  <2> QED  BY <2>1, <2>2
<1>13. Framed(m, t)
  BY <1>10, <1>12 DEF Framed
<1> QED  BY <1>1, <1>6, <1>9, <1>10, <1>13 DEF t, fr

-----------------------------------------------------------------------------
(* What the frames need. *)

LEMMA NeedsOf ==
    ASSUME NEW m, NEW fr
    PROVE  /\ fr.handler = "global" => Needs(m, fr) = {fr.V}
           /\ fr.handler = "argument" => Needs(m, fr) = {fr.V} \cup ToSet(m.args[fr.V])
           /\ fr.handler \notin {"global", "argument"} /\ fr.V \in Users => Needs(m, fr) = ToSet(m.operands[fr.V])
           /\ fr.handler \notin {"global", "argument"} /\ fr.V \notin Users => Needs(m, fr) = {}
BY DEF Needs

(* Which values are users. *)
LEMMA UserKinds ==
    /\ Functions \cap Users = {}
    /\ Globals \cup Constants \cup Arguments \cup Instructions \subseteq Values
    /\ GlobalVariables \cup GlobalAliases \cup Constants \cup Instructions = Users
    /\ Functions \cup GlobalVariables \cup GlobalAliases = Globals
    /\ Instructions \cap (Globals \cup Constants \cup Arguments) = {}
    /\ Constants \cap Globals = {}
    /\ GlobalVariables \cap GlobalAliases = {}
BY KindsAssumption DEF Globals, Users, Values

(* What is not executed is made of nothing that is. *)
LEMMA NestedNeeds ==
    ASSUME NEW m \in ModulesToRun, NEW fr, Nested(m, fr)
    PROVE  /\ Needs(m, fr) = Mentions(m, fr.V)
           /\ fr.V \in Values \ Instructions
           /\ Needs(m, fr) \cap (Arguments \cup Instructions) = {}
<1>1. \A v \in Users \ Instructions : ToSet(m.operands[v]) \cap (Arguments \cup Instructions) = {}
  BY ModuleType DEF WellFormed, WellTyped
<1>2. fr.V \in Globals \cup Constants /\ fr.handler \notin {"global", "argument"}
  BY UserKinds DEF Nested, DefinedRegions
<1>3. Needs(m, fr) = IF fr.V \in Users THEN ToSet(m.operands[fr.V]) ELSE {}
  BY <1>2, NeedsOf
<1> QED  BY <1>1, <1>2, <1>3, UserKinds DEF Mentions

LEMMA OutermostNeeds ==
    ASSUME NEW m \in ModulesToRun, NEW fr, Outermost(m, fr)
    PROVE  /\ fr.handler \in {"global", "argument"} => Needs(m, fr) \cap Instructions = {} /\ fr.V \in Globals
           /\ fr.handler \notin {"global", "argument"} =>
                 /\ Needs(m, fr) = ToSet(m.operands[fr.V])
                 /\ fr.V \in Instructions
                 /\ fr.handler = m.opcode[fr.V]
                 /\ fr.handler = "phi" \/ IsNode(m, fr)
<1>1. CASE fr.handler = "global" /\ fr.V \in Globals
  BY <1>1, NeedsOf, UserKinds
<1>2. CASE fr.handler = "argument" /\ fr.V \in Functions
  <2>1. ToSet(m.args[fr.V]) \subseteq Arguments
    BY <1>2, ModuleType, ToSetInside
  <2> QED  BY <1>2, <2>1, NeedsOf, UserKinds
<1>3. CASE fr.V \in Instructions /\ fr.handler = m.opcode[fr.V] /\ (fr.handler = "phi" \/ IsNode(m, fr))
  <2>1. fr.handler \notin {"global", "argument"}
    BY <1>3, HandlerNames DEF IsNode
  <2> QED  BY <1>3, <2>1, NeedsOf, UserKinds
<1> QED  BY <1>1, <1>2, <1>3 DEF Outermost, IsNode

(* The frames that are pushed. *)
LEMMA FrameFields ==
    ASSUME NEW h, NEW v, NEW ops
    PROVE  /\ DOMAIN Frame(h, v, ops) = {"handler", "V", "todo", "got"}
           /\ Frame(h, v, ops).handler = h /\ Frame(h, v, ops).V = v /\ Frame(h, v, ops).todo = ops
BY DEF Frame

LEMMA OperandsFrame ==
    ASSUME NEW m \in ModulesToRun, NEW h, h \notin {"global", "argument"}, NEW v \in Users
    PROVE  IsFrame(m, Frame(h, v, m.operands[v]))
<1> DEFINE fr == Frame(h, v, m.operands[v])
<1>1. DOMAIN fr = {"handler", "V", "todo", "got"} /\ fr.handler = h /\ fr.V = v /\ fr.todo = m.operands[v]
  BY FrameFields
<1> HIDE DEF fr
<1>2. Needs(m, fr) = ToSet(m.operands[v])
  BY <1>1, NeedsOf
<1>3. m.operands[v] \in Seq(ToSet(m.operands[v]))
  BY ModuleType, SeqOfMembers
<1> QED  BY <1>1, <1>2, <1>3 DEF IsFrame, fr

LEMMA InitializerFrame ==
    ASSUME NEW m \in ModulesToRun, NEW v \in DefinedRegions(m),
           NEW ops, ops = IF v \in GlobalVariables THEN m.operands[v] ELSE <<>>
    PROVE  IsFrame(m, Frame("region", v, ops))
<1>1. CASE v \in GlobalVariables
  BY <1>1, OperandsFrame, UserKinds
<1>2. CASE v \notin GlobalVariables
  <2>1. ops = <<>>
    BY <1>2
  <2> DEFINE fr == Frame("region", v, ops)
  <2>2. <<>> \in Seq(Needs(m, fr))
    OBVIOUS
  <2>3. DOMAIN fr = {"handler", "V", "todo", "got"} /\ fr.todo = ops
    BY FrameFields
  <2> HIDE DEF fr
  <2>4. IsFrame(m, fr)
    BY <2>1, <2>2, <2>3 DEF IsFrame
  <2> QED  BY <2>4 DEF fr
<1> QED  BY <1>1, <1>2

LEMMA GlobalFrame ==
    ASSUME NEW m \in ModulesToRun, NEW v
    PROVE  IsFrame(m, Frame("global", v, <<v>>))
<1> DEFINE fr == Frame("global", v, <<v>>)
<1>1. DOMAIN fr = {"handler", "V", "todo", "got"} /\ fr.handler = "global" /\ fr.V = v /\ fr.todo = <<v>>
  BY FrameFields
<1> HIDE DEF fr
<1>2. Needs(m, fr) = {v}
  BY <1>1, NeedsOf
<1>3. <<v>> \in Seq({v})
  OBVIOUS
<1> QED  BY <1>1, <1>2, <1>3 DEF IsFrame, fr

LEMMA ArgumentFrame ==
    ASSUME NEW m \in ModulesToRun, NEW f \in Functions
    PROVE  IsFrame(m, Frame("argument", f, <<f>> \o m.args[f]))
<1> DEFINE ops == <<f>> \o m.args[f]
           fr == Frame("argument", f, ops)
           N  == {f} \cup ToSet(m.args[f])
<1> HIDE DEF ops
<1>1. DOMAIN fr = {"handler", "V", "todo", "got"} /\ fr.handler = "argument" /\ fr.V = f /\ fr.todo = ops
  BY FrameFields
<1> HIDE DEF fr
<1>2. Needs(m, fr) = N
  BY <1>1, NeedsOf
<1>3. <<f>> \in Seq(N)
  OBVIOUS
<1>4. m.args[f] \in Seq(N)
  <2>1. m.args[f] \in Seq(Arguments)
    BY ModuleType
  <2>2. \A k \in DOMAIN m.args[f] : m.args[f][k] \in N
    BY DEF ToSet
  <2> HIDE DEF N
  <2> QED  BY <2>1, <2>2, SeqOverSubset
<1> HIDE DEF N
<1>5. ops \in Seq(N)
  BY <1>3, <1>4, ConcatProperties DEF ops
<1>6. IsFrame(m, fr)
  BY <1>1, <1>2, <1>5 DEF IsFrame
<1> QED  BY <1>6 DEF fr, ops

-----------------------------------------------------------------------------
(* The kinds of steps. *)

Known == DOMAIN ValueInfos

(* The innermost handler gets a ValueInfo that is in the cache. *)
Answers ==
    /\ stack # <<>> /\ Top.todo # <<>> /\ Head(Top.todo) \in Known
    /\ \E vi : stack' = Answered(stack, vi)
    /\ Known' = Known

(* A value is analyzed that needs no others. *)
Learns(v) ==
    /\ Asks(v) /\ v \notin Known
    /\ v \in M.declarations \cup Arguments \cup Instructions \cup OtherValues
    /\ stack' = stack
    /\ Known' = Known \cup {v}

(* The analysis of a value begins that needs others. *)
Begins(v) ==
    /\ Asks(v) /\ v \notin Known
    /\ \E fr : /\ IsFrame(M, fr) /\ Nested(M, fr) /\ fr.V = v
               /\ stack' = Append(stack, fr)
               /\ Known' = IF fr.handler = "user" THEN Known ELSE Known \cup {v}

(* A handler ends. *)
Ends ==
    /\ stack # <<>> /\ Top.todo = <<>>
    /\ stack' = Front(stack)
    /\ Known' = Known \cup IF Caches(Top) THEN {V} ELSE {}

LEMMA CacheKnows ==
    ASSUME NEW v
    PROVE  /\ \A vi : cache(v, vi) => Known' = Known \cup {v}
           /\ cacheNewValueInfo(v) => Known' = Known \cup {v}
           /\ cacheNil(v) => Known' = Known \cup {v}
<1>1. ASSUME NEW vi, cache(v, vi) PROVE Known' = Known \cup {v}
  BY <1>1 DEF cache, With, Known
<1> QED  BY <1>1 DEF cacheNewValueInfo, cacheNil

LEMMA AnalyzeSteps ==
    ASSUME M \in ModulesToRun, AnalyzeValue
    PROVE  /\ M' = M /\ walk' = walk
           /\ Answers \/ \E v \in Values : Learns(v) \/ Begins(v)
<1>1. CASE AnalyzedValue
  <2>1. stack' = Answered(stack, ValueInfos[Head(Top.todo)])
    BY <1>1 DEF AnalyzedValue, Answered
  <2> QED  BY <1>1, <2>1 DEF AnalyzedValue, Answers, Known, analyzed, data
<1>2. ASSUME NEW v \in Values, AnalyzeDeclaration(v) \/ AnalyzeArgument(v) \/ AnalyzeNil(v)
      PROVE  M' = M /\ walk' = walk /\ Learns(v)
  <2>1. Known' = Known \cup {v}
    BY <1>2, CacheKnows DEF AnalyzeDeclaration, AnalyzeArgument, AnalyzeNil
  <2>2. /\ M' = M /\ walk' = walk /\ stack' = stack
        /\ Unanalyzed(v, M.declarations) \/ Unanalyzed(v, Arguments) \/ Unanalyzed(v, Instructions \cup OtherValues)
    BY <1>2 DEF AnalyzeDeclaration, AnalyzeArgument, AnalyzeNil
  <2> QED  BY <2>1, <2>2 DEF Learns, Unanalyzed, analyzed, Known
<1>3. ASSUME NEW v \in Values, analyzeUser(v)
      PROVE  M' = M /\ walk' = walk /\ Begins(v)
  <2> DEFINE fr == Frame("user", v, M.operands[v])
  <2>1. /\ M' = M /\ walk' = walk /\ Known' = Known /\ stack' = Append(stack, fr)
        /\ Unanalyzed(v, Constants)
    BY <1>3 DEF analyzeUser, data, Known, Call
  <2>2. IsFrame(M, fr) /\ Nested(M, fr) /\ fr.V = v /\ fr.handler = "user"
    BY <2>1, OperandsFrame, FrameFields, UserKinds DEF Nested, Unanalyzed
  <2> HIDE DEF fr
  <2> QED  BY <2>1, <2>2 DEF Begins, Unanalyzed, analyzed, Known
<1>4. ASSUME NEW v \in Values, analyzeGlobalAlias(v)
      PROVE  M' = M /\ walk' = walk /\ Begins(v)
  <2> DEFINE fr == Frame("alias", v, M.operands[v])
  <2>1. /\ M' = M /\ walk' = walk /\ Known' = Known \cup {v} /\ stack' = Append(stack, fr)
        /\ Unanalyzed(v, GlobalAliases)
    BY <1>4, CacheKnows DEF analyzeGlobalAlias, Call
  <2>2. v \in GlobalAliases /\ v \in Users /\ "alias" \notin {"global", "argument"}
    BY <2>1, UserKinds DEF Unanalyzed
  <2>3. IsFrame(M, fr) /\ fr.V = v /\ fr.handler = "alias"
    BY <2>2, OperandsFrame, FrameFields
  <2>4. Nested(M, fr)
    BY <2>2, <2>3 DEF Nested
  <2> HIDE DEF fr
  <2> QED  BY <2>1, <2>3, <2>4 DEF Begins, Unanalyzed, analyzed, Known
<1>5. ASSUME NEW v \in Values, analyzeGlobalRegion(v)
      PROVE  M' = M /\ walk' = walk /\ Begins(v)
  <2> DEFINE fr == Frame("region", v, Initializer(v))
  <2>1. /\ M' = M /\ walk' = walk /\ stack' = Append(stack, fr)
        /\ Unanalyzed(v, DefinedRegions(M)) /\ MakeGlobal(v)
    BY <1>5 DEF analyzeGlobalRegion, Call
  <2>2. Known' = Known \cup {v}
    BY <2>1, CacheKnows DEF MakeGlobal
  <2>3. IsFrame(M, fr) /\ Nested(M, fr) /\ fr.V = v /\ fr.handler = "region"
    BY <2>1, InitializerFrame, FrameFields DEF Nested, Unanalyzed, Initializer
  <2> HIDE DEF fr
  <2> QED  BY <2>1, <2>2, <2>3 DEF Begins, Unanalyzed, analyzed, Known
<1> QED  BY <1>1, <1>2, <1>3, <1>4, <1>5 DEF AnalyzeValue

LEMMA FinishSteps ==
    ASSUME Finish
    PROVE  M' = M /\ walk' = walk /\ Ends
<1>1. ASSUME EndGlobalRegion \/ EndGlobalAlias \/ EndPHINode \/ EndVisitGlobal
      PROVE  /\ M' = M /\ walk' = walk /\ Known' = Known
             /\ \E hs : Ready(hs) /\ hs \subseteq {"region", "alias", "phi", "global", "argument"} /\ Return
  BY <1>1 DEF EndGlobalRegion, EndGlobalAlias, EndPHINode, EndVisitGlobal, data, Known
<1>2. ASSUME visitStoreInst \/ visitVAStartInst \/ visitReturnInst \/ visitMemTransferInst \/ visitVACopyInst
      PROVE  /\ M' = M /\ walk' = walk /\ Known' = Known
             /\ \E hs : Ready(hs) /\ hs \subseteq Effects /\ Return
  BY <1>2 DEF visitStoreInst, visitVAStartInst, visitReturnInst, visitMemTransferInst, visitVACopyInst, data, Known, Effects
<1>3. ASSUME NEW t, NEW k, NEW before, NEW after, ResultFrom(t, k, before, after)
      PROVE  Known' = Known \cup {V}
  BY <1>3, CacheKnows DEF ResultFrom
<1>4. ASSUME EndUser \/ visitLoadInst \/ visitAtomicMutateInst
      PROVE  /\ M' = M /\ walk' = walk /\ Known' = Known \cup {V}
             /\ Ready({"user", "load", "va_arg", "cmpxchg", "atomicrmw"}) /\ Return
  <2>1. CASE EndUser
    <3>1. cacheNil(V) \/ cache(V, Real[1]) \/ cacheNewValueInfo(V)
      BY <2>1 DEF EndUser
    <3>2. Known' = Known \cup {V}
      BY <3>1, CacheKnows
    <3> QED  BY <2>1, <3>2 DEF EndUser, Ready
  <2>2. CASE visitLoadInst
    BY <1>3, <2>2 DEF visitLoadInst, Ready
  <2>3. CASE visitAtomicMutateInst
    <3>1. Known' = Known \cup {V}
      BY <1>3, <2>3 DEF visitAtomicMutateInst
    <3> QED  BY <2>3, <3>1 DEF visitAtomicMutateInst, Ready
  <2> QED  BY <1>4, <2>1, <2>2, <2>3
<1>5. ASSUME visitCallSite
      PROVE  /\ M' = M /\ walk' = walk /\ Ready({"call"}) /\ Return
             /\ Known' = Known \cup IF V \in M.void THEN {} ELSE {V}
  <2>1. CASE V \in M.void
    BY <1>5, <2>1 DEF visitCallSite, Known
  <2>2. CASE V \notin M.void
    <3>1. Known' = Known \cup {V}
      BY <1>3, <1>5, <2>2 DEF visitCallSite
    <3> QED  BY <1>5, <2>2, <3>1 DEF visitCallSite
  <2> QED  BY <2>1, <2>2
<1>6. CASE EndGlobalRegion \/ EndGlobalAlias \/ EndPHINode \/ EndVisitGlobal
  BY <1>1, <1>6 DEF Ends, Ready, Caches, Return
<1>7. CASE visitStoreInst \/ visitVAStartInst \/ visitReturnInst \/ visitMemTransferInst \/ visitVACopyInst
  BY <1>2, <1>7 DEF Ends, Ready, Caches, Return, Effects
<1>8. CASE EndUser \/ visitLoadInst \/ visitAtomicMutateInst
  BY <1>4, <1>8 DEF Ends, Ready, Caches, Return, V
<1>9. CASE visitCallSite
  BY <1>5, <1>9 DEF Ends, Ready, Caches, Return, V
<1> QED  BY <1>6, <1>7, <1>8, <1>9 DEF Finish

-----------------------------------------------------------------------------
(* Dominator trees. *)

(* The immediate dominator of every block of S is in S. *)
IsClosed(m, S) == \A c \in S : m.idom[c] \in S \cup {NoBlock}

(* An instruction is in one block. *)
LEMMA ParentIs ==
    ASSUME NEW m \in ModulesToRun, NEW b \in BasicBlocks, NEW i \in ToSet(m.code[b])
    PROVE  getParent(m, i) = b
<1>1. \A c \in BasicBlocks : i \in ToSet(m.code[c]) => c = b
  BY ModuleType DEF WellFormed, WellPlaced, ToSet
<1> QED  BY <1>1 DEF getParent

LEMMA PlacedOnce ==
    ASSUME NEW m \in ModulesToRun, NEW b \in BasicBlocks,
           NEW j \in DOMAIN m.code[b], NEW k \in DOMAIN m.code[b], m.code[b][j] = m.code[b][k]
    PROVE  j = k
BY ModuleType DEF WellFormed, WellPlaced

(* What is executed is in the block that it is in. *)
LEMMA ExecutableParent ==
    ASSUME NEW m \in ModulesToRun, NEW i \in Executable(m)
    PROVE  getParent(m, i) \in BasicBlocks /\ i \in ToSet(m.code[getParent(m, i)])
<1>1. PICK b \in BasicBlocks : i \in ToSet(m.code[b])
  BY DEF Executable
<1> QED  BY <1>1, ParentIs

(* The entry of a function is the root of its tree. *)
LEMMA EntryIsRoot ==
    ASSUME NEW m \in ModulesToRun, NEW f \in Functions, m.entry[f] # NoBlock
    PROVE  m.entry[f] \in BasicBlocks /\ m.idom[m.entry[f]] = NoBlock
BY ModuleType DEF WellFormed, WellPlaced

LEMMA BodyIs ==
    ASSUME NEW m \in ModulesToRun, NEW f \in Functions, NEW b
    PROVE  b \in Body(m, f) <=>
             /\ b \in BasicBlocks /\ m.entry[f] # NoBlock
             /\ \A S \in SUBSET BasicBlocks : b \in S /\ IsClosed(m, S) => m.entry[f] \in S
<1>1. ASSUME b \in Body(m, f)
      PROVE  /\ b \in BasicBlocks /\ m.entry[f] # NoBlock
             /\ \A S \in SUBSET BasicBlocks : b \in S /\ IsClosed(m, S) => m.entry[f] \in S
  <2>1. b \in BasicBlocks /\ m.entry[f] # NoBlock
    BY <1>1, BlocksAssumption DEF Body
  <2>2. CASE b = m.entry[f]
    BY <2>1, <2>2
  <2>3. CASE StrictlyDominates(m, m.entry[f], b)
    BY <2>1, <2>3 DEF StrictlyDominates, IsClosed
  <2> QED  BY <1>1, <2>1, <2>2, <2>3 DEF Body
<1>2. ASSUME b \in BasicBlocks, m.entry[f] # NoBlock,
             \A S \in SUBSET BasicBlocks : b \in S /\ IsClosed(m, S) => m.entry[f] \in S
      PROVE  b \in Body(m, f)
  BY <1>2 DEF Body, StrictlyDominates, IsClosed
<1> QED  BY <1>1, <1>2

(* The body of a function goes on to the children of its blocks. *)
LEMMA BodyGrows ==
    ASSUME NEW m \in ModulesToRun, NEW f \in Functions, NEW b \in Body(m, f), NEW c \in DomTreeChildren(m, b)
    PROVE  c \in Body(m, f)
<1>1. c \in BasicBlocks /\ m.idom[c] = b
  BY DEF DomTreeChildren
<1>2. ASSUME NEW S \in SUBSET BasicBlocks, c \in S, IsClosed(m, S)
      PROVE  m.entry[f] \in S
  <2>1. b \in S
    BY <1>1, <1>2, BodyIs, BlocksAssumption DEF IsClosed
  <2> QED  BY <1>2, <2>1, BodyIs
<1> QED  BY <1>1, <1>2, BodyIs

(* It ends nowhere else. *)
LEMMA BodyInside ==
    ASSUME NEW m \in ModulesToRun, NEW f \in Functions, NEW W \in SUBSET BasicBlocks,
           m.entry[f] \in W, \A b \in W : DomTreeChildren(m, b) \subseteq W
    PROVE  Body(m, f) \subseteq W
<1>1. SUFFICES ASSUME NEW b \in Body(m, f), b \notin W
               PROVE  FALSE
  OBVIOUS
<1> DEFINE S == BasicBlocks \ W
<1>2. IsClosed(m, S)
  BY ModuleType DEF IsClosed, DomTreeChildren
<1>3. b \in S /\ S \in SUBSET BasicBlocks
  BY <1>1, BodyIs
<1> QED  BY <1>2, <1>3, BodyIs

(* A block of a body can be executed. *)
LEMMA BodyIsReachable ==
    ASSUME NEW m \in ModulesToRun, NEW f \in Functions, NEW b \in Body(m, f)
    PROVE  isReachableFromEntry(m, b) /\ ToSet(m.code[b]) \subseteq Executable(m)
<1>1. b \in BasicBlocks
  BY BodyIs
<1>2. CASE m.idom[b] = NoBlock
  <2>1. IsClosed(m, {b}) /\ {b} \in SUBSET BasicBlocks
    BY <1>1, <1>2 DEF IsClosed
  <2>2. m.entry[f] = b
    BY <2>1, BodyIs
  <2> QED  BY <1>1, <2>2 DEF isReachableFromEntry, Executable
<1> QED  BY <1>1, <1>2 DEF isReachableFromEntry, Executable

(* No block is in two bodies. *)
LEMMA BodiesAreDisjoint ==
    ASSUME NEW m \in ModulesToRun, NEW f \in Functions, NEW g \in Functions,
           NEW b \in Body(m, f), b \in Body(m, g)
    PROVE  f = g
<1> DEFINE T == Body(m, f)
           e == m.entry[f]
<1>1. e \in BasicBlocks /\ m.idom[e] = NoBlock
  BY BodyIs, EntryIsRoot
<1>2. T \in SUBSET BasicBlocks
  BY BodyIs
<1>3. ASSUME NEW x \in T, x # e
      PROVE  m.idom[x] \in T
  <2>1. x \in BasicBlocks /\ m.idom[x] \in BasicBlocks
    <3>1. x \in BasicBlocks
      BY <1>3, BodyIs
    <3>2. CASE m.idom[x] = NoBlock
      <4>1. IsClosed(m, {x}) /\ {x} \in SUBSET BasicBlocks
        BY <3>1, <3>2 DEF IsClosed
      <4> QED  BY <1>3, <4>1, BodyIs
    <3> QED  BY <3>1, <3>2, ModuleType
  <2>2. ASSUME NEW S \in SUBSET BasicBlocks, m.idom[x] \in S, IsClosed(m, S)
        PROVE  e \in S
    <3>1. S \cup {x} \in SUBSET BasicBlocks /\ IsClosed(m, S \cup {x})
      BY <2>1, <2>2 DEF IsClosed
    <3>2. e \in S \cup {x}
      BY <3>1, BodyIs
    <3> QED  BY <1>3, <3>2
  <2> QED  BY <2>1, <2>2, BodyIs
<1>4. IsClosed(m, T)
  BY <1>1, <1>3 DEF IsClosed
<1>5. m.entry[g] \in T
  BY <1>2, <1>4, BodyIs
<1>6. m.entry[g] \in BasicBlocks /\ m.idom[m.entry[g]] = NoBlock
  BY BodyIs, EntryIsRoot
<1>7. IsClosed(m, {m.entry[g]}) /\ {m.entry[g]} \in SUBSET BasicBlocks
  BY <1>6 DEF IsClosed
<1>8. e = m.entry[g]
  BY <1>5, <1>7, BodyIs
<1>9. m.entry[f] # NoBlock
  BY BodyIs
<1> QED  BY <1>8, <1>9, ModuleType DEF WellFormed, WellPlaced

-----------------------------------------------------------------------------
(* The inductive invariant. *)

(* A global is in the cache as long as it is analyzed. *)
IsGlobalFrame(fr) == fr.handler \in {"region", "alias"}

GlobalsCached == \A k \in DOMAIN stack : IsGlobalFrame(stack[k]) => stack[k].V \in Known

(* The variables of the walk. *)
WalkTypes ==
    /\ M \in ModulesToRun
    /\ toAnalyze \subseteq Globals
    /\ CurrentFunction = NoFunction \/ CurrentFunction \in Functions \ (M.declarations \cup toAnalyze)
    /\ visited \subseteq BasicBlocks
    /\ path \in Seq(visited)
    /\ code \in Seq(Instructions)
    /\ PHINodeWork \in Seq(Instructions)
    /\ CurrentFunction = NoFunction => visited = {}
    /\ visited = {} => path = <<>> /\ code = <<>> /\ PHINodeWork = <<>>
    /\ visited # {} => path # <<>>

(* The visited blocks are the upper part of the function's tree, and the   *)
(* children of what has left the path are among them.                      *)
TreeWalked ==
    visited # {} =>
        /\ M.entry[CurrentFunction] \in visited
        /\ visited \subseteq Body(M, CurrentFunction)
        /\ IsClosed(M, visited)
        /\ \A b \in visited \ ToSet(path) : DomTreeChildren(M, b) \subseteq visited

(* The block that is being visited, and how much of it has been. *)
Current  == Last(path)
Position == Len(M.code[Current]) - Len(code)

IsExecuted(i) == i \in Known \cup M.void

NodeRunning == stack # <<>> /\ IsNode(M, stack[1])

(* The instructions before the running one have been executed. *)
CodeExecuted ==
    /\ NodeRunning => visited # {}
    /\ visited # {} =>
          /\ Position \in 0 .. Len(M.code[Current])
          /\ \A j \in 1 .. Len(code) : code[j] = M.code[Current][Position + j]
          /\ \A j \in 1 .. Position :
                IsExecuted(M.code[Current][j]) \/ (NodeRunning /\ stack[1].V = M.code[Current][j])
          /\ \A b \in visited \ {Current} : \A i \in ToSet(M.code[b]) : IsExecuted(i)
          /\ NodeRunning => Position >= 1 /\ stack[1].V = M.code[Current][Position]

IsVisited(i) == \E b \in visited : i \in ToSet(M.code[b])

(* The PHI nodes that wait have been visited, and come after all blocks.   *)
PHINodesWait ==
    /\ \A k \in DOMAIN PHINodeWork : M.opcode[PHINodeWork[k]] = "phi" /\ IsVisited(PHINodeWork[k])
    /\ stack # <<>> /\ stack[1].handler = "phi" =>
          visited # {} /\ code = <<>> /\ Unfinished = {} /\ IsVisited(stack[1].V)

(* What is in the cache of the instructions that can be executed belongs   *)
(* to functions that have been processed, or to what has been executed of  *)
(* the current one.                                                        *)
ExecutedOnly ==
    \A i \in Executable(M) : i \in Known =>
        \/ \E f \in Functions : getParent(M, i) \in Body(M, f) /\ f \notin toAnalyze /\ f # CurrentFunction
        \/ /\ getParent(M, i) \in visited /\ i \notin ToSet(code)
           /\ NodeRunning => i # stack[1].V

(* A value that its handler will cache is in the cache already only if it  *)
(* is a constant in a circle.                                              *)
OnlyCircles ==
    \A k \in DOMAIN stack : Caches(stack[k]) /\ stack[k].V \in Known =>
        stack[k].V \in Constants /\ MentionsItself(M, stack[k].V)

Walking   == WalkTypes /\ TreeWalked /\ CodeExecuted /\ PHINodesWait
Recurring == Framed(M, stack) /\ GlobalsCached /\ RecursionEnds
Analyzing == Recurring /\ Walking /\ ExecutedOnly /\ OnlyCircles

(* Nothing is running and nothing is known at the start. *)
LEMMA AnalyzingInit ==
    ASSUME Init
    PROVE  Analyzing
<1>1. /\ M \in ModulesToRun /\ stack = <<>> /\ toAnalyze = Globals /\ CurrentFunction = NoFunction
      /\ PHINodeWork = <<>> /\ path = <<>> /\ visited = {} /\ code = <<>> /\ ValueInfos = <<>>
  BY DEF Init
<1>2. Known = {} /\ DOMAIN stack = {} /\ DOMAIN PHINodeWork = {}
  BY <1>1 DEF Known
<1>3. <<>> \in Seq(ToSet(<<>>)) /\ <<>> \in Seq({}) /\ <<>> \in Seq(Instructions)
  OBVIOUS
<1>4. Recurring
  BY <1>1, <1>2, <1>3 DEF Recurring, Framed, GlobalsCached, RecursionEnds
<1>5. WalkTypes
  BY <1>1, <1>3 DEF WalkTypes
<1>6. TreeWalked /\ CodeExecuted /\ PHINodesWait
  BY <1>1, <1>2 DEF TreeWalked, CodeExecuted, PHINodesWait, NodeRunning
<1>7. ExecutedOnly /\ OnlyCircles
  BY <1>2 DEF ExecutedOnly, OnlyCircles
<1> QED  BY <1>4, <1>5, <1>6, <1>7 DEF Analyzing, Walking

-----------------------------------------------------------------------------
(* The recursion. *)

(* The frame that asks. *)
LEMMA TopFrame ==
    ASSUME M \in ModulesToRun, Framed(M, stack), stack # <<>>
    PROVE  /\ Len(stack) \in Nat /\ Len(stack) >= 1 /\ DOMAIN stack = 1 .. Len(stack)
           /\ Top = stack[Len(stack)] /\ V = Top.V
           /\ IsFrame(M, Top)
           /\ IF Len(stack) = 1 THEN Outermost(M, Top) ELSE Nested(M, Top)
           /\ Top.todo # <<>> => Head(Top.todo) \in Needs(M, Top)
<1>1. PICK n \in Nat : Len(stack) = n /\ n >= 1 /\ DOMAIN stack = 1 .. n
  BY LenProperties, EmptySeq DEF Framed
<1>2. Top = stack[n]
  BY <1>1 DEF Top, Last
<1>3. IsFrame(M, Top) /\ IF n = 1 THEN Outermost(M, Top) ELSE Nested(M, Top)
  BY <1>1, <1>2 DEF Framed
<1>4. Top.todo \in Seq(Needs(M, Top))
  BY <1>3 DEF IsFrame
<1>5. Top.todo # <<>> => Head(Top.todo) \in Needs(M, Top)
  BY <1>4, HeadTailProperties
<1> QED  BY <1>1, <1>2, <1>3, <1>5 DEF V

(* An instruction has been executed when its handler ends. *)
LEMMA NodeEnds ==
    ASSUME M \in ModulesToRun, NEW fr, IsNode(M, fr), ~Caches(fr)
    PROVE  fr.V \in M.void
<1>1. M.opcode[fr.V] \in Effects => fr.V \in M.void
  BY ModuleType DEF WellFormed, WellTyped, IsNode
<1>2. fr.handler \in Effects \/ fr.V \in M.void
  BY DEF Caches, IsNode, NodeHandlers, Opcodes, Effects
<1> QED  BY <1>1, <1>2 DEF IsNode

LEMMA RecursionSteps ==
    ASSUME M \in ModulesToRun, Recurring, M' = M,
           Answers \/ (\E v \in Values : Learns(v) \/ Begins(v)) \/ Ends
    PROVE  /\ Recurring'
           /\ Known \subseteq Known'
           /\ stack # <<>>
           /\ \/ stack' # <<>> /\ stack'[1].handler = stack[1].handler /\ stack'[1].V = stack[1].V
              \/ stack' = <<>> /\ (IsNode(M, stack[1]) => stack[1].V \in Known' \cup M.void)
<1>1. Framed(M, stack) /\ GlobalsCached /\ RecursionEnds
  BY DEF Recurring
<1>2. ASSUME Answers
      PROVE  /\ Recurring' /\ Known \subseteq Known' /\ stack # <<>> /\ stack' # <<>>
             /\ stack'[1].handler = stack[1].handler /\ stack'[1].V = stack[1].V
  <2>1. PICK vi : stack' = Answered(stack, vi)
    BY <1>2 DEF Answers
  <2>2. stack # <<>> /\ Last(stack).todo # <<>> /\ Known' = Known
    BY <1>2 DEF Answers, Top
  <2>3. /\ Framed(M, stack') /\ stack' # <<>> /\ DOMAIN stack' = DOMAIN stack /\ 1 \in DOMAIN stack
        /\ \A k \in DOMAIN stack : stack'[k].handler = stack[k].handler /\ stack'[k].V = stack[k].V
    BY <1>1, <2>1, <2>2, AnsweredFrames
  <2>4. GlobalsCached'
    BY <1>1, <2>2, <2>3 DEF GlobalsCached, IsGlobalFrame
  <2>5. RecursionEnds'
    BY <1>1, <2>3 DEF RecursionEnds
  <2> QED  BY <2>2, <2>3, <2>4, <2>5 DEF Recurring
<1>3. ASSUME NEW v \in Values, Learns(v)
      PROVE  /\ Recurring' /\ Known \subseteq Known' /\ stack # <<>> /\ stack' # <<>>
             /\ stack'[1].handler = stack[1].handler /\ stack'[1].V = stack[1].V
  <2>1. stack' = stack /\ Known' = Known \cup {v} /\ stack # <<>>
    BY <1>3 DEF Learns, Asks
  <2> QED  BY <1>1, <2>1 DEF Recurring, GlobalsCached, IsGlobalFrame, RecursionEnds
<1>4. ASSUME NEW v \in Values, Begins(v)
      PROVE  /\ Recurring' /\ Known \subseteq Known' /\ stack # <<>> /\ stack' # <<>>
             /\ stack'[1].handler = stack[1].handler /\ stack'[1].V = stack[1].V
  <2>1. PICK fr : /\ IsFrame(M, fr) /\ Nested(M, fr) /\ fr.V = v
                  /\ stack' = Append(stack, fr)
                  /\ Known' = IF fr.handler = "user" THEN Known ELSE Known \cup {v}
    BY <1>4 DEF Begins
  <2>2. stack # <<>> /\ Last(stack).todo # <<>> /\ v = Head(Last(stack).todo) /\ v \notin Known
    BY <1>4 DEF Begins, Asks, Top
  <2>3. /\ Framed(M, stack') /\ stack' # <<>>
        /\ Len(stack) \in Nat /\ DOMAIN stack = 1 .. Len(stack) /\ DOMAIN stack' = 1 .. Len(stack) + 1
        /\ \A k \in 1 .. Len(stack) : stack'[k] = stack[k]
        /\ stack'[Len(stack) + 1] = fr
    BY <1>1, <2>1, <2>2, PushedFrames
  <2>4. Len(stack) >= 1
    BY <1>1, <2>2, TopFrame
  <2>5. GlobalsCached'
    BY <1>1, <2>1, <2>3 DEF GlobalsCached, IsGlobalFrame
  <2>6. ASSUME NEW k \in 1 .. Len(stack), IsGlobalFrame(stack[k])
        PROVE  stack[k].V # v
    BY <1>1, <2>2, <2>3, <2>6 DEF GlobalsCached
  <2>7. RecursionEnds'
    BY <1>1, <2>1, <2>3, <2>6 DEF RecursionEnds, IsGlobalFrame
  <2>8. stack'[1] = stack[1] /\ Known \subseteq Known'
    BY <2>1, <2>3, <2>4
  <2> QED  BY <2>2, <2>3, <2>5, <2>7, <2>8 DEF Recurring
<1>5. CASE Ends
  <2>1. stack # <<>> /\ stack' = Front(stack) /\ Known' = Known \cup IF Caches(Top) THEN {V} ELSE {}
    BY <1>5 DEF Ends
  <2>2. /\ Framed(M, stack')
        /\ Len(stack) \in Nat /\ DOMAIN stack = 1 .. Len(stack) /\ Len(stack) >= 1
        /\ DOMAIN stack' = 1 .. Len(stack) - 1
        /\ \A k \in 1 .. Len(stack) - 1 : stack'[k] = stack[k]
        /\ stack' = <<>> <=> Len(stack) = 1
    BY <1>1, <2>1, FrontFrames
  <2>3. Known \subseteq Known'
    BY <2>1
  <2>4. GlobalsCached'
    BY <1>1, <2>2, <2>3 DEF GlobalsCached, IsGlobalFrame
  <2>5. RecursionEnds'
    BY <1>1, <2>2 DEF RecursionEnds
  <2>6. CASE Len(stack) = 1
    <3>1. Top = stack[1] /\ V = stack[1].V
      BY <1>1, <2>1, <2>6, TopFrame
    <3>2. IsNode(M, stack[1]) => stack[1].V \in Known' \cup M.void
      BY <2>1, <3>1, NodeEnds
    <3> QED  BY <2>1, <2>2, <2>3, <2>4, <2>5, <2>6, <3>2 DEF Recurring
  <2>7. CASE Len(stack) # 1
    BY <2>1, <2>2, <2>3, <2>4, <2>5, <2>7 DEF Recurring
  <2> QED  BY <2>6, <2>7
<1> QED  BY <1>2, <1>3, <1>4, <1>5

(* While values are analyzed the walk waits.                               *)
LEMMA WalkWaits ==
    ASSUME M \in ModulesToRun, Recurring, Walking, M' = M, walk' = walk,
           Answers \/ (\E v \in Values : Learns(v) \/ Begins(v)) \/ Ends
    PROVE  Walking'
<1>1. /\ Known \subseteq Known'
      /\ stack # <<>>
      /\ \/ stack' # <<>> /\ stack'[1].handler = stack[1].handler /\ stack'[1].V = stack[1].V
         \/ stack' = <<>> /\ (IsNode(M, stack[1]) => stack[1].V \in Known' \cup M.void)
  BY RecursionSteps
<1>2. /\ toAnalyze' = toAnalyze /\ CurrentFunction' = CurrentFunction /\ PHINodeWork' = PHINodeWork
      /\ path' = path /\ visited' = visited /\ code' = code
  BY DEF walk
<1>3. WalkTypes /\ TreeWalked /\ CodeExecuted /\ PHINodesWait
  BY DEF Walking
<1>4. WalkTypes' /\ TreeWalked'
  BY <1>2, <1>3 DEF WalkTypes, TreeWalked
<1>5. Current' = Current /\ Position' = Position
  BY <1>2 DEF Current, Position
<1>6. NodeRunning' => NodeRunning /\ stack'[1].V = stack[1].V
  BY <1>1 DEF NodeRunning, IsNode
<1>7. NodeRunning => stack[1].V \in Known' \cup M.void \/ (NodeRunning' /\ stack'[1].V = stack[1].V)
  BY <1>1 DEF NodeRunning, IsNode
<1>8. ASSUME visited # {}
      PROVE  /\ Position \in 0 .. Len(M.code[Current])
             /\ \A j \in 1 .. Len(code) : code[j] = M.code[Current][Position + j]
             /\ \A j \in 1 .. Position :
                   \/ M.code[Current][j] \in Known' \cup M.void
                   \/ NodeRunning' /\ stack'[1].V = M.code[Current][j]
             /\ \A b \in visited \ {Current} : \A i \in ToSet(M.code[b]) : i \in Known' \cup M.void
             /\ NodeRunning' => Position >= 1 /\ stack'[1].V = M.code[Current][Position]
  <2>1. /\ Position \in 0 .. Len(M.code[Current])
        /\ \A j \in 1 .. Len(code) : code[j] = M.code[Current][Position + j]
        /\ \A j \in 1 .. Position :
              M.code[Current][j] \in Known \cup M.void \/ (NodeRunning /\ stack[1].V = M.code[Current][j])
        /\ \A b \in visited \ {Current} : \A i \in ToSet(M.code[b]) : i \in Known \cup M.void
        /\ NodeRunning => Position >= 1 /\ stack[1].V = M.code[Current][Position]
    BY <1>3, <1>8 DEF CodeExecuted, IsExecuted
  <2> QED  BY <1>1, <1>6, <1>7, <2>1
<1>9. CodeExecuted'
  BY <1>2, <1>3, <1>5, <1>6, <1>8 DEF CodeExecuted, IsExecuted
<1>10. PHINodesWait'
  BY <1>1, <1>2, <1>3 DEF PHINodesWait, IsVisited, Unfinished
<1> QED  BY <1>4, <1>9, <1>10 DEF Walking

(* When all children have been visited, the whole function has been.       *)
LEMMA AllVisited ==
    ASSUME Walking, visited # {}, Unfinished = {}
    PROVE  Body(M, CurrentFunction) \subseteq visited
<1>1. M \in ModulesToRun /\ visited \in SUBSET BasicBlocks /\ CurrentFunction \in Functions
  BY DEF Walking, WalkTypes
<1>2. ASSUME NEW b \in visited
      PROVE  DomTreeChildren(M, b) \subseteq visited
  <2>1. CASE b \in ToSet(path)
    BY <2>1 DEF ToSet, Unfinished
  <2>2. CASE b \notin ToSet(path)
    BY <2>2 DEF Walking, TreeWalked
  <2> QED  BY <2>1, <2>2
<1>3. M.entry[CurrentFunction] \in visited
  BY DEF Walking, TreeWalked
<1> QED  BY <1>1, <1>2, <1>3, BodyInside

(* The current block is visited, and so is what runs. *)
LEMMA CurrentIsVisited ==
    ASSUME Walking, visited # {}
    PROVE  /\ Current \in visited /\ Current \in BasicBlocks
           /\ Len(path) \in Nat /\ Len(path) >= 1 /\ DOMAIN path = 1 .. Len(path)
           /\ M \in ModulesToRun /\ CurrentFunction \in Functions
           /\ Len(M.code[Current]) \in Nat /\ DOMAIN M.code[Current] = 1 .. Len(M.code[Current])
           /\ Len(code) \in Nat /\ DOMAIN code = 1 .. Len(code)
           /\ NodeRunning => stack[1].V \in ToSet(M.code[Current]) \ ToSet(code)
<1>1. WalkTypes /\ CodeExecuted
  BY DEF Walking
<1>2. PICK n \in Nat : Len(path) = n /\ DOMAIN path = 1 .. n /\ (path = <<>> <=> n = 0)
  BY <1>1, LenProperties, EmptySeq DEF WalkTypes
<1>3. n >= 1 /\ path \in Seq(visited)
  BY <1>1, <1>2 DEF WalkTypes
<1>4. Current \in visited
  BY <1>2, <1>3, ElementOfSeq DEF Current, Last
<1>5. Current \in BasicBlocks /\ M \in ModulesToRun /\ CurrentFunction \in Functions
  BY <1>1, <1>4 DEF WalkTypes
<1>6. PICK l \in Nat : Len(M.code[Current]) = l /\ DOMAIN M.code[Current] = 1 .. l
  <2>1. M.code[Current] \in Seq(Instructions)
    BY <1>5, ModuleType
  <2> QED  BY <2>1, LenProperties
<1>7. PICK r \in Nat : Len(code) = r /\ DOMAIN code = 1 .. r
  BY <1>1, LenProperties DEF WalkTypes
<1>8. ASSUME NodeRunning
      PROVE  stack[1].V \in ToSet(M.code[Current]) \ ToSet(code)
  <2>1. PICK q \in Nat : q = Position /\ q = l - r /\ q >= 1 /\ q <= l /\ stack[1].V = M.code[Current][q]
    BY <1>1, <1>6, <1>7, <1>8 DEF CodeExecuted, Position
  <2>2. stack[1].V \in ToSet(M.code[Current])
    BY <1>6, <2>1 DEF ToSet
  <2>3. ASSUME NEW j \in 1 .. r, code[j] = M.code[Current][q]
        PROVE  FALSE
    <3>1. code[j] = M.code[Current][q + j]
      BY <1>1, <1>7, <2>1 DEF CodeExecuted
    <3>2. q + j \in 1 .. l /\ q \in 1 .. l /\ q + j # q
      BY <2>1
    <3>3. M.code[Current][q + j] = M.code[Current][q]
      BY <2>3, <3>1
    <3> QED  BY <1>5, <1>6, <3>2, <3>3, PlacedOnce
  <2> QED  BY <1>7, <2>1, <2>2, <2>3 DEF ToSet
<1> QED  BY <1>2, <1>3, <1>4, <1>5, <1>6, <1>7, <1>8

(* What has been visited has been executed, up to the position.            *)
LEMMA VisitedIsExecuted ==
    ASSUME Walking, NEW b \in visited, NEW i \in ToSet(M.code[b]), i \notin ToSet(code),
           NodeRunning => i # stack[1].V
    PROVE  IsExecuted(i)
<1>1. /\ Current \in BasicBlocks /\ DOMAIN M.code[Current] = 1 .. Len(M.code[Current])
      /\ Len(code) \in Nat /\ DOMAIN code = 1 .. Len(code) /\ Len(M.code[Current]) \in Nat
  BY CurrentIsVisited
<1>2. CodeExecuted
  BY DEF Walking
<1>3. CASE b # Current
  BY <1>2, <1>3 DEF CodeExecuted
<1>4. CASE b = Current
  <2>1. PICK j \in 1 .. Len(M.code[Current]) : i = M.code[Current][j]
    BY <1>1, <1>4 DEF ToSet
  <2>2. PICK l \in Nat, r \in Nat : l = Len(M.code[Current]) /\ r = Len(code) /\ Position = l - r
    BY <1>1 DEF Position
  <2>3. CASE j <= Position
    BY <1>2, <2>1, <2>2, <2>3 DEF CodeExecuted
  <2>4. CASE j > Position
    <3>1. PICK q \in 0 .. l : q = Position
      BY <1>2, <2>2 DEF CodeExecuted
    <3>2. j - q \in 1 .. r /\ q + (j - q) = j
      <4>1. j \in 1 .. l /\ q = l - r /\ j > q
        BY <2>1, <2>2, <2>4, <3>1
      <4> HIDE <2>1
      <4> QED  BY <4>1
    <3>3. code[j - q] = M.code[Current][q + (j - q)]
      BY <1>2, <2>2, <3>1, <3>2 DEF CodeExecuted
    <3> QED  BY <1>1, <2>1, <2>2, <3>2, <3>3 DEF ToSet
  <2> QED  BY <2>1, <2>2, <2>3, <2>4
<1> QED  BY <1>3, <1>4

(* Only instructions ask for instructions, and they do so when these have  *)
(* been executed.                                                          *)
LEMMA OperandsAreExecuted ==
    ASSUME Recurring, Walking
    PROVE  UsedAfterExecuted
<1>1. SUFFICES ASSUME NEW d \in Instructions, Asks(d), d \notin Known, d \in Executable(M)
               PROVE  FALSE
  BY DEF UsedAfterExecuted, Known
<1> DEFINE i == Top.V
<1>2. M \in ModulesToRun /\ Framed(M, stack)
  BY DEF Recurring, Walking, WalkTypes
<1>3. /\ Top = stack[Len(stack)] /\ Len(stack) \in Nat /\ stack # <<>>
      /\ IF Len(stack) = 1 THEN Outermost(M, Top) ELSE Nested(M, Top)
      /\ d \in Needs(M, Top)
  BY <1>1, <1>2, TopFrame DEF Asks
<1>4. Len(stack) = 1 /\ Top = stack[1] /\ Outermost(M, Top)
  BY <1>2, <1>3, NestedNeeds
<1>5. /\ d \in ToSet(M.operands[i]) /\ i \in Instructions /\ Top.handler = M.opcode[i]
      /\ Top.handler = "phi" \/ IsNode(M, Top)
  BY <1>2, <1>3, <1>4, OutermostNeeds
<1>6. d \notin M.void
  BY <1>2, <1>5, UserKinds, ModuleType DEF WellFormed, WellTyped
<1>7. ~IsExecuted(d)
  BY <1>1, <1>6 DEF IsExecuted
<1>8. getParent(M, d) \in BasicBlocks /\ d \in ToSet(M.code[getParent(M, d)])
  BY <1>1, <1>2, ExecutableParent
<1>9. CASE Top.handler = "phi"
  <2>1. visited # {} /\ code = <<>> /\ Unfinished = {} /\ IsVisited(i)
    BY <1>3, <1>4, <1>9 DEF Walking, PHINodesWait
  <2>2. PICK b \in visited : i \in ToSet(M.code[b])
    BY <2>1 DEF IsVisited
  <2>3. CurrentFunction \in Functions /\ visited \subseteq Body(M, CurrentFunction)
    BY <2>1, CurrentIsVisited DEF Walking, TreeWalked
  <2>4. getParent(M, d) \in Body(M, CurrentFunction)
    BY <1>1, <1>2, <1>5, <2>2, <2>3, ModuleType DEF WellFormed, DefinedBeforeUse
  <2>5. getParent(M, d) \in visited
    BY <2>1, <2>4, AllVisited
  <2>6. ToSet(code) = {}
    BY <2>1 DEF ToSet
  <2>7. ~NodeRunning
    BY <1>4, <1>9, HandlerNames DEF NodeRunning, IsNode
  <2> QED  BY <1>7, <1>8, <2>5, <2>6, <2>7, VisitedIsExecuted
<1>10. CASE IsNode(M, Top)
  <2>1. NodeRunning /\ visited # {}
    BY <1>3, <1>4, <1>10 DEF NodeRunning, Walking, CodeExecuted
  <2>2. i \in ToSet(M.code[Current]) \ ToSet(code) /\ Current \in visited /\ Current \in BasicBlocks /\ CurrentFunction \in Functions
    BY <1>4, <2>1, CurrentIsVisited
  <2>3. getParent(M, i) = Current
    BY <1>2, <2>2, ParentIs
  <2>4. i \in Executable(M)
    <3>1. Current \in Body(M, CurrentFunction)
      BY <2>2 DEF Walking, TreeWalked
    <3> QED  BY <1>2, <2>2, <3>1, BodyIsReachable
  <2>5. M.opcode[i] # "phi"
    BY <1>5, <1>10, HandlerNames DEF IsNode
  <2>6. DominatesUse(M, d, i)
    BY <1>1, <1>2, <1>5, <2>4, <2>5, ModuleType DEF WellFormed, DefinedBeforeUse
  <2>7. CASE StrictlyDominates(M, getParent(M, d), Current)
    <3>1. getParent(M, d) \in visited /\ getParent(M, d) # Current
      <4>1. IsClosed(M, visited) /\ visited \in SUBSET BasicBlocks
        BY <2>1 DEF Walking, TreeWalked, WalkTypes
      <4> QED  BY <2>2, <2>7, <4>1 DEF StrictlyDominates, IsClosed
    <3> QED  BY <1>7, <1>8, <2>1, <3>1 DEF Walking, CodeExecuted
  <2>8. CASE \E j, k \in DOMAIN M.code[Current] : j < k /\ M.code[Current][j] = d /\ M.code[Current][k] = i
    <3>1. PICK j \in DOMAIN M.code[Current], k \in DOMAIN M.code[Current] :
             j < k /\ M.code[Current][j] = d /\ M.code[Current][k] = i
      BY <2>8
    <3>2. PICK l \in Nat : l = Len(M.code[Current]) /\ DOMAIN M.code[Current] = 1 .. l
      BY <2>1, CurrentIsVisited
    <3>3. Position \in 1 .. l /\ i = M.code[Current][Position]
      BY <1>4, <2>1, <3>2 DEF Walking, CodeExecuted
    <3>4. k = Position
      BY <1>2, <2>2, <3>1, <3>2, <3>3, PlacedOnce
    <3>5. j \in 1 .. Position /\ j # k
      BY <3>1, <3>2, <3>3, <3>4
    <3>6. IsExecuted(d) \/ i = d
      BY <1>4, <2>1, <3>1, <3>5 DEF Walking, CodeExecuted
    <3>7. i # d
      BY <1>2, <2>2, <3>1, <3>5, PlacedOnce
    <3> QED  BY <1>7, <3>6, <3>7
  <2> QED  BY <2>3, <2>6, <2>7, <2>8 DEF DominatesUse
<1> QED  BY <1>5, <1>9, <1>10

-----------------------------------------------------------------------------
(* Circles. *)

LEMMA ExecutableKind ==
    ASSUME NEW m \in ModulesToRun, NEW i \in Executable(m)
    PROVE  i \in Instructions
<1>1. getParent(m, i) \in BasicBlocks /\ i \in ToSet(m.code[getParent(m, i)])
  BY ExecutableParent
<1> QED  BY <1>1, ModuleType, ToSetInside

(* All that is asked for above a frame is in every set that has what the   *)
(* frame needs and what its members mention.                               *)
LEMMA AskedAbove ==
    ASSUME NEW m \in ModulesToRun, NEW s, Framed(m, s), NEW k \in DOMAIN s,
           NEW S, Needs(m, s[k]) \subseteq S, \A w \in S : Mentions(m, w) \subseteq S,
           NEW j \in DOMAIN s, j > k
    PROVE  s[j].V \in S
<1>1. DOMAIN s \subseteq Nat /\ \A a, b \in DOMAIN s : a < b => b - 1 \in DOMAIN s /\ b > 1 /\ b - 1 >= a
  <2>1. PICK n \in Nat : DOMAIN s = 1 .. n
    BY LenProperties DEF Framed
  <2> QED  BY <2>1
<1> DEFINE T == {a \in DOMAIN s : a > k /\ s[a].V \notin S}
<1>2. SUFFICES ASSUME T # {}
               PROVE  FALSE
  OBVIOUS
<1>3. T \subseteq Nat
  BY <1>1
<1>4. PICK a \in T : \A b \in T : a <= b
  <2> HIDE DEF T
  <2> QED  BY <1>2, <1>3, LeastNat
<1>5. a - 1 \in DOMAIN s /\ a > 1 /\ a - 1 >= k /\ a \in Nat /\ a \in DOMAIN s /\ a - 1 \notin T
  BY <1>1, <1>3, <1>4
<1>6. s[a].V = Head(s[a - 1].todo) /\ s[a - 1].todo # <<>> /\ IsFrame(m, s[a - 1])
  BY <1>5 DEF Framed
<1>7. s[a].V \in Needs(m, s[a - 1])
  BY <1>6, HeadTailProperties DEF IsFrame
<1>8. CASE a - 1 = k
  BY <1>4, <1>7, <1>8
<1>9. CASE a - 1 # k
  <2>1. a - 1 > k /\ a - 1 # 1
    BY <1>1, <1>5, <1>9
  <2>2. s[a - 1].V \in S
    BY <1>5, <2>1
  <2>3. Needs(m, s[a - 1]) = Mentions(m, s[a - 1].V)
    BY <1>5, <2>1, NestedNeeds DEF Framed
  <2> QED  BY <1>4, <1>7, <2>2, <2>3
<1> QED  BY <1>8, <1>9

(* The frames whose values will be cached. *)
CachingHandlers == {"user", "load", "va_arg", "cmpxchg", "atomicrmw", "call"}

LEMMA CachingFrames ==
    ASSUME NEW m \in ModulesToRun, NEW s, Framed(m, s), NEW k \in DOMAIN s, s[k].handler \in CachingHandlers
    PROVE  \/ s[k].V \in Constants /\ Nested(m, s[k])
           \/ k = 1 /\ IsNode(m, s[k]) /\ s[k].V \in Instructions
<1>1. CASE k = 1
  <2>1. Outermost(m, s[k])
    BY <1>1 DEF Framed
  <2> QED  BY <1>1, <2>1 DEF Outermost, IsNode, CachingHandlers
<1>2. CASE k # 1
  <2>1. Nested(m, s[k])
    BY <1>2 DEF Framed
  <2> QED  BY <2>1 DEF Nested, CachingHandlers
<1> QED  BY <1>1, <1>2

(* A constant for which two handlers run mentions itself. *)
LEMMA CircleCloses ==
    ASSUME NEW m \in ModulesToRun, NEW s, Framed(m, s), NEW k \in DOMAIN s, NEW j \in DOMAIN s, j > k,
           s[k].V = s[j].V, s[k].V \in Constants, Nested(m, s[k])
    PROVE  MentionsItself(m, s[k].V)
<1>1. Needs(m, s[k]) = Mentions(m, s[k].V)
  BY NestedNeeds
<1>2. ASSUME NEW S \in SUBSET Values, Mentions(m, s[k].V) \subseteq S, \A w \in S : Mentions(m, w) \subseteq S
      PROVE  s[k].V \in S
  <2>1. Needs(m, s[k]) \subseteq S
    BY <1>1, <1>2
  <2> QED  BY <1>2, <2>1, AskedAbove
<1> QED  BY <1>2 DEF MentionsItself

LEMMA CachesHandlers ==
    ASSUME NEW fr, Caches(fr)
    PROVE  fr.handler \in CachingHandlers
BY DEF Caches, CachingHandlers

(* The running instruction can be executed. *)
LEMMA RunningIsExecutable ==
    ASSUME Walking, NodeRunning
    PROVE  /\ stack[1].V \in Executable(M) /\ stack[1].V \in Instructions
           /\ getParent(M, stack[1].V) \in visited
           /\ stack[1].V \notin ToSet(code)
<1>1. visited # {}
  BY DEF Walking, CodeExecuted
<1>2. /\ stack[1].V \in ToSet(M.code[Current]) \ ToSet(code) /\ Current \in visited /\ Current \in BasicBlocks
      /\ M \in ModulesToRun /\ CurrentFunction \in Functions
  BY <1>1, CurrentIsVisited
<1>3. Current \in Body(M, CurrentFunction)
  BY <1>1, <1>2 DEF Walking, TreeWalked
<1> QED  BY <1>2, <1>3, BodyIsReachable, ParentIs, ExecutableKind

(* While values are analyzed nothing that can be executed is cached but    *)
(* the result of the running instruction, when it ends.                    *)
LEMMA ExecutedOnlyKept ==
    ASSUME M \in ModulesToRun, Recurring, Walking, ExecutedOnly, M' = M, walk' = walk,
           Answers \/ (\E v \in Values : Learns(v) \/ Begins(v)) \/ Ends
    PROVE  ExecutedOnly'
<1>1. SUFFICES ASSUME NEW i \in Executable(M), i \in Known'
               PROVE  \/ \E f \in Functions : getParent(M, i) \in Body(M, f) /\ f \notin toAnalyze /\ f # CurrentFunction
                      \/ /\ getParent(M, i) \in visited /\ i \notin ToSet(code)
                         /\ NodeRunning' => i # stack'[1].V
  <2>1. /\ toAnalyze' = toAnalyze /\ CurrentFunction' = CurrentFunction /\ visited' = visited /\ code' = code
    BY DEF walk
  <2> QED  BY <2>1 DEF ExecutedOnly
<1>2. NodeRunning' => NodeRunning /\ stack'[1].V = stack[1].V
  BY RecursionSteps DEF NodeRunning, IsNode
<1>3. CASE i \in Known
  BY <1>2, <1>3 DEF ExecutedOnly
<1>4. CASE i \notin Known
  <2>1. i \in Instructions
    BY ExecutableKind
  <2>2. ~Answers
    BY <1>1, <1>4 DEF Answers
  <2>3. ASSUME NEW v \in Values, Learns(v)
        PROVE  FALSE
    <3>1. Asks(i)
      BY <1>1, <1>4, <2>3 DEF Learns
    <3> QED  BY <1>4, <2>1, <3>1, OperandsAreExecuted DEF UsedAfterExecuted, Known
  <2>4. ASSUME NEW v \in Values, Begins(v)
        PROVE  FALSE
    <3>1. PICK fr : Nested(M, fr) /\ fr.V = v /\ Known' \subseteq Known \cup {v}
      BY <2>4 DEF Begins
    <3>2. v \notin Instructions
      BY <3>1, NestedNeeds
    <3> QED  BY <1>1, <1>4, <2>1, <3>1, <3>2
  <2>5. CASE Ends
    <3>1. stack # <<>> /\ stack' = Front(stack) /\ Caches(Top) /\ i = V
      BY <1>1, <1>4, <2>5 DEF Ends
    <3>2. /\ Framed(M, stack) /\ Len(stack) \in DOMAIN stack /\ Top = stack[Len(stack)] /\ V = Top.V
      BY <3>1, TopFrame DEF Recurring
    <3>3. Len(stack) = 1 /\ IsNode(M, stack[1]) /\ i = stack[1].V
      <4>1. Top.handler \in CachingHandlers
        BY <3>1, CachesHandlers
      <4> QED  BY <2>1, <3>1, <3>2, <4>1, CachingFrames, UserKinds
    <3>4. stack' = <<>>
      BY <3>1, <3>2, <3>3, FrontFrames
    <3>5. getParent(M, i) \in visited /\ i \notin ToSet(code)
      BY <3>1, <3>3, RunningIsExecutable DEF NodeRunning
    <3> QED  BY <3>4, <3>5 DEF NodeRunning
  <2> QED  BY <2>2, <2>3, <2>4, <2>5
<1> QED  BY <1>3, <1>4

LEMMA OnlyCirclesKept ==
    ASSUME M \in ModulesToRun, Recurring, Walking, OnlyCircles, M' = M, walk' = walk,
           Answers \/ (\E v \in Values : Learns(v) \/ Begins(v)) \/ Ends
    PROVE  OnlyCircles'
<1>1. Framed(M, stack)
  BY DEF Recurring
<1>2. ASSUME Answers
      PROVE  OnlyCircles'
  <2>1. PICK vi : stack' = Answered(stack, vi)
    BY <1>2 DEF Answers
  <2>2. stack # <<>> /\ Last(stack).todo # <<>> /\ Known' = Known
    BY <1>2 DEF Answers, Top
  <2>3. /\ DOMAIN stack' = DOMAIN stack
        /\ \A k \in DOMAIN stack : stack'[k].handler = stack[k].handler /\ stack'[k].V = stack[k].V
    BY <1>1, <2>1, <2>2, AnsweredFrames
  <2> QED  BY <2>2, <2>3 DEF OnlyCircles, Caches
<1>3. ASSUME NEW v \in Values, Learns(v)
      PROVE  OnlyCircles'
  <2>1. /\ stack' = stack /\ Known' = Known \cup {v} /\ Asks(v) /\ v \notin Known
        /\ v \in M.declarations \cup Arguments \cup Instructions \cup OtherValues
    BY <1>3 DEF Learns
  <2>2. ASSUME NEW k \in DOMAIN stack, Caches(stack[k]), stack[k].V = v
        PROVE  FALSE
    <3>1. stack[k].V \in Constants \/ (k = 1 /\ IsNode(M, stack[1]) /\ v \in Instructions)
      BY <1>1, <2>2, CachesHandlers, CachingFrames
    <3>2. M.declarations \subseteq Globals
      BY ModuleType, UserKinds
    <3>3. k = 1 /\ IsNode(M, stack[1]) /\ v \in Instructions
      BY <2>1, <2>2, <3>1, <3>2, KindsAssumption
    <3>4. v \in Executable(M)
      BY <2>1, <2>2, <3>3, RunningIsExecutable DEF NodeRunning, Asks
    <3> QED  BY <2>1, <3>3, <3>4, OperandsAreExecuted DEF UsedAfterExecuted, Known
  <2> QED  BY <2>1, <2>2 DEF OnlyCircles, Caches
<1>4. ASSUME NEW v \in Values, Begins(v)
      PROVE  OnlyCircles'
  <2>1. PICK fr : /\ IsFrame(M, fr) /\ Nested(M, fr) /\ fr.V = v
                  /\ stack' = Append(stack, fr)
                  /\ Known' = IF fr.handler = "user" THEN Known ELSE Known \cup {v}
    BY <1>4 DEF Begins
  <2>2. stack # <<>> /\ Last(stack).todo # <<>> /\ v = Head(Last(stack).todo) /\ v \notin Known
    BY <1>4 DEF Begins, Asks, Top
  <2>3. /\ Len(stack) \in Nat /\ DOMAIN stack = 1 .. Len(stack) /\ DOMAIN stack' = 1 .. Len(stack) + 1
        /\ \A k \in 1 .. Len(stack) : stack'[k] = stack[k]
        /\ stack'[Len(stack) + 1] = fr
    BY <1>1, <2>1, <2>2, PushedFrames
  <2>4. fr.handler # "user" => v \in Globals /\ fr.handler \in {"region", "alias"}
    BY <2>1, UserKinds DEF Nested, DefinedRegions
  <2>5. ASSUME NEW k \in 1 .. Len(stack), Caches(stack[k]), stack[k].V \in Known'
        PROVE  stack[k].V \in Constants /\ MentionsItself(M, stack[k].V)
    <3>1. stack[k].V \in Constants \cup Instructions
      BY <1>1, <2>3, <2>5, CachesHandlers, CachingFrames
    <3>2. stack[k].V \in Known
      BY <2>1, <2>4, <2>5, <3>1, UserKinds
    <3> QED  BY <2>3, <2>5, <3>2 DEF OnlyCircles
  <2>6. Caches(fr) => fr.V \notin Known'
    BY <2>1, <2>2, <2>4 DEF Caches
  <2> QED  BY <2>3, <2>5, <2>6 DEF OnlyCircles, Caches
<1>5. CASE Ends
  <2>1. stack # <<>> /\ stack' = Front(stack) /\ Known' = Known \cup IF Caches(Top) THEN {V} ELSE {}
    BY <1>5 DEF Ends
  <2>2. PICK n \in Nat : /\ n = Len(stack) /\ n >= 1 /\ DOMAIN stack = 1 .. n
                         /\ DOMAIN stack' = 1 .. n - 1
                         /\ \A k \in 1 .. n - 1 : stack'[k] = stack[k]
                         /\ Top = stack[n] /\ V = stack[n].V
    BY <1>1, <2>1, FrontFrames, TopFrame
  <2>3. ASSUME NEW k \in 1 .. n - 1, Caches(stack[k]), stack[k].V \in Known'
        PROVE  stack[k].V \in Constants /\ MentionsItself(M, stack[k].V)
    <3>1. CASE stack[k].V \in Known
      BY <2>2, <2>3, <3>1 DEF OnlyCircles
    <3>2. CASE stack[k].V \notin Known
      <4>1. Caches(Top) /\ stack[k].V = stack[n].V /\ k \in DOMAIN stack /\ n \in DOMAIN stack /\ n > k /\ n # 1
        BY <2>1, <2>2, <2>3, <3>2
      <4>2. stack[n].V \in Constants
        BY <1>1, <2>2, <4>1, CachesHandlers, CachingFrames
      <4>3. Nested(M, stack[k])
        BY <1>1, <2>3, <4>1, <4>2, CachesHandlers, CachingFrames, UserKinds
      <4> QED  BY <1>1, <4>1, <4>2, <4>3, CircleCloses
    <3> QED  BY <3>1, <3>2
  <2> QED  BY <2>2, <2>3 DEF OnlyCircles, Caches
<1> QED  BY <1>2, <1>3, <1>4, <1>5

-----------------------------------------------------------------------------
(* The walk. *)

LEMMA BeginsOnIdle ==
    ASSUME M \in ModulesToRun, Recurring, M' = M, Len(stack) = 0,
           NEW fr, IsFrame(M, fr), Outermost(M, fr), stack' = Append(stack, fr), Known' = Known,
           ~(Caches(fr) /\ fr.V \in Known)
    PROVE  /\ Recurring' /\ OnlyCircles'
           /\ stack' # <<>> /\ stack'[1] = fr
<1>1. Framed(M, stack)
  BY DEF Recurring
<1>2. Framed(M, stack') /\ DOMAIN stack' = 1 .. 1 /\ stack' # <<>> /\ stack'[1] = fr
  <2>1. Framed(M, Append(stack, fr))
    BY <1>1, PushedFrames
  <2>2. DOMAIN Append(stack, fr) = 1 .. Len(stack) + 1
    BY <1>1, PushedFrames
  <2>3. Append(stack, fr) # <<>>
    BY <1>1, PushedFrames
  <2>4. Append(stack, fr)[Len(stack) + 1] = fr
    BY <1>1, PushedFrames
  <2> QED  BY <2>1, <2>2, <2>3, <2>4
<1>3. fr.handler \notin {"region", "alias"}
  BY HandlerNames DEF Outermost, IsNode
<1>4. GlobalsCached' /\ RecursionEnds'
  BY <1>2, <1>3 DEF GlobalsCached, IsGlobalFrame, RecursionEnds
<1>5. OnlyCircles'
  BY <1>2 DEF OnlyCircles, Caches
<1> QED  BY <1>2, <1>4, <1>5 DEF Recurring

LEMMA StaysIdle ==
    ASSUME Recurring, M' = M, stack = <<>>, stack' = <<>>
    PROVE  Recurring' /\ OnlyCircles'
<1>1. DOMAIN stack' = {}
  OBVIOUS
<1> QED  BY <1>1 DEF Recurring, GlobalsCached, RecursionEnds, OnlyCircles

(* The next instruction. *)
LEMMA NextInstruction ==
    ASSUME Walking, code # <<>>
    PROVE  /\ visited # {} /\ Position + 1 \in 1 .. Len(M.code[Current])
           /\ Head(code) \in Instructions /\ Head(code) \in ToSet(code)
           /\ Head(code) = M.code[Current][Position + 1] /\ Head(code) \in ToSet(M.code[Current])
           /\ getParent(M, Head(code)) = Current
           /\ Head(code) \in Executable(M)
           /\ Tail(code) \in Seq(Instructions) /\ Len(Tail(code)) = Len(code) - 1
           /\ \A j \in 1 .. Len(code) - 1 : Tail(code)[j] = M.code[Current][(Position + 1) + j]
           /\ ToSet(Tail(code)) \subseteq ToSet(code) \ {Head(code)}
<1>1. visited # {} /\ code \in Seq(Instructions)
  BY DEF Walking, WalkTypes
<1>2. /\ Current \in visited /\ Current \in BasicBlocks /\ M \in ModulesToRun /\ CurrentFunction \in Functions
      /\ DOMAIN M.code[Current] = 1 .. Len(M.code[Current])
  BY <1>1, CurrentIsVisited
<1>3. PICK r \in Nat, l \in Nat : Len(code) = r /\ DOMAIN code = 1 .. r /\ r >= 1 /\ Len(M.code[Current]) = l
  BY <1>1, EmptySeq, CurrentIsVisited
<1>4. PICK q \in 0 .. l : q = Position /\ q = l - r /\ \A j \in 1 .. r : code[j] = M.code[Current][q + j]
  BY <1>1, <1>3 DEF Walking, CodeExecuted, Position
<1>5. Head(code) = code[1] /\ Head(code) \in ToSet(code)
  BY <1>1, <1>3 DEF ToSet
<1>6. q + 1 \in 1 .. l /\ Head(code) = M.code[Current][q + 1]
  BY <1>3, <1>4, <1>5
<1>7. Head(code) \in ToSet(M.code[Current])
  BY <1>2, <1>3, <1>6 DEF ToSet
<1>8. /\ Tail(code) \in Seq(Instructions) /\ Len(Tail(code)) = r - 1 /\ Head(code) \in Instructions
      /\ \A j \in 1 .. r - 1 : Tail(code)[j] = code[j + 1]
  BY <1>1, <1>3, HeadTailProperties
<1>9. ASSUME NEW j \in 1 .. r - 1
      PROVE  Tail(code)[j] = M.code[Current][(q + 1) + j] /\ Tail(code)[j] \in ToSet(code) \ {Head(code)}
  <2>1. Tail(code)[j] = code[j + 1] /\ j + 1 \in 1 .. r
    BY <1>8
  <2>2. code[j + 1] = M.code[Current][q + (j + 1)] /\ q + (j + 1) = (q + 1) + j
    BY <1>4, <2>1
  <2>3. (q + 1) + j \in 1 .. l /\ (q + 1) + j # q + 1
    BY <1>4
  <2>4. M.code[Current][(q + 1) + j] # M.code[Current][q + 1]
    BY <1>2, <1>3, <1>6, <2>3, PlacedOnce
  <2> QED  BY <1>3, <1>6, <2>1, <2>2, <2>4 DEF ToSet
<1>10. ToSet(Tail(code)) \subseteq ToSet(code) \ {Head(code)}
  <2>1. DOMAIN Tail(code) = 1 .. r - 1
    BY <1>8, LenProperties
  <2> QED  BY <1>9, <2>1 DEF ToSet
<1>11. getParent(M, Head(code)) = Current /\ Head(code) \in Executable(M)
  <2>1. Current \in Body(M, CurrentFunction)
    BY <1>1, <1>2 DEF Walking, TreeWalked
  <2> QED  BY <1>2, <1>7, <2>1, ParentIs, BodyIsReachable
<1> QED  BY <1>1, <1>3, <1>4, <1>5, <1>6, <1>7, <1>8, <1>9, <1>10, <1>11

LEMMA CodeGoesOn ==
    ASSUME Walking, stack = <<>>, code # <<>>, M' = M, code' = Tail(code),
           toAnalyze' = toAnalyze, CurrentFunction' = CurrentFunction, path' = path, visited' = visited,
           \/ PHINodeWork' = PHINodeWork
           \/ PHINodeWork' = Append(PHINodeWork, Head(code)) /\ M.opcode[Head(code)] = "phi",
           Known \subseteq Known',
           \/ stack' = <<>> /\ Head(code) \in Known' \cup M.void
           \/ stack' # <<>> /\ IsNode(M, stack'[1]) /\ stack'[1].V = Head(code)
    PROVE  Walking'
<1>1. /\ WalkTypes /\ TreeWalked /\ CodeExecuted /\ PHINodesWait
  BY DEF Walking
<1>2. PICK q \in 0 .. Len(M.code[Current]) : q = Position
  BY <1>1, NextInstruction DEF CodeExecuted
<1>3. /\ visited # {} /\ q + 1 \in 1 .. Len(M.code[Current])
      /\ Head(code) \in Instructions /\ Head(code) = M.code[Current][q + 1] /\ Head(code) \in ToSet(M.code[Current])
      /\ Tail(code) \in Seq(Instructions) /\ Len(Tail(code)) = Len(code) - 1
      /\ \A j \in 1 .. Len(code) - 1 : Tail(code)[j] = M.code[Current][(q + 1) + j]
  BY <1>2, NextInstruction
<1>4. Len(code) \in Nat /\ Len(M.code[Current]) \in Nat /\ Current \in visited
  BY <1>3, CurrentIsVisited
<1>5. Current' = Current /\ Position' = q + 1
  <2>1. Current' = Current
    BY DEF Current
  <2> QED  BY <1>2, <1>3, <1>4, <2>1 DEF Position
<1>6. PHINodeWork' \in Seq(Instructions)
  <2>1. PHINodeWork \in Seq(Instructions)
    BY <1>1 DEF WalkTypes
  <2>2. Append(PHINodeWork, Head(code)) \in Seq(Instructions)
    BY <1>3, <2>1, AppendProperties
  <2> QED  BY <2>1, <2>2
<1>7. WalkTypes' /\ TreeWalked'
  BY <1>1, <1>3, <1>6 DEF WalkTypes, TreeWalked
<1>8. ASSUME NEW j \in 1 .. q + 1
      PROVE  M.code[Current][j] \in Known' \cup M.void \/ (NodeRunning' /\ stack'[1].V = M.code[Current][j])
  <2>1. CASE j \in 1 .. q
    BY <1>1, <1>2, <1>3, <2>1 DEF CodeExecuted, NodeRunning, IsExecuted
  <2>2. CASE j = q + 1
    BY <1>3, <2>2 DEF NodeRunning
  <2> QED  BY <2>1, <2>2
<1>9. \A b \in visited \ {Current} : \A i \in ToSet(M.code[b]) : i \in Known' \cup M.void
  BY <1>1, <1>3 DEF CodeExecuted, IsExecuted
<1>10. NodeRunning' => stack'[1].V = M.code[Current][q + 1]
  BY <1>3 DEF NodeRunning
<1>11. CodeExecuted'
  BY <1>3, <1>4, <1>5, <1>8, <1>9, <1>10 DEF CodeExecuted, IsExecuted
<1>12. stack' # <<>> => stack'[1].handler # "phi"
  BY HandlerNames DEF IsNode
<1>13. ASSUME NEW k \in DOMAIN PHINodeWork'
       PROVE  M.opcode[PHINodeWork'[k]] = "phi" /\ IsVisited(PHINodeWork'[k])
  <2>1. CASE PHINodeWork' = PHINodeWork
    BY <1>1, <1>13, <2>1 DEF PHINodesWait
  <2>2. CASE PHINodeWork' = Append(PHINodeWork, Head(code)) /\ M.opcode[Head(code)] = "phi"
    <3>1. PICK n \in Nat : Len(PHINodeWork) = n /\ DOMAIN PHINodeWork = 1 .. n
      BY <1>1, LenProperties DEF WalkTypes
    <3>2. /\ DOMAIN PHINodeWork' = 1 .. n + 1
          /\ \A j \in 1 .. n : PHINodeWork'[j] = PHINodeWork[j]
          /\ PHINodeWork'[n + 1] = Head(code)
      BY <1>1, <1>3, <2>2, <3>1, AppendProperties, LenProperties DEF WalkTypes
    <3>3. IsVisited(Head(code))
      BY <1>3, <1>4 DEF IsVisited
    <3>4. CASE k \in 1 .. n
      BY <1>1, <3>1, <3>2, <3>4 DEF PHINodesWait
    <3>5. CASE k = n + 1
      BY <2>2, <3>2, <3>3, <3>5
    <3> QED  BY <1>13, <3>2, <3>4, <3>5
  <2> QED  BY <2>1, <2>2
<1>14. PHINodesWait'
  BY <1>12, <1>13 DEF PHINodesWait, IsVisited
<1> QED  BY <1>7, <1>11, <1>14 DEF Walking

(* What is visited now was not in the cache. *)
LEMMA NotYetKnown ==
    ASSUME Walking, ExecutedOnly, code # <<>>
    PROVE  Head(code) \notin Known
<1>1. SUFFICES ASSUME Head(code) \in Known
               PROVE  FALSE
  OBVIOUS
<1>2. /\ visited # {} /\ Head(code) \in ToSet(code) /\ Head(code) \in Executable(M)
      /\ getParent(M, Head(code)) = Current
  BY NextInstruction
<1>3. PICK f \in Functions : Current \in Body(M, f) /\ f # CurrentFunction
  BY <1>1, <1>2 DEF ExecutedOnly
<1>4. Current \in Body(M, CurrentFunction) /\ M \in ModulesToRun /\ CurrentFunction \in Functions
  BY <1>2, CurrentIsVisited DEF Walking, TreeWalked
<1> QED  BY <1>3, <1>4, BodiesAreDisjoint

-----------------------------------------------------------------------------
(* The steps of the walk. *)

LEMMA AnalyzingHas ==
    ASSUME Analyzing
    PROVE  /\ M \in ModulesToRun /\ Recurring /\ Walking /\ ExecutedOnly /\ OnlyCircles
           /\ WalkTypes /\ TreeWalked /\ CodeExecuted /\ PHINodesWait
           /\ stack = <<>> => Len(stack) = 0
BY DEF Analyzing, Walking, WalkTypes

(* Nothing is visited before the function's first block.                   *)
LEMMA BeforeBlocks ==
    ASSUME Analyzing, CurrentFunction = NoFunction, stack = <<>>, M' = M, Known' = Known,
           NEW v \in toAnalyze, toAnalyze' = toAnalyze \ {v},
           CurrentFunction' = CurrentFunction \/ (CurrentFunction' = v /\ v \in Functions \ M.declarations),
           PHINodeWork' = PHINodeWork, path' = path, visited' = visited, code' = code,
           stack' # <<>>, stack'[1].handler \in {"global", "argument"}
    PROVE  Walking' /\ ExecutedOnly'
<1>1. visited = {} /\ PHINodeWork = <<>> /\ WalkTypes
  BY AnalyzingHas DEF WalkTypes
<1>2. WalkTypes'
  BY <1>1 DEF WalkTypes
<1>3. ~NodeRunning' /\ stack'[1].handler # "phi"
  BY HandlerNames DEF NodeRunning, IsNode
<1>4. TreeWalked' /\ CodeExecuted' /\ PHINodesWait'
  <2>1. DOMAIN PHINodeWork' = {}
    BY <1>1
  <2> QED  BY <1>1, <1>3, <2>1 DEF TreeWalked, CodeExecuted, PHINodesWait
<1>5. ASSUME NEW i \in Executable(M), i \in Known
      PROVE  \E f \in Functions : getParent(M, i) \in Body(M, f) /\ f \notin toAnalyze' /\ f # CurrentFunction'
  <2>1. PICK f \in Functions : getParent(M, i) \in Body(M, f) /\ f \notin toAnalyze /\ f # CurrentFunction
    BY <1>1, <1>5, AnalyzingHas DEF ExecutedOnly
  <2> QED  BY <2>1
<1>6. ExecutedOnly'
  BY <1>5 DEF ExecutedOnly
<1> QED  BY <1>2, <1>4, <1>6 DEF Walking

LEMMA VisitGlobalStep ==
    ASSUME Analyzing, NEW v \in Globals, VisitGlobal(v)
    PROVE  Analyzing'
<1> DEFINE fr == Frame("global", v, <<v>>)
<1>1. /\ M' = M /\ Known' = Known /\ stack = <<>> /\ CurrentFunction = NoFunction
      /\ stack' = Append(stack, fr)
      /\ v \in toAnalyze /\ toAnalyze' = toAnalyze \ {v}
      /\ CurrentFunction' = CurrentFunction /\ PHINodeWork' = PHINodeWork
      /\ path' = path /\ visited' = visited /\ code' = code
  BY DEF VisitGlobal, Idle, Call, data, Known, Turn
<1>2. fr.handler = "global" /\ fr.V = v
  BY FrameFields
<1>3. M \in ModulesToRun /\ Recurring /\ Len(stack) = 0
  BY <1>1, AnalyzingHas
<1>4. IsFrame(M, fr)
  BY <1>3, GlobalFrame
<1> HIDE DEF fr
<1>5. Outermost(M, fr) /\ ~Caches(fr)
  BY <1>2 DEF Outermost, Caches
<1>6. Recurring' /\ OnlyCircles' /\ stack' # <<>> /\ stack'[1] = fr
  BY <1>1, <1>3, <1>4, <1>5, BeginsOnIdle
<1>7. Walking' /\ ExecutedOnly'
  BY <1>1, <1>2, <1>6, BeforeBlocks
<1> QED  BY <1>6, <1>7 DEF Analyzing

LEMMA ProcessFunctionStep ==
    ASSUME Analyzing, NEW f \in Functions, processFunction(f)
    PROVE  Analyzing'
<1> DEFINE ops == <<f>> \o M.args[f]
           fr  == Frame("argument", f, ops)
<1>1. /\ M' = M /\ Known' = Known /\ stack = <<>> /\ CurrentFunction = NoFunction
      /\ stack' = Append(stack, fr)
      /\ f \in toAnalyze /\ toAnalyze' = toAnalyze \ {f}
      /\ CurrentFunction' = f /\ f \in Functions \ M.declarations
      /\ PHINodeWork' = PHINodeWork /\ path' = path /\ visited' = visited /\ code' = code
  BY DEF processFunction, Idle, Call, data, Known, Turn
<1>2. M \in ModulesToRun /\ Recurring /\ Len(stack) = 0
  BY <1>1, AnalyzingHas
<1>3. IsFrame(M, fr)
  BY <1>2, ArgumentFrame
<1> HIDE DEF ops
<1>4. fr.handler = "argument" /\ fr.V = f
  BY FrameFields
<1> HIDE DEF fr
<1>5. Outermost(M, fr) /\ ~Caches(fr)
  BY <1>1, <1>4 DEF Outermost, Caches
<1>6. Recurring' /\ OnlyCircles' /\ stack' # <<>> /\ stack'[1] = fr
  BY <1>1, <1>2, <1>3, <1>5, BeginsOnIdle
<1>7. Walking' /\ ExecutedOnly'
  BY <1>1, <1>4, <1>6, BeforeBlocks
<1> QED  BY <1>6, <1>7 DEF Analyzing

(* What Visits and the visitors have in common. *)
LEMMA VisitIs ==
    ASSUME NEW opcodes, Visits(opcodes)
    PROVE  /\ stack = <<>> /\ code # <<>> /\ M.opcode[Head(code)] \in opcodes
           /\ code' = Tail(code) /\ M' = M
           /\ toAnalyze' = toAnalyze /\ CurrentFunction' = CurrentFunction /\ path' = path /\ visited' = visited
BY DEF Visits, Idle

LEMMA ExecutedGoesOn ==
    ASSUME Analyzing, stack = <<>>, code # <<>>, M' = M, code' = Tail(code),
           toAnalyze' = toAnalyze, CurrentFunction' = CurrentFunction, visited' = visited,
           \/ Known' \subseteq Known \cup {Head(code)} /\ stack' = <<>>
           \/ Known' = Known /\ stack'[1].V = Head(code)
    PROVE  ExecutedOnly'
<1>1. /\ Head(code) \in ToSet(code) /\ ToSet(Tail(code)) \subseteq ToSet(code) \ {Head(code)}
      /\ getParent(M, Head(code)) = Current /\ visited # {}
  BY AnalyzingHas, NextInstruction
<1>2. Current \in visited
  BY <1>1, AnalyzingHas, CurrentIsVisited
<1>3. SUFFICES ASSUME NEW i \in Executable(M), i \in Known'
               PROVE  \/ \E f \in Functions : getParent(M, i) \in Body(M, f) /\ f \notin toAnalyze /\ f # CurrentFunction
                      \/ /\ getParent(M, i) \in visited /\ i \notin ToSet(Tail(code))
                         /\ NodeRunning' => i # stack'[1].V
  BY DEF ExecutedOnly
<1>4. CASE i \in Known
  <2>1. \/ \E f \in Functions : getParent(M, i) \in Body(M, f) /\ f \notin toAnalyze /\ f # CurrentFunction
        \/ getParent(M, i) \in visited /\ i \notin ToSet(code)
    BY <1>4, AnalyzingHas DEF ExecutedOnly
  <2> QED  BY <1>1, <2>1 DEF NodeRunning
<1>5. CASE i \notin Known
  BY <1>1, <1>2, <1>3, <1>5 DEF NodeRunning
<1> QED  BY <1>4, <1>5

(* alloca and phi are cached at once, fence and va_end are void.           *)
LEMMA VisitAtOnceStep ==
    ASSUME Analyzing, visitAllocaInst \/ visitPHINode \/ visitNothing
    PROVE  Analyzing'
<1>1. /\ Recurring /\ Walking /\ M \in ModulesToRun
  BY AnalyzingHas
<1>2. /\ stack = <<>> /\ stack' = <<>> /\ code # <<>> /\ code' = Tail(code) /\ M' = M
      /\ toAnalyze' = toAnalyze /\ CurrentFunction' = CurrentFunction /\ path' = path /\ visited' = visited
      /\ \/ PHINodeWork' = PHINodeWork
         \/ PHINodeWork' = Append(PHINodeWork, Head(code)) /\ M.opcode[Head(code)] = "phi"
      /\ \/ Known' = Known \cup {Head(code)}
         \/ Known' = Known /\ M.opcode[Head(code)] \in {"fence", "va_end"}
  <2>1. CASE visitAllocaInst
    <3>1. Visits({"alloca"}) /\ cacheNewValueInfo(Head(code)) /\ stack' = stack /\ PHINodeWork' = PHINodeWork
      BY <2>1 DEF visitAllocaInst
    <3> QED  BY <3>1, VisitIs, CacheKnows
  <2>2. CASE visitPHINode
    <3>1. Visits({"phi"}) /\ cacheNewValueInfo(Head(code)) /\ stack' = stack /\ PHINodeWork' = Append(PHINodeWork, Head(code))
      BY <2>2 DEF visitPHINode
    <3> QED  BY <3>1, VisitIs, CacheKnows
  <2>3. CASE visitNothing
    <3>1. Visits({"fence", "va_end"}) /\ ValueInfos' = ValueInfos /\ stack' = stack /\ PHINodeWork' = PHINodeWork
      BY <2>3 DEF visitNothing
    <3> QED  BY <3>1, VisitIs DEF Known
  <2> QED  BY <2>1, <2>2, <2>3
<1>3. Head(code) \in Known' \cup M.void
  <2>1. Head(code) \in Instructions
    BY <1>1, <1>2, NextInstruction
  <2>2. M.opcode[Head(code)] \in {"fence", "va_end"} => Head(code) \in M.void
    BY <1>1, <2>1, ModuleType DEF WellFormed, WellTyped, Effects
  <2> QED  BY <1>2, <2>2
<1>4. Walking'
  BY <1>1, <1>2, <1>3, CodeGoesOn
<1>5. ExecutedOnly'
  BY <1>2, ExecutedGoesOn
<1>6. Recurring' /\ OnlyCircles'
  BY <1>1, <1>2, StaysIdle
<1> QED  BY <1>4, <1>5, <1>6 DEF Analyzing

LEMMA VisitOperandsStep ==
    ASSUME Analyzing, VisitOperands
    PROVE  Analyzing'
<1> DEFINE I  == Head(code)
           fr == Frame(M.opcode[I], I, M.operands[I])
<1>1. /\ Recurring /\ Walking /\ ExecutedOnly /\ M \in ModulesToRun
  BY AnalyzingHas
<1>2. /\ stack = <<>> /\ code # <<>> /\ code' = Tail(code) /\ M' = M
      /\ toAnalyze' = toAnalyze /\ CurrentFunction' = CurrentFunction /\ path' = path /\ visited' = visited
      /\ PHINodeWork' = PHINodeWork /\ Known' = Known
      /\ M.opcode[I] \in NodeHandlers
      /\ stack' = Append(stack, fr)
  BY VisitIs DEF VisitOperands, Call, Known, NodeHandlers
<1>3. I \in Instructions
  BY <1>1, <1>2, NextInstruction
<1>4. fr.handler = M.opcode[I] /\ fr.V = I /\ IsFrame(M, fr)
  <2>1. M.opcode[I] \notin {"global", "argument"} /\ I \in Users
    BY <1>2, <1>3, HandlerNames, UserKinds
  <2>2. IsFrame(M, fr)
    BY <1>1, <2>1, OperandsFrame
  <2> QED  BY <2>2, FrameFields
<1> HIDE DEF fr
<1>5. IsNode(M, fr) /\ Outermost(M, fr)
  BY <1>2, <1>3, <1>4 DEF IsNode, Outermost
<1>6. ~(Caches(fr) /\ fr.V \in Known)
  BY <1>1, <1>2, <1>4, NotYetKnown
<1>7. Len(stack) = 0
  BY <1>2, AnalyzingHas
<1>8. Recurring' /\ OnlyCircles' /\ stack' # <<>> /\ stack'[1] = fr
  BY <1>1, <1>2, <1>4, <1>5, <1>6, <1>7, BeginsOnIdle
<1>9. Walking'
  BY <1>1, <1>2, <1>4, <1>5, <1>8, CodeGoesOn
<1>10. ExecutedOnly'
  BY <1>2, <1>4, <1>8, ExecutedGoesOn
<1> QED  BY <1>8, <1>9, <1>10 DEF Analyzing

(* df_iterator goes on to the entry, or to a child of a visited block.     *)
LEMMA NextBlockStep ==
    ASSUME Analyzing, NEW b \in BasicBlocks, NextBlock(b)
    PROVE  Analyzing'
<1>1. /\ Recurring /\ Walking /\ WalkTypes /\ TreeWalked /\ CodeExecuted /\ PHINodesWait /\ M \in ModulesToRun
  BY AnalyzingHas
<1>2. /\ stack = <<>> /\ stack' = <<>> /\ code = <<>> /\ M' = M /\ Known' = Known
      /\ toAnalyze' = toAnalyze /\ CurrentFunction' = CurrentFunction /\ PHINodeWork' = PHINodeWork
      /\ CurrentFunction # NoFunction
      /\ visited' = visited \cup {b} /\ code' = M.code[b]
  BY DEF NextBlock, Idle, data, Known
<1>3. CurrentFunction \in Functions /\ M.entry[CurrentFunction] # NoBlock
  <2>1. CurrentFunction \in Functions \ M.declarations
    BY <1>1, <1>2 DEF WalkTypes
  <2> QED  BY <1>1, <2>1, ModuleType DEF WellFormed, WellLinked, isDeclaration
<1>4. visited \in SUBSET BasicBlocks /\ visited' \in SUBSET BasicBlocks /\ visited' # {}
  BY <1>1, <1>2 DEF WalkTypes
<1>5. /\ b \notin visited
      /\ path' \in Seq(visited') /\ path' # <<>> /\ Last(path') = b /\ b \in ToSet(path')
      /\ b \in Body(M, CurrentFunction)
      /\ IsClosed(M, visited')
      /\ M.entry[CurrentFunction] \in visited'
      /\ \A c \in visited' \ ToSet(path') : DomTreeChildren(M, c) \subseteq visited'
  <2>1. CASE visited = {} /\ b = M.entry[CurrentFunction] /\ path' = <<b>>
    <3>1. path' \in Seq(visited') /\ path' # <<>> /\ Last(path') = b /\ ToSet(path') = {b} /\ visited' = {b}
      BY <1>2, <2>1 DEF Last, ToSet
    <3>2. b \in Body(M, CurrentFunction)
      BY <2>1 DEF Body
    <3>3. M.idom[b] = NoBlock
      BY <1>1, <1>3, <2>1, EntryIsRoot
    <3> QED  BY <2>1, <3>1, <3>2, <3>3 DEF IsClosed
  <2>2. ASSUME NEW k \in Unfinished, \A j \in Unfinished : j <= k,
               b \in DomTreeChildren(M, path[k]) \ visited, path' = Append(SubSeq(path, 1, k), b)
        PROVE  /\ b \notin visited
               /\ path' \in Seq(visited') /\ path' # <<>> /\ Last(path') = b /\ b \in ToSet(path')
               /\ b \in Body(M, CurrentFunction)
               /\ IsClosed(M, visited')
               /\ M.entry[CurrentFunction] \in visited'
               /\ \A c \in visited' \ ToSet(path') : DomTreeChildren(M, c) \subseteq visited'
    <3> DEFINE pre == SubSeq(path, 1, k)
    <3>1. PICK n \in Nat : Len(path) = n /\ DOMAIN path = 1 .. n /\ path \in Seq(visited)
      BY <1>1, LenProperties DEF WalkTypes
    <3>2. k \in 1 .. n /\ path[k] \in visited
      BY <2>2, <3>1, ElementOfSeq DEF Unfinished
    <3>3. pre \in Seq(visited) /\ DOMAIN pre = 1 .. k /\ Len(pre) = k /\ \A j \in 1 .. k : pre[j] = path[j]
      BY <3>1, <3>2, PrefixProperties
    <3>4. pre \in Seq(visited')
      <4>1. \A j \in DOMAIN pre : pre[j] \in visited'
        BY <1>2, <3>3, ElementOfSeq
      <4> QED  BY <3>3, <4>1, SeqOverSubset
    <3> HIDE DEF pre
    <3>5. /\ path' \in Seq(visited') /\ path' # <<>> /\ Len(path') = k + 1
          /\ \A j \in 1 .. k : path'[j] = pre[j]
          /\ path'[k + 1] = b
      <4>1. path' = Append(pre, b) /\ b \in visited'
        BY <1>2, <2>2 DEF pre
      <4> QED  BY <3>3, <3>4, <4>1, AppendProperties
    <3>6. DOMAIN path' = 1 .. k + 1
      BY <3>5, LenProperties
    <3>7. Last(path') = b /\ b \in ToSet(path') /\ ToSet(pre) \subseteq ToSet(path')
      BY <3>2, <3>3, <3>5, <3>6 DEF Last, ToSet
    <3>8. visited # {} /\ b \notin visited /\ M.idom[b] = path[k]
      BY <2>2, <3>2 DEF DomTreeChildren
    <3>9. b \in Body(M, CurrentFunction)
      BY <1>1, <1>3, <2>2, <3>2, <3>8, BodyGrows DEF TreeWalked
    <3>10. IsClosed(M, visited') /\ M.entry[CurrentFunction] \in visited'
      BY <1>1, <1>2, <3>2, <3>8 DEF TreeWalked, IsClosed
    <3>11. ASSUME NEW c \in visited', c \notin ToSet(path')
           PROVE  DomTreeChildren(M, c) \subseteq visited'
      <4>1. c \in visited /\ c \notin ToSet(pre)
        BY <1>2, <3>7, <3>11
      <4>2. CASE c \notin ToSet(path)
        BY <1>1, <1>2, <3>8, <4>1, <4>2 DEF TreeWalked
      <4>3. CASE c \in ToSet(path)
        <5>1. PICK j \in 1 .. n : c = path[j]
          BY <3>1, <4>3 DEF ToSet
        <5>2. j > k
          BY <3>2, <3>3, <4>1, <5>1 DEF ToSet
        <5>3. j \notin Unfinished
          BY <2>2, <3>2, <5>2
        <5> QED  BY <1>2, <3>1, <5>1, <5>3 DEF Unfinished
      <4> QED  BY <4>2, <4>3
    <3> QED  BY <3>5, <3>7, <3>8, <3>9, <3>10, <3>11
  <2> QED  BY <2>1, <2>2 DEF NextBlock
<1>6. M.code[b] \in Seq(Instructions)
  BY <1>1, ModuleType
<1>7. WalkTypes'
  BY <1>1, <1>2, <1>4, <1>5, <1>6 DEF WalkTypes
<1>8. TreeWalked'
  <2>1. visited # {} => visited \subseteq Body(M, CurrentFunction)
    BY <1>1 DEF TreeWalked
  <2> QED  BY <1>2, <1>5, <2>1 DEF TreeWalked
<1>9. PICK l \in Nat : Len(M.code[b]) = l /\ DOMAIN M.code[b] = 1 .. l
  BY <1>6, LenProperties
<1>10. Current' = b /\ Position' = 0
  BY <1>2, <1>5, <1>9 DEF Current, Position
<1>11. ~NodeRunning /\ ~NodeRunning'
  BY <1>2 DEF NodeRunning
<1>12. ASSUME NEW c \in visited, NEW i \in ToSet(M.code[c])
       PROVE  i \in Known \cup M.void
  <2>1. i \notin ToSet(code)
    BY <1>2 DEF ToSet
  <2> QED  BY <1>1, <1>11, <2>1, VisitedIsExecuted DEF IsExecuted
<1>13. CodeExecuted'
  BY <1>2, <1>9, <1>10, <1>11, <1>12 DEF CodeExecuted, IsExecuted
<1>14. PHINodesWait'
  BY <1>1, <1>2 DEF PHINodesWait, IsVisited
<1>15. ASSUME NEW i \in Executable(M), i \in Known
       PROVE  \/ \E f \in Functions : getParent(M, i) \in Body(M, f) /\ f \notin toAnalyze /\ f # CurrentFunction
              \/ getParent(M, i) \in visited' /\ i \notin ToSet(code')
  <2>1. CASE getParent(M, i) \in visited
    <3>1. getParent(M, i) # b
      BY <1>5, <2>1
    <3> QED  BY <1>1, <1>2, <2>1, <3>1, ParentIs
  <2>2. CASE getParent(M, i) \notin visited
    BY <1>15, <2>2, AnalyzingHas DEF ExecutedOnly
  <2> QED  BY <2>1, <2>2
<1>16. ExecutedOnly'
  BY <1>2, <1>11, <1>15 DEF ExecutedOnly
<1>17. Recurring' /\ OnlyCircles'
  BY <1>1, <1>2, StaysIdle
<1> QED  BY <1>7, <1>8, <1>13, <1>14, <1>16, <1>17 DEF Analyzing, Walking

LEMMA ProcessPHINodeStep ==
    ASSUME Analyzing, ProcessPHINode
    PROVE  Analyzing'
<1> DEFINE PHI == Head(PHINodeWork)
           fr  == Frame("phi", PHI, M.operands[PHI])
<1>1. /\ Recurring /\ Walking /\ WalkTypes /\ TreeWalked /\ CodeExecuted /\ PHINodesWait /\ M \in ModulesToRun
  BY AnalyzingHas
<1>2. /\ stack = <<>> /\ visited # {} /\ code = <<>> /\ Unfinished = {} /\ PHINodeWork # <<>>
      /\ stack' = Append(stack, fr) /\ M' = M /\ Known' = Known
      /\ PHINodeWork' = Tail(PHINodeWork)
      /\ toAnalyze' = toAnalyze /\ CurrentFunction' = CurrentFunction /\ path' = path /\ visited' = visited /\ code' = code
  BY DEF ProcessPHINode, BlocksDone, Idle, Call, data, Known
<1>3. PICK n \in Nat : Len(PHINodeWork) = n /\ n >= 1 /\ DOMAIN PHINodeWork = 1 .. n /\ PHINodeWork \in Seq(Instructions)
  BY <1>1, <1>2, LenProperties, EmptySeq DEF WalkTypes
<1>4. /\ PHI \in Instructions /\ PHI = PHINodeWork[1]
      /\ PHINodeWork' \in Seq(Instructions) /\ Len(PHINodeWork') = n - 1
      /\ \A j \in 1 .. n - 1 : PHINodeWork'[j] = PHINodeWork[j + 1]
  BY <1>2, <1>3, HeadTailProperties
<1>5. M.opcode[PHI] = "phi" /\ IsVisited(PHI)
  BY <1>1, <1>3, <1>4 DEF PHINodesWait
<1>6. fr.handler = "phi" /\ fr.V = PHI
  BY FrameFields
<1>7. IsFrame(M, fr)
  <2>1. PHI \in Users /\ "phi" \notin {"global", "argument"}
    BY <1>4, UserKinds
  <2> QED  BY <1>1, <2>1, OperandsFrame
<1> HIDE DEF fr
<1>8. Outermost(M, fr) /\ ~Caches(fr) /\ ~IsNode(M, fr) /\ Len(stack) = 0
  <2>1. Len(stack) = 0
    BY <1>2, AnalyzingHas
  <2> QED  BY <1>4, <1>5, <1>6, <2>1, HandlerNames DEF Outermost, Caches, IsNode
<1>9. Recurring' /\ OnlyCircles' /\ stack' # <<>> /\ stack'[1] = fr
  BY <1>1, <1>2, <1>7, <1>8, BeginsOnIdle
<1>10. WalkTypes' /\ TreeWalked'
  BY <1>1, <1>2, <1>4 DEF WalkTypes, TreeWalked
<1>11. ~NodeRunning /\ ~NodeRunning'
  BY <1>2, <1>8, <1>9 DEF NodeRunning
<1>12. CodeExecuted'
  <2>1. Current' = Current /\ Position' = Position
    BY <1>2 DEF Current, Position
  <2> QED  BY <1>1, <1>2, <1>11, <2>1 DEF CodeExecuted, IsExecuted
<1>13. PHINodesWait'
  <2>1. DOMAIN PHINodeWork' = 1 .. n - 1
    BY <1>3, <1>4, LenProperties
  <2>2. ASSUME NEW k \in 1 .. n - 1
        PROVE  M.opcode[PHINodeWork'[k]] = "phi" /\ IsVisited(PHINodeWork'[k])
    <3>1. PHINodeWork'[k] = PHINodeWork[k + 1] /\ k + 1 \in 1 .. n
      BY <1>3, <1>4
    <3> QED  BY <1>1, <1>3, <3>1 DEF PHINodesWait
  <2>3. Unfinished' = Unfinished
    BY <1>2 DEF Unfinished
  <2> QED  BY <1>2, <1>5, <1>6, <1>9, <2>1, <2>2, <2>3 DEF PHINodesWait, IsVisited
<1>14. ExecutedOnly'
  BY <1>2, <1>11, AnalyzingHas DEF ExecutedOnly
<1> QED  BY <1>9, <1>10, <1>12, <1>13, <1>14 DEF Analyzing, Walking

LEMMA EndFunctionStep ==
    ASSUME Analyzing, EndFunction
    PROVE  Analyzing'
<1>1. /\ Recurring /\ Walking /\ WalkTypes /\ TreeWalked /\ CodeExecuted /\ PHINodesWait /\ M \in ModulesToRun
  BY AnalyzingHas
<1>2. /\ stack = <<>> /\ stack' = <<>> /\ visited # {} /\ code = <<>> /\ PHINodeWork = <<>>
      /\ M' = M /\ Known' = Known /\ PHINodeWork' = PHINodeWork /\ code' = code
      /\ toAnalyze' = toAnalyze /\ CurrentFunction' = NoFunction /\ path' = <<>> /\ visited' = {}
  BY DEF EndFunction, BlocksDone, Idle, data, Known
<1>3. CurrentFunction \in Functions \ toAnalyze /\ CurrentFunction # NoFunction /\ visited \subseteq Body(M, CurrentFunction)
  BY <1>1, <1>2 DEF WalkTypes, TreeWalked
<1>4. WalkTypes'
  <2>1. <<>> \in Seq(visited') /\ <<>> \in Seq(Instructions)
    OBVIOUS
  <2> QED  BY <1>1, <1>2, <2>1 DEF WalkTypes
<1>5. TreeWalked' /\ CodeExecuted' /\ PHINodesWait'
  <2>1. DOMAIN PHINodeWork' = {} /\ ~NodeRunning'
    BY <1>2 DEF NodeRunning
  <2> QED  BY <1>2, <2>1 DEF TreeWalked, CodeExecuted, PHINodesWait
<1>6. ASSUME NEW i \in Executable(M), i \in Known
      PROVE  \E f \in Functions : getParent(M, i) \in Body(M, f) /\ f \notin toAnalyze /\ f # NoFunction
  <2>1. CASE getParent(M, i) \in visited
    BY <1>3, <2>1
  <2>2. CASE getParent(M, i) \notin visited
    <3>1. PICK f \in Functions : getParent(M, i) \in Body(M, f) /\ f \notin toAnalyze /\ f # CurrentFunction
      BY <1>6, <2>2, AnalyzingHas DEF ExecutedOnly
    <3> QED  BY <3>1, NullsAssumption
  <2> QED  BY <2>1, <2>2
<1>7. ExecutedOnly'
  BY <1>2, <1>6 DEF ExecutedOnly
<1>8. Recurring' /\ OnlyCircles'
  BY <1>1, <1>2, StaysIdle
<1> QED  BY <1>4, <1>5, <1>7, <1>8 DEF Analyzing, Walking

-----------------------------------------------------------------------------
(* The theorems. *)

LEMMA AnalyzingNext ==
    ASSUME Analyzing, [Next]_vars
    PROVE  Analyzing'
<1>1. ASSUME M' = M, walk' = walk, Answers \/ (\E v \in Values : Learns(v) \/ Begins(v)) \/ Ends
      PROVE  Analyzing'
  BY <1>1, AnalyzingHas, RecursionSteps, WalkWaits, ExecutedOnlyKept, OnlyCirclesKept DEF Analyzing
<1>2. CASE AnalyzeValue
  BY <1>1, <1>2, AnalyzeSteps, AnalyzingHas
<1>3. CASE Finish
  BY <1>1, <1>3, FinishSteps
<1>4. CASE Walk
  BY <1>4, VisitGlobalStep, ProcessFunctionStep, NextBlockStep, VisitAtOnceStep, VisitOperandsStep,
     ProcessPHINodeStep, EndFunctionStep DEF Walk
<1>5. CASE UNCHANGED vars
  BY <1>5 DEF vars, data, walk, Analyzing, Recurring, Walking, Framed, GlobalsCached, RecursionEnds, WalkTypes,
       TreeWalked, CodeExecuted, PHINodesWait, ExecutedOnly, OnlyCircles, Known, Current, Position, IsExecuted,
       NodeRunning, IsVisited, Unfinished, Caches
<1> QED  BY <1>2, <1>3, <1>4, <1>5 DEF Next

(* At every step of instruction analysis: the handlers that wait, wait for *)
(* the value of the one above them, globals are cached before what they    *)
(* mention is asked for, and the walk over a function has been to every    *)
(* block that dominates where it is.                                       *)
THEOREM AlwaysAnalyzing == Spec => []Analyzing
BY AnalyzingInit, AnalyzingNext, PTL DEF Spec

(* The recursion of analyzeValue (InstructionAnalyzer.cpp:368) never comes *)
(* back to a global whose analysis is under way, however globals and       *)
(* constants refer to each other.                                          *)
THEOREM RecursionAlwaysEnds == Spec => []RecursionEnds
<1>1. Analyzing => RecursionEnds
  BY DEF Analyzing, Recurring
<1> QED  BY <1>1, AlwaysAnalyzing, PTL

(* No instruction that can be executed is asked for before it has been     *)
(* visited (InstructionAnalyzer.cpp:387), for every function and every     *)
(* order of the children in its dominator tree.                            *)
THEOREM AlwaysUsedAfterExecuted == Spec => []UsedAfterExecuted
<1>1. Analyzing => UsedAfterExecuted
  BY OperandsAreExecuted DEF Analyzing
<1> QED  BY <1>1, AlwaysAnalyzing, PTL

(* The assert of cache (InstructionAnalyzer.cpp:331) fails for nothing but *)
(* constants that a global is made of which they mention.                  *)
THEOREM OnlyCirclesAreAnalyzedAgain == Spec => []CirclesOnlyAgain
<1>1. ASSUME Analyzing
      PROVE  CirclesOnlyAgain
  <2>1. SUFFICES ASSUME stack # <<>>, Caches(Top), V \in Known
                 PROVE  V \in Constants /\ MentionsItself(M, V)
    BY DEF CirclesOnlyAgain, Known
  <2>2. Len(stack) \in DOMAIN stack /\ Top = stack[Len(stack)] /\ V = Top.V
    BY <1>1, <2>1, AnalyzingHas, TopFrame DEF Recurring
  <2> QED  BY <1>1, <2>1, <2>2 DEF Analyzing, OnlyCircles
<1> QED  BY <1>1, AlwaysAnalyzing, PTL

-----------------------------------------------------------------------------
(* The ValueInfos that exist. *)

LEMMA NonNullProperties ==
    ASSUME NEW T, NEW s \in Seq(T)
    PROVE  /\ NonNull(s) \in Seq(T \ {NoVI})
           /\ Len(s) >= 1 /\ s[1] # NoVI => NonNull(s) # <<>>
<1> DEFINE Y == T \ {NoVI}
           n == Len(s)
           Of[k \in 0 .. n] == IF k = 0 THEN <<>> ELSE IF s[k] = NoVI THEN Of[k - 1] ELSE Append(Of[k - 1], s[k])
           Next1(F, k) == IF s[k] = NoVI THEN F[k - 1] ELSE Append(F[k - 1], s[k])
           IsOf(F, m) == /\ F \in [0 .. m -> Seq(Y)]
                         /\ F[0] = <<>>
                         /\ \A k \in 1 .. m : F[k] = Next1(F, k)
<1>1. NonNull(s) = Of[n]
  BY DEF NonNull
<1>2. Of = CHOOSE F : F = [k \in 0 .. n |-> IF k = 0 THEN <<>> ELSE Next1(F, k)]
  BY DEF Of
<1> HIDE DEF Of
<1>3. n \in Nat /\ \A k \in 1 .. n : s[k] \in T
  BY LenProperties, ElementOfSeq
<1> HIDE DEF n
<1>4. \A m \in 0 .. n : \E F : IsOf(F, m)
  <2> DEFINE Bad == {m \in 0 .. n : ~\E F : IsOf(F, m)}
  <2> SUFFICES ASSUME Bad # {} PROVE FALSE
    OBVIOUS
  <2>1. PICK m \in Bad : \A l \in Bad : m <= l
    <3>1. Bad \subseteq Nat
      BY <1>3
    <3> HIDE DEF Bad
    <3> QED  BY <3>1, LeastNat
  <2>2. m # 0
    <3> DEFINE F == [k \in 0 .. 0 |-> <<>>]
    <3>1. F \in [0 .. 0 -> Seq(Y)]
      OBVIOUS
    <3>2. F[0] = <<>>
      OBVIOUS
    <3>3. IsOf(F, 0)
      BY <3>1, <3>2
    <3> QED  BY <2>1, <3>3
  <2>3. m - 1 \in 0 .. n /\ m \in 1 .. n
    BY <1>3, <2>1, <2>2
  <2>4. PICK F : IsOf(F, m - 1)
    <3>1. m - 1 \notin Bad /\ m \in Nat
      <4>1. m \in Nat /\ ~(m <= m - 1)
        BY <1>3, <2>1
      <4> HIDE DEF Bad
      <4> QED  BY <2>1, <4>1
    <3> HIDE DEF IsOf
    <3> QED  BY <2>3, <3>1
  <2> DEFINE e == Next1(F, m)
             G == [k \in 0 .. m |-> IF k = m THEN e ELSE F[k]]
  <2>5. F[m - 1] \in Seq(Y)
    BY <2>3, <2>4
  <2>6. e \in Seq(Y)
    <3>1. CASE s[m] = NoVI
      BY <2>5, <3>1
    <3>2. CASE s[m] # NoVI
      <4>1. s[m] \in Y
        BY <1>3, <2>3, <3>2
      <4> QED  BY <2>5, <3>2, <4>1, AppendProperties
    <3> QED  BY <3>1, <3>2
  <2> HIDE DEF e, Y
  <2>7. G \in [0 .. m -> Seq(Y)]
    BY <2>3, <2>4, <2>6
  <2>8. G[0] = <<>>
    BY <2>3, <2>4
  <2>9. ASSUME NEW k \in 1 .. m PROVE G[k] = Next1(G, k)
    <3>1. k - 1 \in 0 .. m /\ k - 1 # m /\ G[k - 1] = F[k - 1]
      BY <2>3
    <3>2. CASE k = m
      BY <2>3, <3>1, <3>2 DEF e
    <3>3. CASE k # m
      <4>1. k \in 1 .. m - 1 /\ G[k] = F[k]
        BY <2>3, <3>3
      <4> QED  BY <2>4, <3>1, <4>1
    <3> QED  BY <3>2, <3>3
  <2>10. IsOf(G, m)
    BY <2>7, <2>8, <2>9
  <2> QED  BY <2>1, <2>10
<1>5. PICK F : IsOf(F, n)
  <2>1. n \in 0 .. n
    BY <1>3
  <2> HIDE DEF IsOf
  <2> QED  BY <1>4, <2>1
<1>6. F = [k \in 0 .. n |-> IF k = 0 THEN <<>> ELSE Next1(F, k)]
  <2>1. DOMAIN F = 0 .. n /\ \A k \in 0 .. n : k = 0 \/ k \in 1 .. n
    BY <1>3, <1>5
  <2>2. \A k \in 0 .. n : F[k] = IF k = 0 THEN <<>> ELSE Next1(F, k)
    BY <1>5, <2>1
  <2>3. F = [k \in 0 .. n |-> F[k]]
    BY <1>5
  <2> HIDE DEF Next1
  <2> QED  BY <2>2, <2>3
<1>7. Of = [k \in 0 .. n |-> IF k = 0 THEN <<>> ELSE Next1(Of, k)]
  BY <1>2, <1>6
<1>8. Of[0] = <<>> /\ \A k \in 1 .. n : Of[k] = Next1(Of, k)
  <2>1. \A k \in 0 .. n : Of[k] = IF k = 0 THEN <<>> ELSE Next1(Of, k)
    <3> HIDE DEF Next1
    <3> QED  BY <1>7
  <2>2. 0 \in 0 .. n /\ \A k \in 1 .. n : k \in 0 .. n /\ k # 0
    BY <1>3
  <2> HIDE DEF Next1
  <2> QED  BY <2>1, <2>2
<1> DEFINE Good(k) == Of[k] \in Seq(Y) /\ (k >= 1 /\ s[1] # NoVI => Of[k] # <<>>)
           Bad == {k \in 0 .. n : ~Good(k)}
<1>9. Bad = {}
  <2> SUFFICES ASSUME Bad # {} PROVE FALSE
    OBVIOUS
  <2>1. PICK m \in Bad : \A l \in Bad : m <= l
    <3>1. Bad \subseteq Nat
      BY <1>3
    <3> HIDE DEF Bad
    <3> QED  BY <3>1, LeastNat
  <2>2. m # 0
    <3>1. Good(0)
      BY <1>8
    <3> HIDE DEF Good
    <3> QED  BY <2>1, <3>1
  <2>3. m \in 1 .. n /\ m - 1 \in 0 .. n
    BY <1>3, <2>1, <2>2
  <2>4. Good(m - 1)
    <3>1. m - 1 \notin Bad
      BY <1>3, <2>1, <2>2, <2>3
    <3> QED  BY <2>3, <3>1
  <2>5. Of[m] = Next1(Of, m)
    BY <1>8, <2>3
  <2>6. CASE s[m] = NoVI
    <3>1. Of[m] = Of[m - 1]
      BY <2>5, <2>6
    <3>2. m = 1 \/ m - 1 >= 1
      BY <2>3
    <3> QED  BY <2>1, <2>4, <2>6, <3>1, <3>2
  <2>7. CASE s[m] # NoVI
    <3>1. Of[m] = Append(Of[m - 1], s[m]) /\ s[m] \in Y /\ Of[m - 1] \in Seq(Y)
      BY <1>3, <2>3, <2>4, <2>5, <2>7
    <3> HIDE DEF Y
    <3>2. Of[m] \in Seq(Y) /\ Of[m] # <<>>
      BY <3>1, AppendProperties
    <3> QED  BY <2>1, <3>2
  <2> QED  BY <2>6, <2>7
<1>10. Good(n)
  BY <1>3, <1>9
<1> QED  BY <1>1, <1>10 DEF n

(* However many are made for a value, each has a number of its own. *)
AnyVIs == [V : Values \cup {NoValue}, n : Nat]

MadeFor(C, v) == {vi \in C : vi.V = v}

Numbered(C) ==
    /\ IsFiniteSet(C) /\ C \subseteq AnyVIs /\ {EL, EA} \subseteq C
    /\ \A vi \in C : vi.n < Cardinality(MadeFor(C, vi.V))

NewOf(C, v) == ValueInfo(v, Cardinality(MadeFor(C, v)))

LEMMA TheExternals ==
    /\ EL = [V |-> NoValue, n |-> 0] /\ EA = [V |-> NoValue, n |-> 1] /\ EL # EA
    /\ EL.V = NoValue /\ EA.V = NoValue /\ EL.n = 0 /\ EA.n = 1
    /\ EL \in AnyVIs /\ EA \in AnyVIs
    /\ NoVI \notin AnyVIs
<1>1. EL = [V |-> NoValue, n |-> 0] /\ EA = [V |-> NoValue, n |-> 1]
  BY DEF EL, EA, ValueInfo
<1>2. EL.n = 0 /\ EA.n = 1 /\ EL.V = NoValue /\ EA.V = NoValue
  BY <1>1
<1>3. EL # EA
  BY <1>2
<1>4. EL \in AnyVIs /\ EA \in AnyVIs
  BY <1>1 DEF AnyVIs
<1> QED  BY <1>1, <1>2, <1>3, <1>4, NullsAssumption DEF AnyVIs

LEMMA NumberedAtFirst == Numbered({EL, EA})
<1>1. IsFiniteSet({EL, EA}) /\ Cardinality({EL, EA}) = 2
  <2>1. IsFiniteSet({EL}) /\ Cardinality({EL}) = 1
    BY FS_Singleton
  <2>2. {EL, EA} = {EL} \cup {EA} /\ EA \notin {EL}
    BY TheExternals
  <2> QED  BY <2>1, <2>2, FS_AddElement
<1>2. MadeFor({EL, EA}, NoValue) = {EL, EA}
  BY TheExternals DEF MadeFor
<1> QED  BY <1>1, <1>2, TheExternals DEF Numbered

(* A new ValueInfo is new. *)
LEMMA NewIsNew ==
    ASSUME NEW C, Numbered(C), NEW v \in Values \cup {NoValue}
    PROVE  /\ NewOf(C, v) \in AnyVIs /\ NewOf(C, v).V = v
           /\ NewOf(C, v) \notin C
           /\ NewOf(C, v) \notin {EL, EA, NoVI}
           /\ Numbered(C \cup {NewOf(C, v)})
           /\ NewOf(C \cup {NewOf(C, v)}, v) = ValueInfo(v, NewOf(C, v).n + 1)
           /\ MadeFor(C, v) = {} => NewOf(C, v) = ValueInfo(v, 0)
<1> DEFINE N  == Cardinality(MadeFor(C, v))
           vi == NewOf(C, v)
           D  == C \cup {vi}
<1>1. IsFiniteSet(MadeFor(C, v)) /\ N \in Nat
  BY FS_Subset, FS_CardinalityType DEF MadeFor, Numbered
<1>2. vi = [V |-> v, n |-> N]
  BY DEF NewOf, ValueInfo
<1>3. vi.V = v /\ vi.n = N /\ vi \in AnyVIs
  BY <1>1, <1>2 DEF AnyVIs
<1>4. MadeFor(C, v) = {} => vi = ValueInfo(v, 0)
  BY FS_EmptySet DEF NewOf
<1> HIDE DEF N, vi
<1>5. vi \notin C
  <2>1. vi \in C => vi.n < Cardinality(MadeFor(C, vi.V))
    BY DEF Numbered
  <2> QED  BY <1>1, <1>3, <2>1 DEF N
<1>6. MadeFor(D, v) = MadeFor(C, v) \cup {vi} /\ vi \notin MadeFor(C, v)
  BY <1>3, <1>5 DEF MadeFor
<1>7. Cardinality(MadeFor(D, v)) = N + 1
  BY <1>1, <1>6, FS_AddElement DEF N
<1>8. Numbered(D)
  <2>1. IsFiniteSet(D) /\ D \subseteq AnyVIs /\ {EL, EA} \subseteq D
    BY <1>3, FS_AddElement DEF Numbered
  <2>2. ASSUME NEW x \in D PROVE x.n < Cardinality(MadeFor(D, x.V))
    <3>1. CASE x.V = v
      <4>1. x \in C => x.n < N
        BY <3>1 DEF Numbered, N
      <4>2. x \in C => x.n \in Nat
        BY DEF Numbered, AnyVIs
      <4> QED  BY <1>1, <1>3, <1>7, <3>1, <4>1, <4>2
    <3>2. CASE x.V # v
      <4>1. x \in C /\ MadeFor(D, x.V) = MadeFor(C, x.V)
        BY <1>3, <3>2 DEF MadeFor
      <4> QED  BY <4>1 DEF Numbered
    <3> QED  BY <3>1, <3>2
  <2> QED  BY <2>1, <2>2 DEF Numbered
<1>9. NewOf(D, v) = ValueInfo(v, vi.n + 1)
  BY <1>3, <1>7 DEF NewOf
<1>10. vi \notin {EL, EA, NoVI}
  BY <1>3, <1>5, TheExternals DEF Numbered
<1> QED  BY <1>3, <1>4, <1>5, <1>8, <1>9, <1>10 DEF vi

-----------------------------------------------------------------------------
(* The relations. *)

(* Which ValueInfos relations define, and which depend on others.          *)
Definitions == {"LOADED_FROM", "RETURNED_FROM_CALLEE", "ARGUMENT_FROM_CALLER"}

Definers(m) ==
    Arguments \cup {NoValue}
        \cup {i \in Instructions : m.opcode[i] \in {"load", "va_arg", "cmpxchg", "atomicrmw", "call"}}

Dependers(m) == Globals \cup Constants \cup {i \in Instructions : m.opcode[i] \in {"phi", "user"}}

RegionsOf(m) == {ValueInfo(g, 0) : g \in DefinedRegions(m)}

Fits(m, R) ==
    /\ EA \notin {R.Src, R.Dst}
    /\ R.type \in Definitions => R.Src.V \in Definers(m) /\ R.Src # EL /\ R.Src # R.Dst
    /\ R.type \in {"RETURNED_TO_CALLER", "ARGUMENT_FROM_CALLER"} => R.Dst \in RegionsOf(m)
    /\ R.type = "DEPENDS_ON" => R.Src = EL \/ (R.Src.V \in Dependers(m) /\ R.Src \notin Regions)

Over(C, R) == R.Src \in C /\ R.Dst \in C

AnyRelations == [type : Arising!RelationTypes, Src : AnyVIs, Dst : AnyVIs]

(* Whether the relations s, over the ValueInfos C, can arise one after     *)
(* another in the module m.                                                *)
First == Len(Arising!createData)

Related(m, s, C) ==
    /\ s \in Seq(AnyRelations) /\ Len(s) >= First
    /\ \A k \in 1 .. First : s[k] = Arising!createData[k]
    /\ \A k \in 1 .. Len(s) : Over(C, s[k])
    /\ \A k \in First + 1 .. Len(s) :
          /\ Fits(m, s[k])
          /\ s[k].type \in Definitions => \A j \in 1 .. k - 1 : s[k].Src \notin {s[j].Src, s[j].Dst}

LEMMA FirstIs ==
    /\ First = 7
    /\ Arising!createData \in Seq(AnyRelations)
    /\ \A k \in 1 .. First : Over({EL, EA}, Arising!createData[k])
    /\ \A k \in 1 .. First : Arising!createData[k].type \in Definitions => Arising!createData[k].Src = EA
<1> DEFINE cd == Arising!createData
           T  == AnyRelations
<1>1. \A t \in Arising!RelationTypes, s, d \in {EL, EA} :
         /\ Arising!Relation(t, s, d) \in AnyRelations
         /\ Over({EL, EA}, Arising!Relation(t, s, d))
         /\ Arising!Relation(t, s, d).type = t /\ Arising!Relation(t, s, d).Src = s
  BY TheExternals DEF Arising!Relation, AnyRelations, Over
<1>2. {"DEPENDS_ON", "ARGUMENT_TO_CALLEE", "LOADED_FROM", "RETURNED_FROM_CALLEE", "STORED_TO",
       "ARGUMENT_FROM_CALLER", "RETURNED_TO_CALLER"} \subseteq Arising!RelationTypes
  BY DEF Arising!RelationTypes
<1>3. cd = <<Arising!Relation("DEPENDS_ON", EA, EL),
             Arising!Relation("ARGUMENT_TO_CALLEE", EA, EA),
             Arising!Relation("LOADED_FROM", EA, EA),
             Arising!Relation("RETURNED_FROM_CALLEE", EA, EA),
             Arising!Relation("STORED_TO", EA, EA),
             Arising!Relation("ARGUMENT_FROM_CALLER", EA, EL),
             Arising!Relation("RETURNED_TO_CALLER", EA, EL)>>
  BY DEF Arising!createData, Arising!EA, Arising!EL
<1> HIDE DEF cd
<1>4. Len(cd) = 7 /\ cd[1] = Arising!Relation("DEPENDS_ON", EA, EL)
      /\ cd[2] = Arising!Relation("ARGUMENT_TO_CALLEE", EA, EA)
      /\ cd[3] = Arising!Relation("LOADED_FROM", EA, EA)
      /\ cd[4] = Arising!Relation("RETURNED_FROM_CALLEE", EA, EA)
      /\ cd[5] = Arising!Relation("STORED_TO", EA, EA)
      /\ cd[6] = Arising!Relation("ARGUMENT_FROM_CALLER", EA, EL)
      /\ cd[7] = Arising!Relation("RETURNED_TO_CALLER", EA, EL)
  BY <1>3
<1>5. \A k \in 1 .. 7 : \E t \in Arising!RelationTypes : \E d \in {EL, EA} : cd[k] = Arising!Relation(t, EA, d)
  <2>1. \A k \in 1 .. 7 : k \in {1, 2, 3, 4, 5, 6, 7}
    OBVIOUS
  <2> QED  BY <1>2, <1>4, <2>1
<1>6. cd \in Seq(AnyRelations)
  <2>1. /\ Arising!Relation("DEPENDS_ON", EA, EL) \in T
        /\ Arising!Relation("ARGUMENT_TO_CALLEE", EA, EA) \in T
        /\ Arising!Relation("LOADED_FROM", EA, EA) \in T
        /\ Arising!Relation("RETURNED_FROM_CALLEE", EA, EA) \in T
        /\ Arising!Relation("STORED_TO", EA, EA) \in T
        /\ Arising!Relation("ARGUMENT_FROM_CALLER", EA, EL) \in T
        /\ Arising!Relation("RETURNED_TO_CALLER", EA, EL) \in T
    BY <1>1, <1>2
  <2> HIDE DEF T
  <2>2. cd \in Seq(T)
    BY <1>3, <2>1
  <2> QED  BY <2>2 DEF T
<1>7. First = 7
  BY <1>4 DEF First, cd
<1>8. \A k \in 1 .. First : Over({EL, EA}, cd[k])
  BY <1>1, <1>5, <1>7
<1>9. \A k \in 1 .. First : cd[k].Src = EA
  BY <1>1, <1>5, <1>7
<1> QED  BY <1>6, <1>7, <1>8, <1>9 DEF cd

-----------------------------------------------------------------------------
(* How relations are added.                                                *)

(* Relations over D that define nothing. *)
Plain(m, D) == {R \in AnyRelations : Fits(m, R) /\ Over(D, R) /\ R.type \notin Definitions}

(* The relations of s, over C, go on with those of t, over D. *)
LEMMA RelatedMore ==
    ASSUME NEW m, NEW C, NEW D, C \subseteq D, NEW s, Related(m, s, C), NEW t \in Seq(AnyRelations),
           \A k \in 1 .. Len(t) : /\ Fits(m, t[k]) /\ Over(D, t[k])
                                  /\ t[k].type \in Definitions => k = 1 /\ t[k].Src \notin C
    PROVE  Related(m, s \o t, D)
<1> DEFINE T == AnyRelations
           u == s \o t
<1>1. s \in Seq(T) /\ t \in Seq(T) /\ First = 7 /\ Len(s) >= First
  BY FirstIs DEF Related
<1> HIDE DEF T
<1>2. PICK a \in Nat, b \in Nat : Len(s) = a /\ Len(t) = b
  BY <1>1, LenProperties
<1>3. /\ u \in Seq(T) /\ Len(u) = a + b
      /\ \A k \in 1 .. a + b : u[k] = IF k <= a THEN s[k] ELSE t[k - a]
  BY <1>1, <1>2, ConcatProperties
<1>4. ASSUME NEW k \in 1 .. a + b
      PROVE  \/ k \in 1 .. a /\ u[k] = s[k]
             \/ k - a \in 1 .. b /\ k > a /\ u[k] = t[k - a]
  BY <1>2, <1>3
<1>5. \A k \in 1 .. a : u[k] = s[k]
  BY <1>2, <1>3
<1> HIDE DEF u
<1>6. \A k \in 1 .. First : u[k] = Arising!createData[k]
  <2>1. \A k \in 1 .. First : k \in 1 .. a /\ s[k] = Arising!createData[k]
    BY <1>1, <1>2 DEF Related
  <2> QED  BY <1>5, <2>1
<1>7. \A k \in 1 .. a : Over(C, s[k])
  BY <1>2 DEF Related
<1>8. \A k \in 1 .. a + b : Over(D, u[k])
  BY <1>2, <1>4, <1>7 DEF Over
<1>9. ASSUME NEW k \in First + 1 .. a + b
      PROVE  /\ Fits(m, u[k])
             /\ u[k].type \in Definitions => \A j \in 1 .. k - 1 : u[k].Src \notin {u[j].Src, u[j].Dst}
  <2>1. k \in 1 .. a + b
    BY <1>1, <1>2
  <2>2. CASE k \in 1 .. a /\ u[k] = s[k]
    <3>1. /\ Fits(m, s[k])
          /\ s[k].type \in Definitions => \A j \in 1 .. k - 1 : s[k].Src \notin {s[j].Src, s[j].Dst}
      BY <1>1, <1>2, <2>2 DEF Related
    <3>2. \A j \in 1 .. k - 1 : j \in 1 .. a
      BY <1>2, <2>2
    <3> QED  BY <1>5, <2>2, <3>1, <3>2
  <2>3. CASE k - a \in 1 .. b /\ k > a /\ u[k] = t[k - a]
    <3>1. Fits(m, u[k])
      BY <1>2, <2>3
    <3>2. ASSUME u[k].type \in Definitions, NEW j \in 1 .. k - 1
          PROVE  u[k].Src \notin {u[j].Src, u[j].Dst}
      <4>1. k - a = 1 /\ u[k].Src \notin C
        BY <1>2, <2>3, <3>2
      <4>2. j \in 1 .. a
        BY <1>2, <2>3, <4>1
      <4>3. u[j].Src \in C /\ u[j].Dst \in C
        BY <1>5, <1>7, <4>2 DEF Over
      <4> QED  BY <4>1, <4>3
    <3> QED  BY <3>1, <3>2
  <2> QED  BY <1>4, <2>1, <2>2, <2>3
<1>10. Len(u) >= First
  BY <1>1, <1>2, <1>3
<1> QED  BY <1>3, <1>6, <1>8, <1>9, <1>10 DEF Related, u, T

LEMMA RelatedPlain ==
    ASSUME NEW m, NEW C, NEW D, C \subseteq D, NEW s, Related(m, s, C), NEW t \in Seq(Plain(m, D))
    PROVE  Related(m, s \o t, D)
<1>1. Plain(m, D) \subseteq AnyRelations
  BY DEF Plain
<1>2. t \in Seq(AnyRelations)
  BY <1>1, SeqMonotonic
<1>3. \A k \in 1 .. Len(t) : t[k] \in Plain(m, D)
  BY ElementOfSeq
<1>4. \A k \in 1 .. Len(t) : Fits(m, t[k]) /\ Over(D, t[k]) /\ t[k].type \notin Definitions
  BY <1>3 DEF Plain
<1> QED  BY <1>2, <1>4, RelatedMore

(* One of the new relations defines what is new. *)
LEMMA RelatedDefinition ==
    ASSUME NEW m, NEW C, NEW D, C \subseteq D, NEW s, Related(m, s, C),
           NEW before \in Seq(Plain(m, C)), NEW after \in Seq(Plain(m, D)),
           NEW R \in AnyRelations, Fits(m, R), Over(D, R), R.Src \notin C
    PROVE  Related(m, s \o (before \o <<R>> \o after), D)
<1> DEFINE T == AnyRelations
<1>1. s \in Seq(T) /\ before \in Seq(T) /\ after \in Seq(T)
  <2>1. Plain(m, C) \subseteq T /\ Plain(m, D) \subseteq T
    BY DEF Plain
  <2> HIDE DEF T
  <2>2. before \in Seq(T) /\ after \in Seq(T)
    BY <2>1, SeqMonotonic
  <2> QED  BY <2>2 DEF Related, T
<1>2. <<R>> \in Seq(T) /\ Len(<<R>>) = 1 /\ <<R>>[1] = R
  OBVIOUS
<1> HIDE DEF T
<1>3. Related(m, s \o before, C)
  BY RelatedPlain
<1>4. \A k \in 1 .. Len(<<R>>) : k = 1 /\ <<R>>[k] = R
  BY <1>2
<1>5. Related(m, (s \o before) \o <<R>>, D)
  BY <1>2, <1>3, <1>4, RelatedMore DEF T
<1>6. Related(m, ((s \o before) \o <<R>>) \o after, D)
  BY <1>5, RelatedPlain
<1>7. before \o <<R>> \in Seq(T)
  BY <1>1, <1>2, ConcatProperties
<1>8. s \o (before \o <<R>> \o after) = ((s \o before) \o <<R>>) \o after
  <2>1. s \o ((before \o <<R>>) \o after) = (s \o (before \o <<R>>)) \o after
    BY <1>1, <1>7, ConcatAssociative
  <2>2. s \o (before \o <<R>>) = (s \o before) \o <<R>>
    BY <1>1, <1>2, ConcatAssociative
  <2> QED  BY <2>1, <2>2
<1> QED  BY <1>6, <1>8

(* What a relation defines is not what depends on others, and neither is a *)
(* region.                                                                 *)
LEMMA DefinersAndDependers ==
    ASSUME NEW m \in ModulesToRun
    PROVE  /\ Definers(m) \cap Dependers(m) = {}
           /\ \A g \in GlobalVariables \cup Functions \cup Allocas : g \notin Definers(m)
           /\ RegionsOf(m) \subseteq Regions \ {EL}
<1>1. \A i \in Instructions : m.opcode[i] = "alloca" <=> i \in Allocas
  BY ModuleType DEF WellFormed, WellTyped
<1>2. /\ Globals \cap (Arguments \cup Instructions) = {} /\ Constants \cap (Arguments \cup Instructions) = {}
      /\ Arguments \cap Instructions = {} /\ Globals = GlobalVariables \cup GlobalAliases \cup Functions
  BY KindsAssumption DEF Globals
<1>3. NoValue \notin Globals \cup Constants \cup Arguments \cup Instructions
  BY NoValueAssumption DEF Values
<1>4. Definers(m) \cap Dependers(m) = {}
  BY <1>2, <1>3 DEF Definers, Dependers
<1>5. \A g \in GlobalVariables \cup Functions \cup Allocas : g \notin Definers(m)
  BY <1>1, <1>2, <1>3, AllocasAssumption DEF Definers
<1>6. RegionsOf(m) \subseteq Regions
  BY DEF RegionsOf, Regions, DefinedRegions
<1>7. EL \notin RegionsOf(m)
  <2>1. \A g \in DefinedRegions(m) : ValueInfo(g, 0).V = g /\ g \in Globals
    BY <1>2 DEF ValueInfo, DefinedRegions
  <2> QED  BY <1>3, <2>1, TheExternals DEF RegionsOf
<1> QED  BY <1>4, <1>5, <1>6, <1>7

LEMMA RelatedArise ==
    ASSUME M \in ModulesToRun, created \subseteq VIs, Related(M, relations, created),
           NEW k \in Len(Arising!createData) + 1 .. Len(relations)
    PROVE  Arising!Arises(ToSet(SubSeq(relations, 1, k - 1)), relations[k])
<1> DEFINE R    == relations[k]
           rels == ToSet(SubSeq(relations, 1, k - 1))
<1>1. k \in First + 1 .. Len(relations)
  BY DEF First
<1>2. First = 7 /\ Len(relations) \in Nat /\ relations \in Seq(AnyRelations) /\ k \in 1 .. Len(relations)
  <2>1. relations \in Seq(AnyRelations) /\ First = 7
    BY FirstIs DEF Related
  <2> QED  BY <1>1, <2>1, LenProperties
<1>3. /\ Fits(M, R) /\ Over(created, R)
      /\ R.type \in Definitions => \A j \in 1 .. k - 1 : R.Src \notin {relations[j].Src, relations[j].Dst}
  BY <1>1, <1>2 DEF Related
<1>4. \A Q \in rels : \E j \in 1 .. k - 1 : Q = relations[j]
  <2>1. k - 1 \in 0 .. Len(relations)
    BY <1>2
  <2>2. /\ DOMAIN SubSeq(relations, 1, k - 1) = 1 .. k - 1
        /\ \A j \in 1 .. k - 1 : SubSeq(relations, 1, k - 1)[j] = relations[j]
    BY <1>2, <2>1, PrefixProperties
  <2> QED  BY <2>2 DEF ToSet
<1>5. \A Q \in rels : Q.type \in Definitions => Q.Src = EA \/ Q.Src.V \in Definers(M)
  <2>1. ASSUME NEW j \in 1 .. k - 1, relations[j].type \in Definitions
        PROVE  relations[j].Src = EA \/ relations[j].Src.V \in Definers(M)
    <3>1. CASE j \in 1 .. First
      <4>1. relations[j] = Arising!createData[j]
        BY <3>1 DEF Related
      <4> QED  BY <2>1, <3>1, <4>1, FirstIs
    <3>2. CASE j \notin 1 .. First
      <4>1. j \in First + 1 .. Len(relations)
        BY <1>2, <3>2
      <4> QED  BY <2>1, <4>1 DEF Related, Fits
    <3> QED  BY <3>1, <3>2
  <2> QED  BY <1>4, <2>1
<1> HIDE DEF R, rels
<1>6. R.Src \in VIs /\ R.Dst \in VIs /\ EA \notin {R.Src, R.Dst} /\ R.type \in Arising!RelationTypes
  <2>1. R \in AnyRelations
    BY <1>2, ElementOfSeq DEF R
  <2> QED  BY <1>3, <2>1 DEF Over, Fits, AnyRelations
<1>7. ASSUME R.type \in Definitions
      PROVE  Arising!OwnValue(R.Src) /\ R.Dst # R.Src /\ ~Arising!Mentioned(rels, R.Src)
  <2>1. R.Src.V \in Definers(M) /\ R.Src # EL /\ R.Src # R.Dst
    BY <1>3, <1>7 DEF Fits
  <2>2. R.Src \notin Regions
    <3>1. \A g : ValueInfo(g, 0).V = g
      BY DEF ValueInfo
    <3> QED  BY <2>1, <3>1, DefinersAndDependers DEF Regions
  <2>3. ~Arising!Mentioned(rels, R.Src)
    <3>1. \A j \in 1 .. k - 1 : R.Src \notin {relations[j].Src, relations[j].Dst}
      BY <1>3, <1>7
    <3> QED  BY <1>4, <3>1 DEF Arising!Mentioned
  <2> QED  BY <1>6, <2>1, <2>2, <2>3 DEF Arising!OwnValue, Arising!EA
<1>8. ASSUME R.type \in {"RETURNED_TO_CALLER", "ARGUMENT_FROM_CALLER"}
      PROVE  Arising!OwnRegion(R.Dst)
  <2>1. R.Dst \in RegionsOf(M)
    BY <1>3, <1>8 DEF Fits
  <2> QED  BY <2>1, DefinersAndDependers DEF Arising!OwnRegion, Arising!EL
<1>9. ASSUME R.type = "DEPENDS_ON"
      PROVE  R.Src = Arising!EL \/ (Arising!OwnValue(R.Src) /\ ~Arising!Defined(rels, R.Src))
  <2>1. R.Src = EL \/ (R.Src.V \in Dependers(M) /\ R.Src \notin Regions)
    BY <1>3, <1>9 DEF Fits
  <2>2. ~(R.Src.V \in Dependers(M) /\ Arising!Defined(rels, R.Src))
    <3>1. \A Q \in rels : Q.type \in Definitions => Q.Src # R.Src \/ R.Src.V \in Definers(M)
      BY <1>5, <1>6
    <3> QED  BY <3>1, DefinersAndDependers DEF Arising!Defined, Definitions
  <2> QED  BY <1>6, <2>1, <2>2 DEF Arising!OwnValue, Arising!EA, Arising!EL
<1>10. Arising!Arises(rels, R)
  <2>1. R.type \in {"LOADED_FROM", "RETURNED_FROM_CALLEE"} => R.type \in Definitions
    BY DEF Definitions
  <2>2. R.type = "ARGUMENT_FROM_CALLER" => R.type \in Definitions
    BY DEF Definitions
  <2> QED  BY <1>6, <1>7, <1>8, <1>9, <2>1, <2>2 DEF Arising!Arises, Arising!EA
<1> QED  BY <1>10 DEF R, rels

-----------------------------------------------------------------------------
(* What Data holds.                                                        *)

(* What analyzeValue returns: never what external code can access.         *)
Handed(C) == (C \ {EA}) \cup {NoVI}

(* The entry of v is a ValueInfo that was made for it. *)
Owns(v) == v \in Known /\ ValueInfos[v] # NoVI /\ ValueInfos[v].V = v

(* Globals, and parts of them, point to something. *)
Cached ==
    /\ Known \subseteq Values
    /\ \A v \in Known :
          /\ ValueInfos[v] \in Handed(created)
          /\ IsAddress(M, v) => ValueInfos[v] # NoVI
          /\ v \in GlobalAliases => Owns(v)
    /\ \A vi \in created : vi.V \in Globals => vi.V \in Known

RegionsMade ==
    /\ DOMAIN GlobalRegionInfos = DefinedRegions(M) \cap Known
    /\ \A q \in DOMAIN GlobalRegionInfos :
          GlobalRegionInfos[q] = ValueInfo(q, 0) /\ ValueInfo(q, 0) \in created

AnonymousKept ==
    /\ AnonymousValueInfos \in Seq(created)
    /\ \A k \in DOMAIN AnonymousValueInfos :
          /\ AnonymousValueInfos[k].V = NoValue /\ AnonymousValueInfos[k] \notin {EL, EA}
          /\ \A j \in DOMAIN AnonymousValueInfos : AnonymousValueInfos[j] = AnonymousValueInfos[k] => j = k

(* A reference to vi is kept. *)
Account(vi) ==
    \/ vi \in {EL, EA}
    \/ vi \in ToSet(AnonymousValueInfos)
    \/ vi.V \in Known /\ ValueInfos[vi.V] = vi
    \/ vi.V \in DOMAIN GlobalRegionInfos /\ GlobalRegionInfos[vi.V] = vi

NoCircles(m) == \A q \in Constants : ~MentionsItself(m, q)

Accounted == NoCircles(M) => \A vi \in created : Account(vi)

Filled == Numbered(created) /\ Cached /\ RegionsMade /\ AnonymousKept /\ Accounted

(* What is known stays known, and all but constants for what it was. *)
Kept ==
    /\ M' = M /\ created \subseteq created' /\ Known \subseteq Known'
    /\ \A v \in Known : v \notin Constants => ValueInfos'[v] = ValueInfos[v]

LEMMA CacheIs ==
    ASSUME NEW v, NEW vi, cache(v, vi)
    PROVE  /\ Known' = Known \cup {v} /\ ValueInfos'[v] = vi
           /\ \A w \in Known : w # v => ValueInfos'[w] = ValueInfos[w]
<1>1. ValueInfos' = [w \in DOMAIN ValueInfos \cup {v} |-> IF w = v THEN vi ELSE ValueInfos[w]]
  BY DEF cache, With
<1> QED  BY <1>1 DEF Known

LEMMA FilledAtFirst ==
    ASSUME Init
    PROVE  Filled /\ Related(M, relations, created)
<1>1. /\ M \in ModulesToRun /\ ValueInfos = <<>> /\ GlobalRegionInfos = <<>> /\ AnonymousValueInfos = <<>>
      /\ created = {EL, EA} /\ relations = Arising!createData
  BY DEF Init
<1>2. Known = {} /\ DOMAIN GlobalRegionInfos = {} /\ DOMAIN AnonymousValueInfos = {}
      /\ AnonymousValueInfos \in Seq(created)
  BY <1>1 DEF Known
<1>3. Cached
  <2>1. NoValue \notin Globals
    BY NoValueAssumption, UserKinds
  <2> QED  BY <1>1, <1>2, <2>1, TheExternals DEF Cached
<1>4. RegionsMade /\ AnonymousKept /\ Accounted
  BY <1>1, <1>2 DEF RegionsMade, AnonymousKept, Accounted, Account
<1>5. Related(M, relations, created)
  <2>1. \A k \in First + 1 .. First : FALSE
    BY FirstIs
  <2> QED  BY <1>1, <2>1, FirstIs DEF Related, First
<1> QED  BY <1>1, <1>3, <1>4, <1>5, NumberedAtFirst DEF Filled

(* An entry for v that is not new. *)
LEMMA CacheStep ==
    ASSUME Filled, M' = M, NEW v \in Values, v \notin DefinedRegions(M), v \notin GlobalAliases,
           v \in Known => v \in Constants /\ MentionsItself(M, v),
           NEW vi \in Handed(created), IsAddress(M, v) => vi # NoVI,
           cache(v, vi), created' = created,
           GlobalRegionInfos' = GlobalRegionInfos, AnonymousValueInfos' = AnonymousValueInfos
    PROVE  Filled' /\ Kept
<1>1. /\ Known' = Known \cup {v} /\ ValueInfos'[v] = vi
      /\ \A w \in Known : w # v => ValueInfos'[w] = ValueInfos[w]
  BY CacheIs
<1>2. Numbered(created) /\ Cached /\ RegionsMade /\ AnonymousKept /\ Accounted
  BY DEF Filled
<1>3. Cached'
  <2>1. \A w \in Known : w # v => (w \in GlobalAliases => Owns(w)')
    BY <1>1, <1>2 DEF Cached, Owns
  <2>2. \A w \in Known' : /\ ValueInfos'[w] \in Handed(created)
                          /\ IsAddress(M, w) => ValueInfos'[w] # NoVI
    BY <1>1, <1>2 DEF Cached
  <2>3. Known' \subseteq Values /\ \A x \in created : x.V \in Globals => x.V \in Known'
    BY <1>1, <1>2 DEF Cached
  <2> QED  BY <1>1, <2>1, <2>2, <2>3 DEF Cached
<1>4. RegionsMade' /\ AnonymousKept'
  BY <1>1, <1>2 DEF RegionsMade, AnonymousKept
<1>5. Accounted'
  <2>1. ASSUME NoCircles(M), NEW x \in created
        PROVE  Account(x)'
    <3>1. v \notin Known /\ Account(x)
      BY <1>2, <2>1 DEF NoCircles, Accounted
    <3> QED  BY <1>1, <3>1 DEF Account
  <2> QED  BY <2>1 DEF Accounted
<1>6. Kept
  BY <1>1 DEF Kept
<1> QED  BY <1>2, <1>3, <1>4, <1>5, <1>6 DEF Filled

(* An entry for v that is new. *)
LEMMA CacheNewStep ==
    ASSUME Filled, M' = M, NEW v \in Values, v \notin DefinedRegions(M),
           v \in Known => v \in Constants /\ MentionsItself(M, v),
           cacheNewValueInfo(v),
           GlobalRegionInfos' = GlobalRegionInfos, AnonymousValueInfos' = AnonymousValueInfos
    PROVE  /\ Filled' /\ Kept
           /\ NewValueInfo(v) = NewOf(created, v)
           /\ created' = created \cup {NewOf(created, v)}
           /\ Owns(v)'
<1> DEFINE vi == NewOf(created, v)
<1>1. NewValueInfo(v) = vi
  BY DEF NewValueInfo, NewOf, MadeFor
<1> HIDE DEF vi
<1>2. Numbered(created) /\ Cached /\ RegionsMade /\ AnonymousKept /\ Accounted
  BY DEF Filled
<1>3. /\ vi.V = v /\ vi \notin created /\ vi \notin {EL, EA, NoVI} /\ Numbered(created \cup {vi})
  BY <1>2, NewIsNew DEF vi
<1>4. created' = created \cup {vi}
  BY <1>1 DEF cacheNewValueInfo, Create
<1>5. /\ Known' = Known \cup {v} /\ ValueInfos'[v] = vi
      /\ \A w \in Known : w # v => ValueInfos'[w] = ValueInfos[w]
  <2>1. cache(v, vi)
    BY <1>1 DEF cacheNewValueInfo
  <2> QED  BY <2>1, CacheIs
<1>6. Owns(v)'
  BY <1>3, <1>5 DEF Owns
<1>7. Cached'
  <2>1. \A w \in Known : w # v => (w \in GlobalAliases => Owns(w)')
    BY <1>2, <1>5 DEF Cached, Owns
  <2>2. \A w \in Known' : /\ ValueInfos'[w] \in Handed(created')
                          /\ IsAddress(M, w) => ValueInfos'[w] # NoVI
    BY <1>2, <1>3, <1>4, <1>5 DEF Cached, Handed
  <2>3. Known' \subseteq Values /\ \A x \in created' : x.V \in Globals => x.V \in Known'
    BY <1>2, <1>3, <1>4, <1>5 DEF Cached
  <2> QED  BY <1>5, <1>6, <2>1, <2>2, <2>3 DEF Cached
<1>8. RegionsMade'
  BY <1>2, <1>4, <1>5 DEF RegionsMade
<1>9. AnonymousKept'
  BY <1>2, <1>4, SeqMonotonic DEF AnonymousKept
<1>10. Accounted'
  <2>1. ASSUME NoCircles(M), NEW x \in created'
        PROVE  Account(x)'
    <3>1. CASE x = vi
      BY <1>3, <1>5, <3>1 DEF Account
    <3>2. CASE x # vi
      <4>1. v \notin Known /\ Account(x)
        BY <1>2, <1>4, <2>1, <3>2 DEF NoCircles, Accounted
      <4> QED  BY <1>5, <4>1 DEF Account
    <3> QED  BY <3>1, <3>2
  <2> QED  BY <2>1 DEF Accounted
<1>11. Kept
  BY <1>4, <1>5 DEF Kept
<1>12. Filled'
  BY <1>3, <1>4, <1>7, <1>8, <1>9, <1>10 DEF Filled
<1> QED  BY <1>1, <1>4, <1>6, <1>11, <1>12 DEF vi

(* The relations that handlers come up with. *)
LEMMA RelationFields ==
    ASSUME NEW t, NEW s, NEW d
    PROVE  /\ Relation(t, s, d).type = t /\ Relation(t, s, d).Src = s /\ Relation(t, s, d).Dst = d
           /\ t \in Arising!RelationTypes /\ s \in AnyVIs /\ d \in AnyVIs => Relation(t, s, d) \in AnyRelations
BY DEF Relation, PT!Relation, AnyRelations

LEMMA RelationNames ==
    {"DEPENDS_ON", "ARGUMENT_TO_CALLEE", "LOADED_FROM", "RETURNED_FROM_CALLEE", "STORED_TO",
     "ARGUMENT_FROM_CALLER", "RETURNED_TO_CALLER"} \subseteq Arising!RelationTypes
BY DEF Arising!RelationTypes

LEMMA PlainRelations ==
    ASSUME NEW m, NEW D, D \subseteq AnyVIs, NEW s \in D, NEW d \in D, EA \notin {s, d}
    PROVE  /\ Relation("STORED_TO", s, d) \in Plain(m, D)
           /\ Relation("ARGUMENT_TO_CALLEE", s, d) \in Plain(m, D)
           /\ s = EL \/ (s.V \in Dependers(m) /\ s \notin Regions) => Relation("DEPENDS_ON", s, d) \in Plain(m, D)
           /\ d \in RegionsOf(m) => Relation("RETURNED_TO_CALLER", s, d) \in Plain(m, D)
<1>1. s \in AnyVIs /\ d \in AnyVIs
  OBVIOUS
<1>2. Relation("STORED_TO", s, d) \in Plain(m, D)
  BY <1>1, RelationFields, RelationNames DEF Plain, Fits, Over, Definitions
<1>3. Relation("ARGUMENT_TO_CALLEE", s, d) \in Plain(m, D)
  BY <1>1, RelationFields, RelationNames DEF Plain, Fits, Over, Definitions
<1>4. s = EL \/ (s.V \in Dependers(m) /\ s \notin Regions) => Relation("DEPENDS_ON", s, d) \in Plain(m, D)
  BY <1>1, RelationFields, RelationNames DEF Plain, Fits, Over, Definitions
<1>5. d \in RegionsOf(m) => Relation("RETURNED_TO_CALLER", s, d) \in Plain(m, D)
  BY <1>1, RelationFields, RelationNames DEF Plain, Fits, Over, Definitions
<1> QED  BY <1>2, <1>3, <1>4, <1>5

(* What is new is defined by the relations of memory and parameters. *)
LEMMA DefiningRelations ==
    ASSUME NEW m, NEW C, Numbered(C), NEW v \in Definers(m) \cap (Values \cup {NoValue}), NEW d \in C \ {EA},
           NEW t \in Definitions, t = "ARGUMENT_FROM_CALLER" => d \in RegionsOf(m)
    PROVE  LET R == Relation(t, NewOf(C, v), d)
           IN  R \in AnyRelations /\ Fits(m, R) /\ Over(C \cup {NewOf(C, v)}, R) /\ R.Src \notin C
<1> DEFINE s == NewOf(C, v)
           R == Relation(t, s, d)
<1>1. s \in AnyVIs /\ s.V = v /\ s \notin C /\ s \notin {EL, EA, NoVI}
  BY NewIsNew
<1>2. d \in AnyVIs /\ d # s /\ d # EA
  BY <1>1 DEF Numbered
<1>3. t \in Arising!RelationTypes /\ t # "DEPENDS_ON" /\ t # "RETURNED_TO_CALLER"
  BY RelationNames DEF Definitions
<1> HIDE DEF s
<1>4. R.type = t /\ R.Src = s /\ R.Dst = d /\ R \in AnyRelations
  BY <1>1, <1>2, <1>3, RelationFields
<1> HIDE DEF R
<1>5. Fits(m, R) /\ Over(C \cup {s}, R) /\ R.Src \notin C
  BY <1>1, <1>2, <1>3, <1>4 DEF Fits, Over
<1> QED  BY <1>4, <1>5 DEF R, s

(* A region is made, and a symbol if others can override its definition. *)
LEMMA MakeGlobalStep ==
    ASSUME Filled, Related(M, relations, created), M' = M, AnonymousValueInfos' = AnonymousValueInfos,
           NEW v \in DefinedRegions(M), v \notin Known, MakeGlobal(v)
    PROVE  Filled' /\ Kept /\ Related(M, relations', created')
<1> DEFINE Region == NewOf(created, v)
           Symbol == NewOf(created \cup {Region}, v)
           Weak   == mayBeOverridden(M, v)
           vi     == IF Weak THEN Symbol ELSE Region
           More   == IF Weak THEN {Region, Symbol} ELSE {Region}
<1>1. Numbered(created) /\ Cached /\ RegionsMade /\ AnonymousKept /\ Accounted
  BY DEF Filled
<1>2. v \in Globals /\ v \in Values /\ v \notin GlobalAliases /\ v # NoValue
  <2>1. v \in GlobalVariables \cup Functions
    BY DEF DefinedRegions
  <2> QED  BY <2>1, UserKinds, KindsAssumption, NoValueAssumption DEF Globals
<1>3. MadeFor(created, v) = {}
  BY <1>1, <1>2 DEF Cached, MadeFor
<1>4. /\ Region = ValueInfo(v, 0) /\ Region.V = v /\ Region \in AnyVIs
      /\ Region \notin created /\ Region \notin {EL, EA, NoVI} /\ Numbered(created \cup {Region})
      /\ Symbol = ValueInfo(v, Region.n + 1)
  BY <1>1, <1>2, <1>3, NewIsNew
<1>5. /\ Symbol.V = v /\ Symbol \in AnyVIs
      /\ Symbol \notin created /\ Symbol # Region /\ Symbol \notin {EL, EA, NoVI}
      /\ Numbered((created \cup {Region}) \cup {Symbol})
  BY <1>2, <1>4, NewIsNew
<1>6. Region.n = 0 /\ Symbol.n = 1
  BY <1>4 DEF ValueInfo
<1>7. NewValueInfo(v) = Region
  BY DEF NewValueInfo, NewOf, MadeFor
<1> HIDE DEF Region, Symbol
<1>8. /\ GlobalRegionInfos' = With(GlobalRegionInfos, v, Region)
      /\ created' = created \cup More
      /\ cache(v, vi)
      /\ relations' = relations \o If(Weak, <<Relation("DEPENDS_ON", Symbol, Region), Relation("DEPENDS_ON", Symbol, EL)>>)
  BY <1>4, <1>7 DEF MakeGlobal, handle
<1> HIDE DEF Weak
<1>9. Numbered(created')
  <2>1. (created \cup {Region}) \cup {Symbol} = created \cup {Region, Symbol}
    OBVIOUS
  <2> QED  BY <1>4, <1>5, <1>8, <2>1
<1>10. vi.V = v /\ vi \in More /\ vi \notin {EL, EA, NoVI} /\ Region \in More
  BY <1>4, <1>5
<1>11. \A x \in More : x.V = v /\ (x = vi \/ x = Region)
  BY <1>4, <1>5
<1> HIDE DEF vi, More
<1>12. /\ Known' = Known \cup {v} /\ ValueInfos'[v] = vi
       /\ \A w \in Known : w # v => ValueInfos'[w] = ValueInfos[w]
  BY <1>8, CacheIs
<1>13. /\ DOMAIN GlobalRegionInfos' = DOMAIN GlobalRegionInfos \cup {v} /\ GlobalRegionInfos'[v] = Region
       /\ \A w \in DOMAIN GlobalRegionInfos : w # v => GlobalRegionInfos'[w] = GlobalRegionInfos[w]
  <2>1. GlobalRegionInfos' =
           [w \in DOMAIN GlobalRegionInfos \cup {v} |-> IF w = v THEN Region ELSE GlobalRegionInfos[w]]
    BY <1>8 DEF With
  <2> QED  BY <2>1
<1>14. Cached'
  <2>1. \A w \in Known : w # v => (w \in GlobalAliases => Owns(w)')
    BY <1>1, <1>12 DEF Cached, Owns
  <2>2. \A w \in Known' : /\ ValueInfos'[w] \in Handed(created')
                          /\ IsAddress(M, w) => ValueInfos'[w] # NoVI
    BY <1>1, <1>8, <1>10, <1>12 DEF Cached, Handed
  <2>3. Known' \subseteq Values /\ \A x \in created' : x.V \in Globals => x.V \in Known'
    BY <1>1, <1>2, <1>8, <1>11, <1>12 DEF Cached
  <2> QED  BY <1>2, <1>12, <2>1, <2>2, <2>3 DEF Cached
<1>15. RegionsMade'
  <2>1. DOMAIN GlobalRegionInfos' = DefinedRegions(M) \cap Known'
    BY <1>1, <1>12, <1>13 DEF RegionsMade
  <2>2. \A q \in DOMAIN GlobalRegionInfos' :
           GlobalRegionInfos'[q] = ValueInfo(q, 0) /\ ValueInfo(q, 0) \in created'
    BY <1>1, <1>4, <1>8, <1>10, <1>13 DEF RegionsMade
  <2> QED  BY <2>1, <2>2 DEF RegionsMade
<1>16. AnonymousKept'
  BY <1>1, <1>8, SeqMonotonic DEF AnonymousKept
<1>17. Accounted'
  <2>1. ASSUME NoCircles(M), NEW x \in created'
        PROVE  Account(x)'
    <3>1. CASE x \in More
      <4>1. x.V = v /\ (x = vi \/ x = Region)
        BY <1>11, <3>1
      <4> QED  BY <1>12, <1>13, <4>1 DEF Account
    <3>2. CASE x \notin More
      <4>1. Account(x) /\ v \notin DOMAIN GlobalRegionInfos
        BY <1>1, <1>8, <2>1, <3>2 DEF Accounted, RegionsMade
      <4> QED  BY <1>12, <1>13, <4>1 DEF Account
    <3> QED  BY <3>1, <3>2
  <2> QED  BY <2>1 DEF Accounted
<1>18. Kept
  BY <1>8, <1>12 DEF Kept
<1>19. Related(M, relations', created')
  <2>1. CASE Weak
    <3> DEFINE P == Plain(M, created')
    <3>1. {Symbol, Region, EL} \subseteq created' /\ created' \subseteq AnyVIs
      BY <1>8, <1>9, <2>1 DEF More, Numbered
    <3>2. Symbol.V \in Dependers(M) /\ Symbol \notin Regions /\ EA \notin {Symbol, Region, EL}
      <4>1. \A x \in Regions : x.n = 0
        BY TheExternals DEF Regions, ValueInfo
      <4> QED  BY <1>2, <1>4, <1>5, <1>6, <4>1, TheExternals DEF Dependers
    <3>3. Relation("DEPENDS_ON", Symbol, Region) \in P /\ Relation("DEPENDS_ON", Symbol, EL) \in P
      BY <3>1, <3>2, PlainRelations
    <3> HIDE DEF P
    <3>4. <<Relation("DEPENDS_ON", Symbol, Region), Relation("DEPENDS_ON", Symbol, EL)>> \in Seq(P)
      BY <3>3
    <3> QED  BY <1>8, <2>1, <3>4, RelatedPlain DEF If, P
  <2>2. CASE ~Weak
    <3>1. <<>> \in Seq(Plain(M, created'))
      OBVIOUS
    <3> QED  BY <1>8, <2>2, <3>1, RelatedPlain DEF If
  <2> QED  BY <2>1, <2>2
<1> QED  BY <1>9, <1>14, <1>15, <1>16, <1>17, <1>18, <1>19 DEF Filled

(* An anonymous ValueInfo is made. *)
LEMMA AnonymousStep ==
    ASSUME Filled, M' = M, createAnonymousValueInfo,
           ValueInfos' = ValueInfos, GlobalRegionInfos' = GlobalRegionInfos
    PROVE  /\ Filled' /\ Kept
           /\ NewValueInfo(NoValue) = NewOf(created, NoValue)
           /\ created' = created \cup {NewOf(created, NoValue)}
<1> DEFINE vi == NewOf(created, NoValue)
<1>1. Numbered(created) /\ Cached /\ RegionsMade /\ AnonymousKept /\ Accounted
  BY DEF Filled
<1>2. NewValueInfo(NoValue) = vi
  BY DEF NewValueInfo, NewOf, MadeFor
<1>3. /\ vi.V = NoValue /\ vi \notin created /\ vi \notin {EL, EA, NoVI} /\ Numbered(created \cup {vi})
  BY <1>1, NewIsNew
<1> HIDE DEF vi
<1>4. created' = created \cup {vi} /\ AnonymousValueInfos' = Append(AnonymousValueInfos, vi)
  BY <1>2 DEF createAnonymousValueInfo, Create
<1>5. Known' = Known
  BY DEF Known
<1>6. Cached'
  <2>1. NoValue \notin Globals
    BY NoValueAssumption, UserKinds
  <2> QED  BY <1>1, <1>3, <1>4, <1>5, <2>1 DEF Cached, Owns, Handed
<1>7. RegionsMade'
  BY <1>1, <1>4, <1>5 DEF RegionsMade
<1>8. AnonymousValueInfos \in Seq(created') /\ vi \in created'
  <2>1. AnonymousValueInfos \in Seq(created) /\ created \subseteq created'
    BY <1>1, <1>4 DEF AnonymousKept
  <2> QED  BY <1>4, <2>1, SeqMonotonic
<1>9. PICK n \in Nat : Len(AnonymousValueInfos) = n /\ DOMAIN AnonymousValueInfos = 1 .. n
  BY <1>8, LenProperties
<1>10. /\ AnonymousValueInfos' \in Seq(created') /\ Len(AnonymousValueInfos') = n + 1
       /\ \A k \in 1 .. n : AnonymousValueInfos'[k] = AnonymousValueInfos[k]
       /\ AnonymousValueInfos'[n + 1] = vi
  BY <1>4, <1>8, <1>9, AppendProperties
<1>11. DOMAIN AnonymousValueInfos' = 1 .. n + 1
  BY <1>10, LenProperties
<1>12. \A k \in 1 .. n : AnonymousValueInfos[k] # vi
  <2>1. \A k \in 1 .. n : AnonymousValueInfos[k] \in created
    BY <1>1, <1>9, ElementOfSeq DEF AnonymousKept
  <2> QED  BY <1>3, <2>1
<1>13. AnonymousKept'
  <2>1. ASSUME NEW k \in 1 .. n + 1
        PROVE  /\ AnonymousValueInfos'[k].V = NoValue /\ AnonymousValueInfos'[k] \notin {EL, EA}
               /\ \A j \in 1 .. n + 1 : AnonymousValueInfos'[j] = AnonymousValueInfos'[k] => j = k
    <3>1. \A j \in 1 .. n + 1 : j = n + 1 \/ j \in 1 .. n
      BY <1>9
    <3>2. CASE k = n + 1
      BY <1>3, <1>10, <1>12, <3>1, <3>2
    <3>3. CASE k \in 1 .. n
      <4>1. /\ AnonymousValueInfos[k].V = NoValue /\ AnonymousValueInfos[k] \notin {EL, EA}
            /\ \A j \in 1 .. n : AnonymousValueInfos[j] = AnonymousValueInfos[k] => j = k
        BY <1>1, <1>9, <3>3 DEF AnonymousKept
      <4> QED  BY <1>10, <1>12, <3>1, <3>3, <4>1
    <3> QED  BY <3>1, <3>2, <3>3
  <2> QED  BY <1>10, <1>11, <2>1 DEF AnonymousKept
<1>14. Accounted'
  <2>1. ToSet(AnonymousValueInfos') = ToSet(AnonymousValueInfos) \cup {vi}
    BY <1>4, <1>8, ToSetAppend
  <2> QED  BY <1>1, <1>4, <1>5, <2>1 DEF Accounted, Account
<1>15. Kept
  BY <1>4, <1>5 DEF Kept
<1>16. Filled'
  BY <1>3, <1>4, <1>6, <1>7, <1>13, <1>14 DEF Filled
<1> QED  BY <1>2, <1>4, <1>15, <1>16 DEF vi

LEMMA UnchangedStep ==
    ASSUME Filled, M' = M, data' = data
    PROVE  Filled' /\ Kept /\ created' = created
<1>1. /\ ValueInfos' = ValueInfos /\ GlobalRegionInfos' = GlobalRegionInfos
      /\ AnonymousValueInfos' = AnonymousValueInfos /\ created' = created
  BY DEF data
<1>2. Known' = Known
  BY <1>1 DEF Known
<1> QED  BY <1>1, <1>2 DEF Filled, Kept, Cached, Owns, RegionsMade, AnonymousKept, Accounted, Account

-----------------------------------------------------------------------------
(* What the handlers hold.                                                 *)

(* The values that the handler of a frame asks for, in their order. *)
Asked(m, fr) ==
    IF fr.handler = "global" THEN <<fr.V>>
    ELSE IF fr.handler = "argument" THEN <<fr.V>> \o m.args[fr.V]
    ELSE IF fr.handler = "region" /\ fr.V \notin GlobalVariables THEN <<>>
    ELSE m.operands[fr.V]

(* A handler that may pass on its first operand's ValueInfo got one if the *)
(* operand is a global or a part of one.                                   *)
FirstIsKept(m, fr) ==
    fr.handler \in {"alias", "user"} /\ m.operands[fr.V] # <<>> /\ IsAddress(m, Head(m.operands[fr.V])) =>
        \/ fr.got = <<>> /\ fr.todo = m.operands[fr.V]
        \/ fr.got # <<>> /\ fr.got[1] # NoVI

IsRecord(fr) == fr \in [handler : {fr.handler}, V : {fr.V}, todo : {fr.todo}, got : {fr.got}]

(* A ValueInfo, or null, for every value that was asked for. *)
FrameOK(m, C, fr) ==
    /\ IsRecord(fr)
    /\ fr.got \in Seq(Handed(C))
    /\ Len(fr.got) + Len(fr.todo) = Len(Asked(m, fr))
    /\ FirstIsKept(m, fr)

Holds(m, C, s) == \A k \in DOMAIN s : FrameOK(m, C, s[k])

(* Where the running function's region is asked for, it has been made.     *)
FunctionKnown ==
    /\ stack # <<>> /\ stack[1].handler = "argument" => CurrentFunction # NoFunction
    /\ \/ CurrentFunction = NoFunction
       \/ CurrentFunction \in Known
       \/ /\ stack # <<>> /\ stack[1].handler = "argument"
          /\ stack[1].todo # <<>> /\ Head(stack[1].todo) = CurrentFunction

PHINodesOwn ==
    /\ \A k \in DOMAIN PHINodeWork : Owns(PHINodeWork[k])
    /\ stack # <<>> /\ stack[1].handler = "phi" => Owns(stack[1].V)

Knowing ==
    /\ Filled /\ Related(M, relations, created)
    /\ Holds(M, created, stack) /\ FunctionKnown /\ PHINodesOwn

LEMMA HoldsOn ==
    ASSUME NEW m, NEW C, NEW D, C \subseteq D, NEW s, Holds(m, C, s)
    PROVE  Holds(m, D, s)
<1>1. Handed(C) \subseteq Handed(D)
  BY DEF Handed
<1> HIDE DEF Handed
<1>2. \A k \in DOMAIN s : s[k].got \in Seq(Handed(D))
  <2>1. SUFFICES ASSUME NEW k \in DOMAIN s PROVE s[k].got \in Seq(Handed(D))
    OBVIOUS
  <2>2. s[k].got \in Seq(Handed(C))
    BY DEF Holds, FrameOK
  <2> QED  BY <1>1, <2>2, SeqMonotonic
<1> QED  BY <1>2 DEF Holds, FrameOK

LEMMA PushedHold ==
    ASSUME NEW m, NEW C, NEW s, Framed(m, s), Holds(m, C, s),
           NEW h, NEW v, NEW ops, NEW t, t = Append(s, Frame(h, v, ops)), Framed(m, t),
           Len(ops) = Len(Asked(m, Frame(h, v, ops))), Len(ops) \in Nat,
           h \in {"alias", "user"} => ops = m.operands[v]
    PROVE  Holds(m, C, t)
<1> DEFINE fr == Frame(h, v, ops)
<1>1. fr.handler = h /\ fr.V = v /\ fr.todo = ops /\ fr.got = <<>>
  BY DEF Frame
<1> HIDE DEF fr
<1>2. <<>> \in Seq(Handed(C)) /\ Len(<<>>) = 0
  OBVIOUS
<1>3. FrameOK(m, C, fr)
  <2>1. IsRecord(fr)
    BY DEF IsRecord, fr, Frame
  <2> QED  BY <1>1, <1>2, <2>1 DEF FrameOK, FirstIsKept, fr
<1>4. PICK n \in Nat : Len(s) = n /\ DOMAIN s = 1 .. n
  BY LenProperties DEF Framed
<1>5. /\ DOMAIN t = 1 .. n + 1 /\ \A k \in 1 .. n : t[k] = s[k]
      /\ t[n + 1] = fr
  <2>1. t = Append(s, fr)
    BY DEF fr
  <2> DEFINE T == ToSet(s) \cup {fr}
  <2>2. s \in Seq(T) /\ fr \in T
    <3>1. s \in Seq(ToSet(s)) /\ ToSet(s) \subseteq T
      BY DEF Framed
    <3> HIDE DEF T
    <3>2. s \in Seq(T)
      BY <3>1, SeqMonotonic
    <3> QED  BY <3>2 DEF T
  <2> HIDE DEF T
  <2>3. /\ t \in Seq(T) /\ Len(t) = n + 1 /\ \A k \in 1 .. n : t[k] = s[k]
        /\ t[n + 1] = fr
    BY <1>4, <2>1, <2>2, AppendProperties
  <2> QED  BY <2>3, LenProperties
<1>6. \A k \in 1 .. n + 1 : k = n + 1 \/ k \in 1 .. n
  BY <1>4
<1> QED  BY <1>3, <1>4, <1>5, <1>6 DEF Holds

LEMMA PoppedHold ==
    ASSUME NEW m, NEW C, NEW s, Framed(m, s), s # <<>>, Holds(m, C, s)
    PROVE  Holds(m, C, Front(s))
<1>1. /\ Len(s) \in Nat /\ DOMAIN s = 1 .. Len(s) /\ DOMAIN Front(s) = 1 .. Len(s) - 1
      /\ \A k \in 1 .. Len(s) - 1 : Front(s)[k] = s[k]
  BY FrontFrames
<1> QED  BY <1>1 DEF Holds

(* The asking frame gets vi, the others stay.                              *)
LEMMA AnsweredTop ==
    ASSUME NEW m, NEW s, Framed(m, s), s # <<>>, NEW vi
    PROVE  LET t == Answered(s, vi)
               n == Len(s)
           IN  /\ n \in Nat /\ n >= 1 /\ DOMAIN s = 1 .. n /\ DOMAIN t = 1 .. n
               /\ \A k \in 1 .. n : k # n => t[k] = s[k]
               /\ t[n].handler = s[n].handler /\ t[n].V = s[n].V
               /\ t[n].todo = Tail(s[n].todo) /\ t[n].got = Append(s[n].got, vi)
               /\ IsRecord(s[n]) => IsRecord(t[n])
<1> DEFINE t == Answered(s, vi)
           T == ToSet(s)
<1>1. PICK n \in Nat : Len(s) = n /\ n >= 1 /\ DOMAIN s = 1 .. n /\ s \in [1 .. n -> T]
  BY LenProperties, EmptySeq DEF Framed
<1> DEFINE fr == s[n]
           gr == [fr EXCEPT !.todo = Tail(@), !.got = Append(@, vi)]
<1>2. DOMAIN fr = {"handler", "V", "todo", "got"}
  BY <1>1 DEF Framed, IsFrame
<1>3. t = [s EXCEPT ![n] = gr]
  BY <1>1 DEF Answered
<1>4. /\ gr.handler = fr.handler /\ gr.V = fr.V /\ gr.todo = Tail(fr.todo) /\ gr.got = Append(fr.got, vi)
  BY <1>2
<1>5. IsRecord(fr) => IsRecord(gr)
  <2>1. \A x, y, A, B, C, D : \A r \in [handler : A, V : B, todo : C, got : D] :
            [r EXCEPT !.todo = x, !.got = y] \in [handler : A, V : B, todo : {x}, got : {y}]
    OBVIOUS
  <2>2. gr = [fr EXCEPT !.todo = Tail(fr.todo), !.got = Append(fr.got, vi)]
    BY DEF gr
  <2> HIDE DEF fr
  <2>3. IsRecord(fr) => gr \in [handler : {fr.handler}, V : {fr.V}, todo : {Tail(fr.todo)}, got : {Append(fr.got, vi)}]
    BY <2>1, <2>2 DEF IsRecord
  <2> HIDE DEF gr
  <2> QED  BY <1>4, <2>3 DEF IsRecord
<1> HIDE DEF gr
<1>6. DOMAIN t = 1 .. n /\ t[n] = gr /\ \A k \in 1 .. n : k # n => t[k] = s[k]
  BY <1>1, <1>3
<1> QED  BY <1>1, <1>4, <1>5, <1>6

LEMMA AnsweredHold ==
    ASSUME NEW m, NEW C, NEW s, Framed(m, s), s # <<>>, Holds(m, C, s), Last(s).todo # <<>>,
           NEW vi \in Handed(C), IsAddress(m, Head(Last(s).todo)) => vi # NoVI
    PROVE  Holds(m, C, Answered(s, vi))
<1> DEFINE t == Answered(s, vi)
           n == Len(s)
           T == Handed(C)
<1>1. /\ n \in Nat /\ n >= 1 /\ DOMAIN s = 1 .. n /\ DOMAIN t = 1 .. n
      /\ \A k \in 1 .. n : k # n => t[k] = s[k]
      /\ t[n].handler = s[n].handler /\ t[n].V = s[n].V
      /\ t[n].todo = Tail(s[n].todo) /\ t[n].got = Append(s[n].got, vi)
      /\ IsRecord(s[n]) => IsRecord(t[n])
  BY AnsweredTop
<1>2. Last(s) = s[n]
  BY DEF Last
<1> HIDE DEF t, n, T
<1>3. FrameOK(m, C, s[n]) /\ IsFrame(m, s[n])
  BY <1>1 DEF Holds, Framed
<1>4. s[n].got \in Seq(T) /\ vi \in T
  BY <1>3 DEF FrameOK, T
<1>5. PICK a \in Nat : /\ Len(s[n].got) = a /\ Len(t[n].got) = a + 1 /\ t[n].got \in Seq(T)
                       /\ t[n].got # <<>> /\ \A k \in 1 .. a : t[n].got[k] = s[n].got[k]
                       /\ t[n].got[a + 1] = vi
                       /\ (s[n].got = <<>> => a = 0)
  BY <1>1, <1>4, LenProperties, AppendProperties
<1>6. PICK b \in Nat : Len(s[n].todo) = b /\ Len(t[n].todo) = b - 1
  <2>1. s[n].todo \in Seq(Needs(m, s[n])) /\ s[n].todo # <<>>
    BY <1>2, <1>3 DEF IsFrame
  <2>2. Len(s[n].todo) \in Nat /\ Len(Tail(s[n].todo)) = Len(s[n].todo) - 1
    BY <2>1, LenProperties, HeadTailProperties
  <2> QED  BY <1>1, <2>2
<1>7. Len(t[n].got) + Len(t[n].todo) = Len(Asked(m, t[n]))
  <2>1. Asked(m, t[n]) = Asked(m, s[n])
    BY <1>1 DEF Asked
  <2>2. Len(s[n].got) + Len(s[n].todo) = Len(Asked(m, s[n]))
    BY <1>3 DEF FrameOK
  <2> QED  BY <1>5, <1>6, <2>1, <2>2
<1>8. FirstIsKept(m, t[n])
  <2>1. SUFFICES ASSUME s[n].handler \in {"alias", "user"}, m.operands[s[n].V] # <<>>,
                        IsAddress(m, Head(m.operands[s[n].V]))
                 PROVE  t[n].got[1] # NoVI
    BY <1>1, <1>5 DEF FirstIsKept
  <2>2. \/ s[n].got = <<>> /\ s[n].todo = m.operands[s[n].V]
        \/ s[n].got # <<>> /\ s[n].got[1] # NoVI
    BY <1>3, <2>1 DEF FrameOK, FirstIsKept
  <2>3. CASE s[n].got = <<>> /\ s[n].todo = m.operands[s[n].V]
    BY <1>2, <1>5, <2>1, <2>3
  <2>4. CASE s[n].got # <<>> /\ s[n].got[1] # NoVI
    <3>1. a # 0
      BY <1>4, <1>5, <2>4, EmptySeq
    <3>2. 1 \in 1 .. a
      BY <1>5, <3>1
    <3> QED  BY <1>5, <2>4, <3>2
  <2> QED  BY <2>2, <2>3, <2>4
<1>9. FrameOK(m, C, t[n])
  BY <1>1, <1>3, <1>5, <1>7, <1>8 DEF FrameOK, T
<1>10. \A k \in 1 .. n : FrameOK(m, C, t[k])
  BY <1>1, <1>9 DEF Holds
<1> QED  BY <1>1, <1>10 DEF Holds, t

-----------------------------------------------------------------------------
(* The steps of Data.                                                      *)

DataStep == Filled' /\ Kept /\ Related(M, relations', created')

LEMMA RelatedWider ==
    ASSUME NEW m, NEW C, NEW D, C \subseteq D, NEW s, Related(m, s, C)
    PROVE  Related(m, s, D)
BY DEF Related, Over

LEMMA RelatedOne ==
    ASSUME NEW m, NEW C, NEW D, C \subseteq D, NEW s, Related(m, s, C),
           NEW R \in AnyRelations, Fits(m, R), Over(D, R), R.Src \notin C
    PROVE  Related(m, s \o <<R>>, D)
<1>1. <<>> \in Seq(Plain(m, C)) /\ <<>> \in Seq(Plain(m, D))
  OBVIOUS
<1>2. Related(m, s \o (<<>> \o <<R>> \o <<>>), D)
  BY <1>1, RelatedDefinition
<1>3. <<R>> \in Seq({R})
  OBVIOUS
<1>4. <<>> \o <<R>> = <<R>> /\ <<R>> \o <<>> = <<R>>
  BY <1>3, ConcatEmptySeq
<1> QED  BY <1>2, <1>4

LEMMA KnowingHas ==
    ASSUME Knowing
    PROVE  /\ Filled /\ Related(M, relations, created) /\ Holds(M, created, stack) /\ FunctionKnown /\ PHINodesOwn
           /\ Numbered(created) /\ Cached /\ RegionsMade /\ AnonymousKept /\ Accounted
           /\ created \subseteq AnyVIs /\ {EL, EA} \subseteq created
BY DEF Knowing, Filled, Numbered

LEMMA RelationsKept ==
    ASSUME Knowing, M' = M, data' = data, relations' = relations
    PROVE  DataStep
BY UnchangedStep, KnowingHas DEF DataStep

(* The region of a global that is in the cache. *)
LEMMA RegionIs ==
    ASSUME Knowing, NEW g \in DefinedRegions(M), g \in Known
    PROVE  /\ GlobalRegionInfos[g] \in RegionsOf(M)
           /\ GlobalRegionInfos[g] \in created /\ GlobalRegionInfos[g] # EA
<1>1. GlobalRegionInfos[g] = ValueInfo(g, 0) /\ ValueInfo(g, 0) \in created
  BY KnowingHas DEF RegionsMade
<1>2. ValueInfo(g, 0).n = 0
  BY DEF ValueInfo
<1> QED  BY <1>1, <1>2, TheExternals DEF RegionsOf

(* The running function. *)
LEMMA RunningFunction ==
    ASSUME Analyzing, Knowing, stack # <<>>, stack[1].handler # "global",
           stack[1].handler = "argument" /\ stack[1].todo # <<>> => Head(stack[1].todo) # CurrentFunction
    PROVE  /\ GlobalRegionInfos[CurrentFunction] \in RegionsOf(M)
           /\ GlobalRegionInfos[CurrentFunction] \in created /\ GlobalRegionInfos[CurrentFunction] # EA
<1>1. /\ M \in ModulesToRun /\ Recurring /\ WalkTypes /\ CodeExecuted /\ PHINodesWait
  BY AnalyzingHas
<1>2. Outermost(M, stack[1])
  <2>1. Framed(M, stack) /\ 1 \in DOMAIN stack
    BY <1>1, TopFrame DEF Recurring
  <2> QED  BY <2>1 DEF Framed
<1>3. CurrentFunction # NoFunction
  <2>1. CASE stack[1].handler = "argument"
    BY <2>1, KnowingHas DEF FunctionKnown
  <2>2. CASE stack[1].handler # "argument"
    <3>1. stack[1].handler = "phi" \/ NodeRunning
      BY <1>2, <2>2 DEF Outermost, NodeRunning
    <3>2. visited # {}
      BY <1>1, <3>1 DEF CodeExecuted, PHINodesWait
    <3> QED  BY <1>1, <3>2 DEF WalkTypes
  <2> QED  BY <2>1, <2>2
<1>4. CurrentFunction \in Known
  BY <1>3, KnowingHas DEF FunctionKnown
<1>5. CurrentFunction \in DefinedRegions(M)
  BY <1>1, <1>3 DEF WalkTypes, DefinedRegions
<1> QED  BY <1>4, <1>5, RegionIs

(* Arguments are asked for by functions and instructions only.             *)
LEMMA ArgumentAsked ==
    ASSUME Analyzing, Knowing, NEW v \in Arguments, Asks(v)
    PROVE  /\ GlobalRegionInfos[CurrentFunction] \in RegionsOf(M)
           /\ GlobalRegionInfos[CurrentFunction] \in created /\ GlobalRegionInfos[CurrentFunction] # EA
<1>1. M \in ModulesToRun /\ Framed(M, stack) /\ WalkTypes
  BY AnalyzingHas DEF Recurring
<1>2. stack # <<>> /\ Top.todo # <<>> /\ v = Head(Top.todo)
  BY DEF Asks
<1>3. /\ Len(stack) \in Nat /\ Len(stack) >= 1 /\ Top = stack[Len(stack)]
      /\ IF Len(stack) = 1 THEN Outermost(M, Top) ELSE Nested(M, Top)
      /\ v \in Needs(M, Top)
  BY <1>1, <1>2, TopFrame
<1>4. Len(stack) = 1 /\ Top = stack[1]
  BY <1>1, <1>3, NestedNeeds
<1>5. Top.handler # "global"
  <2>1. Top.handler = "global" => Needs(M, Top) = {Top.V} /\ Top.V \in Globals
    BY <1>1, <1>3, <1>4, NeedsOf, OutermostNeeds
  <2> QED  BY <1>3, <2>1, KindsAssumption
<1>6. stack[1].handler = "argument" => v # CurrentFunction
  <2>1. stack[1].handler = "argument" => CurrentFunction \in Functions
    BY <1>1, <1>2, KnowingHas DEF FunctionKnown, WalkTypes
  <2> QED  BY <2>1, KindsAssumption, UserKinds
<1> QED  BY <1>2, <1>4, <1>5, <1>6, RunningFunction

LEMMA AnalyzeData ==
    ASSUME Analyzing, Knowing, AnalyzeValue
    PROVE  DataStep
<1>1. /\ M \in ModulesToRun /\ Filled /\ Related(M, relations, created) /\ Numbered(created)
      /\ created \subseteq AnyVIs /\ {EL, EA} \subseteq created
  BY AnalyzingHas, KnowingHas
<1>2. CASE AnalyzedValue
  BY <1>2, RelationsKept DEF AnalyzedValue
<1>3. ASSUME NEW v \in Values, AnalyzeDeclaration(v)
      PROVE  DataStep
  <2>1. /\ v \in M.declarations /\ v \notin Known /\ cache(v, EL) /\ M' = M /\ created' = created
        /\ GlobalRegionInfos' = GlobalRegionInfos /\ AnonymousValueInfos' = AnonymousValueInfos
        /\ relations' = relations
    BY <1>3 DEF AnalyzeDeclaration, Unanalyzed, analyzed, Known
  <2>2. v \notin DefinedRegions(M) /\ v \notin GlobalAliases
    BY <1>1, <2>1, ModuleType, KindsAssumption DEF DefinedRegions
  <2>3. EL \in Handed(created) /\ EL # NoVI
    BY <1>1, TheExternals DEF Handed
  <2>4. Filled' /\ Kept
    BY <1>1, <2>1, <2>2, <2>3, CacheStep
  <2> QED  BY <1>1, <2>1, <2>4 DEF DataStep
<1>4. ASSUME NEW v \in Values, AnalyzeArgument(v)
      PROVE  DataStep
  <2> DEFINE R == Relation("ARGUMENT_FROM_CALLER", NewOf(created, v), GlobalRegionInfos[CurrentFunction])
  <2>1. /\ v \in Arguments /\ v \notin Known /\ Asks(v) /\ cacheNewValueInfo(v) /\ M' = M
        /\ GlobalRegionInfos' = GlobalRegionInfos /\ AnonymousValueInfos' = AnonymousValueInfos
        /\ relations' = relations \o
              <<Relation("ARGUMENT_FROM_CALLER", NewValueInfo(v), GlobalRegionInfos[CurrentFunction])>>
    BY <1>4 DEF AnalyzeArgument, Unanalyzed, analyzed, Known, handle, getGlobalRegionInfo
  <2>2. v \notin DefinedRegions(M)
    BY <2>1, KindsAssumption DEF DefinedRegions, Globals
  <2>3. /\ Filled' /\ Kept /\ NewValueInfo(v) = NewOf(created, v)
        /\ created' = created \cup {NewOf(created, v)}
    BY <1>1, <2>1, <2>2, CacheNewStep
  <2>4. R \in AnyRelations /\ Fits(M, R) /\ Over(created', R) /\ R.Src \notin created
    <3>1. v \in Definers(M) \cap (Values \cup {NoValue}) /\ "ARGUMENT_FROM_CALLER" \in Definitions
      BY <2>1 DEF Definers, Definitions
    <3> QED  BY <1>1, <2>1, <2>3, <3>1, ArgumentAsked, DefiningRelations
  <2>5. relations' = relations \o <<R>>
    BY <2>1, <2>3
  <2> HIDE DEF R
  <2>6. Related(M, relations', created')
    BY <1>1, <2>3, <2>4, <2>5, RelatedOne
  <2> QED  BY <2>3, <2>6 DEF DataStep
<1>5. ASSUME NEW v \in Values, AnalyzeNil(v)
      PROVE  DataStep
  <2>1. /\ v \in Instructions \cup OtherValues /\ v \notin Known /\ cache(v, NoVI) /\ M' = M /\ created' = created
        /\ GlobalRegionInfos' = GlobalRegionInfos /\ AnonymousValueInfos' = AnonymousValueInfos
        /\ relations' = relations
    BY <1>5 DEF AnalyzeNil, Unanalyzed, analyzed, Known, cacheNil
  <2>2. v \notin DefinedRegions(M) /\ v \notin GlobalAliases /\ ~IsAddress(M, v)
    BY <2>1, KindsAssumption DEF DefinedRegions, Globals, IsAddress
  <2>3. NoVI \in Handed(created)
    BY DEF Handed
  <2>4. Filled' /\ Kept
    BY <1>1, <2>1, <2>2, <2>3, CacheStep
  <2> QED  BY <1>1, <2>1, <2>4 DEF DataStep
<1>6. ASSUME NEW v \in Values, analyzeUser(v)
      PROVE  DataStep
  BY <1>6, RelationsKept DEF analyzeUser
<1>7. ASSUME NEW v \in Values, analyzeGlobalAlias(v)
      PROVE  DataStep
  <2>1. /\ v \in GlobalAliases /\ v \notin Known /\ cacheNewValueInfo(v) /\ M' = M
        /\ GlobalRegionInfos' = GlobalRegionInfos /\ AnonymousValueInfos' = AnonymousValueInfos
        /\ relations' = relations
    BY <1>7 DEF analyzeGlobalAlias, Unanalyzed, analyzed, Known
  <2>2. v \notin DefinedRegions(M)
    BY <2>1, KindsAssumption DEF DefinedRegions, Globals
  <2>3. Filled' /\ Kept /\ created' = created \cup {NewOf(created, v)}
    BY <1>1, <2>1, <2>2, CacheNewStep
  <2>4. Related(M, relations', created')
    BY <1>1, <2>1, <2>3, RelatedWider
  <2> QED  BY <2>3, <2>4 DEF DataStep
<1>8. ASSUME NEW v \in Values, analyzeGlobalRegion(v)
      PROVE  DataStep
  <2>1. /\ v \in DefinedRegions(M) /\ v \notin Known /\ MakeGlobal(v) /\ M' = M
        /\ AnonymousValueInfos' = AnonymousValueInfos
    BY <1>8 DEF analyzeGlobalRegion, Unanalyzed, analyzed, Known
  <2> QED  BY <1>1, <2>1, MakeGlobalStep DEF DataStep
<1> QED  BY <1>2, <1>3, <1>4, <1>5, <1>6, <1>7, <1>8 DEF AnalyzeValue

LEMMA WalkData ==
    ASSUME Analyzing, Knowing, Walk
    PROVE  DataStep /\ \A i : visitPHINode /\ i = Head(code) => Owns(i)'
<1>1. /\ M \in ModulesToRun /\ Filled /\ Related(M, relations, created) /\ Walking /\ ExecutedOnly
  BY AnalyzingHas, KnowingHas
<1>2. ASSUME visitAllocaInst \/ visitPHINode, NEW i, i = Head(code)
      PROVE  DataStep /\ Owns(i)'
  <2>1. /\ code # <<>> /\ cacheNewValueInfo(i) /\ M' = M
        /\ GlobalRegionInfos' = GlobalRegionInfos /\ AnonymousValueInfos' = AnonymousValueInfos
        /\ relations' = relations
    BY <1>2 DEF visitAllocaInst, visitPHINode, Visits
  <2>2. i \in Instructions /\ i \notin Known
    <3>1. Head(code) \in Instructions /\ Head(code) \notin Known
      BY <1>1, <2>1, NextInstruction, NotYetKnown
    <3> QED  BY <1>2, <3>1
  <2>3. i \in Values /\ i \notin DefinedRegions(M)
    BY <2>2, KindsAssumption, UserKinds DEF DefinedRegions, Globals
  <2>4. Filled' /\ Kept /\ created' = created \cup {NewOf(created, i)} /\ Owns(i)'
    BY <1>1, <2>1, <2>2, <2>3, CacheNewStep
  <2>5. Related(M, relations', created')
    BY <1>1, <2>1, <2>4, RelatedWider
  <2> QED  BY <2>4, <2>5 DEF DataStep
<1>3. ASSUME \/ \E v \in Globals : VisitGlobal(v)
             \/ \E f \in Functions : processFunction(f)
             \/ \E b \in BasicBlocks : NextBlock(b)
             \/ visitNothing \/ VisitOperands \/ ProcessPHINode \/ EndFunction
      PROVE  DataStep
  <2>1. M' = M /\ data' = data /\ relations' = relations
    BY <1>3 DEF VisitGlobal, processFunction, NextBlock, visitNothing, VisitOperands, Visits, ProcessPHINode,
         EndFunction, data
  <2> QED  BY <2>1, RelationsKept
<1>4. CASE visitAllocaInst \/ visitPHINode
  <2>1. \A i : i = Head(code) => DataStep /\ Owns(i)'
    BY <1>2, <1>4
  <2> QED  BY <2>1
<1>5. ~visitPHINode \/ visitAllocaInst \/ visitPHINode
  OBVIOUS
<1> QED  BY <1>3, <1>4, <1>5 DEF Walk

-----------------------------------------------------------------------------
(* The handlers' ends.                                                     *)

(* A ValueInfo that an operand may have. *)
Mine == created \ {EA}

LEMMA MineIs ==
    ASSUME Knowing
    PROVE  /\ Mine \subseteq created /\ Handed(created) = Mine \cup {NoVI}
           /\ NoVI \notin Mine /\ EA \notin Mine /\ EL \in Mine /\ Mine \subseteq AnyVIs
BY KnowingHas, TheExternals DEF Mine, Handed

LEMMA ReadyTop ==
    ASSUME Analyzing, Knowing, NEW hs, Ready(hs)
    PROVE  /\ M \in ModulesToRun /\ stack # <<>>
           /\ Len(stack) \in Nat /\ Len(stack) >= 1 /\ Top = stack[Len(stack)] /\ V = Top.V /\ Top.handler \in hs
           /\ IF Len(stack) = 1 THEN Outermost(M, Top) ELSE Nested(M, Top)
           /\ Got \in Seq(Mine \cup {NoVI}) /\ Len(Got) \in Nat /\ Len(Got) = Len(Asked(M, Top))
           /\ \A k \in 1 .. Len(Got) : Got[k] # NoVI => Got[k] \in Mine
           /\ FirstIsKept(M, Top)
           /\ Real \in Seq(Mine)
           /\ Len(Got) >= 1 /\ Got[1] # NoVI => Real # <<>>
<1>1. M \in ModulesToRun /\ Framed(M, stack) /\ stack # <<>> /\ Top.todo = <<>> /\ Top.handler \in hs
  BY AnalyzingHas DEF Recurring, Ready
<1>2. /\ Len(stack) \in Nat /\ Len(stack) >= 1 /\ DOMAIN stack = 1 .. Len(stack)
      /\ Top = stack[Len(stack)] /\ V = Top.V
      /\ IF Len(stack) = 1 THEN Outermost(M, Top) ELSE Nested(M, Top)
  BY <1>1, TopFrame
<1>3. FrameOK(M, created, Top)
  BY <1>2, KnowingHas DEF Holds
<1>4. Got \in Seq(Mine \cup {NoVI}) /\ FirstIsKept(M, Top) /\ Len(Got) + Len(Top.todo) = Len(Asked(M, Top))
  BY <1>3, MineIs DEF FrameOK, Got
<1>5. Len(Got) \in Nat /\ Len(<<>>) = 0
  BY <1>4, LenProperties
<1>6. Len(Got) = Len(Asked(M, Top))
  BY <1>1, <1>4, <1>5
<1>7. \A k \in 1 .. Len(Got) : Got[k] # NoVI => Got[k] \in Mine
  BY <1>4, ElementOfSeq
<1>8. (Mine \cup {NoVI}) \ {NoVI} = Mine
  BY MineIs
<1>9. Real \in Seq(Mine) /\ (Len(Got) >= 1 /\ Got[1] # NoVI => Real # <<>>)
  BY <1>4, <1>8, NonNullProperties DEF Real
<1> QED  BY <1>1, <1>2, <1>4, <1>5, <1>6, <1>7, <1>9

(* The handlers of instructions but those that are users and no more.      *)
Visitors == {"load", "va_arg", "store", "memset", "cmpxchg", "atomicrmw", "memcpy", "memmove",
             "va_copy", "va_start", "call", "ret"}

LEMMA VisitorReady ==
    ASSUME Analyzing, Knowing, NEW hs, hs \subseteq Visitors, Ready(hs)
    PROVE  /\ V \in Instructions /\ V \in Values /\ V \notin DefinedRegions(M) /\ V \notin GlobalAliases
           /\ ~IsAddress(M, V) /\ M.opcode[V] \in hs /\ M.opcode[V] = Top.handler
           /\ Caches(Top) => V \notin Known
           /\ M.opcode[V] \in NeedOne => Len(Got) >= 1
           /\ M.opcode[V] \in NeedTwo => Len(Got) >= 2
           /\ GlobalRegionInfos[CurrentFunction] \in RegionsOf(M)
           /\ GlobalRegionInfos[CurrentFunction] \in Mine
<1>1. /\ M \in ModulesToRun /\ stack # <<>>
      /\ Len(stack) \in Nat /\ Len(stack) >= 1 /\ Top = stack[Len(stack)] /\ V = Top.V /\ Top.handler \in hs
      /\ IF Len(stack) = 1 THEN Outermost(M, Top) ELSE Nested(M, Top)
      /\ Len(Got) = Len(Asked(M, Top))
  BY ReadyTop
<1>2. Top.handler \in Visitors /\ Top.handler \notin {"global", "argument", "region", "alias", "user", "phi"}
  BY <1>1 DEF Visitors
<1>3. Len(stack) = 1
  BY <1>1, <1>2 DEF Nested
<1>4. V \in Instructions /\ M.opcode[V] = Top.handler
  BY <1>1, <1>2, <1>3 DEF Outermost, IsNode
<1>5. V \in Values /\ V \notin DefinedRegions(M) /\ V \notin GlobalAliases /\ V \notin Constants /\ ~IsAddress(M, V)
  BY <1>4, KindsAssumption, UserKinds DEF DefinedRegions, Globals, IsAddress
<1>6. Caches(Top) => V \notin Known
  <2>1. Len(stack) \in DOMAIN stack
    <3>1. Framed(M, stack)
      BY AnalyzingHas DEF Recurring
    <3> QED  BY <1>1, <3>1, TopFrame
  <2> QED  BY <1>1, <1>5, <2>1, AnalyzingHas DEF OnlyCircles
<1>7. Asked(M, Top) = M.operands[V]
  BY <1>1, <1>2 DEF Asked
<1>8. /\ M.opcode[V] \in NeedOne => Len(Got) >= 1
      /\ M.opcode[V] \in NeedTwo => Len(Got) >= 2
  BY <1>1, <1>4, <1>7, ModuleType DEF WellFormed, WellTyped
<1>9. stack[1].handler \notin {"global", "argument"}
  BY <1>1, <1>2, <1>3
<1>10. /\ GlobalRegionInfos[CurrentFunction] \in RegionsOf(M)
       /\ GlobalRegionInfos[CurrentFunction] \in Mine
  BY <1>1, <1>9, RunningFunction DEF Mine
<1> QED  BY <1>1, <1>4, <1>5, <1>6, <1>8, <1>10

LEMMA RelatedThen ==
    ASSUME NEW m, NEW C, NEW D, C \subseteq D, NEW s, Related(m, s, C), NEW after \in Seq(Plain(m, D)),
           NEW R \in AnyRelations, Fits(m, R), Over(D, R), R.Src \notin C
    PROVE  Related(m, s \o (<<R>> \o after), D)
<1>1. <<>> \in Seq(Plain(m, C))
  OBVIOUS
<1>2. Related(m, s \o (<<>> \o <<R>> \o after), D)
  BY <1>1, RelatedDefinition
<1>3. <<R>> \in Seq({R})
  OBVIOUS
<1>4. <<>> \o <<R>> = <<R>>
  BY <1>3, ConcatEmptySeq
<1> QED  BY <1>2, <1>4

LEMMA PlainGrows ==
    ASSUME NEW m, NEW C, NEW D, C \subseteq D, NEW s \in Seq(Plain(m, C))
    PROVE  s \in Seq(Plain(m, D))
<1>1. Plain(m, C) \subseteq Plain(m, D)
  BY DEF Plain, Over
<1> QED  BY <1>1, SeqMonotonic

(* One relation for every one of some ValueInfos. *)
LEMMA MapIn ==
    ASSUME NEW S, NEW s \in Seq(S), NEW P, NEW f, f = [k \in DOMAIN s |-> f[k]], \A k \in DOMAIN s : f[k] \in P
    PROVE  f \in Seq(P)
<1>1. PICK n \in Nat : Len(s) = n /\ DOMAIN s = 1 .. n
  BY LenProperties
<1>2. f \in [1 .. n -> P]
  BY <1>1
<1> QED  BY <1>2, SeqDef

LEMMA SomeRelations ==
    ASSUME NEW S, NEW s \in Seq(S), NEW t, NEW d, NEW P
    PROVE  /\ (\A x \in S : Relation(t, x, d) \in P) => [k \in DOMAIN s |-> Relation(t, s[k], d)] \in Seq(P)
           /\ (\A x \in S : Relation(t, d, x) \in P) => [k \in DOMAIN s |-> Relation(t, d, s[k])] \in Seq(P)
<1>1. \A k \in DOMAIN s : s[k] \in S
  BY LenProperties, ElementOfSeq
<1>2. ASSUME \A x \in S : Relation(t, x, d) \in P
      PROVE  [k \in DOMAIN s |-> Relation(t, s[k], d)] \in Seq(P)
  <2> DEFINE f == [k \in DOMAIN s |-> Relation(t, s[k], d)]
  <2>1. f = [k \in DOMAIN s |-> f[k]] /\ \A k \in DOMAIN s : f[k] \in P
    BY <1>1, <1>2
  <2> HIDE DEF f
  <2>2. f \in Seq(P)
    BY <2>1, MapIn
  <2> QED  BY <2>2 DEF f
<1>3. ASSUME \A x \in S : Relation(t, d, x) \in P
      PROVE  [k \in DOMAIN s |-> Relation(t, d, s[k])] \in Seq(P)
  <2> DEFINE f == [k \in DOMAIN s |-> Relation(t, d, s[k])]
  <2>1. f = [k \in DOMAIN s |-> f[k]] /\ \A k \in DOMAIN s : f[k] \in P
    BY <1>1, <1>3
  <2> HIDE DEF f
  <2>2. f \in Seq(P)
    BY <2>1, MapIn
  <2> QED  BY <2>2 DEF f
<1> QED  BY <1>2, <1>3

(* Relations that define nothing are handled. *)
LEMMA PlainHandled ==
    ASSUME Knowing, M' = M, data' = data, NEW t \in Seq(Plain(M, created)), handle(t)
    PROVE  DataStep
<1>1. Filled' /\ Kept /\ created' = created
  BY UnchangedStep, KnowingHas
<1>2. Related(M, relations \o t, created)
  BY KnowingHas, RelatedPlain
<1>3. Related(M, relations', created')
  BY <1>1, <1>2 DEF handle
<1> QED  BY <1>1, <1>3 DEF DataStep

LEMMA BothOperands ==
    ASSUME Analyzing, Knowing, NEW hs, hs \subseteq Visitors, Ready(hs), M.opcode[V] \in NeedTwo, NoVI \notin ToSet(Got)
    PROVE  Got[1] \in Mine /\ Got[2] \in Mine
<1>1. /\ Got \in Seq(Mine \cup {NoVI}) /\ Len(Got) \in Nat
      /\ \A k \in 1 .. Len(Got) : Got[k] # NoVI => Got[k] \in Mine
  BY ReadyTop
<1>2. Len(Got) >= 2 /\ DOMAIN Got = 1 .. Len(Got)
  BY <1>1, VisitorReady, LenProperties
<1>3. 1 \in 1 .. Len(Got) /\ 2 \in 1 .. Len(Got)
  BY <1>1, <1>2
<1>4. Got[1] \in ToSet(Got) /\ Got[2] \in ToSet(Got)
  BY <1>2, <1>3 DEF ToSet
<1> QED  BY <1>1, <1>3, <1>4

(* An instruction gets its result from an operand.                         *)
LEMMA ResultStep ==
    ASSUME Analyzing, Knowing, M' = M,
           GlobalRegionInfos' = GlobalRegionInfos, AnonymousValueInfos' = AnonymousValueInfos,
           NEW v, v = V, v \in Definers(M), v \in Values, v \notin DefinedRegions(M), v \notin GlobalAliases,
           ~IsAddress(M, v), v \notin Known,
           NEW t \in {"LOADED_FROM", "RETURNED_FROM_CALLEE"},
           NEW k, Got[k] # NoVI => Got[k] \in Mine,
           NEW before \in Seq(Plain(M, created)), NEW after, Got[k] # NoVI => after \in Seq(Plain(M, created)),
           ResultFrom(t, k, before, after)
    PROVE  DataStep
<1>1. Filled /\ Related(M, relations, created) /\ Numbered(created)
  BY KnowingHas
<1>2. CASE Got[k] # NoVI
  <2> DEFINE R == Relation(t, NewOf(created, v), Got[k])
  <2>1. cacheNewValueInfo(v) /\ relations' = relations \o (before \o <<Relation(t, NewValueInfo(v), Got[k])>> \o after)
    BY <1>2 DEF ResultFrom, handle
  <2>2. /\ Filled' /\ Kept /\ NewValueInfo(v) = NewOf(created, v)
        /\ created' = created \cup {NewOf(created, v)}
    BY <1>1, <2>1, CacheNewStep
  <2>3. R \in AnyRelations /\ Fits(M, R) /\ Over(created', R) /\ R.Src \notin created
    <3>1. t \in Definitions /\ t # "ARGUMENT_FROM_CALLER" /\ Got[k] \in created \ {EA}
      BY <1>2 DEF Definitions, Mine
    <3> QED  BY <1>1, <2>2, <3>1, DefiningRelations
  <2>4. relations' = relations \o (before \o <<R>> \o after)
    BY <2>1, <2>2
  <2> HIDE DEF R
  <2>5. created \subseteq created'
    BY <2>2
  <2>6. after \in Seq(Plain(M, created'))
    BY <1>2, <2>5, PlainGrows
  <2>7. Related(M, relations', created')
    BY <1>1, <2>3, <2>4, <2>5, <2>6, RelatedDefinition
  <2> QED  BY <2>2, <2>7 DEF DataStep
<1>3. CASE Got[k] = NoVI
  <2>1. cache(v, NoVI) /\ created' = created /\ relations' = relations \o before
    BY <1>3 DEF ResultFrom, cacheNil, handle
  <2>2. NoVI \in Handed(created)
    BY DEF Handed
  <2>3. Filled' /\ Kept
    BY <1>1, <2>1, <2>2, CacheStep
  <2>4. Related(M, relations \o before, created)
    BY <1>1, RelatedPlain
  <2> QED  BY <2>1, <2>3, <2>4 DEF DataStep
<1> QED  BY <1>2, <1>3

LEMMA EmptyPlain ==
    ASSUME NEW P
    PROVE  <<>> \in Seq(P) /\ \A x \in P : <<x>> \in Seq(P)
OBVIOUS

LEMMA LoadData ==
    ASSUME Analyzing, Knowing, visitLoadInst
    PROVE  DataStep
<1>1. /\ Ready({"load", "va_arg"}) /\ ResultFrom("LOADED_FROM", 1, <<>>, <<>>) /\ M' = M
      /\ GlobalRegionInfos' = GlobalRegionInfos /\ AnonymousValueInfos' = AnonymousValueInfos
  BY DEF visitLoadInst
<1>2. {"load", "va_arg"} \subseteq Visitors
  BY DEF Visitors
<1> DEFINE v == V
<1>3. /\ v \in Instructions /\ v \in Values /\ v \notin DefinedRegions(M) /\ v \notin GlobalAliases
      /\ ~IsAddress(M, v) /\ M.opcode[v] \in {"load", "va_arg"} /\ M.opcode[v] = Top.handler
      /\ Caches(Top) => v \notin Known
      /\ M.opcode[v] \in NeedOne => Len(Got) >= 1
  BY <1>1, <1>2, VisitorReady
<1>4. Caches(Top) /\ v \in Definers(M) /\ M.opcode[v] \in NeedOne
  BY <1>3 DEF Caches, Definers, NeedOne
<1>5. Got[1] # NoVI => Got[1] \in Mine
  BY <1>1, <1>3, <1>4, ReadyTop
<1> HIDE DEF v
<1>6. v = V
  BY DEF v
<1> QED  BY <1>1, <1>3, <1>4, <1>5, <1>6, EmptyPlain, ResultStep

LEMMA AtomicMutateData ==
    ASSUME Analyzing, Knowing, visitAtomicMutateInst
    PROVE  DataStep
<1> DEFINE hs    == {"cmpxchg", "atomicrmw"}
           after == If(Got[2] # NoVI, <<Relation("STORED_TO", Got[2], Got[1])>>)
           v     == V
<1>1. /\ Ready(hs) /\ ResultFrom("LOADED_FROM", 1, <<>>, after) /\ M' = M
      /\ GlobalRegionInfos' = GlobalRegionInfos /\ AnonymousValueInfos' = AnonymousValueInfos
  BY DEF visitAtomicMutateInst
<1>2. hs \subseteq Visitors
  BY DEF Visitors
<1>3. /\ v \in Instructions /\ v \in Values /\ v \notin DefinedRegions(M) /\ v \notin GlobalAliases
      /\ ~IsAddress(M, v) /\ M.opcode[v] \in hs /\ M.opcode[v] = Top.handler
      /\ Caches(Top) => v \notin Known
      /\ M.opcode[v] \in NeedTwo => Len(Got) >= 2
  BY <1>1, <1>2, VisitorReady
<1>4. Caches(Top) /\ v \in Definers(M) /\ M.opcode[v] \in NeedTwo
  BY <1>3 DEF Caches, Definers, NeedTwo
<1>5. (Got[1] # NoVI => Got[1] \in Mine) /\ (Got[2] # NoVI => Got[2] \in Mine)
  BY <1>1, <1>3, <1>4, ReadyTop
<1>6. Got[1] # NoVI => after \in Seq(Plain(M, created))
  <2>1. Got[1] # NoVI /\ Got[2] # NoVI => Relation("STORED_TO", Got[2], Got[1]) \in Plain(M, created)
    BY <1>5, KnowingHas, PlainRelations DEF Mine
  <2> QED  BY <2>1, EmptyPlain DEF If
<1> HIDE DEF v, after
<1>7. v = V
  BY DEF v
<1> QED  BY <1>1, <1>3, <1>4, <1>5, <1>6, <1>7, EmptyPlain, ResultStep

LEMMA CallData ==
    ASSUME Analyzing, Knowing, visitCallSite
    PROVE  DataStep
<1> DEFINE Actual == NonNull(Tail(Got))
           Passed == If(Got[1] # NoVI, [k \in DOMAIN Actual |-> Relation("ARGUMENT_TO_CALLEE", Actual[k], Got[1])])
           v      == V
<1>1. /\ Ready({"call"}) /\ M' = M
      /\ GlobalRegionInfos' = GlobalRegionInfos /\ AnonymousValueInfos' = AnonymousValueInfos
      /\ IF v \in M.void THEN handle(Passed) /\ ValueInfos' = ValueInfos /\ created' = created
         ELSE ResultFrom("RETURNED_FROM_CALLEE", 1, Passed, <<>>)
  BY DEF visitCallSite
<1>2. {"call"} \subseteq Visitors
  BY DEF Visitors
<1>3. /\ v \in Instructions /\ v \in Values /\ v \notin DefinedRegions(M) /\ v \notin GlobalAliases
      /\ ~IsAddress(M, v) /\ M.opcode[v] \in {"call"} /\ M.opcode[v] = Top.handler
      /\ Caches(Top) => v \notin Known
      /\ M.opcode[v] \in NeedOne => Len(Got) >= 1
  BY <1>1, <1>2, VisitorReady
<1>4. v \in Definers(M) /\ M.opcode[v] \in NeedOne /\ (v \notin M.void => Caches(Top))
  BY <1>3 DEF Caches, Definers, NeedOne, V
<1>5. /\ Got \in Seq(Mine \cup {NoVI}) /\ Len(Got) >= 1
      /\ Got[1] # NoVI => Got[1] \in Mine
  BY <1>1, <1>3, <1>4, ReadyTop
<1>6. Actual \in Seq(Mine)
  <2>1. Got # <<>>
    BY <1>5, EmptySeq
  <2>2. Tail(Got) \in Seq(Mine \cup {NoVI})
    BY <1>5, <2>1, HeadTailProperties
  <2>3. (Mine \cup {NoVI}) \ {NoVI} = Mine
    BY MineIs
  <2> QED  BY <2>2, <2>3, NonNullProperties
<1> HIDE DEF Actual
<1>7. Passed \in Seq(Plain(M, created))
  <2>1. ASSUME Got[1] # NoVI
        PROVE  \A x \in Mine : Relation("ARGUMENT_TO_CALLEE", x, Got[1]) \in Plain(M, created)
    BY <1>5, <2>1, KnowingHas, PlainRelations DEF Mine
  <2>2. CASE Got[1] # NoVI
    BY <1>6, <2>1, <2>2, SomeRelations DEF If
  <2>3. CASE Got[1] = NoVI
    BY <2>3, EmptyPlain DEF If
  <2> QED  BY <2>2, <2>3
<1> HIDE DEF Passed, v
<1>8. CASE v \in M.void
  <2>1. data' = data /\ handle(Passed)
    BY <1>1, <1>8 DEF data
  <2> QED  BY <1>1, <1>7, <2>1, PlainHandled
<1>9. CASE v \notin M.void
  <2>1. v = V
    BY DEF v
  <2> QED  BY <1>1, <1>3, <1>4, <1>5, <1>7, <1>9, <2>1, EmptyPlain, ResultStep
<1> QED  BY <1>8, <1>9

LEMMA StoreData ==
    ASSUME Analyzing, Knowing, visitStoreInst
    PROVE  DataStep
<1> DEFINE t == If(NoVI \notin ToSet(Got), <<Relation("STORED_TO", Got[2], Got[1])>>)
<1>1. Ready({"store", "memset"}) /\ handle(t) /\ M' = M /\ data' = data
  BY DEF visitStoreInst
<1>2. {"store", "memset"} \subseteq Visitors
  BY DEF Visitors
<1>3. M.opcode[V] \in NeedTwo
  <2>1. M.opcode[V] \in {"store", "memset"}
    BY <1>1, <1>2, VisitorReady
  <2> QED  BY <2>1 DEF NeedTwo
<1>4. NoVI \notin ToSet(Got) => Got[1] \in Mine /\ Got[2] \in Mine
  BY <1>1, <1>2, <1>3, BothOperands
<1>5. t \in Seq(Plain(M, created))
  <2>1. NoVI \notin ToSet(Got) => Relation("STORED_TO", Got[2], Got[1]) \in Plain(M, created)
    BY <1>4, KnowingHas, PlainRelations DEF Mine
  <2> QED  BY <2>1, EmptyPlain DEF If
<1> HIDE DEF t
<1> QED  BY <1>1, <1>5, PlainHandled

(* What an anonymous ValueInfo is defined by, and relations after it.      *)
LEMMA AnonymousDefined ==
    ASSUME Analyzing, Knowing, M' = M, ValueInfos' = ValueInfos, GlobalRegionInfos' = GlobalRegionInfos,
           createAnonymousValueInfo,
           NEW vi, vi = NewOf(created, NoValue), NEW d \in Mine,
           NEW t \in Definitions, t = "ARGUMENT_FROM_CALLER" => d \in RegionsOf(M),
           NEW after, after \in Seq(Plain(M, created \cup {vi})),
           relations' = relations \o (<<Relation(t, vi, d)>> \o after)
    PROVE  DataStep
<1> DEFINE R == Relation(t, vi, d)
<1>1. Filled /\ Related(M, relations, created) /\ Numbered(created)
  BY KnowingHas
<1>2. Filled' /\ Kept /\ created' = created \cup {vi}
  BY <1>1, AnonymousStep
<1>3. R \in AnyRelations /\ Fits(M, R) /\ Over(created', R) /\ R.Src \notin created
  <2>1. NoValue \in Definers(M) \cap (Values \cup {NoValue}) /\ d \in created \ {EA}
    BY DEF Definers, Mine
  <2> QED  BY <1>1, <1>2, <2>1, DefiningRelations
<1>4. created \subseteq created' /\ after \in Seq(Plain(M, created'))
  BY <1>2
<1>5. relations' = relations \o (<<R>> \o after)
  OBVIOUS
<1> HIDE DEF R
<1>6. Related(M, relations', created')
  BY <1>1, <1>3, <1>4, <1>5, RelatedThen
<1> QED  BY <1>2, <1>6 DEF DataStep

(* The new ValueInfo among those of the operands. *)
LEMMA WithAnonymous ==
    ASSUME Knowing, NEW vi, vi = NewOf(created, NoValue)
    PROVE  /\ created \cup {vi} \subseteq AnyVIs /\ vi # EA /\ Mine \subseteq created /\ EA \notin Mine
           /\ \A d \in Mine : /\ Relation("STORED_TO", vi, d) \in Plain(M, created \cup {vi})
                              /\ Relation("STORED_TO", d, d) \in Plain(M, created \cup {vi})
<1>1. vi \in AnyVIs /\ vi # EA
  BY KnowingHas, NewIsNew
<1>2. created \cup {vi} \subseteq AnyVIs /\ Mine \subseteq created /\ EA \notin Mine
  BY <1>1, KnowingHas, MineIs
<1>3. \A d \in Mine : /\ Relation("STORED_TO", vi, d) \in Plain(M, created \cup {vi})
                      /\ Relation("STORED_TO", d, d) \in Plain(M, created \cup {vi})
  BY <1>1, <1>2, PlainRelations
<1> QED  BY <1>1, <1>2, <1>3

LEMMA MemTransferData ==
    ASSUME Analyzing, Knowing, visitMemTransferInst
    PROVE  DataStep
<1> DEFINE hs == {"memcpy", "memmove"}
           vi == NewOf(created, NoValue)
           Ra == Relation("LOADED_FROM", vi, Got[2])
           Rb == Relation("STORED_TO", vi, Got[1])
<1>1. NewValueInfo(NoValue) = vi
  BY DEF NewValueInfo, NewOf, MadeFor
<1>2. /\ Ready(hs) /\ M' = M /\ ValueInfos' = ValueInfos /\ GlobalRegionInfos' = GlobalRegionInfos
      /\ IF NoVI \notin ToSet(Got) THEN createAnonymousValueInfo /\ relations' = relations \o <<Ra, Rb>>
         ELSE created' = created /\ AnonymousValueInfos' = AnonymousValueInfos /\ relations' = relations
  BY <1>1 DEF visitMemTransferInst, handle
<1>3. hs \subseteq Visitors
  BY DEF Visitors
<1>4. M.opcode[V] \in NeedTwo
  <2>1. M.opcode[V] \in hs
    BY <1>2, <1>3, VisitorReady
  <2> QED  BY <2>1 DEF NeedTwo
<1>5. NoVI \notin ToSet(Got) => Got[1] \in Mine /\ Got[2] \in Mine
  BY <1>2, <1>3, <1>4, BothOperands
<1>6. CASE NoVI \notin ToSet(Got)
  <2>1. <<Rb>> \in Seq(Plain(M, created \cup {vi}))
    <3>1. Rb \in Plain(M, created \cup {vi})
      BY <1>5, <1>6, WithAnonymous
    <3> QED  BY <3>1, EmptyPlain
  <2>2. <<Ra, Rb>> = <<Ra>> \o <<Rb>>
    BY ConcatOne
  <2>3. "LOADED_FROM" \in Definitions /\ "LOADED_FROM" # "ARGUMENT_FROM_CALLER"
    BY DEF Definitions
  <2>4. createAnonymousValueInfo /\ Got[2] \in Mine
    BY <1>2, <1>5, <1>6
  <2>5. relations' = relations \o (<<Relation("LOADED_FROM", vi, Got[2])>> \o <<Rb>>)
    BY <1>2, <1>6, <2>2
  <2> QED  BY <1>2, <2>1, <2>3, <2>4, <2>5, AnonymousDefined
<1>7. CASE NoVI \in ToSet(Got)
  BY <1>2, <1>7, RelationsKept DEF data
<1> QED  BY <1>6, <1>7

LEMMA VACopyData ==
    ASSUME Analyzing, Knowing, visitVACopyInst
    PROVE  DataStep
<1> DEFINE hs == {"va_copy"}
           vi == NewOf(created, NoValue)
           Ra == Relation("LOADED_FROM", vi, Got[1])
           Rb == Relation("STORED_TO", vi, Got[2])
           Rc == Relation("STORED_TO", Got[2], Got[2])
<1>1. NewValueInfo(NoValue) = vi
  BY DEF NewValueInfo, NewOf, MadeFor
<1>2. /\ Ready(hs) /\ M' = M /\ ValueInfos' = ValueInfos /\ GlobalRegionInfos' = GlobalRegionInfos
      /\ IF NoVI \notin ToSet(Got) THEN createAnonymousValueInfo /\ relations' = relations \o <<Ra, Rb, Rc>>
         ELSE created' = created /\ AnonymousValueInfos' = AnonymousValueInfos /\ relations' = relations
  BY <1>1 DEF visitVACopyInst, handle
<1>3. hs \subseteq Visitors
  BY DEF Visitors
<1>4. M.opcode[V] \in NeedTwo
  <2>1. M.opcode[V] \in hs
    BY <1>2, <1>3, VisitorReady
  <2> QED  BY <2>1 DEF NeedTwo
<1>5. NoVI \notin ToSet(Got) => Got[1] \in Mine /\ Got[2] \in Mine
  BY <1>2, <1>3, <1>4, BothOperands
<1>6. CASE NoVI \notin ToSet(Got)
  <2>1. <<Rb, Rc>> \in Seq(Plain(M, created \cup {vi}))
    <3>1. Rb \in Plain(M, created \cup {vi}) /\ Rc \in Plain(M, created \cup {vi})
      BY <1>5, <1>6, WithAnonymous
    <3> HIDE DEF Rb, Rc
    <3> QED  BY <3>1
  <2>2. <<Ra, Rb, Rc>> = <<Ra>> \o <<Rb, Rc>>
    <3>1. <<Ra>> \o <<Rb>> = <<Ra, Rb>> /\ <<Ra, Rb>> \o <<Rc>> = <<Ra, Rb, Rc>> /\ <<Rb>> \o <<Rc>> = <<Rb, Rc>>
      BY ConcatOne, ConcatTwo
    <3>2. <<Ra>> \in Seq({Ra, Rb, Rc}) /\ <<Rb>> \in Seq({Ra, Rb, Rc}) /\ <<Rc>> \in Seq({Ra, Rb, Rc})
      BY EmptyPlain
    <3> HIDE DEF Ra, Rb, Rc
    <3>3. (<<Ra>> \o <<Rb>>) \o <<Rc>> = <<Ra>> \o (<<Rb>> \o <<Rc>>)
      BY <3>2, ConcatAssociative
    <3> QED  BY <3>1, <3>3
  <2>3. "LOADED_FROM" \in Definitions /\ "LOADED_FROM" # "ARGUMENT_FROM_CALLER"
    BY DEF Definitions
  <2>4. createAnonymousValueInfo /\ Got[1] \in Mine
    BY <1>2, <1>5, <1>6
  <2>5. relations' = relations \o (<<Relation("LOADED_FROM", vi, Got[1])>> \o <<Rb, Rc>>)
    BY <1>2, <1>6, <2>2
  <2> QED  BY <1>2, <2>1, <2>3, <2>4, <2>5, AnonymousDefined
<1>7. CASE NoVI \in ToSet(Got)
  BY <1>2, <1>7, RelationsKept DEF data
<1> QED  BY <1>6, <1>7

LEMMA VAStartData ==
    ASSUME Analyzing, Knowing, visitVAStartInst
    PROVE  DataStep
<1> DEFINE hs == {"va_start"}
           vi == NewOf(created, NoValue)
           d  == GlobalRegionInfos[CurrentFunction]
           Rb == Relation("STORED_TO", Got[1], Got[1])
           Rc == Relation("STORED_TO", vi, Got[1])
           after == If(Got[1] # NoVI, <<Rb, Rc>>)
<1>1. NewValueInfo(NoValue) = vi
  BY DEF NewValueInfo, NewOf, MadeFor
<1>2. /\ Ready(hs) /\ M' = M /\ ValueInfos' = ValueInfos /\ GlobalRegionInfos' = GlobalRegionInfos
      /\ createAnonymousValueInfo
      /\ relations' = relations \o (<<Relation("ARGUMENT_FROM_CALLER", vi, d)>> \o after)
  BY <1>1 DEF visitVAStartInst, handle, getGlobalRegionInfo
<1>3. hs \subseteq Visitors
  BY DEF Visitors
<1>4. /\ M.opcode[V] \in NeedOne => Len(Got) >= 1
      /\ M.opcode[V] \in hs
      /\ d \in RegionsOf(M) /\ d \in Mine
  BY <1>2, <1>3, VisitorReady
<1>5. Got[1] # NoVI => Got[1] \in Mine
  BY <1>2, <1>4, ReadyTop DEF NeedOne
<1>6. after \in Seq(Plain(M, created \cup {vi}))
  <2>1. Got[1] # NoVI => Rb \in Plain(M, created \cup {vi}) /\ Rc \in Plain(M, created \cup {vi})
    BY <1>5, WithAnonymous
  <2> HIDE DEF Rb, Rc
  <2>2. CASE Got[1] # NoVI
    BY <2>1, <2>2 DEF If
  <2>3. CASE Got[1] = NoVI
    BY <2>3, EmptyPlain DEF If
  <2> QED  BY <2>2, <2>3
<1>7. "ARGUMENT_FROM_CALLER" \in Definitions
  BY DEF Definitions
<1> HIDE DEF d, after
<1> QED  BY <1>2, <1>4, <1>6, <1>7, AnonymousDefined

LEMMA ReturnData ==
    ASSUME Analyzing, Knowing, visitReturnInst
    PROVE  DataStep
<1> DEFINE d == GlobalRegionInfos[CurrentFunction]
           t == [k \in DOMAIN Real |-> Relation("RETURNED_TO_CALLER", Real[k], d)]
<1>1. Ready({"ret"}) /\ handle(t) /\ M' = M /\ data' = data
  BY DEF visitReturnInst, getGlobalRegionInfo
<1>2. {"ret"} \subseteq Visitors
  BY DEF Visitors
<1>3. d \in RegionsOf(M) /\ d \in Mine /\ Real \in Seq(Mine)
  BY <1>1, <1>2, VisitorReady, ReadyTop
<1> HIDE DEF d
<1>4. \A x \in Mine : Relation("RETURNED_TO_CALLER", x, d) \in Plain(M, created)
  BY <1>3, KnowingHas, PlainRelations DEF Mine
<1>5. t \in Seq(Plain(M, created))
  BY <1>3, <1>4, SomeRelations
<1> HIDE DEF t
<1> QED  BY <1>1, <1>5, PlainHandled

LEMMA NotARegion ==
    ASSUME NEW x, x.V \notin GlobalVariables \cup Functions \cup Allocas \cup {NoValue}
    PROVE  x \notin Regions /\ x # EL
<1>1. \A g : ValueInfo(g, 0).V = g
  BY DEF ValueInfo
<1> QED  BY <1>1, TheExternals DEF Regions

LEMMA PHINodeData ==
    ASSUME Analyzing, Knowing, EndPHINode
    PROVE  DataStep
<1> DEFINE d == ValueInfos[V]
           t == [k \in DOMAIN Real |-> Relation("DEPENDS_ON", d, Real[k])]
<1>1. Ready({"phi"}) /\ handle(t) /\ M' = M /\ data' = data
  BY DEF EndPHINode
<1>2. /\ M \in ModulesToRun /\ stack # <<>> /\ Len(stack) \in Nat /\ Top = stack[Len(stack)] /\ V = Top.V
      /\ Top.handler = "phi" /\ Real \in Seq(Mine)
      /\ IF Len(stack) = 1 THEN Outermost(M, Top) ELSE Nested(M, Top)
  BY <1>1, ReadyTop
<1>3. Len(stack) = 1 /\ V \in Instructions /\ M.opcode[V] = "phi"
  BY <1>2, HandlerNames DEF Nested, Outermost, IsNode
<1>4. Owns(V)
  BY <1>2, <1>3, KnowingHas DEF PHINodesOwn
<1>5. d \in Mine /\ d.V = V
  BY <1>4, KnowingHas, MineIs DEF Owns, Cached
<1>6. V \notin GlobalVariables \cup Functions \cup Allocas \cup {NoValue} /\ V \in Dependers(M)
  <2>1. V \notin Allocas
    BY <1>2, <1>3, ModuleType DEF WellFormed, WellTyped
  <2>2. V \notin GlobalVariables \cup Functions \cup {NoValue}
    BY <1>3, UserKinds, NoValueAssumption
  <2> QED  BY <1>3, <2>1, <2>2 DEF Dependers
<1> HIDE DEF d
<1>7. d.V \in Dependers(M) /\ d \notin Regions
  BY <1>5, <1>6, NotARegion
<1>8. \A x \in Mine : Relation("DEPENDS_ON", d, x) \in Plain(M, created)
  BY <1>5, <1>7, KnowingHas, PlainRelations DEF Mine
<1>9. t \in Seq(Plain(M, created))
  BY <1>2, <1>8, SomeRelations
<1> HIDE DEF t
<1> QED  BY <1>1, <1>9, PlainHandled

(* What other modules can link to depends on nothing here but itself. *)
LEMMA LinkablePlain ==
    ASSUME Analyzing, Knowing, V \in Globals, V \in Known
    PROVE  /\ Linkable \in Seq(Plain(M, created))
           /\ ValueInfos[V] \in Mine
<1>1. ValueInfos[V] \in Mine
  BY KnowingHas, MineIs DEF Cached, IsAddress
<1>2. Relation("DEPENDS_ON", EL, ValueInfos[V]) \in Plain(M, created)
  BY <1>1, MineIs, KnowingHas, PlainRelations
<1>3. <<Relation("DEPENDS_ON", EL, ValueInfos[V])>> \in Seq(Plain(M, created))
  BY <1>2, EmptyPlain
<1> QED  BY <1>1, <1>3, EmptyPlain DEF Linkable, If

LEMMA GlobalTop ==
    ASSUME Analyzing, Knowing, NEW hs, hs \in {{"region"}, {"alias"}}, Ready(hs)
    PROVE  /\ V \in Globals /\ V \in Known
           /\ hs = {"region"} => V \in DefinedRegions(M)
           /\ hs = {"alias"} => V \in GlobalAliases
<1>1. /\ M \in ModulesToRun /\ stack # <<>> /\ Len(stack) \in Nat /\ Len(stack) >= 1
      /\ Top = stack[Len(stack)] /\ V = Top.V /\ Top.handler \in hs
      /\ IF Len(stack) = 1 THEN Outermost(M, Top) ELSE Nested(M, Top)
  BY ReadyTop
<1>2. Top.handler \notin {"global", "argument", "phi"} /\ Top.handler \notin NodeHandlers /\ Top.handler # "user"
  BY <1>1, HandlerNames
<1>3. Nested(M, Top)
  BY <1>1, <1>2 DEF Outermost, IsNode
<1>4. (hs = {"region"} => V \in DefinedRegions(M)) /\ (hs = {"alias"} => V \in GlobalAliases)
  BY <1>1, <1>2, <1>3 DEF Nested
<1>5. V \in Known
  <2>1. Framed(M, stack) /\ GlobalsCached
    BY AnalyzingHas DEF Recurring
  <2>2. Len(stack) \in DOMAIN stack
    BY <1>1, <2>1, TopFrame
  <2> QED  BY <1>1, <2>1, <2>2 DEF GlobalsCached, IsGlobalFrame
<1>6. V \in Globals
  BY <1>4, UserKinds DEF DefinedRegions
<1> QED  BY <1>4, <1>5, <1>6

LEMMA RegionData ==
    ASSUME Analyzing, Knowing, EndGlobalRegion
    PROVE  DataStep
<1> DEFINE d == GlobalRegionInfos[V]
           s == [k \in DOMAIN Real |-> Relation("STORED_TO", Real[k], d)]
<1>1. Ready({"region"}) /\ handle(s \o Linkable) /\ M' = M /\ data' = data
  BY DEF EndGlobalRegion, getGlobalRegionInfo
<1>2. V \in Globals /\ V \in Known /\ V \in DefinedRegions(M) /\ Real \in Seq(Mine)
  BY <1>1, GlobalTop, ReadyTop
<1>3. d \in created /\ d # EA
  BY <1>2, RegionIs
<1> HIDE DEF d
<1>4. \A x \in Mine : Relation("STORED_TO", x, d) \in Plain(M, created)
  BY <1>3, KnowingHas, PlainRelations DEF Mine
<1>5. s \in Seq(Plain(M, created))
  BY <1>2, <1>4, SomeRelations
<1> HIDE DEF s
<1>6. s \o Linkable \in Seq(Plain(M, created))
  BY <1>2, <1>5, LinkablePlain, ConcatProperties
<1> QED  BY <1>1, <1>6, PlainHandled

LEMMA AliasData ==
    ASSUME Analyzing, Knowing, EndGlobalAlias
    PROVE  DataStep
<1> DEFINE s  == ValueInfos[V]
           P  == Plain(M, created)
           r1 == <<Relation("DEPENDS_ON", s, Got[1])>>
           r2 == If(mayBeOverridden(M, V), <<Relation("DEPENDS_ON", s, EL)>>)
<1>1. Ready({"alias"}) /\ handle(r1 \o r2 \o Linkable) /\ M' = M /\ data' = data
  BY DEF EndGlobalAlias
<1>2. V \in Globals /\ V \in Known /\ V \in GlobalAliases
  BY <1>1, GlobalTop
<1>3. Owns(V) /\ s \in Mine /\ s.V = V
  BY <1>2, KnowingHas, LinkablePlain DEF Cached, Owns
<1>4. s.V \in Dependers(M) /\ s \notin Regions
  <2>1. V \notin GlobalVariables \cup Functions \cup Allocas \cup {NoValue}
    BY <1>2, KindsAssumption, AllocasAssumption, UserKinds, NoValueAssumption
  <2> QED  BY <1>2, <1>3, <2>1, NotARegion DEF Dependers
<1>5. Got[1] \in Mine
  <2>1. /\ M \in ModulesToRun /\ Top.handler = "alias" /\ V = Top.V
        /\ Got \in Seq(Mine \cup {NoVI}) /\ Len(Got) = Len(Asked(M, Top)) /\ FirstIsKept(M, Top)
        /\ \A k \in 1 .. Len(Got) : Got[k] # NoVI => Got[k] \in Mine
    BY <1>1, ReadyTop
  <2>2. Asked(M, Top) = M.operands[V]
    BY <2>1 DEF Asked
  <2>3. Len(M.operands[V]) = 1 /\ IsAddress(M, M.operands[V][1]) /\ M.operands[V] \in Seq(Values)
    BY <1>2, <2>1, ModuleType, UserKinds DEF WellFormed, WellTyped, WellLinked
  <2>4. M.operands[V] # <<>> /\ Head(M.operands[V]) = M.operands[V][1]
    BY <2>3, EmptySeq
  <2>5. Got # <<>>
    BY <2>1, <2>2, <2>3, EmptySeq
  <2>6. Got[1] # NoVI
    BY <2>1, <2>3, <2>4, <2>5 DEF FirstIsKept, Got
  <2> QED  BY <2>1, <2>2, <2>3, <2>6
<1> HIDE DEF s
<1>6. Relation("DEPENDS_ON", s, Got[1]) \in P /\ Relation("DEPENDS_ON", s, EL) \in P
  BY <1>3, <1>4, <1>5, MineIs, KnowingHas, PlainRelations
<1> HIDE DEF P
<1>7. r1 \in Seq(P) /\ r2 \in Seq(P)
  BY <1>6, EmptyPlain DEF If
<1>8. Linkable \in Seq(P)
  BY <1>2, LinkablePlain DEF P
<1> HIDE DEF r1, r2
<1>9. r1 \o r2 \in Seq(P)
  BY <1>7, ConcatProperties
<1>10. (r1 \o r2) \o Linkable \in Seq(P)
  BY <1>8, <1>9, ConcatProperties
<1> QED  BY <1>1, <1>10, PlainHandled DEF P

LEMMA UserData ==
    ASSUME Analyzing, Knowing, EndUser
    PROVE  DataStep
<1>1. Filled /\ Related(M, relations, created) /\ Numbered(created)
  BY KnowingHas
<1> DEFINE v == V
<1>2. /\ Ready({"user"}) /\ M' = M
      /\ GlobalRegionInfos' = GlobalRegionInfos /\ AnonymousValueInfos' = AnonymousValueInfos
  BY DEF EndUser
<1>3. /\ M \in ModulesToRun /\ stack # <<>> /\ Len(stack) \in Nat /\ Len(stack) >= 1
      /\ Top = stack[Len(stack)] /\ v = Top.V /\ Top.handler = "user"
      /\ IF Len(stack) = 1 THEN Outermost(M, Top) ELSE Nested(M, Top)
      /\ Got \in Seq(Mine \cup {NoVI}) /\ Len(Got) \in Nat /\ Len(Got) = Len(Asked(M, Top))
      /\ FirstIsKept(M, Top)
      /\ Real \in Seq(Mine)
      /\ Len(Got) >= 1 /\ Got[1] # NoVI => Real # <<>>
  BY <1>2, ReadyTop
<1>4. v \in Constants \/ (v \in Instructions /\ M.opcode[v] = "user")
  BY <1>3 DEF Nested, Outermost, IsNode
<1>5. v \in Values /\ v \notin DefinedRegions(M) /\ v \notin GlobalAliases /\ v \notin Globals
  BY <1>4, UserKinds DEF DefinedRegions
<1>6. v \in Known => v \in Constants /\ MentionsItself(M, v)
  <2>1. Len(stack) \in DOMAIN stack
    <3>1. Framed(M, stack)
      BY AnalyzingHas DEF Recurring
    <3> QED  BY <1>3, <3>1, TopFrame
  <2>2. Caches(stack[Len(stack)])
    BY <1>3 DEF Caches
  <2> QED  BY <1>3, <2>1, <2>2, AnalyzingHas DEF OnlyCircles
<1>7. IsAddress(M, v) => Real # <<>>
  <2>1. SUFFICES ASSUME v \in Constants, M.operands[v] # <<>>, Head(M.operands[v]) \in Globals
                 PROVE  Real # <<>>
    BY <1>5 DEF IsAddress
  <2>2. Asked(M, Top) = M.operands[v]
    BY <1>3 DEF Asked
  <2>3. M.operands[v] \in Seq(Values)
    BY <1>3, <2>1, ModuleType, UserKinds
  <2>4. Got # <<>> /\ Got[1] # NoVI
    <3>1. Len(M.operands[v]) \in Nat \ {0}
      BY <2>1, <2>3, EmptySeq
    <3>2. Got # <<>>
      BY <1>3, <2>2, <3>1, EmptySeq
    <3>3. IsAddress(M, Head(M.operands[v]))
      BY <2>1 DEF IsAddress
    <3> QED  BY <1>3, <2>1, <3>2, <3>3 DEF FirstIsKept, Got
  <2>5. Len(Got) >= 1
    BY <1>3, <2>4, EmptySeq
  <2> QED  BY <1>3, <2>4, <2>5
<1> HIDE DEF v
<1>8. v = V
  BY DEF v
<1>9. CASE Len(Real) = 0 /\ cacheNil(V) /\ handle(<<>>)
  <2>1. cache(v, NoVI) /\ created' = created /\ relations' = relations \o <<>>
    BY <1>8, <1>9 DEF cacheNil, handle
  <2>2. NoVI \in Handed(created) /\ ~IsAddress(M, v)
    BY <1>3, <1>7, <1>9, EmptySeq DEF Handed
  <2>3. Filled' /\ Kept
    BY <1>1, <1>2, <1>5, <1>6, <2>1, <2>2, CacheStep
  <2>4. Related(M, relations \o <<>>, created)
    BY <1>1, EmptyPlain, RelatedPlain
  <2> QED  BY <2>1, <2>3, <2>4 DEF DataStep
<1>10. CASE Len(Real) = 1 /\ cache(V, Real[1]) /\ UNCHANGED created /\ handle(<<>>)
  <2>1. cache(v, Real[1]) /\ created' = created /\ relations' = relations \o <<>>
    BY <1>8, <1>10 DEF handle
  <2>2. Real[1] \in Handed(created) /\ Real[1] # NoVI
    <3>1. 1 \in 1 .. Len(Real)
      BY <1>10
    <3>2. Real[1] \in Mine
      BY <1>3, <3>1, ElementOfSeq
    <3> QED  BY <3>2, MineIs
  <2>3. Filled' /\ Kept
    BY <1>1, <1>2, <1>5, <1>6, <2>1, <2>2, CacheStep
  <2>4. Related(M, relations \o <<>>, created)
    BY <1>1, EmptyPlain, RelatedPlain
  <2> QED  BY <2>1, <2>3, <2>4 DEF DataStep
<1>11. CASE /\ cacheNewValueInfo(V)
            /\ handle([k \in DOMAIN Real |-> Relation("DEPENDS_ON", NewValueInfo(V), Real[k])])
  <2> DEFINE d == NewOf(created, v)
             t == [k \in DOMAIN Real |-> Relation("DEPENDS_ON", d, Real[k])]
  <2>1. cacheNewValueInfo(v)
    BY <1>8, <1>11
  <2>2. /\ Filled' /\ Kept /\ NewValueInfo(v) = d
        /\ created' = created \cup {d}
    BY <1>1, <1>2, <1>5, <1>6, <2>1, CacheNewStep
  <2>3. d.V = v /\ d \notin {EL, EA, NoVI} /\ d \in AnyVIs
    BY <1>1, <1>5, NewIsNew
  <2>4. relations' = relations \o t
    BY <1>8, <1>11, <2>2 DEF handle
  <2>5. d.V \in Dependers(M) /\ d \notin Regions
    <3>1. v \notin Allocas
      BY <1>3, <1>4, ModuleType, AllocasAssumption, KindsAssumption DEF WellFormed, WellTyped
    <3>2. v \notin GlobalVariables \cup Functions \cup {NoValue}
      BY <1>5, UserKinds, NoValueAssumption
    <3> QED  BY <1>4, <2>3, <3>1, <3>2, NotARegion DEF Dependers
  <2>6. created' \subseteq AnyVIs /\ Mine \subseteq created' /\ d \in created'
    BY <2>2, <2>3, KnowingHas, MineIs
  <2> HIDE DEF d
  <2>7. \A x \in Mine : Relation("DEPENDS_ON", d, x) \in Plain(M, created')
    BY <2>3, <2>5, <2>6, MineIs, PlainRelations
  <2>8. t \in Seq(Plain(M, created'))
    BY <1>3, <2>7, SomeRelations
  <2> HIDE DEF t
  <2>9. Related(M, relations \o t, created')
    BY <1>1, <2>2, <2>8, RelatedPlain
  <2> QED  BY <2>2, <2>4, <2>9 DEF DataStep
<1> QED  BY <1>9, <1>10, <1>11 DEF EndUser

LEMMA FinishData ==
    ASSUME Analyzing, Knowing, Finish
    PROVE  DataStep
<1>1. CASE EndVisitGlobal
  BY <1>1, RelationsKept DEF EndVisitGlobal
<1> QED  BY <1>1, RegionData, AliasData, UserData, PHINodeData, LoadData, StoreData, AtomicMutateData,
            MemTransferData, VACopyData, VAStartData, CallData, ReturnData DEF Finish

-----------------------------------------------------------------------------
(* The frames of every step.                                               *)

LEMMA KnowsOn ==
    ASSUME Knowing, DataStep, Holds(M, created', stack'), FunctionKnown', PHINodesOwn'
    PROVE  Knowing'
BY DEF Knowing, DataStep, Kept

LEMMA OwnsKept ==
    ASSUME Kept, NEW v, v \notin Constants, Owns(v)
    PROVE  v \in Known' /\ ValueInfos'[v] # NoVI /\ ValueInfos'[v].V = v
BY DEF Kept, Owns

(* PHI nodes are no constants.                                             *)
LEMMA PHINodesStayOwn ==
    ASSUME Analyzing, Knowing, Kept
    PROVE  /\ \A k \in DOMAIN PHINodeWork :
                 LET i == PHINodeWork[k] IN i \in Known' /\ ValueInfos'[i] # NoVI /\ ValueInfos'[i].V = i
           /\ stack # <<>> /\ stack[1].handler = "phi" =>
                 LET i == stack[1].V IN i \in Known' /\ ValueInfos'[i] # NoVI /\ ValueInfos'[i].V = i
<1>1. M \in ModulesToRun /\ Framed(M, stack) /\ WalkTypes /\ PHINodesOwn
  BY AnalyzingHas, KnowingHas DEF Recurring
<1>2. ASSUME NEW k \in DOMAIN PHINodeWork
      PROVE  LET i == PHINodeWork[k] IN i \in Known' /\ ValueInfos'[i] # NoVI /\ ValueInfos'[i].V = i
  <2>1. PHINodeWork[k] \in Instructions
    BY <1>1, LenProperties, ElementOfSeq DEF WalkTypes
  <2> QED  BY <1>1, <2>1, OwnsKept, UserKinds, KindsAssumption DEF PHINodesOwn
<1>3. ASSUME stack # <<>>, stack[1].handler = "phi"
      PROVE  LET i == stack[1].V IN i \in Known' /\ ValueInfos'[i] # NoVI /\ ValueInfos'[i].V = i
  <2>1. Outermost(M, stack[1])
    <3>1. 1 \in DOMAIN stack
      BY <1>1, <1>3, TopFrame
    <3> QED  BY <1>1, <3>1 DEF Framed
  <2>2. stack[1].V \in Instructions
    BY <1>3, <2>1 DEF Outermost, IsNode
  <2> QED  BY <1>1, <1>3, <2>2, OwnsKept, KindsAssumption DEF PHINodesOwn
<1> QED  BY <1>2, <1>3

(* While values are analyzed, the walk and the outermost handler stay.     *)
LEMMA WaitingKnows ==
    ASSUME Analyzing, Knowing, DataStep, walk' = walk, Holds(M, created', stack'), stack # <<>>,
           stack' # <<>> => stack'[1].handler = stack[1].handler /\ stack'[1].V = stack[1].V,
           \/ stack' # <<>> /\ stack'[1].todo = stack[1].todo
           \/ stack[1].todo = <<>>
           \/ stack' # <<>> /\ stack[1].todo # <<>> /\ Head(stack[1].todo) \in Known
    PROVE  Knowing'
<1>1. CurrentFunction' = CurrentFunction /\ PHINodeWork' = PHINodeWork /\ Kept /\ FunctionKnown
  BY KnowingHas DEF walk, DataStep
<1>2. Known \subseteq Known'
  BY <1>1 DEF Kept
<1>3. FunctionKnown'
  BY <1>1, <1>2 DEF FunctionKnown
<1>4. PHINodesOwn'
  BY <1>1, PHINodesStayOwn DEF PHINodesOwn, Owns
<1> QED  BY <1>3, <1>4, KnowsOn

(* The frames that are pushed ask for the values they should.              *)
LEMMA AskedIs ==
    ASSUME NEW m, NEW h, NEW v, NEW ops
    PROVE  /\ h = "global" => Asked(m, Frame(h, v, ops)) = <<v>>
           /\ h = "argument" => Asked(m, Frame(h, v, ops)) = <<v>> \o m.args[v]
           /\ h = "region" => Asked(m, Frame(h, v, ops)) = IF v \in GlobalVariables THEN m.operands[v] ELSE <<>>
           /\ h \notin {"global", "argument", "region"} => Asked(m, Frame(h, v, ops)) = m.operands[v]
BY FrameFields DEF Asked

LEMMA OperandsLength ==
    ASSUME NEW m \in ModulesToRun, NEW v
    PROVE  /\ v \in Users => Len(m.operands[v]) \in Nat
           /\ v \in Functions => Len(<<v>> \o m.args[v]) \in Nat
           /\ Len(<<v>>) \in Nat /\ Len(<<>>) \in Nat
<1>1. v \in Users => Len(m.operands[v]) \in Nat
  BY ModuleType, LenProperties
<1>2. ASSUME v \in Functions PROVE Len(<<v>> \o m.args[v]) \in Nat
  <2> DEFINE T == {v} \cup Arguments
  <2>1. <<v>> \in Seq(T)
    OBVIOUS
  <2>2. m.args[v] \in Seq(T)
    <3>1. m.args[v] \in Seq(Arguments) /\ Arguments \subseteq T
      BY <1>2, ModuleType
    <3> HIDE DEF T
    <3> QED  BY <3>1, SeqMonotonic
  <2> HIDE DEF T
  <2>3. <<v>> \o m.args[v] \in Seq(T)
    BY <2>1, <2>2, ConcatProperties
  <2> QED  BY <2>3, LenProperties
<1> QED  BY <1>1, <1>2

(* An answer: the value is in the cache. *)
LEMMA AnswerKnows ==
    ASSUME Analyzing, Knowing, AnalyzedValue
    PROVE  Knowing'
<1>1. M \in ModulesToRun /\ Framed(M, stack)
  BY AnalyzingHas DEF Recurring
<1> DEFINE vi == ValueInfos[Head(Top.todo)]
<1>2. /\ stack # <<>> /\ Top.todo # <<>> /\ Head(Top.todo) \in Known
      /\ stack' = Answered(stack, vi)
      /\ M' = M /\ data' = data /\ relations' = relations /\ walk' = walk
  BY DEF AnalyzedValue, analyzed, Known, Answered
<1>3. DataStep /\ created' = created
  BY <1>2, RelationsKept DEF data
<1>4. vi \in Handed(created) /\ (IsAddress(M, Head(Top.todo)) => vi # NoVI)
  BY <1>2, KnowingHas DEF Cached
<1> HIDE DEF vi
<1>5. Holds(M, created, stack')
  BY <1>1, <1>2, <1>4, KnowingHas, AnsweredHold DEF Top
<1>6. /\ stack' # <<>> /\ stack'[1].handler = stack[1].handler /\ stack'[1].V = stack[1].V
  BY <1>1, <1>2, AnsweredFrames DEF Top
<1>7. /\ Len(stack) \in Nat /\ Len(stack) >= 1 /\ Top = stack[Len(stack)]
      /\ \A k \in 1 .. Len(stack) : k # Len(stack) => stack'[k] = stack[k]
  <2>1. Len(stack) \in Nat /\ Len(stack) >= 1 /\ Top = stack[Len(stack)]
    BY <1>1, <1>2, TopFrame
  <2>2. \A k \in 1 .. Len(stack) : k # Len(stack) => Answered(stack, vi)[k] = stack[k]
    BY <1>1, <1>2, AnsweredTop
  <2> QED  BY <1>2, <2>1, <2>2
<1>8. CASE Len(stack) = 1
  BY <1>2, <1>3, <1>5, <1>6, <1>7, <1>8, WaitingKnows
<1>9. CASE Len(stack) # 1
  <2>1. stack'[1] = stack[1]
    BY <1>7, <1>9
  <2> QED  BY <1>2, <1>3, <1>5, <1>6, <2>1, WaitingKnows
<1> QED  BY <1>8, <1>9

(* The analysis of a constant or global begins. *)
LEMMA BeginKnows ==
    ASSUME Analyzing, Knowing, DataStep, Analyzing', walk' = walk, NEW v, Asks(v),
           NEW h, NEW ops, stack' = Append(stack, Frame(h, v, ops)),
           \/ h \in {"user", "alias"} /\ v \in Users /\ ops = M.operands[v]
           \/ h = "region" /\ ops = Initializer(v)
    PROVE  Knowing'
<1>1. M \in ModulesToRun /\ Framed(M, stack) /\ stack # <<>> /\ M' = M /\ created \subseteq created'
  BY AnalyzingHas DEF Recurring, Asks, DataStep, Kept
<1>2. Framed(M, stack')
  BY <1>1 DEF Analyzing, Recurring
<1>3. Holds(M, created', stack)
  BY <1>1, KnowingHas, HoldsOn
<1>4. /\ Len(ops) = Len(Asked(M, Frame(h, v, ops)))
      /\ h \in {"alias", "user"} => ops = M.operands[v]
      /\ Len(ops) \in Nat
  <2>1. CASE h \in {"user", "alias"} /\ v \in Users /\ ops = M.operands[v]
    <3>1. h \notin {"global", "argument", "region"}
      BY <2>1
    <3>2. Asked(M, Frame(h, v, ops)) = M.operands[v]
      BY <3>1, AskedIs
    <3>3. Len(M.operands[v]) \in Nat
      BY <1>1, <2>1, OperandsLength
    <3> QED  BY <2>1, <3>2, <3>3
  <2>2. CASE h = "region" /\ ops = Initializer(v)
    <3>1. v \in GlobalVariables => v \in Users
      BY UserKinds
    <3>2. ops = IF v \in GlobalVariables THEN M.operands[v] ELSE <<>>
      BY <2>2 DEF Initializer
    <3>3. Asked(M, Frame(h, v, ops)) = ops
      <4>1. h = "region"
        BY <2>2
      <4>2. Asked(M, Frame(h, v, ops)) = IF v \in GlobalVariables THEN M.operands[v] ELSE <<>>
        BY <4>1, AskedIs
      <4> QED  BY <3>2, <4>2
    <3>4. Len(ops) \in Nat
      BY <1>1, <3>1, <3>2, OperandsLength
    <3>5. h \notin {"alias", "user"}
      BY <2>2
    <3> QED  BY <3>3, <3>4, <3>5
  <2> QED  BY <2>1, <2>2
<1>5. Holds(M, created', stack')
  BY <1>1, <1>2, <1>3, <1>4, PushedHold
<1>6. stack' # <<>> /\ stack'[1] = stack[1]
  <2>1. \E i \in Nat : Len(stack) = i /\ i >= 1 /\ DOMAIN stack = 1 .. i
    BY <1>1, TopFrame
  <2> DEFINE fr == Frame(h, v, ops)
             T  == ToSet(stack) \cup {fr}
  <2>2. stack \in Seq(T) /\ fr \in T
    <3>1. stack \in Seq(ToSet(stack)) /\ ToSet(stack) \subseteq T
      BY <1>1 DEF Framed
    <3> HIDE DEF T
    <3>2. stack \in Seq(T)
      BY <3>1, SeqMonotonic
    <3> QED  BY <3>2 DEF T
  <2> HIDE DEF T, fr
  <2>3. stack' = Append(stack, fr)
    BY DEF fr
  <2>4. stack' # <<>> /\ \A k \in 1 .. Len(stack) : stack'[k] = stack[k]
    BY <2>2, <2>3, AppendProperties
  <2>5. 1 \in 1 .. Len(stack)
    BY <2>1
  <2> QED  BY <2>4, <2>5
<1> QED  BY <1>1, <1>5, <1>6, WaitingKnows

LEMMA AnalyzeKnows ==
    ASSUME Analyzing, Knowing, Analyzing', AnalyzeValue
    PROVE  Knowing'
<1>1. DataStep
  BY AnalyzeData
<1>2. CASE AnalyzedValue
  BY <1>2, AnswerKnows
<1>3. ASSUME NEW v \in Values, AnalyzeDeclaration(v) \/ AnalyzeArgument(v) \/ AnalyzeNil(v)
      PROVE  Knowing'
  <2>1. stack' = stack /\ walk' = walk /\ stack # <<>>
    BY <1>3 DEF AnalyzeDeclaration, AnalyzeArgument, AnalyzeNil, Unanalyzed, Asks
  <2>2. created \subseteq created'
    BY <1>1 DEF DataStep, Kept
  <2>3. Holds(M, created', stack')
    BY <2>1, <2>2, KnowingHas, HoldsOn
  <2> QED  BY <1>1, <2>1, <2>3, WaitingKnows
<1>4. ASSUME NEW v \in Values, analyzeUser(v) \/ analyzeGlobalAlias(v) \/ analyzeGlobalRegion(v)
      PROVE  Knowing'
  <2>1. walk' = walk /\ Asks(v)
    BY <1>4 DEF analyzeUser, analyzeGlobalAlias, analyzeGlobalRegion, Unanalyzed
  <2>2. CASE analyzeUser(v)
    <3>1. v \in Users /\ stack' = Append(stack, Frame("user", v, M.operands[v]))
      BY <2>2, UserKinds DEF analyzeUser, Unanalyzed, Call
    <3> QED  BY <1>1, <2>1, <3>1, BeginKnows
  <2>3. CASE analyzeGlobalAlias(v)
    <3>1. v \in Users /\ stack' = Append(stack, Frame("alias", v, M.operands[v]))
      BY <2>3, UserKinds DEF analyzeGlobalAlias, Unanalyzed, Call
    <3> QED  BY <1>1, <2>1, <3>1, BeginKnows
  <2>4. CASE analyzeGlobalRegion(v)
    <3>1. stack' = Append(stack, Frame("region", v, Initializer(v)))
      BY <2>4 DEF analyzeGlobalRegion, Call
    <3> QED  BY <1>1, <2>1, <3>1, BeginKnows
  <2> QED  BY <1>4, <2>2, <2>3, <2>4
<1> QED  BY <1>2, <1>3, <1>4 DEF AnalyzeValue

LEMMA FinishKnows ==
    ASSUME Analyzing, Knowing, Finish
    PROVE  Knowing'
<1>1. DataStep /\ M \in ModulesToRun /\ Framed(M, stack)
  BY FinishData, AnalyzingHas DEF Recurring
<1>2. walk' = walk /\ stack # <<>> /\ Top.todo = <<>> /\ stack' = Front(stack)
  BY FinishSteps DEF Ends
<1>3. created \subseteq created'
  BY <1>1 DEF DataStep, Kept
<1>4. Holds(M, created', stack')
  BY <1>1, <1>2, <1>3, KnowingHas, PoppedHold, HoldsOn
<1>5. /\ Len(stack) \in Nat /\ Len(stack) >= 1 /\ Top = stack[Len(stack)]
      /\ Len(stack') = Len(stack) - 1
      /\ \A k \in 1 .. Len(stack) - 1 : stack'[k] = stack[k]
  BY <1>1, <1>2, TopFrame, FrontFrames
<1>6. CASE Len(stack) = 1
  <2>1. Framed(M, stack')
    BY <1>1, <1>2, FrontFrames
  <2>2. stack' = <<>>
    BY <1>5, <1>6, <2>1, EmptySeq DEF Framed
  <2> QED  BY <1>1, <1>2, <1>4, <1>5, <1>6, <2>2, WaitingKnows
<1>7. CASE Len(stack) # 1
  <2>1. stack'[1] = stack[1]
    BY <1>5, <1>7
  <2>2. stack' # <<>>
    <3>1. Len(stack') # 0 /\ Len(<<>>) = 0
      BY <1>5, <1>7
    <3> QED  BY <3>1
  <2> QED  BY <1>1, <1>2, <1>4, <2>1, <2>2, WaitingKnows
<1> QED  BY <1>6, <1>7

-----------------------------------------------------------------------------
(* What the walk knows.                                                    *)

(* The walk begins to run a handler. *)
LEMMA StartHolds ==
    ASSUME Analyzing, Knowing, DataStep, Analyzing', stack = <<>>,
           NEW h, NEW v, NEW ops, stack' = Append(stack, Frame(h, v, ops)),
           h \in {"alias", "user"} => ops = M.operands[v],
           Len(ops) \in Nat, Len(ops) = Len(Asked(M, Frame(h, v, ops)))
    PROVE  /\ Holds(M, created', stack')
           /\ stack' # <<>> /\ stack'[1].handler = h /\ stack'[1].V = v /\ stack'[1].todo = ops
<1>1. M \in ModulesToRun /\ Framed(M, stack) /\ M' = M /\ created \subseteq created'
  BY AnalyzingHas DEF Recurring, DataStep, Kept
<1>2. Framed(M, stack')
  BY <1>1 DEF Analyzing, Recurring
<1>3. Holds(M, created', stack)
  BY <1>1, KnowingHas, HoldsOn
<1>4. Holds(M, created', stack')
  BY <1>1, <1>2, <1>3, PushedHold
<1> DEFINE fr == Frame(h, v, ops)
<1>5. fr.handler = h /\ fr.V = v /\ fr.todo = ops
  BY FrameFields
<1> HIDE DEF fr
<1>6. stack' # <<>> /\ stack'[1] = fr
  <2>1. stack \in Seq({fr}) /\ Len(stack) = 0
    OBVIOUS
  <2>2. stack' = Append(stack, fr)
    BY DEF fr
  <2>3. Len(stack') = 1 /\ stack'[Len(stack) + 1] = fr
    BY <2>1, <2>2, AppendProperties
  <2>4. Len(<<>>) = 0
    OBVIOUS
  <2> QED  BY <2>1, <2>3, <2>4
<1> QED  BY <1>4, <1>5, <1>6

LEMMA NoHold ==
    ASSUME Knowing, NEW C, stack' = <<>>
    PROVE  Holds(M, C, stack')
<1>1. DOMAIN stack' = {}
  OBVIOUS
<1> QED  BY <1>1 DEF Holds

LEMMA VisitGlobalKnows ==
    ASSUME Analyzing, Knowing, DataStep, Analyzing', NEW v, VisitGlobal(v)
    PROVE  Knowing'
<1>1. /\ stack = <<>> /\ CurrentFunction = NoFunction /\ CurrentFunction' = CurrentFunction
      /\ PHINodeWork' = PHINodeWork /\ stack' = Append(stack, Frame("global", v, <<v>>))
  BY DEF VisitGlobal, Idle, Call
<1>2. Len(<<v>>) \in Nat /\ Len(<<v>>) = Len(Asked(M, Frame("global", v, <<v>>)))
  <2>1. Asked(M, Frame("global", v, <<v>>)) = <<v>>
    BY AskedIs
  <2> QED  BY <2>1
<1>3. /\ Holds(M, created', stack')
      /\ stack' # <<>> /\ stack'[1].handler = "global" /\ stack'[1].V = v /\ stack'[1].todo = <<v>>
  <2> DEFINE h == "global"
             ops == <<v>>
  <2>1. /\ stack' = Append(stack, Frame(h, v, ops)) /\ (h \in {"alias", "user"} => ops = M.operands[v])
        /\ Len(ops) \in Nat /\ Len(ops) = Len(Asked(M, Frame(h, v, ops)))
    BY <1>1, <1>2
  <2> HIDE DEF h, ops
  <2>2. /\ Holds(M, created', stack')
        /\ stack' # <<>> /\ stack'[1].handler = h /\ stack'[1].V = v /\ stack'[1].todo = ops
    BY <1>1, <2>1, StartHolds
  <2> QED  BY <2>2 DEF h, ops
<1>4. FunctionKnown'
  BY <1>1, <1>3 DEF FunctionKnown
<1>5. PHINodesOwn'
  BY <1>1, <1>3, PHINodesStayOwn DEF PHINodesOwn, Owns, DataStep
<1> QED  BY <1>3, <1>4, <1>5, KnowsOn

LEMMA ProcessFunctionKnows ==
    ASSUME Analyzing, Knowing, DataStep, Analyzing', NEW f \in Functions, processFunction(f)
    PROVE  Knowing'
<1> DEFINE h == "argument"
           ops == <<f>> \o M.args[f]
<1>1. /\ stack = <<>> /\ CurrentFunction' = f
      /\ PHINodeWork' = PHINodeWork /\ stack' = Append(stack, Frame(h, f, ops))
  BY DEF processFunction, Idle, Call
<1>2. M \in ModulesToRun
  BY AnalyzingHas
<1>3. /\ Len(ops) \in Nat /\ Len(ops) = Len(Asked(M, Frame(h, f, ops)))
      /\ h \in {"alias", "user"} => ops = M.operands[f]
  <2>1. Asked(M, Frame(h, f, ops)) = ops
    BY AskedIs
  <2>2. Len(ops) \in Nat
    BY <1>2, OperandsLength
  <2> QED  BY <2>1, <2>2
<1>4. ops # <<>> /\ Head(ops) = f
  <2> DEFINE T == {f} \cup Arguments
  <2>1. <<f>> \in Seq(T) /\ Len(<<f>>) = 1 /\ <<f>>[1] = f
    OBVIOUS
  <2>2. M.args[f] \in Seq(T)
    <3>1. M.args[f] \in Seq(Arguments) /\ Arguments \subseteq T
      BY <1>2, ModuleType
    <3> HIDE DEF T
    <3> QED  BY <3>1, SeqMonotonic
  <2> HIDE DEF T
  <2>3. ops \in Seq(T) /\ Len(ops) = 1 + Len(M.args[f]) /\ ops[1] = f
    BY <2>1, <2>2, ConcatProperties, LenProperties
  <2>4. Len(M.args[f]) \in Nat
    BY <2>2, LenProperties
  <2>5. ops # <<>>
    <3>1. Len(ops) # 0
      BY <2>3, <2>4
    <3> QED  BY <2>3, <3>1, EmptySeq
  <2> QED  BY <2>3, <2>5, HeadTailProperties
<1> HIDE DEF ops
<1>5. /\ Holds(M, created', stack')
      /\ stack' # <<>> /\ stack'[1].handler = h /\ stack'[1].V = f /\ stack'[1].todo = ops
  <2> HIDE DEF h
  <2> QED  BY <1>1, <1>3, StartHolds
<1>6. f # NoFunction
  BY NullsAssumption
<1>7. FunctionKnown'
  BY <1>1, <1>4, <1>5, <1>6 DEF FunctionKnown
<1>8. PHINodesOwn'
  BY <1>1, <1>5, PHINodesStayOwn DEF PHINodesOwn, Owns, DataStep
<1> QED  BY <1>5, <1>7, <1>8, KnowsOn

LEMMA IdleKnows ==
    ASSUME Analyzing, Knowing, DataStep, stack = <<>>, stack' = <<>>,
           CurrentFunction' \in {CurrentFunction, NoFunction},
           \A k \in DOMAIN PHINodeWork' :
               LET i == PHINodeWork'[k] IN i \in Known' /\ ValueInfos'[i] # NoVI /\ ValueInfos'[i].V = i
    PROVE  Knowing'
<1>1. FunctionKnown'
  BY KnowingHas DEF FunctionKnown, DataStep, Kept
<1>2. PHINodesOwn'
  BY DEF PHINodesOwn, Owns
<1> QED  BY <1>1, <1>2, NoHold, KnowsOn

LEMMA VisitOperandsKnows ==
    ASSUME Analyzing, Knowing, DataStep, Analyzing', VisitOperands
    PROVE  Knowing'
<1> DEFINE i   == Head(code)
           h   == M.opcode[i]
           ops == M.operands[i]
<1>1. /\ stack = <<>> /\ code # <<>> /\ CurrentFunction' = CurrentFunction
      /\ PHINodeWork' = PHINodeWork /\ stack' = Append(stack, Frame(h, i, ops))
      /\ h \in NodeHandlers
  BY VisitIs DEF VisitOperands, Call, NodeHandlers
<1>2. M \in ModulesToRun /\ i \in Instructions
  BY <1>1, AnalyzingHas, NextInstruction
<1> HIDE DEF i, h, ops
<1>3. h \notin {"global", "argument", "region", "phi"}
  BY <1>1, HandlerNames
<1>4. ops = M.operands[i] /\ i \in Users
  BY <1>2, UserKinds DEF ops
<1>5. Len(ops) \in Nat /\ Len(ops) = Len(Asked(M, Frame(h, i, ops)))
  BY <1>2, <1>3, <1>4, AskedIs, OperandsLength
<1>6. /\ Holds(M, created', stack')
      /\ stack' # <<>> /\ stack'[1].handler = h
  BY <1>1, <1>4, <1>5, StartHolds
<1>7. FunctionKnown'
  BY <1>1, <1>3, <1>6, KnowingHas DEF FunctionKnown, DataStep, Kept
<1>8. PHINodesOwn'
  BY <1>1, <1>3, <1>6, PHINodesStayOwn DEF PHINodesOwn, Owns, DataStep
<1> QED  BY <1>6, <1>7, <1>8, KnowsOn

LEMMA ProcessPHINodeKnows ==
    ASSUME Analyzing, Knowing, DataStep, Analyzing', ProcessPHINode
    PROVE  Knowing'
<1> DEFINE i   == Head(PHINodeWork)
           h   == "phi"
           ops == M.operands[i]
<1>1. /\ stack = <<>> /\ PHINodeWork # <<>> /\ CurrentFunction' = CurrentFunction
      /\ PHINodeWork' = Tail(PHINodeWork) /\ stack' = Append(stack, Frame(h, i, ops))
  BY DEF ProcessPHINode, BlocksDone, Idle, Call
<1>2. M \in ModulesToRun /\ PHINodeWork \in Seq(Instructions)
  BY AnalyzingHas DEF WalkTypes
<1>3. /\ Len(PHINodeWork) \in Nat /\ Len(PHINodeWork) >= 1 /\ DOMAIN PHINodeWork = 1 .. Len(PHINodeWork)
      /\ i = PHINodeWork[1] /\ i \in Instructions
      /\ DOMAIN Tail(PHINodeWork) = 1 .. Len(PHINodeWork) - 1
      /\ \A k \in 1 .. Len(PHINodeWork) - 1 : Tail(PHINodeWork)[k] = PHINodeWork[k + 1]
  BY <1>1, <1>2, LenProperties, EmptySeq, HeadTailProperties
<1>4. \A k \in DOMAIN PHINodeWork :
          LET q == PHINodeWork[k] IN q \in Known' /\ ValueInfos'[q] # NoVI /\ ValueInfos'[q].V = q
  BY PHINodesStayOwn DEF DataStep
<1>5. i \in Known' /\ ValueInfos'[i] # NoVI /\ ValueInfos'[i].V = i
  BY <1>3, <1>4
<1>6. \A k \in DOMAIN PHINodeWork' :
          LET q == PHINodeWork'[k] IN q \in Known' /\ ValueInfos'[q] # NoVI /\ ValueInfos'[q].V = q
  <2>1. ASSUME NEW k \in 1 .. Len(PHINodeWork) - 1
        PROVE  k + 1 \in DOMAIN PHINodeWork /\ PHINodeWork'[k] = PHINodeWork[k + 1]
    BY <1>1, <1>3
  <2> QED  BY <1>1, <1>3, <1>4, <2>1
<1> HIDE DEF i, ops
<1>7. ops = M.operands[i] /\ i \in Users
  BY <1>3, UserKinds DEF ops
<1>8. Len(ops) \in Nat /\ Len(ops) = Len(Asked(M, Frame(h, i, ops)))
  <2>1. h \notin {"global", "argument", "region"}
    OBVIOUS
  <2> HIDE DEF h
  <2>2. Asked(M, Frame(h, i, ops)) = M.operands[i]
    BY <2>1, AskedIs
  <2> QED  BY <1>2, <1>7, <2>2, OperandsLength
<1>9. /\ Holds(M, created', stack')
      /\ stack' # <<>> /\ stack'[1].handler = h /\ stack'[1].V = i
  <2> HIDE DEF h
  <2> QED  BY <1>1, <1>7, <1>8, StartHolds
<1>10. FunctionKnown'
  BY <1>1, <1>9, KnowingHas DEF FunctionKnown, DataStep, Kept
<1>11. PHINodesOwn'
  BY <1>5, <1>6, <1>9 DEF PHINodesOwn, Owns
<1> QED  BY <1>9, <1>10, <1>11, KnowsOn

LEMMA WalkKnows ==
    ASSUME Analyzing, Knowing, Analyzing', Walk
    PROVE  Knowing'
<1>1. DataStep /\ \A i : visitPHINode /\ i = Head(code) => Owns(i)'
  BY WalkData
<1>2. \A k \in DOMAIN PHINodeWork :
          LET q == PHINodeWork[k] IN q \in Known' /\ ValueInfos'[q] # NoVI /\ ValueInfos'[q].V = q
  BY <1>1, PHINodesStayOwn DEF DataStep
<1>3. ASSUME (\E b \in BasicBlocks : NextBlock(b)) \/ visitAllocaInst \/ visitNothing \/ EndFunction
      PROVE  Knowing'
  <2>1. /\ stack = <<>> /\ stack' = <<>> /\ PHINodeWork' = PHINodeWork
        /\ CurrentFunction' \in {CurrentFunction, NoFunction}
    BY <1>3 DEF NextBlock, visitAllocaInst, visitNothing, Visits, EndFunction, BlocksDone, Idle
  <2> QED  BY <1>1, <1>2, <2>1, IdleKnows
<1>4. CASE visitPHINode
  <2> DEFINE i == Head(code)
  <2>1. /\ stack = <<>> /\ stack' = <<>> /\ PHINodeWork' = Append(PHINodeWork, i) /\ code # <<>>
        /\ CurrentFunction' \in {CurrentFunction, NoFunction}
    BY <1>4 DEF visitPHINode, Visits, Idle
  <2>2. i \in Known' /\ ValueInfos'[i] # NoVI /\ ValueInfos'[i].V = i
    BY <1>1, <1>4 DEF Owns
  <2>3. PHINodeWork \in Seq(Instructions) /\ i \in Instructions
    BY <2>1, AnalyzingHas, NextInstruction DEF WalkTypes
  <2> HIDE DEF i
  <2>4. PICK n \in Nat : /\ DOMAIN PHINodeWork = 1 .. n /\ DOMAIN PHINodeWork' = 1 .. n + 1
                         /\ \A k \in 1 .. n : PHINodeWork'[k] = PHINodeWork[k]
                         /\ PHINodeWork'[n + 1] = i
    BY <2>1, <2>3, AppendProperties, LenProperties
  <2>5. \A k \in 1 .. n + 1 : k \in 1 .. n \/ k = n + 1
    BY <2>4
  <2>6. \A k \in DOMAIN PHINodeWork' :
            LET q == PHINodeWork'[k] IN q \in Known' /\ ValueInfos'[q] # NoVI /\ ValueInfos'[q].V = q
    BY <1>2, <2>2, <2>4, <2>5
  <2> QED  BY <1>1, <2>1, <2>6, IdleKnows
<1> QED  BY <1>1, <1>3, <1>4, VisitGlobalKnows, ProcessFunctionKnows, VisitOperandsKnows, ProcessPHINodeKnows DEF Walk

-----------------------------------------------------------------------------
(* Data and the relations, at every step.                                  *)

LEMMA KnowingInit ==
    ASSUME Init
    PROVE  Knowing
<1>1. Filled /\ Related(M, relations, created)
  BY FilledAtFirst
<1>2. stack = <<>> /\ PHINodeWork = <<>> /\ CurrentFunction = NoFunction
  BY DEF Init
<1>3. DOMAIN stack = {} /\ DOMAIN PHINodeWork = {}
  BY <1>2
<1>4. Holds(M, created, stack) /\ FunctionKnown /\ PHINodesOwn
  BY <1>2, <1>3 DEF Holds, FunctionKnown, PHINodesOwn
<1> QED  BY <1>1, <1>4 DEF Knowing

LEMMA KnowingNext ==
    ASSUME Analyzing, Knowing, [Next]_vars
    PROVE  Knowing'
<1>1. Analyzing'
  BY AnalyzingNext
<1>2. CASE UNCHANGED vars
  BY <1>2 DEF vars, data, walk, Knowing, Filled, Numbered, Cached, RegionsMade, AnonymousKept, Accounted, Account,
       Holds, FunctionKnown, PHINodesOwn, Owns, Known
<1>3. CASE Next
  BY <1>1, <1>3, AnalyzeKnows, FinishKnows, WalkKnows DEF Next
<1> QED  BY <1>2, <1>3

(* At every step of instruction analysis: the cache has a ValueInfo for    *)
(* every value that it should, the relations fit those that went before,   *)
(* and every running handler has a ValueInfo, or null, for each value that *)
(* it has asked for.                                                       *)
THEOREM AlwaysKnowing == Spec => [](Analyzing /\ Knowing)
<1>1. Init => Analyzing /\ Knowing
  BY AnalyzingInit, KnowingInit
<1>2. Analyzing /\ Knowing /\ [Next]_vars => Analyzing' /\ Knowing'
  BY AnalyzingNext, KnowingNext
<1> QED  BY <1>1, <1>2, PTL DEF Spec

-----------------------------------------------------------------------------
(* What follows.                                                           *)

(* A frame is one of Frames. *)
LEMMA FrameType ==
    ASSUME NEW m \in ModulesToRun, NEW C, C \subseteq VIs, NEW fr, FrameOK(m, C, fr), IsFrame(m, fr),
           Outermost(m, fr) \/ Nested(m, fr)
    PROVE  fr \in Frames
<1>1. fr.handler \in Opcodes \cup {"region", "alias", "global", "argument"} /\ fr.V \in Values
  <2>1. fr.handler \in Opcodes \cup {"region", "alias", "global", "argument"}
    BY HandlerNames DEF Outermost, Nested, IsNode
  <2>2. fr.V \in Globals \cup Constants \cup Instructions
    BY UserKinds DEF Outermost, Nested, IsNode, DefinedRegions
  <2> QED  BY <2>1, <2>2, UserKinds
<1>2. fr.todo \in Seq(Values)
  <2>1. fr.V \in Users => ToSet(m.operands[fr.V]) \subseteq Values
    BY ModuleType, ToSetInside
  <2>2. fr.handler = "argument" => ToSet(m.args[fr.V]) \subseteq Values
    <3>1. fr.handler = "argument" => fr.V \in Functions
      BY HandlerNames DEF Outermost, Nested, IsNode
    <3>2. fr.handler = "argument" => ToSet(m.args[fr.V]) \subseteq Arguments
      BY <3>1, ModuleType, ToSetInside
    <3> QED  BY <3>2, UserKinds
  <2>3. Needs(m, fr) \subseteq Values
    BY <1>1, <2>1, <2>2, NeedsOf
  <2>4. fr.todo \in Seq(Needs(m, fr))
    BY DEF IsFrame
  <2> QED  BY <2>3, <2>4, SeqMonotonic
<1>3. fr.got \in Seq(VIs \cup {NoVI})
  <2>1. Handed(C) \subseteq VIs \cup {NoVI}
    BY DEF Handed
  <2>2. fr.got \in Seq(Handed(C))
    BY DEF FrameOK
  <2> QED  BY <2>1, <2>2, SeqMonotonic
<1>4. fr \in [handler : {fr.handler}, V : {fr.V}, todo : {fr.todo}, got : {fr.got}]
  BY DEF FrameOK, IsRecord
<1> QED  BY <1>1, <1>2, <1>3, <1>4 DEF Frames

LEMMA Typed ==
    ASSUME Analyzing, Knowing, created \subseteq VIs
    PROVE  TypeOK
<1>1. M \in ModulesToRun /\ Framed(M, stack) /\ WalkTypes /\ Related(M, relations, created)
  BY AnalyzingHas, KnowingHas DEF Recurring
<1>2. M \in Modules
  BY <1>1, ModuleType
<1>3. DOMAIN ValueInfos \subseteq Values /\ \A v \in DOMAIN ValueInfos : ValueInfos[v] \in created \cup {NoVI}
  BY KnowingHas DEF Cached, Known, Handed
<1>4. /\ DOMAIN GlobalRegionInfos \subseteq DefinedRegions(M)
      /\ \A q \in DOMAIN GlobalRegionInfos : GlobalRegionInfos[q] \in created \cap Regions
  BY KnowingHas DEF RegionsMade, Regions, DefinedRegions
<1>5. ToSet(AnonymousValueInfos) \subseteq created
  BY KnowingHas, ToSetInside DEF AnonymousKept
<1>6. \A k \in DOMAIN relations : relations[k].Src \in created /\ relations[k].Dst \in created
  <2>1. DOMAIN relations = 1 .. Len(relations)
    BY <1>1, LenProperties DEF Related
  <2> QED  BY <1>1, <2>1 DEF Related, Over
<1>7. stack \in Seq(Frames)
  <2>1. PICK n \in Nat : DOMAIN stack = 1 .. n /\ stack \in [1 .. n -> ToSet(stack)]
    BY <1>1, LenProperties DEF Framed
  <2>2. ASSUME NEW k \in 1 .. n
        PROVE  stack[k] \in Frames
    <3>1. FrameOK(M, created, stack[k]) /\ IsFrame(M, stack[k]) /\ (Outermost(M, stack[k]) \/ Nested(M, stack[k]))
      BY <1>1, <2>1, KnowingHas DEF Holds, Framed
    <3> QED  BY <1>1, <3>1, FrameType
  <2>3. stack \in [1 .. n -> Frames]
    BY <2>1, <2>2
  <2> QED  BY <2>3, SeqDef
<1>8. /\ toAnalyze \subseteq Globals /\ CurrentFunction \in Functions \cup {NoFunction}
      /\ PHINodeWork \in Seq(Instructions) /\ visited \subseteq BasicBlocks /\ code \in Seq(Instructions)
  BY <1>1 DEF WalkTypes
<1>9. path \in Seq(BasicBlocks)
  BY <1>1, SeqMonotonic DEF WalkTypes
<1> QED  BY <1>2, <1>3, <1>4, <1>5, <1>6, <1>7, <1>8, <1>9 DEF TypeOK

(* What is kept is owned. *)
LEMMA AccountedIsOwned ==
    ASSUME NEW vi, Account(vi)
    PROVE  vi \in Owned
BY DEF Account, Owned, Known

(* Data::visitValueInfos counts each ValueInfo at the one place that       *)
(* accounts for it.                                                        *)
LEMMA CountedOnce ==
    ASSUME Knowing, NEW vi \in created, Account(vi)
    PROVE  visitValueInfos(vi) = 1
<1> DEFINE A == {v \in DOMAIN ValueInfos : ValueInfos[v] = vi /\ v = vi.V}
           B == {q \in DOMAIN GlobalRegionInfos : GlobalRegionInfos[q] = vi /\ ValueInfos[q] # vi}
           K == {k \in DOMAIN AnonymousValueInfos : AnonymousValueInfos[k] = vi}
           one == IF vi \in {EL, EA} THEN 1 ELSE 0
<1>1. visitValueInfos(vi) = Cardinality(A) + Cardinality(B) + Cardinality(K) + one
  BY DEF visitValueInfos
<1>2. Cardinality({}) = 0 /\ \A x : Cardinality({x}) = 1
  BY FS_EmptySet, FS_Singleton
<1>3. Known \subseteq Values /\ NoValue \notin Values /\ DOMAIN GlobalRegionInfos \subseteq Known
  BY NoValueAssumption, KnowingHas DEF Cached, RegionsMade
<1>4. \A q \in DOMAIN GlobalRegionInfos : GlobalRegionInfos[q].V = q
  <2>1. \A q : ValueInfo(q, 0).V = q
    BY DEF ValueInfo
  <2> QED  BY <2>1, KnowingHas DEF RegionsMade
<1>5. \A k \in DOMAIN AnonymousValueInfos :
          /\ AnonymousValueInfos[k].V = NoValue /\ AnonymousValueInfos[k] \notin {EL, EA}
          /\ \A j \in DOMAIN AnonymousValueInfos : AnonymousValueInfos[j] = AnonymousValueInfos[k] => j = k
  BY KnowingHas DEF AnonymousKept
<1>6. ASSUME vi.V = NoValue
      PROVE  A = {} /\ B = {}
  BY <1>3, <1>4, <1>6 DEF Known
<1>7. ASSUME vi.V # NoValue
      PROVE  K = {} /\ one = 0
  BY <1>5, <1>7, TheExternals
<1>8. CASE vi \in {EL, EA}
  <2>1. vi.V = NoValue /\ one = 1
    BY <1>8, TheExternals
  <2>2. K = {}
    BY <1>5, <1>8
  <2> HIDE DEF A, B, K, one
  <2> QED  BY <1>1, <1>2, <1>6, <2>1, <2>2
<1>9. CASE vi \in ToSet(AnonymousValueInfos)
  <2>1. PICK k \in DOMAIN AnonymousValueInfos : AnonymousValueInfos[k] = vi
    BY <1>9 DEF ToSet
  <2>2. vi.V = NoValue /\ one = 0
    BY <1>5, <2>1
  <2>3. K = {k} /\ Cardinality({k}) = 1
    BY <1>2, <1>5, <2>1
  <2> HIDE DEF A, B, K, one
  <2> QED  BY <1>1, <1>2, <1>6, <2>2, <2>3
<1>10. CASE vi.V \in Known /\ ValueInfos[vi.V] = vi
  <2>1. vi.V # NoValue
    BY <1>3, <1>10
  <2>2. A = {vi.V} /\ Cardinality({vi.V}) = 1
    BY <1>2, <1>10 DEF Known
  <2>3. B = {}
    BY <1>4, <1>10
  <2> HIDE DEF A, B, K, one
  <2> QED  BY <1>1, <1>2, <1>7, <2>1, <2>2, <2>3
<1>11. CASE /\ vi.V \in DOMAIN GlobalRegionInfos /\ GlobalRegionInfos[vi.V] = vi
            /\ ValueInfos[vi.V] # vi
  <2>1. vi.V # NoValue
    BY <1>3, <1>11
  <2>2. A = {}
    BY <1>11
  <2>3. B = {vi.V} /\ Cardinality({vi.V}) = 1
    BY <1>2, <1>4, <1>11
  <2> HIDE DEF A, B, K, one
  <2> QED  BY <1>1, <1>2, <1>7, <2>1, <2>2, <2>3
<1> QED  BY <1>3, <1>8, <1>9, <1>10, <1>11 DEF Account

(* The variables have their types, for as many ValueInfos of a value as    *)
(* the model allows: no relation has a null operand, regions are made for  *)
(* the module's own globals only, and the cache, the relations and the     *)
(* running handlers have no ValueInfo that was not made.                   *)
THEOREM AlwaysTyped == Spec => [](created \subseteq VIs => TypeOK)
<1>1. Analyzing /\ Knowing => (created \subseteq VIs => TypeOK)
  BY Typed
<1> QED  BY <1>1, AlwaysKnowing, PTL

(* RelationHandler gets no relation but such as can arise after those that *)
(* it got before (RelationHandler.cpp:47-97 relies on it): a result is     *)
(* defined once and before any relation mentions it, and parameters and    *)
(* returned values are related to functions with a body only.              *)
THEOREM RelationsAlwaysArise == Spec => [](created \subseteq VIs => RelationsArise)
<1>1. Analyzing /\ Knowing => (created \subseteq VIs => RelationsArise)
  BY AnalyzingHas, KnowingHas, RelatedArise DEF RelationsArise
<1> QED  BY <1>1, AlwaysKnowing, PTL

(* Unless a constant is in a circle, Data keeps a reference to every       *)
(* ValueInfo that a relation or a running handler has a plain pointer to   *)
(* (ValueInfo.h:50), at every step.                                        *)
THEOREM NothingEverDangles == Spec => [](NoCircles(M) => NothingDangles)
<1>1. ASSUME Analyzing, Knowing, NoCircles(M)
      PROVE  NothingDangles
  <2>1. created \subseteq Owned
    BY <1>1, KnowingHas, AccountedIsOwned DEF Accounted
  <2>2. Related(M, relations, created) /\ Framed(M, stack)
    BY <1>1, AnalyzingHas, KnowingHas DEF Recurring
  <2>3. \A k \in DOMAIN relations : {relations[k].Src, relations[k].Dst} \subseteq Owned
    <3>1. DOMAIN relations = 1 .. Len(relations)
      BY <2>2, LenProperties DEF Related
    <3> QED  BY <2>1, <2>2, <3>1 DEF Related, Over
  <2>4. ASSUME NEW k \in DOMAIN stack
        PROVE  ToSet(stack[k].got) \subseteq Owned \cup {NoVI}
    <3>1. stack[k].got \in Seq(Handed(created))
      BY <1>1, KnowingHas DEF Holds, FrameOK
    <3>2. ToSet(stack[k].got) \subseteq Handed(created)
      BY <3>1, ToSetInside
    <3> QED  BY <2>1, <3>2 DEF Handed
  <2> QED  BY <2>3, <2>4 DEF NothingDangles
<1>2. Analyzing /\ Knowing => (NoCircles(M) => NothingDangles)
  BY <1>1
<1> QED  BY <1>2, AlwaysKnowing, PTL

(* Unless a constant is in a circle, Data::visitValueInfos                 *)
(* (Data.cpp:98-121) comes to every ValueInfo that was made once, though   *)
(* it has no list of them: values share ValueInfos, and the region of a    *)
(* definition is its symbol's too unless it may be overridden.             *)
THEOREM AlwaysVisitedOnce == Spec => [](NoCircles(M) => VisitedOnce)
<1>1. ASSUME Analyzing, Knowing, NoCircles(M)
      PROVE  VisitedOnce
  <2>1. DOMAIN GlobalRegionInfos \subseteq DOMAIN ValueInfos
    BY <1>1, KnowingHas DEF RegionsMade, Known
  <2>2. \A vi \in created : visitValueInfos(vi) = 1
    BY <1>1, KnowingHas, CountedOnce DEF Accounted
  <2> QED  BY <2>1, <2>2 DEF VisitedOnce
<1>2. Analyzing /\ Knowing => (NoCircles(M) => VisitedOnce)
  BY <1>1
<1> QED  BY <1>2, AlwaysKnowing, PTL
=============================================================================
