---------------------------- MODULE RelationHandler ----------------------------
(***************************************************************************)
(* How relations become equations: RelationHandler::handleRelation, the    *)
(* algorithms it speaks of, and ValueInfo, which creates the               *)
(* AnalysisResult of an algorithm when it is first asked for.              *)
(*                                                                         *)
(* An algorithm is the path it follows through the graph of ValueInfos: a  *)
(* literal algorithm is a path of one hop, a traversal one of two or       *)
(* three. An AnalysisResult is named by its algorithm and its ValueInfo.   *)
(***************************************************************************)
EXTENDS ArisingRelations, Integers, Sequences, SequencesExt, TLC

CONSTANTS NoVI,
          MaxRelations,  \* bound: distinct relations after createData's own
          MaxEnumerated, \* bound: the same, in programs whose sets are enumerated
          MaxMentioned   \* bound: the program's own ValueInfos in its relations

VARIABLES heap,      \* the ValueInfos' Results and what the ARs in them hold
          relations, \* the relations handled so far
          phase      \* Phase.h

vars == <<heap, relations, phase>>

INSTRUCTION_ANALYSIS_PHASE == "INSTRUCTION_ANALYSIS_PHASE"
ENUMERATION_PHASE          == "ENUMERATION_PHASE"

-----------------------------------------------------------------------------
(* The algorithms. *)

PointsToSet           == <<"self">>
ReversePointsTo       == <<"self-reverse">>
ActualParameters      == <<"actual-params">>
ActualReturnValue     == <<"actual-return-value">>
FormalParametersRev   == <<"formal-params-reverse">>
FormalReturnValueRev  == <<"formal-return-value">>
LoadedValuesRev       == <<"loaded-values-reverse">>
StoredValues          == <<"stored-values">>

InstructionAnalysisAlgorithms ==
    {PointsToSet, ActualParameters, ActualReturnValue, FormalParametersRev,
     FormalReturnValueRev, LoadedValuesRev, StoredValues}

TwoHopTraversal(f, g)      == f \o g
ThreeHopTraversal(f, g, h) == f \o g \o h

RelationTraversals ==
    {TwoHopTraversal(ReversePointsTo, ActualParameters),
     TwoHopTraversal(ReversePointsTo, FormalReturnValueRev),
     TwoHopTraversal(PointsToSet, ActualReturnValue),
     TwoHopTraversal(PointsToSet, FormalParametersRev),
     ThreeHopTraversal(PointsToSet, ReversePointsTo, StoredValues),
     ThreeHopTraversal(PointsToSet, ReversePointsTo, LoadedValuesRev)}

(* TraversalAlgorithm<FirstHop, SecondHop>: the second hop of a three-hop  *)
(* traversal is a traversal of the other two.                              *)
FirstHop(alg)    == <<Head(alg)>>
SecondHop(alg)   == Tail(alg)
IsTraversal(alg) == Len(alg) > 1

Traversals == RelationTraversals
                  \cup {SecondHop(t) : t \in {u \in RelationTraversals : Len(u) = 3}}

(* The algorithms of TransformWorks. *)
TransformAlgorithms == {SecondHop(t) : t \in Traversals}

Algorithms == InstructionAnalysisAlgorithms \cup {ReversePointsTo} \cup Traversals

IsEmptyIfMissing(alg, ph) ==
    alg \in InstructionAnalysisAlgorithms /\ ph = ENUMERATION_PHASE

AnalysisResults == Algorithms \X VIs
NoResult        == <<>>

Eq == INSTANCE Solutions WITH ARs <- AnalysisResults, Algs <- Algorithms,
                              NoAR <- NoResult, NoAlg <- <<>>

-----------------------------------------------------------------------------
(* ValueInfo. The heap holds the ARs that the ValueInfos have results for; *)
(* every function takes the heap and returns the new heap.                 *)

(* What AlgorithmTy::run(v) returns, for the AR a = <<AlgorithmTy, v>>. *)
run(a) == [set     |-> IF a[1] = ReversePointsTo THEN <<a[2]>> ELSE <<>>,
           work    |-> IF IsTraversal(a[1])
                       THEN <<Eq!TransformWork(SecondHop(a[1]), <<FirstHop(a[1]), a[2]>>)>>
                       ELSE <<>>,
           subsets |-> {}]

(* Bug: a traversal is run into an AR that exists. *)
Create_Again(h, a) ==
    [x \in DOMAIN h \cup {a} |-> IF x # a THEN h[x] ELSE IF a \notin DOMAIN h THEN run(a)
                               ELSE [h[a] EXCEPT !.work = @ \o run(a).work]]

Create(h, a) ==
    IF a \in DOMAIN h THEN h ELSE [x \in DOMAIN h \cup {a} |-> IF x = a THEN run(a) ELSE h[x]]

(* Bug: the AR of the first hop is taken to exist. *)
getOrCreateAlgorithmResult_NoFirstHop(h, a) == Create(h, a)

(* Running a traversal asks for the AR of its first hop, which is created  *)
(* too: no first hop may be missing in the phase of its traversal.         *)
getOrCreateAlgorithmResult(h, a) ==
    IF IsTraversal(a[1]) /\ a \notin DOMAIN h
    THEN Create(Create(h, <<FirstHop(a[1]), a[2]>>), a)
    ELSE Create(h, a)

getAlgorithmResult(h, a, ph) ==
    IF IsEmptyIfMissing(a[1], ph) THEN h ELSE getOrCreateAlgorithmResult(h, a)

(* AnalysisResult::appendSubset, with prepareForSubset. *)
appendSubset(h, a, s) ==
    IF s # a /\ s \notin h[a].subsets
    THEN [h EXCEPT ![a].work = Append(@, Eq!SubsetWork(s)), ![a].subsets = @ \cup {s}]
    ELSE h

addInstructionAnalysisWork(h, a, s) ==
    appendSubset(getOrCreateAlgorithmResult(getOrCreateAlgorithmResult(h, a), s), a, s)

makeRegion(h, v) ==
    LET self == <<PointsToSet, v>>
    IN  [getOrCreateAlgorithmResult(h, self) EXCEPT ![self].set = Append(@, v)]

-----------------------------------------------------------------------------
(* RelationHandler.cpp. ForXxx(h, R) is what ForAlgorithm<Xxx> does for    *)
(* the relation R: one AR of the algorithm Xxx includes another AR from    *)
(* now on, if R is of a type that it is specialized for.                   *)

When(R, t, h, a, s) == IF R.type = t THEN addInstructionAnalysisWork(h, a, s) ELSE h

ForActualParameters(h, R) ==
    When(R, "ARGUMENT_TO_CALLEE", h, <<ActualParameters, R.Dst>>, <<PointsToSet, R.Src>>)

ForActualReturnValue(h, R) ==
    When(R, "RETURNED_TO_CALLER", h, <<ActualReturnValue, R.Dst>>, <<PointsToSet, R.Src>>)

ForFormalParametersRev(h, R) ==
    When(R, "ARGUMENT_FROM_CALLER", h, <<FormalParametersRev, R.Dst>>, <<ReversePointsTo, R.Src>>)

ForFormalReturnValueRev(h, R) ==
    When(R, "RETURNED_FROM_CALLEE", h, <<FormalReturnValueRev, R.Dst>>, <<ReversePointsTo, R.Src>>)

(* Bug: as in the forward algorithms, the points-to set is taken. *)
ForLoadedValuesRev_Forward(h, R) ==
    When(R, "LOADED_FROM", h, <<LoadedValuesRev, R.Dst>>, <<PointsToSet, R.Src>>)

ForLoadedValuesRev(h, R) ==
    When(R, "LOADED_FROM", h, <<LoadedValuesRev, R.Dst>>, <<ReversePointsTo, R.Src>>)

ForPointsTo(h, R) ==
    LET Include(alg) == addInstructionAnalysisWork(h, <<PointsToSet, R.Src>>, <<alg, R.Dst>>)
    IN  CASE R.type = "ARGUMENT_FROM_CALLER" -> Include(TwoHopTraversal(ReversePointsTo, ActualParameters))
          [] R.type = "DEPENDS_ON"           -> Include(PointsToSet)
          [] R.type = "LOADED_FROM"          -> Include(ThreeHopTraversal(PointsToSet, ReversePointsTo, StoredValues))
          [] R.type = "RETURNED_FROM_CALLEE" -> Include(TwoHopTraversal(PointsToSet, ActualReturnValue))
          [] OTHER -> h

ForReversePointsTo(h, R) ==
    LET Include(alg) == addInstructionAnalysisWork(h, <<ReversePointsTo, R.Src>>, <<alg, R.Dst>>)
    IN  CASE R.type = "ARGUMENT_TO_CALLEE" -> Include(TwoHopTraversal(PointsToSet, FormalParametersRev))
          [] R.type = "DEPENDS_ON" ->
               addInstructionAnalysisWork(h, <<ReversePointsTo, R.Dst>>, <<ReversePointsTo, R.Src>>)
          [] R.type = "RETURNED_TO_CALLER" -> Include(TwoHopTraversal(ReversePointsTo, FormalReturnValueRev))
          [] R.type = "STORED_TO" -> Include(ThreeHopTraversal(PointsToSet, ReversePointsTo, LoadedValuesRev))
          [] OTHER -> h

(* Bug: the operands of the store are swapped. *)
ForStoredValues_Swapped(h, R) ==
    When(R, "STORED_TO", h, <<StoredValues, R.Src>>, <<PointsToSet, R.Dst>>)

ForStoredValues(h, R) ==
    When(R, "STORED_TO", h, <<StoredValues, R.Dst>>, <<PointsToSet, R.Src>>)

handleRelation(h, R) ==
    LET h1 == ForActualParameters(h, R)
        h2 == ForActualReturnValue(h1, R)
        h3 == ForFormalParametersRev(h2, R)
        h4 == ForFormalReturnValueRev(h3, R)
        h5 == ForLoadedValuesRev(h4, R)
        h6 == ForPointsTo(h5, R)
        h7 == ForReversePointsTo(h6, R)
    IN  ForStoredValues(h7, R)

-----------------------------------------------------------------------------
(* The regions are made before any relation speaks of them. *)
handleRelations(rels) ==
    LET Made == [a \in {PointsToSet} \X Regions |-> makeRegion(<<>>, a[2])[a]]
        After[n \in 0 .. Len(rels)] ==
            IF n = 0 THEN Made ELSE handleRelation(After[n - 1], rels[n])
    IN  After[Len(rels)]

Init ==
    /\ heap = handleRelations(createData)
    /\ relations = ToSet(createData)
    /\ phase = INSTRUCTION_ANALYSIS_PHASE

-----------------------------------------------------------------------------
(* A relation of the program is handled. *)
HandleRelation(R) ==
    /\ phase = INSTRUCTION_ANALYSIS_PHASE
    /\ Arises(relations, R)
    /\ R \in relations \/ Cardinality(relations) < Len(createData) + MaxRelations
    /\ Cardinality({v \in VIs \ {EL, EA} : Mentioned(relations, v) \/ v \in {R.Src, R.Dst}}) <= MaxMentioned
    /\ heap' = handleRelation(heap, R)
    /\ relations' = relations \cup {R}
    /\ UNCHANGED phase

(* runOnModule returns; from now on clients enumerate. *)
EndInstructionAnalysis ==
    /\ phase = INSTRUCTION_ANALYSIS_PHASE
    /\ Cardinality(relations) <= Len(createData) + MaxEnumerated
    /\ phase' = ENUMERATION_PHASE
    /\ UNCHANGED <<heap, relations>>

-----------------------------------------------------------------------------
(* The system of equations that the heap stands for. An AR that TransformWorks *)
(* create on demand during enumeration is in it as its algorithm will make it. *)

OnDemand == {a \in AnalysisResults :
                /\ a[1] \in TransformAlgorithms \cup {FirstHop(f) : f \in TransformAlgorithms}
                /\ ~IsEmptyIfMissing(a[1], ENUMERATION_PHASE)}

System(h) ==
    LET Given   == {a \in AnalysisResults : a \in DOMAIN h \/ a \in OnDemand}
        Cell(a) == IF a \in DOMAIN h THEN h[a] ELSE run(a)
    IN  [set     |-> [a \in Given |-> Cell(a).set],
         work    |-> [a \in Given |-> Cell(a).work],
         results |-> [alg \in TransformAlgorithms |-> [v \in VIs |->
                         IF <<alg, v>> \in Given THEN <<alg, v>> ELSE NoResult]]]

(* What enumeration will find in every AR. *)
Solution(h) == Eq!IteratedSolution(System(h))

(* A TransformWork reaches the value v of its input and asks for v's AR. *)
AnalyzeValueInfo ==
    /\ phase = ENUMERATION_PHASE
    /\ LET S == Solution(heap)
       IN  \E a \in DOMAIN heap : \E w \in ToSet(heap[a].work) :
              /\ Eq!IsTransform(w)
              /\ \E v \in S[w.AR] :
                    /\ <<w.alg, v>> \notin DOMAIN heap
                    /\ heap' = getAlgorithmResult(heap, <<w.alg, v>>, ENUMERATION_PHASE)
    /\ UNCHANGED <<relations, phase>>

Next ==
    \/ \E R \in Relations : HandleRelation(R)
    \/ EndInstructionAnalysis
    \/ AnalyzeValueInfo

Spec == Init /\ [][Next]_vars

-----------------------------------------------------------------------------
(* Properties. *)

(* The heap is well formed, and no work refers to an AR that is missing.   *)
TypeOK ==
    /\ DOMAIN heap \subseteq AnalysisResults
    /\ \A a \in DOMAIN heap :
          /\ heap[a] \in [set : Seq(VIs), work : Seq(Eq!Works), subsets : SUBSET AnalysisResults]
          /\ \A w \in ToSet(heap[a].work) : w.AR \in DOMAIN heap
    /\ relations \subseteq Relations
    /\ phase \in {INSTRUCTION_ANALYSIS_PHASE, ENUMERATION_PHASE}

(* RelationHandler.cpp:213-233: whatever relations a program has and in    *)
(* whatever order they are handled, the equations have Andersen's points-  *)
(* to sets as their solution, before and while ARs are created on demand   *)
(* by the enumeration (a missing one counts as empty where the algorithm   *)
(* says so, IsEmptyIfMissing*.h).                                          *)
PointsToIsAndersen ==
    LET S == Solution(heap)
        A == Andersen(relations)
    IN  \A v \in VIs : S[<<PointsToSet, v>>] = pt(A, v)

(* ReversePointsToAlgorithm.h:26: the reverse points-to set of a region is *)
(* the set of the ValueInfos that point to it, and the reverse set of any  *)
(* ValueInfo has only ValueInfos that point to all it points to. The       *)
(* equations of loads, stores and calls rest on it; nothing in the code    *)
(* says that its two sets of rules agree.                                  *)
ReverseIsInverse ==
    LET S == Solution(heap)
    IN  /\ \A r \in Regions : S[<<ReversePointsTo, r>>] = {v \in VIs : r \in S[<<PointsToSet, v>>]}
        /\ \A v \in VIs : \A w \in S[<<ReversePointsTo, v>>] :
              S[<<PointsToSet, v>>] \subseteq S[<<PointsToSet, w>>]

(* TransformWorkBase.cpp:82-84: "each distinct transform step is only ever *)
(* created once". A rewrite moves transforms without looking for copies.   *)
TransformsDistinct ==
    \A a, b \in DOMAIN heap : \A j \in DOMAIN heap[a].work, k \in DOMAIN heap[b].work :
        LET w == heap[a].work[j]
            y == heap[b].work[k]
        IN  Eq!IsTransform(w) /\ Eq!IsTransform(y) /\ w.alg = y.alg /\ w.AR = y.AR => a = b /\ j = k

(* InstructionAnalyzer.cpp:247-274: the externally accessible regions are  *)
(* closed: what external code can reach from them, by loads, by calling    *)
(* them or by being called with them, is accessible, and it may store what *)
(* is accessible wherever it can reach.                                    *)
EscapeIsClosed ==
    LET S  == Solution(heap)
        A  == Andersen(relations)
        Accessible == S[<<PointsToSet, EA>>]
    IN  /\ S[<<PointsToSet, EL>>] \subseteq Accessible
        /\ \A r \in Accessible :
              /\ A[<<"memory", r>>] = Accessible
              /\ A[<<"return", r>>] \subseteq Accessible
              /\ Accessible \subseteq A[<<"parameters", r>>]
===============================================================================
