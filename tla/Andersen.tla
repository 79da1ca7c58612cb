-------------------------------- MODULE Andersen --------------------------------
(***************************************************************************)
(* Instruction analysis' relations, RelationHandler's equations and the    *)
(* enumeration engine put together: a program is the sequence of relations *)
(* that InstructionAnalyzer comes up with, RelationHandler turns them into *)
(* work lists, AnalysisResult works these off, and clients query points-to *)
(* sets (Data hands out no others).                                        *)
(***************************************************************************)
EXTENDS AnalysisResult

CONSTANTS Regions, ExternallyLinkableRegions, ExternallyAccessibleRegions,
          Programs   \* sequences of relations

RH == INSTANCE RelationHandler WITH
    heap <- <<>>, relations <- {}, phase <- "", MaxRelations <- 0, MaxEnumerated <- 0,
    MaxMentioned <- 0

(* The ARs are those of RelationHandler. *)
ASSUME NamesAssumption ==
    ARs = RH!AnalysisResults /\ Algs = RH!Algorithms /\ NoAR = RH!NoResult

VARIABLE program

andersenVars == <<vars, program>>

(* createData's relations are handled first. *)
Handled(p) == RH!createData \o p

(* The equations that enumeration starts from. An AR that no ValueInfo has *)
(* a result for is empty; nothing refers to it.                            *)
EquationsOf(p) ==
    LET S          == RH!System(RH!handleRelations(Handled(p)))
        OrEmpty(f) == [a \in ARs |-> IF a \in DOMAIN f THEN f[a] ELSE <<>>]
    IN  [set     |-> OrEmpty(S.set),
         work    |-> OrEmpty(S.work),
         results |-> [alg \in Algs |-> IF alg \in DOMAIN S.results THEN S.results[alg]
                                       ELSE [v \in VIs |-> NoAR]]]

PointsToSet(v) == <<RH!PointsToSet, v>>

AndersenInit ==
    /\ program \in Programs
    /\ sys = EquationsOf(program)
    /\ StartsFrom(sys)

AndersenNext ==
    /\ Step \/ \E v \in VIs : \E i \in 0 .. Len(Set[PointsToSet(v)]) : Query(PointsToSet(v), i)
    /\ UNCHANGED program

AndersenSpec == AndersenInit /\ [][AndersenNext]_andersenVars

-----------------------------------------------------------------------------
(* Whatever has been queried before, the values found for a ValueInfo are  *)
(* among those that Andersen's analysis of the program's relations has it  *)
(* point to, and when the set is done, they are all of them.               *)
SetsAreAndersen ==
    pc = "idle" =>
        LET A == RH!Andersen(ToSet(Handled(program)))
        IN  \A v \in VIs :
               LET Found == ToSet(Set[PointsToSet(v)])
               IN  /\ Found \subseteq RH!pt(A, v)
                   /\ isDone(PointsToSet(v)) => Found = RH!pt(A, v)
===============================================================================
