-------------------------- MODULE LazyAnalysisResult --------------------------
(***************************************************************************)
(* AnalysisResult implements LazySets: what the work lists are about is    *)
(* the solution of the equations, an AR is known to be whole when it is    *)
(* done, and the answer is the result that reaches                         *)
(* AndersenEnumerator::enumerate.                                          *)
(***************************************************************************)
EXTENDS AnalysisResult, Solutions, FiniteSets

CONSTANT NoAnswer

ASSUME AnswerAssumption == NoAnswer \notin VIs \cup {NoVI}

(* A program has finitely many values and sets of them. *)
ASSUME FiniteAssumption == IsFiniteSet(ARs) /\ IsFiniteSet(VIs)

(* A set that is not empty from the start holds one value, its own: that   *)
(* of a region, or the one whose reverse points-to set it is.              *)
ASSUME SeedsAssumption == \A s \in Systems : \A a \in ARs : Len(s.set[a]) <= 1

Answered == pc = "return" /\ stack = <<>>

Lazy == INSTANCE LazySets WITH
    solution <- IteratedSolution(sys),
    reliable <- SettledUnder(sys, IteratedSolution(sys)),
    done     <- {a \in ARs : isDone(a)},
    query    <- cursor,
    answer   <- IF Answered THEN result.VI ELSE NoAnswer

-----------------------------------------------------------------------------
(* Enumeration does for its clients what LazySets promises: each step of   *)
(* the recursion finds one value of one set, or finds one set to be whole, *)
(* or gives an answer, or changes nothing that clients can see.            *)
ImplementsLazySets == Lazy!LazySpec
===============================================================================
