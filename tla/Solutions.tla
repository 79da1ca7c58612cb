------------------------------- MODULE Solutions -------------------------------
(***************************************************************************)
(* The least solution of a system of equations, by iteration. It is the    *)
(* one that Equations defines as the intersection of all solutions (which  *)
(* can only be evaluated for a few ARs): MCAnalysisResult has the check.   *)
(***************************************************************************)
EXTENDS Equations, Fixpoint

(* What the work item w adds to its AR, given the sets S. *)
Contribution(results, S, w) ==
    IF IsSubset(w)
    THEN S[w.AR]
    ELSE UNION {S[r] : r \in {results[w.alg][v] : v \in S[w.AR]} \ {NoAR}}

(* Iteration starts from what the ARs hold: an AR without work keeps it.   *)
(* ARs that sys does not speak of are empty.                               *)
IteratedSolution(sys) ==
    LET Given   == DOMAIN sys.set
        Busy    == {a \in Given : sys.work[a] # <<>>}
        Step    == [S \in [Given -> SUBSET VIs] |->
                       [a \in Given |->
                           IF a \in Busy
                           THEN S[a] \cup UNION {Contribution(sys.results, S, w) : w \in ToSet(sys.work[a])}
                           ELSE S[a]]]
        Least   == LeastFixedPoint(Step, [a \in Given |-> ToSet(sys.set[a])])
    IN  [a \in ARs |-> IF a \in Given THEN Least[a] ELSE {}]
===============================================================================
