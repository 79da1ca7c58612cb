-------------------------------- MODULE MCLazy --------------------------------
(***************************************************************************)
(* Systems of equations in which one set at least has nothing to do with a *)
(* cycle of subsets: whatever happens to the others, none of it gets lost, *)
(* and AnalysisResult implements LazySets.                                 *)
(***************************************************************************)
EXTENDS MCAnalysisResult, LazyAnalysisResult

(* ARs may be subsets of each other, the inputs of transforms may depend   *)
(* on their outputs, and those of a1's second transform on anything. The   *)
(* algorithm has a result for both values, or none for one of them.        *)
SettledSystems ==
    LET L(a, n)   == Lists(SubsetsOf(a) \cup Transforms, n)
        Chosen(n) == Works3(L(a1, n), L(a2, 1), L(a3, 1))
    IN  {s \in EqSystems({OwnValues}, Chosen(1), [x : {a1}, y : {a3}])
               \cup EqSystems({OwnValues}, Chosen(2), [x : {NoAR}, y : {a2}]) :
            SettledUnder(s, IteratedSolution(s)) # {}}
===============================================================================
