--------------------------- MODULE MCAnalysisResult ---------------------------
(***************************************************************************)
(* Instances of AnalysisResult for TLC: exhaustive families of equation    *)
(* systems over a few ARs.                                                 *)
(***************************************************************************)
EXTENDS AnalysisResult, Solutions, FiniteSetsExt

CONSTANTS f, x, y, a1, a2, a3

MCAlgs == {f}
MCVIs  == {x, y}
MCARs  == {a1, a2, a3}

SubsetsOf(a) == {SubsetWork(b) : b \in MCARs \ {a}}
Transforms   == {TransformWork(f, b) : b \in MCARs}

(* Lists of at most n different works out of W, in any order. *)
Lists(W, n) == {l \in SeqOf(W, n) : IsInjective(l)}

(* Every way of giving each AR one of its lists. *)
Works3(L1, L2, L3) ==
    {(a1 :> l[1]) @@ (a2 :> l[2]) @@ (a3 :> l[3]) : l \in L1 \X L2 \X L3}

EqSystems(S, W, R) ==
    {[set |-> s, work |-> w, results |-> f :> ((x :> r.x) @@ (y :> r.y))] :
        s \in S, w \in W, r \in R}

(* Every AR stands for one set that the code may build; a1 and a2 start    *)
(* with a value of their own (as a region or a reverse points-to set does) *)
(* and a3 starts empty.                                                    *)
OwnValues == (a1 :> <<x>>) @@ (a2 :> <<y>>) @@ (a3 :> <<>>)

(* Cycles of every kind: subsets of each other in every order, and sets    *)
(* computed by a transform, of others or of themselves. Without transforms *)
(* it does not matter what these would add.                                *)
CyclicSystems ==
    LET SubsetLists(a) == Lists(SubsetsOf(a), 2)
        L(a)           == SubsetLists(a) \cup Lists(Transforms, 1)
        NoTransforms   == Works3(SubsetLists(a1), SubsetLists(a2), SubsetLists(a3))
    IN  EqSystems({OwnValues}, Works3(L(a1), L(a2), L(a3)) \ NoTransforms,
                  [x : {a1, a3}, y : {a3, NoAR}])
            \cup EqSystems({OwnValues}, NoTransforms, [x : {a3}, y : {a3}])

(* A smaller family with the same kinds of cycles. *)
SmallCyclicSystems ==
    LET L(a) == {<<SubsetWork(b)>> : b \in MCARs \ {a}} \cup Lists(Transforms, 1)
    IN  EqSystems({OwnValues}, Works3(Lists(SubsetsOf(a1), 2), L(a2), L(a3)),
                  [x : MCARs, y : {a3}])

(* The two definitions of the least solution agree. *)
ASSUME IterationAssumption ==
    \A s \in SmallCyclicSystems : IteratedSolution(s) = LeastSolution(s)
===============================================================================
