------------------------------- MODULE MCAndersen -------------------------------
(***************************************************************************)
(* Small programs for TLC.                                                 *)
(***************************************************************************)
EXTENDS Andersen, Solutions

CONSTANTS el, ea, g, h, t, u

MCARs  == RH!AnalysisResults
MCAlgs == RH!Algorithms
MCNull == <<>>

R(type, src, dst) == RH!Relation(type, src, dst)

(* The programs of P with one more relation out of the pool. *)
Extended(P, pool) == UNION {{Append(p, r) : r \in {q \in pool \ ToSet(p) : RH!Arises(ToSet(Handled(p)), q)}} : p \in P}

(* The programs of n relations or fewer out of the pool, in any order. *)
ProgramsOf(pool, n) ==
    LET UpTo[k \in 0 .. n] == IF k = 0 THEN {<<>>} ELSE UpTo[k - 1] \cup Extended(UpTo[k - 1], pool)
    IN  UpTo[n]

(* Stores and loads, also through what was loaded and by external code. *)
Memory == {R("STORED_TO", h, g), R("LOADED_FROM", t, g), R("STORED_TO", t, g), R("STORED_TO", g, t),
           R("DEPENDS_ON", el, g)}

(* Calls within the program, by external code and of functions that return *)
(* what they were called with.                                             *)
Calls == {R("ARGUMENT_TO_CALLEE", h, g), R("ARGUMENT_FROM_CALLER", t, g), R("RETURNED_TO_CALLER", t, g),
          R("ARGUMENT_TO_CALLEE", t, g), R("RETURNED_FROM_CALLEE", t, g), R("DEPENDS_ON", el, g)}

SmallPrograms == ProgramsOf(Memory, 3) \cup ProgramsOf(Calls, 3)

(* A loop that stores two pointers to where it loads them from. *)
LoopPrograms ==
    {p \in ProgramsOf({R("LOADED_FROM", t, g), R("LOADED_FROM", u, g), R("STORED_TO", t, g),
                       R("STORED_TO", u, g), R("STORED_TO", h, g)}, 5) :
        Len(p) = 5 /\ p[1].Src = t /\ p[2].type = "LOADED_FROM"}

MCPrograms == SmallPrograms \cup LoopPrograms

-----------------------------------------------------------------------------
(* The ARs that the set of a depends on when the sets are L. *)
ReadBy(s, L, a) ==
    LET Inputs(b) == {w.AR : w \in ToSet(s.work[b])}
        Outputs(b) == UNION {{s.results[w.alg][v] : v \in L[w.AR]} : w \in {w \in ToSet(s.work[b]) : IsTransform(w)}}
        More   == [D \in SUBSET ARs |-> D \cup UNION {(Inputs(b) \cup Outputs(b)) \ {NoAR} : b \in D}]
    IN  LeastFixedPoint(More, {a})

(* Programs that put what they have got from g back there. *)
GivesBack(p) ==
    \E way \in {<<"LOADED_FROM", "STORED_TO">>, <<"ARGUMENT_FROM_CALLER", "ARGUMENT_TO_CALLEE">>,
                <<"RETURNED_FROM_CALLEE", "RETURNED_TO_CALLER">>} :
        {R(way[1], t, g), R(way[2], t, g)} \subseteq ToSet(p)

(* createData makes a cycle of subsets in every program (ea is stored to   *)
(* itself), and a program that gives back what it has got makes another.   *)
(* In one that does not, and that exports nothing, the points-to set of    *)
(* what it gets has nothing to do with these cycles: the ARs it depends on *)
(* are some of Settled(EquationsOf(p)).                                    *)
ASSUME OwnPointersAreSettled ==
    \A p \in {p \in SmallPrograms : ~GivesBack(p) /\ R("DEPENDS_ON", el, g) \notin ToSet(p)} :
        LET s == EquationsOf(p)
            L == IteratedSolution(s)
            D == ReadBy(s, L, PointsToSet(t))
        IN  ReadsWithin(s, L, D) /\ NoCycles(SubsetsUnder(s, L), D)
===============================================================================
