------------------------------ MODULE Equations ------------------------------
(***************************************************************************)
(* The set equations that instruction analysis leaves for the enumeration  *)
(* phase, and what a solution of them is.                                  *)
(*                                                                         *)
(* An AnalysisResult AR stands for a set of ValueInfos given by a list of  *)
(* contributions: the values already in it (AnalysisResult::Set), the      *)
(* SubsetWorks of its work list (AR includes another AR) and its           *)
(* TransformWorks (AR includes, for every element of an input AR, the AR   *)
(* that one algorithm computes for that element).                          *)
(***************************************************************************)
EXTENDS Integers, Sequences, SequencesExt

CONSTANTS ARs,    \* the AnalysisResults
          VIs,    \* the ValueInfos that can be elements of them
          Algs,   \* the algorithms that a TransformWork can apply
          NoAR,   \* the null AnalysisResult *
          NoVI,   \* the null ValueInfo *
          NoAlg   \* the algorithm field of a SubsetWork

ASSUME NullsAssumption == NoAR \notin ARs /\ NoVI \notin VIs /\ NoAlg \notin Algs

(* A work list entry. AR and i are the fields of its Enumerator E. *)
SubsetWorks    == [kind : {"subset"}, alg : {NoAlg}, AR : ARs, i : Nat]
TransformWorks == [kind : {"transform"}, alg : Algs, AR : ARs, i : Nat]
Works          == SubsetWorks \cup TransformWorks

SubsetWork(a)       == [kind |-> "subset", alg |-> NoAlg, AR |-> a, i |-> 0]
TransformWork(f, a) == [kind |-> "transform", alg |-> f, AR |-> a, i |-> 0]

IsSubset(w)    == w.kind = "subset"
IsTransform(w) == w.kind = "transform"

(* A system of equations: what each AR holds at the start of the           *)
(* enumeration phase, and for every value the AR that each algorithm has   *)
(* for it (ValueInfo::Results), null when the algorithm has none and a     *)
(* missing result means the empty set.                                     *)
EquationSystems == [set : [ARs -> Seq(VIs)],
                    work : [ARs -> Seq(Works)],
                    results : [Algs -> [VIs -> ARs \cup {NoAR}]]]

(* S gives every AR at least what the work item w of the AR a asks for. *)
Satisfies(results, S, a, w) ==
    IF IsSubset(w)
    THEN S[w.AR] \subseteq S[a]
    ELSE \A v \in S[w.AR] :
            results[w.alg][v] # NoAR => S[results[w.alg][v]] \subseteq S[a]

IsSolution(sys, S) ==
    \A a \in ARs : /\ ToSet(sys.set[a]) \subseteq S[a]
                   /\ \A k \in DOMAIN sys.work[a] :
                         Satisfies(sys.results, S, a, sys.work[a][k])

Solutions(sys) == {S \in [ARs -> SUBSET VIs] : IsSolution(sys, S)}

(* The least solution: solutions are closed under intersection. *)
LeastSolution(sys) ==
    LET all == Solutions(sys)
    IN  [a \in ARs |-> {v \in VIs : \A S \in all : v \in S[a]}]

(* The ARs that each AR may come to include as subsets when the sets are L: *)
(* those it is given as subsets, and those that its transforms can come up *)
(* with, which prepareForSubset checks not to be the AR itself.            *)
SubsetsUnder(s, L) ==
    LET Come(a, w) == IF IsSubset(w) THEN {w.AR}
                      ELSE {s.results[w.alg][v] : v \in L[w.AR]} \ {a, NoAR}
    IN  [a \in ARs |-> UNION {Come(a, s.work[a][k]) : k \in DOMAIN s.work[a]}]

PotentialSubsets(s) == SubsetsUnder(s, LeastSolution(s))

(* No AR of D can come to be a subset of one of its own subsets: some AR   *)
(* of any group has no subsets in the group. Inputs of transforms may      *)
(* still depend on their outputs.                                          *)
NoCycles(subsets, D) ==
    \A G \in (SUBSET D) \ {{}} : \E a \in G : subsets[a] \cap G = {}

NoSubsetCycles(s) == NoCycles(PotentialSubsets(s), ARs)

(* The ARs of D get all they read from D when the sets are L. *)
ReadsWithin(s, L, D) ==
    \A a \in D : \A k \in DOMAIN s.work[a] :
        LET w == s.work[a][k]
        IN  /\ w.AR \in D
            /\ IsTransform(w) => \A v \in L[w.AR] : s.results[w.alg][v] \in D \cup {NoAR}

(* The ARs that have nothing to do with a cycle of subsets, whatever       *)
(* cycles there are elsewhere in the system.                               *)
SettledUnder(s, L) ==
    UNION {D \in SUBSET ARs : ReadsWithin(s, L, D) /\ NoCycles(SubsetsUnder(s, L), D)}

Settled(s) == SettledUnder(s, LeastSolution(s))
==============================================================================
