----------------------------- MODULE SettledProofs -----------------------------
(***************************************************************************)
(* Theorems about what AnalysisResult finds, for every system of equations *)
(* with cycles of subsets or without: of the ARs that have nothing to do   *)
(* with such cycles nothing is lost, and enumeration as a whole implements *)
(* LazySets. The proof restricts the system to these ARs, takes whoever    *)
(* else enumerates one of them for a client, shows that what the engine    *)
(* does to them then is an execution of the engine on the restricted       *)
(* system, and applies CompletenessProofs to that.                         *)
(***************************************************************************)
EXTENDS CompletenessProofs, LazyAnalysisResult

-----------------------------------------------------------------------------
(* The engine as the settled ARs see it: whoever enumerates one of them    *)
(* and is none of them is a client.                                        *)

Part == Settled(sys)

(* The part of the equations s that is about the ARs of D. *)
About(s, D) ==
    [set     |-> [a \in ARs |-> IF a \in D THEN s.set[a] ELSE <<>>],
     work    |-> [a \in ARs |-> IF a \in D THEN s.work[a] ELSE <<>>],
     results |-> s.results]

Restricted(s) == About(s, Settled(s))

PartSystems == {Restricted(s) : s \in Systems}

PartSet     == [a \in ARs |-> IF a \in Part THEN Set[a] ELSE <<>>]
PartWork    == [a \in ARs |-> IF a \in Part THEN Work[a] ELSE <<>>]
PartSubsets == [a \in ARs |-> IF a \in Part THEN Subsets[a] ELSE {}]

(* The activations below those of settled ARs. *)
IsBase(b) ==
    /\ b \in 0 .. Len(stack)
    /\ \A k \in 1 .. b : stack[k].AR \notin Part
    /\ \A k \in b + 1 .. Len(stack) : stack[k].AR \in Part

Base == CHOOSE b \in 0 .. Len(stack) : IsBase(b)

(* Depths and activations above the b outermost ones. *)
Rebased(d, b) == IF d < b THEN -1 ELSE d - b
Lifted(c, b)  == [c EXCEPT !.LTD = Rebased(@, b)]
Above(st, b)  == [k \in 1 .. Len(st) - b |-> Lifted(st[k + b], b)]

PartStack == Above(stack, Base)
PartDepth == [a \in ARs |-> IF a \in Part THEN Rebased(EnumerationDepth[a], Base) ELSE -1]

(* The Enumerator that the client advances. *)
Client == IF Base = 0 THEN cursor ELSE [AR |-> Running(Base).AR, i |-> Running(Base).i]

(* Whether the client is waiting. One that is offered a settled AR's sole  *)
(* subset gets no value: to the settled ARs the query is over.             *)
Serving ==
    \/ Base < Len(stack)
    \/ pc \in {"call", "return"} /\ Client.AR \in Part /\ ~(pc = "return" /\ result.type = "INLINE")

PartCursor == IF Serving THEN Client ELSE Nobody
PartResult == IF Serving THEN result ELSE NoResult
PartPc     == IF Serving THEN pc ELSE "idle"

(* A part of a system of equations is one. *)
LEMMA AboutType ==
    ASSUME NEW s \in EquationSystems, NEW D
    PROVE  /\ About(s, D) \in EquationSystems
           /\ \A a \in ARs : /\ About(s, D).set[a] = IF a \in D THEN s.set[a] ELSE <<>>
                             /\ About(s, D).work[a] = IF a \in D THEN s.work[a] ELSE <<>>
           /\ About(s, D).results = s.results
<1>1. \A a \in ARs : s.set[a] \in Seq(VIs) /\ s.work[a] \in Seq(Works)
  BY DEF EquationSystems
<1>2. <<>> \in Seq(VIs) /\ <<>> \in Seq(Works)
  OBVIOUS
<1>3. s.results \in [Algs -> [VIs -> ARs \cup {NoAR}]]
  BY DEF EquationSystems
<1> QED  BY <1>1, <1>2, <1>3 DEF About, EquationSystems

LEMMA RestrictedType ==
    ASSUME NEW s \in EquationSystems
    PROVE  /\ Restricted(s) \in EquationSystems
           /\ \A a \in ARs : /\ Restricted(s).set[a] = IF a \in Settled(s) THEN s.set[a] ELSE <<>>
                             /\ Restricted(s).work[a] = IF a \in Settled(s) THEN s.work[a] ELSE <<>>
           /\ Restricted(s).results = s.results
BY AboutType DEF Restricted

-----------------------------------------------------------------------------
(* The settled ARs and their equations.                                    *)

(* The ARs of D get all they read from D. *)
Closed(s, D) ==
    \A a \in D : \A k \in DOMAIN s.work[a] :
        /\ s.work[a][k].AR \in D
        /\ IsTransform(s.work[a][k]) =>
              \A v \in LeastSolution(s)[s.work[a][k].AR] : s.results[s.work[a][k].alg][v] \in D \cup {NoAR}

Acyclic(s, D) == \A G \in (SUBSET D) \ {{}} : \E a \in G : PotentialSubsets(s)[a] \cap G = {}

LEMMA SettledOf ==
    ASSUME NEW s
    PROVE  Settled(s) = UNION {D \in SUBSET ARs : Closed(s, D) /\ Acyclic(s, D)}
<1>1. \A D \in SUBSET ARs : ReadsWithin(s, LeastSolution(s), D) <=> Closed(s, D)
  BY DEF ReadsWithin, Closed
<1>2. \A D \in SUBSET ARs : NoCycles(SubsetsUnder(s, LeastSolution(s)), D) <=> Acyclic(s, D)
  BY DEF NoCycles, Acyclic, PotentialSubsets
<1> QED  BY <1>1, <1>2 DEF Settled, SettledUnder

(* What a closed group may come to include is in it. *)
LEMMA ClosedSubsets ==
    ASSUME NEW s \in EquationSystems, NEW D \in SUBSET ARs, Closed(s, D), NEW a \in D
    PROVE  PotentialSubsets(s)[a] \subseteq D
<1> SUFFICES ASSUME NEW b \in PotentialSubsets(s)[a]
             PROVE  b \in D
  OBVIOUS
<1> DEFINE Come(w) == IF IsSubset(w) THEN {w.AR}
                      ELSE {s.results[w.alg][v] : v \in LeastSolution(s)[w.AR]} \ {a, NoAR}
<1>1. PotentialSubsets(s)[a] = UNION {Come(s.work[a][k]) : k \in DOMAIN s.work[a]}
  BY DEF PotentialSubsets, SubsetsUnder
<1>2. PICK k \in DOMAIN s.work[a] : b \in Come(s.work[a][k])
  BY <1>1
<1>3. s.work[a] \in Seq(Works)
  BY DEF EquationSystems
<1> DEFINE w == s.work[a][k]
<1>4. w \in Works
  BY <1>3, LenProperties, ElementOfSeq
<1>5. w.AR \in D /\ (IsTransform(w) => \A v \in LeastSolution(s)[w.AR] : s.results[w.alg][v] \in D \cup {NoAR})
  BY DEF Closed
<1> HIDE DEF w
<1>6. ~IsSubset(w) => IsTransform(w)
  BY <1>4 DEF Works, SubsetWorks, TransformWorks, IsSubset, IsTransform
<1>7. b \in Come(w)
  BY <1>2 DEF w
<1> QED  BY <1>5, <1>6, <1>7

(* Settled groups together are one. *)
LEMMA SettledTogether ==
    ASSUME NEW s \in EquationSystems
    PROVE  Settled(s) \in SUBSET ARs /\ Closed(s, Settled(s)) /\ Acyclic(s, Settled(s))
<1>1. Settled(s) \in SUBSET ARs
  BY SettledOf
<1>2. \A a \in Settled(s) : \E D \in SUBSET Settled(s) : a \in D /\ Closed(s, D) /\ Acyclic(s, D)
  BY SettledOf
<1>3. Closed(s, Settled(s))
  <2> SUFFICES ASSUME NEW a \in Settled(s)
               PROVE  \A k \in DOMAIN s.work[a] :
                        /\ s.work[a][k].AR \in Settled(s)
                        /\ IsTransform(s.work[a][k]) =>
                              \A v \in LeastSolution(s)[s.work[a][k].AR] :
                                 s.results[s.work[a][k].alg][v] \in Settled(s) \cup {NoAR}
    BY DEF Closed
  <2>1. PICK D \in SUBSET Settled(s) : a \in D /\ Closed(s, D)
    BY <1>2
  <2>2. \A k \in DOMAIN s.work[a] :
           /\ s.work[a][k].AR \in D
           /\ IsTransform(s.work[a][k]) =>
                 \A v \in LeastSolution(s)[s.work[a][k].AR] : s.results[s.work[a][k].alg][v] \in D \cup {NoAR}
    BY <2>1 DEF Closed
  <2> QED  BY <2>1, <2>2
<1>4. Acyclic(s, Settled(s))
  <2> SUFFICES ASSUME NEW G \in (SUBSET Settled(s)) \ {{}}
               PROVE  \E a \in G : PotentialSubsets(s)[a] \cap G = {}
    BY DEF Acyclic
  <2>1. PICK b \in G : TRUE
    OBVIOUS
  <2>2. PICK D \in SUBSET Settled(s) : b \in D /\ Closed(s, D) /\ Acyclic(s, D)
    BY <1>2
  <2>3. G \cap D \in (SUBSET D) \ {{}} /\ D \in SUBSET ARs
    BY <1>1, <2>2
  <2>4. PICK a \in G \cap D : PotentialSubsets(s)[a] \cap (G \cap D) = {}
    BY <2>2, <2>3 DEF Acyclic
  <2>5. PotentialSubsets(s)[a] \subseteq D
    BY <2>2, <2>3, ClosedSubsets
  <2> QED  BY <2>4, <2>5
<1> QED  BY <1>1, <1>3, <1>4

(* What the ARs of a closed group hold in the least solution is for their  *)
(* equations alone to say.                                                 *)
LEMMA ClosedSolution ==
    ASSUME NEW s \in EquationSystems, NEW D \in SUBSET ARs, Closed(s, D), NEW a \in D
    PROVE  LeastSolution(About(s, D))[a] = LeastSolution(s)[a]
<1> DEFINE r == About(s, D)
           L == LeastSolution(s)
           M == LeastSolution(r)
<1>1. /\ r \in EquationSystems /\ r.results = s.results
      /\ \A b \in ARs : /\ r.set[b] = IF b \in D THEN s.set[b] ELSE <<>>
                        /\ r.work[b] = IF b \in D THEN s.work[b] ELSE <<>>
  BY AboutType
<1>2. D \in SUBSET ARs /\ Closed(s, D)
  OBVIOUS
<1>3. /\ L \in [ARs -> SUBSET VIs] /\ IsSolution(s, L)
      /\ \A S \in [ARs -> SUBSET VIs] : IsSolution(s, S) => \A b \in ARs : L[b] \subseteq S[b]
  BY LeastSolutionIsSolution DEF Solutions
<1>4. /\ M \in [ARs -> SUBSET VIs] /\ IsSolution(r, M)
      /\ \A S \in [ARs -> SUBSET VIs] : IsSolution(r, S) => \A b \in ARs : M[b] \subseteq S[b]
  BY <1>1, LeastSolutionIsSolution DEF Solutions
<1>5. \A b \in ARs : \A k \in DOMAIN s.work[b] :
        /\ s.work[b][k] \in Works /\ s.work[b][k].AR \in ARs
        /\ ~IsSubset(s.work[b][k]) => IsTransform(s.work[b][k]) /\ s.work[b][k].alg \in Algs
  <2>1. ASSUME NEW b \in ARs, NEW k \in DOMAIN s.work[b]
        PROVE  s.work[b][k] \in Works
    <3>1. s.work[b] \in Seq(Works)
      BY DEF EquationSystems
    <3> QED  BY <3>1, LenProperties, ElementOfSeq
  <2> QED  BY <2>1 DEF Works, SubsetWorks, TransformWorks, IsSubset, IsTransform
<1>6. \A f \in Algs : \A v \in VIs : s.results[f][v] \in ARs \cup {NoAR}
  BY DEF EquationSystems
<1>7. \A b \in D : \A k \in DOMAIN s.work[b] :
        /\ s.work[b][k].AR \in D
        /\ IsTransform(s.work[b][k]) =>
              \A v \in L[s.work[b][k].AR] : s.results[s.work[b][k].alg][v] \in D \cup {NoAR}
  BY <1>2 DEF Closed
<1>8. DOMAIN <<>> = {} /\ ToSet(<<>>) = {}
  BY DEF ToSet
<1> HIDE DEF r, L, M
<1>9. M[a] \subseteq L[a]
  <2> DEFINE T == [b \in ARs |-> IF b \in D THEN L[b] ELSE {}]
  <2>1. T \in [ARs -> SUBSET VIs]
    BY <1>3
  <2>2. ASSUME NEW b \in ARs, NEW k \in DOMAIN r.work[b]
        PROVE  Satisfies(r.results, T, b, r.work[b][k])
    <3>1. b \in D /\ k \in DOMAIN s.work[b] /\ r.work[b][k] = s.work[b][k]
      BY <1>1, <1>8, <2>2
    <3> DEFINE w == s.work[b][k]
    <3>2. w.AR \in D /\ w.AR \in ARs /\ (~IsSubset(w) => w.alg \in Algs)
      BY <1>5, <1>7, <3>1
    <3>3. Satisfies(s.results, L, b, w)
      BY <1>3, <3>1 DEF IsSolution
    <3> HIDE DEF w
    <3>4. CASE IsSubset(w)
      BY <1>1, <3>1, <3>2, <3>3, <3>4 DEF Satisfies, w
    <3>5. CASE ~IsSubset(w)
      <4>1. \A v \in L[w.AR] : v \in VIs /\ s.results[w.alg][v] \in ARs \cup {NoAR}
        BY <1>3, <1>6, <3>2, <3>5
      <4>2. \A v \in T[w.AR] : s.results[w.alg][v] # NoAR => T[s.results[w.alg][v]] \subseteq T[b]
        BY <3>1, <3>2, <3>3, <3>5, <4>1 DEF Satisfies
      <4> HIDE DEF T
      <4> QED  BY <1>1, <3>1, <3>5, <4>2 DEF Satisfies, w
    <3> QED  BY <3>4, <3>5
  <2>3. \A b \in ARs : ToSet(r.set[b]) \subseteq T[b]
    BY <1>1, <1>3, <1>8 DEF IsSolution
  <2> HIDE DEF T
  <2>4. \A b \in ARs : M[b] \subseteq T[b]
    BY <1>4, <2>1, <2>2, <2>3 DEF IsSolution
  <2> QED  BY <1>2, <2>4 DEF T
<1>10. L[a] \subseteq M[a]
  <2> DEFINE T == [b \in ARs |-> IF b \in D THEN M[b] \cap L[b] ELSE L[b]]
  <2>1. T \in [ARs -> SUBSET VIs] /\ \A b \in ARs : T[b] \subseteq L[b]
    BY <1>3
  <2>2. ASSUME NEW b \in ARs, NEW k \in DOMAIN s.work[b]
        PROVE  Satisfies(s.results, T, b, s.work[b][k])
    <3> DEFINE w == s.work[b][k]
    <3>1. w.AR \in ARs /\ (~IsSubset(w) => IsTransform(w) /\ w.alg \in Algs)
      BY <1>5
    <3>2. Satisfies(s.results, L, b, w)
      BY <1>3 DEF IsSolution
    <3>3. b \in D => /\ Satisfies(s.results, M, b, w) /\ w.AR \in D
                     /\ IsTransform(w) => \A v \in L[w.AR] : s.results[w.alg][v] \in D \cup {NoAR}
      <4> SUFFICES ASSUME b \in D
                   PROVE  Satisfies(s.results, M, b, w)
        BY <1>7
      <4>1. r.work[b] = s.work[b]
        BY <1>1
      <4> QED  BY <1>1, <1>4, <4>1 DEF IsSolution
    <3> HIDE DEF w
    <3>4. CASE IsSubset(w)
      <4>1. L[w.AR] \subseteq L[b] /\ (b \in D => M[w.AR] \subseteq M[b])
        BY <3>2, <3>3, <3>4 DEF Satisfies
      <4>2. T[w.AR] \subseteq T[b]
        BY <2>1, <3>1, <3>3, <4>1
      <4> HIDE DEF T
      <4> QED  BY <3>4, <4>2 DEF Satisfies, w
    <3>5. CASE ~IsSubset(w)
      <4> SUFFICES ASSUME NEW v \in T[w.AR], s.results[w.alg][v] # NoAR
                   PROVE  T[s.results[w.alg][v]] \subseteq T[b]
        BY <3>5 DEF Satisfies, w
      <4>1. v \in L[w.AR] /\ v \in VIs /\ s.results[w.alg][v] \in ARs
        BY <1>3, <1>6, <2>1, <3>1, <3>5
      <4>2. T[s.results[w.alg][v]] \subseteq L[b]
        BY <2>1, <3>2, <3>5, <4>1 DEF Satisfies
      <4>3. CASE b \in D
        <5>1. s.results[w.alg][v] \in D /\ w.AR \in D
          BY <3>1, <3>3, <3>5, <4>1, <4>3
        <5>2. v \in M[w.AR]
          BY <3>1, <5>1
        <5>3. M[s.results[w.alg][v]] \subseteq M[b]
          BY <3>3, <3>5, <4>1, <4>3, <5>2 DEF Satisfies
        <5> QED  BY <4>1, <4>2, <4>3, <5>1, <5>3
      <4>4. CASE b \notin D
        BY <4>2, <4>4
      <4> QED  BY <4>3, <4>4
    <3> QED  BY <3>4, <3>5
  <2>3. ASSUME NEW b \in ARs
        PROVE  ToSet(s.set[b]) \subseteq T[b]
    <3>1. ToSet(s.set[b]) \subseteq L[b]
      BY <1>3 DEF IsSolution
    <3>2. b \in D => ToSet(s.set[b]) \subseteq M[b]
      BY <1>1, <1>4 DEF IsSolution
    <3> QED  BY <3>1, <3>2
  <2> HIDE DEF T
  <2>4. \A b \in ARs : L[b] \subseteq T[b]
    BY <1>3, <2>1, <2>2, <2>3 DEF IsSolution
  <2> QED  BY <1>2, <2>4 DEF T
<1> QED  BY <1>9, <1>10 DEF L, M, r

LEMMA SettledSolution ==
    ASSUME NEW s \in EquationSystems, NEW a \in Settled(s)
    PROVE  LeastSolution(Restricted(s))[a] = LeastSolution(s)[a]
BY SettledTogether, ClosedSolution DEF Restricted

(* Settled ARs are not involved in any cycle of subsets. *)
LEMMA RestrictedAcyclic ==
    ASSUME NEW s \in EquationSystems
    PROVE  NoSubsetCycles(Restricted(s))
<1> DEFINE r == Restricted(s)
           D == Settled(s)
<1>1. /\ r \in EquationSystems /\ r.results = s.results
      /\ \A b \in ARs : r.work[b] = IF b \in D THEN s.work[b] ELSE <<>>
  BY RestrictedType
<1>2. D \in SUBSET ARs /\ Closed(s, D) /\ Acyclic(s, D)
  BY SettledTogether
<1>3. \A b \in D : LeastSolution(r)[b] = LeastSolution(s)[b]
  BY SettledSolution
<1>4. ASSUME NEW a \in D
      PROVE  PotentialSubsets(r)[a] = PotentialSubsets(s)[a]
  <2> DEFINE ComeR(w) == IF IsSubset(w) THEN {w.AR}
                         ELSE {r.results[w.alg][v] : v \in LeastSolution(r)[w.AR]} \ {a, NoAR}
             ComeS(w) == IF IsSubset(w) THEN {w.AR}
                         ELSE {s.results[w.alg][v] : v \in LeastSolution(s)[w.AR]} \ {a, NoAR}
  <2>1. a \in ARs /\ r.work[a] = s.work[a]
    BY <1>1, <1>2
  <2>2. PotentialSubsets(r)[a] = UNION {ComeR(r.work[a][k]) : k \in DOMAIN r.work[a]}
    BY <2>1 DEF PotentialSubsets, SubsetsUnder
  <2>3. PotentialSubsets(s)[a] = UNION {ComeS(s.work[a][k]) : k \in DOMAIN s.work[a]}
    BY <2>1 DEF PotentialSubsets, SubsetsUnder
  <2>4. \A k \in DOMAIN s.work[a] : ComeR(s.work[a][k]) = ComeS(s.work[a][k])
    <3> TAKE k \in DOMAIN s.work[a]
    <3> DEFINE w == s.work[a][k]
    <3>1. LeastSolution(r)[w.AR] = LeastSolution(s)[w.AR]
      BY <1>2, <1>3 DEF Closed
    <3> HIDE DEF r, w
    <3> QED  BY <1>1, <3>1 DEF w
  <2> HIDE DEF ComeR, ComeS, r
  <2> QED  BY <2>1, <2>2, <2>3, <2>4
<1>5. ASSUME NEW a \in ARs, a \notin D
      PROVE  PotentialSubsets(r)[a] = {}
  <2>1. r.work[a] = <<>> /\ DOMAIN <<>> = {}
    BY <1>1, <1>5
  <2> QED  BY <2>1 DEF PotentialSubsets, SubsetsUnder
<1> HIDE DEF r, D
<1>6. ASSUME NEW G \in (SUBSET ARs) \ {{}}
      PROVE  \E a \in G : PotentialSubsets(r)[a] \cap G = {}
  <2>1. CASE G \subseteq D
    BY <1>2, <1>4, <2>1 DEF Acyclic
  <2>2. CASE ~(G \subseteq D)
    <3>1. PICK a \in G : a \notin D
      BY <2>2
    <3> QED  BY <1>5, <3>1
  <2> QED  BY <2>1, <2>2
<1> QED  BY <1>6 DEF NoSubsetCycles, NoCycles, r

LEMMA PartType ==
    ASSUME Recursion
    PROVE  Part \in SUBSET ARs /\ Closed(sys, Part)
BY SettledTogether DEF Part, Recursion, TypeOK

-----------------------------------------------------------------------------
(* The activations of settled ARs.                                         *)

LEMMA BaseIs ==
    ASSUME TypeOK, NEW b, IsBase(b)
    PROVE  Base = b /\ b \in Nat /\ b <= Len(stack) /\ Len(stack) \in Nat
<1>1. Len(stack) \in Nat
  BY LenProperties DEF TypeOK
<1>2. b \in 0 .. Len(stack)
  BY DEF IsBase
<1>3. IsBase(Base) /\ Base \in 0 .. Len(stack)
  BY <1>2 DEF Base
<1> DEFINE c == Base
<1> HIDE DEF c
<1>4. IsBase(c) /\ c \in 0 .. Len(stack)
  BY <1>3 DEF c
<1>5. ~(b < c)
  <2> SUFFICES ASSUME b < c
               PROVE  FALSE
    OBVIOUS
  <2>1. c \in 1 .. c /\ c \in b + 1 .. Len(stack)
    BY <1>1, <1>2, <1>4
  <2> QED  BY <1>4, <2>1 DEF IsBase
<1>6. ~(c < b)
  <2> SUFFICES ASSUME c < b
               PROVE  FALSE
    OBVIOUS
  <2>1. b \in 1 .. b /\ b \in c + 1 .. Len(stack)
    BY <1>1, <1>2, <1>4
  <2> QED  BY <1>4, <2>1 DEF IsBase
<1> QED  BY <1>1, <1>2, <1>4, <1>5, <1>6 DEF c

LEMMA RebasedType ==
    ASSUME NEW d \in Nat \cup {-1}, NEW b \in Nat
    PROVE  Rebased(d, b) \in Nat \cup {-1}
BY DEF Rebased

LEMMA LiftedType ==
    ASSUME NEW c \in Contexts, NEW b \in Nat
    PROVE  /\ Lifted(c, b) \in Contexts /\ Lifted(c, b).AR = c.AR /\ Lifted(c, b).Pos = c.Pos
           /\ Lifted(c, b).Retry = c.Retry /\ Lifted(c, b).LTD = Rebased(c.LTD, b)
BY RebasedType DEF Lifted, Contexts

LEMMA AboveType ==
    ASSUME NEW st \in Seq(Contexts), NEW b \in 0 .. Len(st)
    PROVE  /\ Above(st, b) \in Seq(Contexts)
           /\ Len(Above(st, b)) = Len(st) - b
           /\ Above(st, b) = <<>> <=> b = Len(st)
           /\ \A k \in 1 .. Len(st) - b : Above(st, b)[k] = Lifted(st[k + b], b)
           /\ b < Len(st) => Above(st, b)[Len(Above(st, b))] = Lifted(st[Len(st)], b)
<1>1. PICK n \in Nat : Len(st) = n /\ \A k \in 1 .. n : st[k] \in Contexts
  BY LenProperties, ElementOfSeq
<1>2. n - b \in Nat /\ \A k \in 1 .. n - b : k + b \in 1 .. n
  BY <1>1
<1>3. \A k \in 1 .. n - b : Lifted(st[k + b], b) \in Contexts
  BY <1>1, <1>2, LiftedType
<1>4. Above(st, b) = [k \in 1 .. n - b |-> Lifted(st[k + b], b)]
  BY <1>1 DEF Above
<1>5. Above(st, b) \in [1 .. n - b -> Contexts]
  BY <1>3, <1>4
<1>6. Above(st, b) \in Seq(Contexts) /\ Len(Above(st, b)) = n - b
  BY <1>2, <1>5, IsASeq, LenProperties
<1>7. Above(st, b) = <<>> <=> n - b = 0
  BY <1>6, EmptySeq
<1>8. b < n => n - b \in 1 .. n - b /\ (n - b) + b = n
  BY <1>2
<1> QED  BY <1>1, <1>2, <1>4, <1>6, <1>7, <1>8

LEMMA AbovePushed ==
    ASSUME NEW st \in Seq(Contexts), NEW b \in 0 .. Len(st), NEW c \in Contexts
    PROVE  Above(Append(st, c), b) = Append(Above(st, b), Lifted(c, b))
<1>1. PICK n \in Nat : Len(st) = n
  BY LenProperties
<1>2. /\ Append(st, c) \in Seq(Contexts) /\ Len(Append(st, c)) = n + 1
      /\ Append(st, c)[n + 1] = c /\ \A k \in 1 .. n : Append(st, c)[k] = st[k]
  BY <1>1, AppendProperties
<1>3. /\ Above(st, b) \in Seq(Contexts) /\ Len(Above(st, b)) = n - b
      /\ \A k \in 1 .. n - b : Above(st, b)[k] = Lifted(st[k + b], b)
  BY <1>1, AboveType
<1>4. Lifted(c, b) \in Contexts
  BY LiftedType
<1> DEFINE l == Append(Above(st, b), Lifted(c, b))
           r == Above(Append(st, c), b)
<1>5. /\ l \in Seq(Contexts) /\ Len(l) = (n - b) + 1
      /\ l[(n - b) + 1] = Lifted(c, b) /\ \A k \in 1 .. n - b : l[k] = Above(st, b)[k]
  BY <1>3, <1>4, AppendProperties
<1>6. b \in 0 .. n + 1 /\ b \in 0 .. n
  BY <1>1
<1>7. /\ r \in Seq(Contexts) /\ Len(r) = (n + 1) - b
      /\ \A k \in 1 .. (n + 1) - b : r[k] = Lifted(Append(st, c)[k + b], b)
  <2> DEFINE f == Append(st, c)
  <2>1. f \in Seq(Contexts) /\ Len(f) = n + 1 /\ b \in 0 .. Len(f)
    BY <1>2, <1>6
  <2> HIDE DEF f
  <2>2. /\ Above(f, b) \in Seq(Contexts) /\ Len(Above(f, b)) = Len(f) - b
        /\ \A k \in 1 .. Len(f) - b : Above(f, b)[k] = Lifted(f[k + b], b)
    BY <2>1, AboveType
  <2> QED  BY <2>1, <2>2 DEF f
<1>8. ASSUME NEW k \in 1 .. (n + 1) - b
      PROVE  r[k] = l[k]
  <2>1. CASE k = (n - b) + 1
    <3>1. k + b = n + 1
      BY <1>6, <2>1
    <3> QED  BY <1>2, <1>5, <1>7, <2>1, <3>1
  <2>2. CASE k # (n - b) + 1
    <3>1. k \in 1 .. n - b /\ k + b \in 1 .. n
      BY <1>6, <2>2
    <3> QED  BY <1>2, <1>3, <1>5, <1>7, <3>1
  <2> QED  BY <2>1, <2>2
<1>9. Len(r) = Len(l)
  BY <1>5, <1>6, <1>7
<1> HIDE DEF l, r
<1>10. \A k \in 1 .. Len(r) : r[k] = l[k]
  BY <1>7, <1>8
<1> QED  BY <1>5, <1>7, <1>9, <1>10, SeqEqual DEF l, r

LEMMA AbovePopped ==
    ASSUME NEW st \in Seq(Contexts), NEW b \in 0 .. Len(st), b < Len(st)
    PROVE  Above(Front(st), b) = Front(Above(st, b))
<1>1. PICK n \in Nat : Len(st) = n
  BY LenProperties
<1>2. b \in 0 .. n /\ b < n /\ n - 1 \in Nat /\ b \in 0 .. n - 1
  BY <1>1
<1>3. /\ Front(st) \in Seq(Contexts) /\ Len(Front(st)) = n - 1
      /\ \A k \in 1 .. n - 1 : Front(st)[k] = st[k]
  BY <1>1, <1>2, FrontProperties
<1>4. /\ Above(st, b) \in Seq(Contexts) /\ Len(Above(st, b)) = n - b
      /\ \A k \in 1 .. n - b : Above(st, b)[k] = Lifted(st[k + b], b)
  BY <1>1, AboveType
<1> DEFINE l == Front(Above(st, b))
           r == Above(Front(st), b)
<1>5. /\ l \in Seq(Contexts) /\ Len(l) = (n - b) - 1
      /\ \A k \in 1 .. (n - b) - 1 : l[k] = Above(st, b)[k]
  <2> DEFINE f == Above(st, b)
  <2>1. f \in Seq(Contexts) /\ Len(f) = n - b /\ Len(f) >= 1
    BY <1>2, <1>4
  <2> HIDE DEF f
  <2>2. PICK m \in Nat : Len(f) = m /\ m >= 1
    BY <2>1, <1>2
  <2>3. /\ Front(f) \in Seq(Contexts) /\ Len(Front(f)) = m - 1
        /\ \A k \in 1 .. m - 1 : Front(f)[k] = f[k]
    BY <2>1, <2>2, FrontProperties
  <2> QED  BY <2>1, <2>2, <2>3 DEF f
<1>6. /\ r \in Seq(Contexts) /\ Len(r) = (n - 1) - b
      /\ \A k \in 1 .. (n - 1) - b : r[k] = Lifted(Front(st)[k + b], b)
  <2> DEFINE f == Front(st)
  <2>1. f \in Seq(Contexts) /\ Len(f) = n - 1 /\ b \in 0 .. Len(f)
    BY <1>2, <1>3
  <2> HIDE DEF f
  <2>2. /\ Above(f, b) \in Seq(Contexts) /\ Len(Above(f, b)) = Len(f) - b
        /\ \A k \in 1 .. Len(f) - b : Above(f, b)[k] = Lifted(f[k + b], b)
    BY <2>1, AboveType
  <2> QED  BY <2>1, <2>2 DEF f
<1>7. ASSUME NEW k \in 1 .. (n - 1) - b
      PROVE  r[k] = l[k]
  <2>1. k \in 1 .. (n - b) - 1 /\ k \in 1 .. n - b /\ k + b \in 1 .. n - 1
    BY <1>2
  <2> QED  BY <1>3, <1>4, <1>5, <1>6, <2>1
<1>8. Len(r) = Len(l)
  BY <1>2, <1>5, <1>6
<1> HIDE DEF l, r
<1>9. \A k \in 1 .. Len(r) : r[k] = l[k]
  BY <1>6, <1>7
<1> QED  BY <1>5, <1>6, <1>8, <1>9, SeqEqual DEF l, r

(* The last activation goes on at another position, with another retry. *)
LEMMA AboveEdited ==
    ASSUME NEW st \in Seq(Contexts), NEW b \in 0 .. Len(st), b < Len(st), NEW c \in Contexts
    PROVE  Above([st EXCEPT ![Len(st)] = c], b) = [Above(st, b) EXCEPT ![Len(Above(st, b))] = Lifted(c, b)]
<1>1. PICK n \in Nat : Len(st) = n
  BY LenProperties
<1>2. b \in 0 .. n /\ b < n /\ n - b \in 1 .. n - b /\ n \in 1 .. n /\ (n - b) + b = n
  BY <1>1
<1>3. /\ Above(st, b) \in Seq(Contexts) /\ Len(Above(st, b)) = n - b
      /\ \A k \in 1 .. n - b : Above(st, b)[k] = Lifted(st[k + b], b)
  BY <1>1, AboveType
<1> DEFINE e == [st EXCEPT ![n] = c]
           l == [Above(st, b) EXCEPT ![n - b] = Lifted(c, b)]
           r == Above(e, b)
<1>4. e \in Seq(Contexts) /\ Len(e) = n /\ \A k \in 1 .. n : e[k] = IF k = n THEN c ELSE st[k]
  BY <1>1, <1>2, ExceptSeq
<1>5. Lifted(c, b) \in Contexts
  BY LiftedType
<1>6. /\ l \in Seq(Contexts) /\ Len(l) = n - b
      /\ \A k \in 1 .. n - b : l[k] = IF k = n - b THEN Lifted(c, b) ELSE Above(st, b)[k]
  BY <1>2, <1>3, <1>5, ExceptSeq
<1> HIDE DEF e
<1>7. r \in Seq(Contexts) /\ Len(r) = n - b /\ \A k \in 1 .. n - b : r[k] = Lifted(e[k + b], b)
  BY <1>2, <1>4, AboveType
<1>8. ASSUME NEW k \in 1 .. n - b
      PROVE  r[k] = l[k]
  <2>1. CASE k = n - b
    <3>1. k + b = n /\ e[k + b] = c
      BY <1>2, <1>4, <2>1
    <3> QED  BY <1>2, <1>6, <1>7, <2>1, <3>1
  <2>2. CASE k # n - b
    <3>1. k + b \in 1 .. n /\ k + b # n
      BY <1>2, <2>2
    <3>2. e[k + b] = st[k + b]
      BY <1>4, <3>1
    <3> QED  BY <1>3, <1>6, <1>7, <2>2, <3>2
  <2> QED  BY <2>1, <2>2
<1>9. Len(r) = Len(l)
  BY <1>6, <1>7
<1> HIDE DEF l, r
<1>10. \A k \in 1 .. Len(r) : r[k] = l[k]
  BY <1>7, <1>8
<1>11. r = l
  BY <1>6, <1>7, <1>9, <1>10, SeqEqual
<1> QED  BY <1>1, <1>3, <1>11 DEF l, r, e

-----------------------------------------------------------------------------
(* What the settled ARs see of a state.                                    *)

HasBase == \E b : IsBase(b)

(* The innermost activation is one of a settled AR, or is none. *)
InPart  == stack # <<>> /\ This \in Part
OutPart == ~InPart

(* A settled AR has been asked, and none is being enumerated. *)
Asked == pc \in {"call", "return"} /\ Callee.AR \in Part /\ ~(pc = "return" /\ result.type = "INLINE")

(* What there is to see if no settled AR is being enumerated. *)
SeenBelow ==
    /\ PartStack = <<>> /\ PartDepth = [a \in ARs |-> -1]
    /\ PartCursor = IF Asked THEN Callee ELSE Nobody
    /\ PartResult = IF Asked THEN result ELSE NoResult
    /\ PartPc = IF Asked THEN pc ELSE "idle"
    /\ \A k \in 1 .. Len(stack) : stack[k].AR \notin Part
    /\ Len(stack) \in Nat /\ IsBase(Len(stack)) /\ Base = Len(stack)

LEMMA LowerView == Recursion /\ HasBase /\ OutPart => SeenBelow
<1> SUFFICES ASSUME Recursion, HasBase, OutPart
             PROVE  SeenBelow
  OBVIOUS
<1>1. PICK b : IsBase(b)
  BY DEF HasBase
<1>2. PICK n \in Nat : Len(stack) = n /\ (stack = <<>> <=> n = 0)
  BY StackLen DEF Recursion
<1>3. Base = b /\ b \in Nat /\ b <= n
  BY <1>1, <1>2, BaseIs DEF Recursion
<1>4. b = n
  <2> SUFFICES ASSUME b < n
               PROVE  FALSE
    BY <1>2, <1>3
  <2>1. n \in b + 1 .. n /\ stack # <<>>
    BY <1>2, <1>3
  <2>2. This = stack[n].AR
    BY <1>2 DEF This, Ctx
  <2> QED  BY <1>1, <1>2, <2>1, <2>2 DEF IsBase, OutPart, InPart
<1>5. stack \in Seq(Contexts) /\ EnumerationDepth \in [ARs -> Nat \cup {-1}]
  BY DEF Recursion, TypeOK
<1>6. PartStack = <<>>
  <2>1. b \in 0 .. Len(stack)
    BY <1>2, <1>3
  <2>2. Above(stack, b) = <<>>
    BY <1>2, <1>4, <1>5, <2>1, AboveType
  <2> QED  BY <1>3, <2>2 DEF PartStack
<1>7. \A k \in 1 .. n : stack[k].AR \notin Part
  BY <1>1, <1>4 DEF IsBase
<1>8. PartDepth = [a \in ARs |-> -1]
  <2> SUFFICES ASSUME NEW a \in ARs, a \in Part
               PROVE  Rebased(EnumerationDepth[a], b) = -1
    BY <1>3 DEF PartDepth
  <2>1. EnumerationDepth[a] = -1
    <3> SUFFICES ASSUME EnumerationDepth[a] # -1
                 PROVE  FALSE
      OBVIOUS
    <3>1. EnumerationDepth[a] < n /\ stack[EnumerationDepth[a] + 1].AR = a /\ EnumerationDepth[a] \in Nat
      BY <1>2, <1>5 DEF Recursion, DepthsMirrorStack
    <3>2. EnumerationDepth[a] + 1 \in 1 .. n
      BY <3>1
    <3> QED  BY <1>7, <3>1, <3>2
  <2> QED  BY <1>3, <2>1 DEF Rebased
<1>9. Client = Callee
  <2>1. CASE n = 0
    BY <1>2, <1>3, <1>4, <2>1 DEF Client, Callee
  <2>2. CASE n # 0
    <3>1. Running(n) = Cur
      BY <1>2 DEF Running, Cur, This, Ctx
    <3> QED  BY <1>2, <1>3, <1>4, <2>2, <3>1 DEF Client, Callee
  <2> QED  BY <2>1, <2>2
<1>10. Serving <=> Asked
  BY <1>2, <1>3, <1>4, <1>9 DEF Serving, Asked
<1>11. /\ PartCursor = IF Asked THEN Callee ELSE Nobody
       /\ PartResult = IF Asked THEN result ELSE NoResult
       /\ PartPc = IF Asked THEN pc ELSE "idle"
  BY <1>9, <1>10 DEF PartCursor, PartResult, PartPc
<1> QED  BY <1>1, <1>2, <1>3, <1>4, <1>6, <1>7, <1>8, <1>11 DEF SeenBelow

LEMMA BaseOf == \A b : TypeOK /\ IsBase(b) => Base = b
BY BaseIs

LEMMA BaseAfter == (\A b : TypeOK /\ IsBase(b) => Base = b)'
BY BaseOf, PTL

(* The base after a step. *)
LEMMA NextBase ==
    ASSUME Recursion', sys' = sys, NEW b \in Nat, NEW m \in Nat, b <= m, Len(stack') = m,
           \A k \in 1 .. b : stack'[k].AR \notin Part,
           \A k \in b + 1 .. m : stack'[k].AR \in Part
    PROVE  IsBase(b)' /\ Base' = b /\ HasBase'
<1>1. Part' = Part
  BY DEF Part
<1>2. b \in 0 .. m
  OBVIOUS
<1>3. IsBase(b)'
  BY <1>1, <1>2 DEF IsBase
<1> QED  BY <1>3, BaseAfter DEF HasBase, Recursion

-----------------------------------------------------------------------------
(* Steps of activations that are none of settled ARs.                      *)

LEMMA SeenBelowAfter == (Recursion /\ HasBase /\ OutPart => SeenBelow)'
BY LowerView, PTL

LEMMA NextKeepsSystem ==
    ASSUME [Next]_vars
    PROVE  sys' = sys
BY DEF Next, Step, Enter, EnterRewrite, EnterCached, EnterRetry, EnterRun,
       Run, RunInline, RunRecurse, EndComplete, EndCancelRetry, EndRetry,
       Handle, AddNewValue, SkipKnownValue, TransformToNothing, TransformToSubset,
       InlineSubset, DropInlined, SkipRetried, EraseCompleted,
       RewriteHere, RewriteBegin, RewriteKeep, RewriteDrop, RewriteSplice, Answer, Query, vars

(* What the settled ARs have stays as it is. *)
PartKept == \A a \in Part : Set'[a] = Set[a] /\ Work'[a] = Work[a] /\ Subsets'[a] = Subsets[a]

LEMMA SameKept ==
    ASSUME UNCHANGED <<Set, Work, Subsets>>
    PROVE  PartKept
BY DEF PartKept

LEMMA SetWorkPartKept ==
    ASSUME Recursion, stack # <<>>, This \notin Part, NEW w, SetWork(w), UNCHANGED <<Set, Subsets>>
    PROVE  PartKept
<1>1. This \in ARs
  BY TopFrame
<1>2. Part \subseteq ARs
  BY PartType
<1> QED  BY <1>1, <1>2, SetWorkItems DEF PartKept

LEMMA EnterCachedKept ==
    ASSUME Recursion, HasBase, OutPart, EnterCached
    PROVE  PartKept
<1>1. pc = "call" /\ Advance(stack) /\ UNCHANGED <<sys, Set, Subsets, EnumerationDepth, stack>>
  BY DEF EnterCached
<1>2. CASE stack = <<>>
  BY <1>1, <1>2 DEF PartKept, Advance
<1>3. CASE stack # <<>>
  <2>1. PICK n \in Nat : n >= 1 /\ Len(stack) = n /\ Ctx = stack[n]
    BY <1>3, TopFrame
  <2>2. Last(stack) = stack[n] /\ n \in 1 .. Len(stack)
    BY <1>1, <1>3, <2>1, LastFrame
  <2>3. \A a \in ARs \ {stack[n].AR} : Work'[a] = Work[a]
    BY <1>1, <1>3, <2>2, AdvanceItems
  <2>4. stack[n].AR \notin Part
    BY <1>3, <2>1 DEF OutPart, InPart, This
  <2> QED  BY <1>1, <2>3, <2>4, PartType DEF PartKept
<1> QED  BY <1>2, <1>3

(* What the last activation but the innermost one runs. *)
LEMMA CallerAdvanced ==
    ASSUME Recursion, AddNewValue
    PROVE  /\ stack # <<>> /\ This \in ARs /\ Set' = [Set EXCEPT ![This] = Append(@, result.VI)]
           /\ \E n \in Nat :
                 /\ n >= 1 /\ Len(stack) = n
                 /\ n = 1 => cursor' = [cursor EXCEPT !.i = @ + 1] /\ Work' = Work
                 /\ n > 1 => /\ cursor' = cursor
                             /\ n - 1 \in 1 .. Len(stack)
                             /\ Last(Front(stack)) = stack[n - 1]
                             /\ Front(stack) # <<>>
                             /\ Work' = [Work EXCEPT ![stack[n - 1].AR][stack[n - 1].Pos].i = @ + 1]
                             /\ \A a \in ARs \ {stack[n - 1].AR} : Work'[a] = Work[a]
<1>1. /\ stack # <<>> /\ pc = "return" /\ Advance(Front(stack))
      /\ Set' = [Set EXCEPT ![This] = Append(@, result.VI)]
  BY DEF AddNewValue, Returned
<1>2. PICK n \in Nat : n >= 1 /\ Len(stack) = n /\ This \in ARs
  BY <1>1, TopFrame
<1>3. stack \in Seq(Contexts)
  BY DEF Recursion, TypeOK
<1>4. /\ Front(stack) \in Seq(Contexts) /\ Len(Front(stack)) = n - 1
      /\ \A k \in 1 .. n - 1 : Front(stack)[k] = stack[k]
  BY <1>2, <1>3, FrontProperties
<1>5. n = 1 => Front(stack) = <<>>
  BY <1>4
<1>6. n = 1 => cursor' = [cursor EXCEPT !.i = @ + 1] /\ Work' = Work
  BY <1>1, <1>5 DEF Advance
<1>7. ASSUME n > 1
      PROVE  /\ n - 1 \in 1 .. Len(stack) /\ Last(Front(stack)) = stack[n - 1] /\ Front(stack) # <<>>
             /\ n - 1 < Len(stack)
  <2>1. n - 1 \in 1 .. n - 1 /\ n - 1 \in 1 .. Len(stack)
    BY <1>2, <1>7
  <2>2. Front(stack)[n - 1] = stack[n - 1]
    BY <1>4, <2>1
  <2>3. Last(Front(stack)) = stack[n - 1]
    BY <1>4, <2>2 DEF Last
  <2> QED  BY <1>2, <1>4, <1>7, <2>1, <2>3
<1>8. n > 1 => /\ cursor' = cursor
               /\ Work' = [Work EXCEPT ![stack[n - 1].AR][stack[n - 1].Pos].i = @ + 1]
  BY <1>1, <1>7 DEF Advance
<1>9. n > 1 => \A a \in ARs \ {stack[n - 1].AR} : Work'[a] = Work[a]
  BY <1>1, <1>7, AdvanceItems
<1> QED  BY <1>1, <1>2, <1>6, <1>7, <1>8, <1>9

LEMMA AddNewValueKeptBelow ==
    ASSUME Recursion, HasBase, OutPart, AddNewValue
    PROVE  PartKept
<1>1. stack # <<>> /\ This \in ARs /\ Set' = [Set EXCEPT ![This] = Append(@, result.VI)]
  BY CallerAdvanced
<1>2. PICK n \in Nat :
                 /\ n >= 1 /\ Len(stack) = n
                 /\ n = 1 => Work' = Work
                 /\ n > 1 => /\ n - 1 \in 1 .. Len(stack)
                             /\ \A a \in ARs \ {stack[n - 1].AR} : Work'[a] = Work[a]
  BY CallerAdvanced
<1>3. This \notin Part /\ \A k \in 1 .. Len(stack) : stack[k].AR \notin Part
  BY <1>1, LowerView DEF SeenBelow, OutPart, InPart
<1>4. Part \subseteq ARs
  BY PartType
<1>5. \A a \in Part : Work'[a] = Work[a]
  BY <1>2, <1>3, <1>4
<1>6. \A a \in Part : Set'[a] = Set[a]
  BY <1>1, <1>3, <1>4 DEF Recursion, TypeOK
<1>7. Subsets' = Subsets
  BY DEF AddNewValue
<1> QED  BY <1>5, <1>6, <1>7 DEF PartKept

(* The target of a rewrite is on the stack. *)
LEMMA TargetBelow ==
    ASSUME Recursion, Routing, HasBase, OutPart,
           pc = "rewrite" \/ (pc = "return" /\ result.type = "REWRITE")
    PROVE  result.AR \in ARs \ Part
<1>1. result.AR \in ARs /\ EnumerationDepth[result.AR] # -1
  <2>1. CASE pc = "rewrite"
    BY <2>1, RewriteTarget
  <2>2. CASE pc = "return" /\ result.type = "REWRITE"
    BY <2>2, TargetDepth
  <2> QED  BY <2>1, <2>2
<1>2. SeenBelow
  BY LowerView
<1>3. EnumerationDepth[result.AR] \in Nat /\ EnumerationDepth[result.AR] < Len(stack)
      /\ stack[EnumerationDepth[result.AR] + 1].AR = result.AR
  BY <1>1 DEF Recursion, TypeOK, DepthsMirrorStack
<1>4. EnumerationDepth[result.AR] + 1 \in 1 .. Len(stack)
  BY <1>2, <1>3 DEF SeenBelow
<1> QED  BY <1>1, <1>2, <1>3, <1>4 DEF SeenBelow

LEMMA LowerKeeps ==
    ASSUME Recursion, Routing, HasBase, OutPart, Next
    PROVE  PartKept
<1>1. Part \subseteq ARs
  BY PartType
<1>2. stack # <<>> => This \notin Part /\ This \in ARs
  BY TopFrame DEF OutPart, InPart
<1>3. CASE \/ EnterRewrite \/ EnterRetry \/ EnterRun \/ RunInline \/ RunRecurse \/ EndComplete \/ EndRetry
           \/ SkipKnownValue \/ TransformToNothing \/ SkipRetried \/ Answer
           \/ \E a \in ARs : \E i \in 0 .. Len(Set[a]) : Query(a, i)
  <2>1. UNCHANGED <<Set, Work, Subsets>>
    BY <1>3 DEF EnterRewrite, EnterRetry, EnterRun, RunInline, RunRecurse, EndComplete, EndRetry,
                SkipKnownValue, TransformToNothing, SkipRetried, Answer, Query
  <2> QED  BY <2>1, SameKept
<1>4. CASE EndCancelRetry \/ DropInlined \/ EraseCompleted \/ RewriteHere \/ RewriteBegin \/ RewriteDrop
  <2>1. pc \in {"run", "rewrite"} => stack # <<>>
    BY DEF Recursion, ControlOK
  <2>2. stack # <<>> /\ UNCHANGED <<Set, Subsets>> /\ \E w : SetWork(w)
    BY <1>4, <2>1 DEF EndCancelRetry, DropInlined, EraseCompleted, RewriteHere, RewriteBegin, RewriteDrop,
                      EraseCur, Returned
  <2> QED  BY <1>2, <2>2, SetWorkPartKept
<1>5. CASE EnterCached
  BY <1>5, EnterCachedKept
<1>6. CASE AddNewValue
  BY <1>6, AddNewValueKeptBelow
<1>7. CASE TransformToSubset \/ InlineSubset
  <2>1. stack # <<>> /\ Set' = Set /\ \E s : NoteSubset(This, s)
    BY <1>7 DEF TransformToSubset, InlineSubset, Returned
  <2>2. \A a \in ARs \ {This} : Work'[a] = Work[a]
    BY <1>7, PushItems, InlineItems
  <2>3. \A a \in ARs \ {This} : Subsets'[a] = Subsets[a]
    BY <2>1 DEF NoteSubset, Recursion, TypeOK
  <2> QED  BY <1>1, <1>2, <2>1, <2>2, <2>3 DEF PartKept
<1>8. CASE RewriteKeep
  <2>1. result.AR \in ARs \ Part
    BY <1>8, TargetBelow DEF RewriteKeep
  <2>2. UNCHANGED <<Set, Work>> /\ (Subsets' = Subsets \/ NoteSubset(result.AR, Cur.AR))
    BY <1>8 DEF RewriteKeep
  <2>3. \A a \in ARs \ {result.AR} : Subsets'[a] = Subsets[a]
    BY <2>2 DEF NoteSubset, Recursion, TypeOK
  <2> QED  BY <1>1, <2>1, <2>2, <2>3 DEF PartKept
<1>9. CASE RewriteSplice
  <2>1. result.AR \in ARs \ Part /\ stack # <<>>
    BY <1>9, TargetBelow DEF RewriteSplice, Recursion, ControlOK
  <2>2. Work' = [Work EXCEPT ![result.AR] = @ \o Work[This], ![This] = <<SubsetWork(result.AR)>>]
        /\ UNCHANGED <<Set, Subsets>>
    BY <1>9 DEF RewriteSplice
  <2>3. \A a \in ARs \ {This, result.AR} : Work'[a] = Work[a]
    BY <2>2 DEF Recursion, TypeOK
  <2> QED  BY <1>1, <1>2, <2>1, <2>2, <2>3 DEF PartKept
<1> QED  BY <1>3, <1>4, <1>5, <1>6, <1>7, <1>8, <1>9 DEF Next, Step, Enter, Run, Handle

-----------------------------------------------------------------------------
(* What such a step is to the settled ARs.                                 *)

(* What the equations, the sets and the lists of settled ARs look like     *)
(* after a step that leaves them alone.                                    *)
LEMMA ListsKept ==
    ASSUME PartKept, sys' = sys
    PROVE  /\ Part' = Part /\ Restricted(sys)' = Restricted(sys)
           /\ PartSet' = PartSet /\ PartWork' = PartWork /\ PartSubsets' = PartSubsets
<1>1. Part' = Part
  BY DEF Part
<1>2. Restricted(sys)' = Restricted(sys)
  BY DEF Restricted, About
<1> QED  BY <1>1, <1>2 DEF PartKept, PartSet, PartWork, PartSubsets

(* No settled AR is being enumerated before or after the step: one is      *)
(* asked, or has answered, or is asked again.                              *)
AskedMoves ==
    \/ ~Asked /\ ~Asked'
    \/ /\ ~Asked /\ Asked' /\ pc' = "call" /\ result' = NoResult
       /\ Callee' = [AR |-> Callee'.AR, i |-> Callee'.i]
       /\ Callee'.i \in 0 .. Len(Set[Callee'.AR])
    \/ Asked /\ ~Asked' /\ pc = "return"
    \/ /\ Asked /\ Asked' /\ pc = "return" /\ result.type = "NEXT_VALUE"
       /\ pc' = "call" /\ result' = NoResult /\ Callee' = Callee

(* What a step does to the stack. *)
LEMMA NextFrames ==
    ASSUME Recursion, Next
    PROVE  \/ stack' = stack
           \/ stack # <<>> /\ stack' = Front(stack)
           \/ /\ stack # <<>> /\ Len(stack') = Len(stack)
              /\ \A k \in 1 .. Len(stack) : stack'[k].AR = stack[k].AR /\ stack'[k].LTD = stack[k].LTD
           \/ EnterRun
<1>1. CASE \/ EnterRewrite \/ EnterRetry \/ EnterCached \/ RunRecurse
           \/ SkipKnownValue \/ TransformToNothing \/ TransformToSubset \/ InlineSubset \/ DropInlined
           \/ EraseCompleted \/ RewriteHere \/ RewriteDrop \/ Answer
           \/ \E a \in ARs : \E i \in 0 .. Len(Set[a]) : Query(a, i)
  BY <1>1 DEF EnterRewrite, EnterRetry, EnterCached, RunRecurse,
              SkipKnownValue, TransformToNothing, TransformToSubset, InlineSubset, DropInlined,
              EraseCompleted, RewriteHere, RewriteDrop, Answer, Query
<1>2. CASE RunInline \/ EndComplete \/ EndCancelRetry \/ EndRetry \/ AddNewValue \/ RewriteSplice
  <2>1. stack # <<>>
    BY <1>2, LeaveKept
  <2>2. stack' = Front(stack)
    BY <1>2 DEF RunInline, EndComplete, EndCancelRetry, EndRetry, AddNewValue, RewriteSplice, Leave
  <2> QED  BY <2>1, <2>2
<1>3. CASE SkipRetried \/ RewriteBegin \/ RewriteKeep
  BY <1>3, EditedFrames
<1> QED  BY <1>1, <1>2, <1>3 DEF Next, Step, Enter, Run, Handle

LEMMA LowerFrames ==
    ASSUME Recursion, HasBase, OutPart, Next, Recursion', EnterRun => Callee.AR \notin Part
    PROVE  HasBase' /\ OutPart' /\ SeenBelow /\ SeenBelow'
<1>1. SeenBelow
  BY LowerView
<1>2. sys' = sys
  BY NextKeepsSystem
<1>3. PICK n \in Nat : Len(stack) = n
  BY StackLen DEF Recursion
<1>4. stack \in Seq(Contexts) /\ stack' \in Seq(Contexts)
  BY DEF Recursion, TypeOK
<1>5. \A k \in 1 .. n : stack[k].AR \notin Part
  BY <1>1, <1>3 DEF SeenBelow
<1>6. PICK m \in Nat : Len(stack') = m /\ \A k \in 1 .. m : stack'[k].AR \notin Part
  <2>1. CASE stack' = stack
    BY <1>3, <1>5, <2>1
  <2>2. CASE stack # <<>> /\ stack' = Front(stack)
    <3>1. n >= 1
      BY <1>3, <2>2, TopFrame
    <3>2. Len(Front(stack)) = n - 1 /\ \A k \in 1 .. n - 1 : Front(stack)[k] = stack[k]
      BY <1>3, <1>4, <3>1, FrontProperties
    <3>3. n - 1 \in Nat /\ 1 .. n - 1 \subseteq 1 .. n
      BY <3>1
    <3> QED  BY <1>5, <2>2, <3>2, <3>3
  <2>3. CASE /\ stack # <<>> /\ Len(stack') = Len(stack)
             /\ \A k \in 1 .. Len(stack) : stack'[k].AR = stack[k].AR /\ stack'[k].LTD = stack[k].LTD
    BY <1>3, <1>5, <2>3
  <2>4. CASE EnterRun
    <3> DEFINE c == [AR |-> Callee.AR, LTD |-> CalleeLTD, Pos |-> 1, Retry |-> NoAR]
    <3>1. stack' = Append(stack, c) /\ c.AR \notin Part
      BY <2>4 DEF EnterRun
    <3> HIDE DEF c
    <3>2. Len(stack') = n + 1 /\ stack'[n + 1] = c /\ \A k \in 1 .. n : stack'[k] = stack[k]
      BY <1>3, <1>4, <3>1
    <3>3. n + 1 \in Nat /\ \A k \in 1 .. n + 1 : k \in 1 .. n \/ k = n + 1
      OBVIOUS
    <3> QED  BY <1>5, <3>1, <3>2, <3>3
  <2> QED  BY <2>1, <2>2, <2>3, <2>4, NextFrames
<1>7. HasBase'
  <2>1. \A k \in m + 1 .. m : stack'[k].AR \in Part
    OBVIOUS
  <2>2. m <= m /\ Len(stack') = m /\ \A k \in 1 .. m : stack'[k].AR \notin Part
    BY <1>6
  <2>3. IsBase(m)' /\ Base' = m /\ HasBase'
    BY <1>2, <2>1, <2>2, NextBase
  <2> QED  BY <2>3
<1>8. OutPart'
  <2>1. Part' = Part
    BY <1>2 DEF Part
  <2>2. stack' # <<>> => m \in 1 .. m
    BY <1>4, <1>6
  <2> QED  BY <1>6, <2>1, <2>2 DEF OutPart, InPart, This, Ctx
<1> QED  BY <1>1, <1>7, <1>8, SeenBelowAfter

(* No activation enumerates a settled AR. *)
LEMMA NotEntered ==
    ASSUME Recursion, SeenBelow, pc = "call", Callee.AR \in Part
    PROVE  ~IsRewrite /\ ~isEnumerating(Callee.AR)
<1>1. Callee.AR \in ARs
  BY CalleeType
<1>2. EnumerationDepth[Callee.AR] = -1
  <2> SUFFICES ASSUME EnumerationDepth[Callee.AR] # -1
               PROVE  FALSE
    OBVIOUS
  <2>1. /\ EnumerationDepth[Callee.AR] \in Nat /\ EnumerationDepth[Callee.AR] < Len(stack)
        /\ stack[EnumerationDepth[Callee.AR] + 1].AR = Callee.AR
    BY <1>1 DEF Recursion, TypeOK, DepthsMirrorStack
  <2>2. EnumerationDepth[Callee.AR] + 1 \in 1 .. Len(stack)
    BY <2>1 DEF SeenBelow
  <2> QED  BY <2>1, <2>2 DEF SeenBelow
<1>3. CalleeLTD \in Nat \cup {-1}
  <2>1. CASE stack = <<>>
    BY <2>1 DEF CalleeLTD
  <2>2. CASE stack # <<>>
    <3>1. \E n \in Nat : n >= 1 /\ Depth = n - 1 /\ Ctx \in Contexts
      BY <2>2, TopFrame
    <3>2. Ctx.LTD \in Nat \cup {-1} /\ Depth \in Nat
      BY <3>1 DEF Contexts
    <3> QED  BY <2>2, <3>2 DEF CalleeLTD
  <2> QED  BY <2>1, <2>2
<1> QED  BY <1>2, <1>3 DEF IsRewrite, isEnumerating

(* Who gets the result of an activation of none of the settled ARs asked   *)
(* for none of them.                                                       *)
LEMMA LeftBelow ==
    ASSUME Recursion, Routing, OutPart, sys' = sys,
           RunInline \/ EndComplete \/ EndCancelRetry \/ EndRetry \/ AddNewValue \/ RewriteSplice
    PROVE  ~Asked'
<1>1. stack # <<>> /\ SuspendedKept /\ cursor'.AR = cursor.AR
  BY LeaveKept
<1>2. stack' = Front(stack)
  BY DEF RunInline, EndComplete, EndCancelRetry, EndRetry, AddNewValue, RewriteSplice, Leave
<1>3. Callee'.AR = This
  BY <1>1, <1>2, AfterLeave DEF Routing
<1>4. This \notin Part /\ Part' = Part
  BY <1>1 DEF OutPart, InPart, Part
<1> QED  BY <1>3, <1>4 DEF Asked

LEMMA LowerAsked ==
    ASSUME Recursion, Routing, InRange, SeenBelow, OutPart, Next, sys' = sys,
           EnterRun \/ EnterCached => Callee.AR \notin Part
    PROVE  AskedMoves
<1>1. Part' = Part /\ Part \subseteq ARs
  BY PartType DEF Part
<1>2. pc \in {"idle", "run", "rewrite"} => ~Asked
  BY DEF Asked
<1>3. pc' \in {"idle", "run", "rewrite"} => ~Asked'
  BY DEF Asked
<1>4. ASSUME UNCHANGED <<stack, Work, cursor>>
      PROVE  Callee' = Callee
  BY <1>4, SameDepths
<1>5. CASE \E a \in ARs : \E i \in 0 .. Len(Set[a]) : Query(a, i)
  <2>0. PICK a \in ARs : \E i \in 0 .. Len(Set[a]) : Query(a, i)
    BY <1>5
  <2>1. PICK i \in 0 .. Len(Set[a]) : Query(a, i)
    BY <2>0
  <2>2. stack = <<>> /\ pc = "idle" /\ stack' = stack /\ cursor' = [AR |-> a, i |-> i]
        /\ pc' = "call" /\ result' = NoResult
    BY <2>1 DEF Query, Goto, Recursion, ControlOK
  <2>3. Callee' = [AR |-> a, i |-> i]
    BY <2>2 DEF Callee
  <2> QED  BY <1>2, <2>2, <2>3 DEF AskedMoves
<1>6. CASE Answer
  BY <1>3, <1>6 DEF Answer, Goto, AskedMoves
<1>7. CASE EnterRewrite \/ EnterRetry
  <2>1. pc = "call" /\ UNCHANGED <<stack, Work, cursor>> /\ (IsRewrite \/ isEnumerating(Callee.AR))
    BY <1>7 DEF EnterRewrite, EnterRetry
  <2>2. Callee.AR \notin Part
    BY <2>1, NotEntered
  <2> QED  BY <1>1, <1>4, <2>1, <2>2 DEF AskedMoves, Asked
<1>8. CASE EnterCached
  <2>1. Callee'.AR = Callee.AR
    <3>1. Advance(stack) /\ stack' = stack /\ pc = "call"
      BY <1>8 DEF EnterCached
    <3>2. CASE stack = <<>>
      <4>1. cursor' = [cursor EXCEPT !.i = @ + 1] /\ cursor \in Enumerators
        BY <3>1, <3>2 DEF Advance, Recursion, TypeOK
      <4> QED  BY <3>1, <3>2, <4>1 DEF Callee, Enumerators
    <3>3. CASE stack # <<>>
      <4>1. PICK n \in Nat : n >= 1 /\ Len(stack) = n /\ Ctx = stack[n]
        BY <3>3, TopFrame
      <4>2. Last(stack) = stack[n] /\ n \in 1 .. Len(stack)
        BY <3>1, <3>3, <4>1, LastFrame
      <4>3. Work'[stack[n].AR][stack[n].Pos] = Next1(Running(n)) /\ Next1(Running(n)).AR = Running(n).AR
        BY <3>1, <3>3, <4>2, AdvanceItems
      <4>4. Cur' = Next1(Running(n)) /\ Cur = Running(n)
        BY <3>1, <4>1, <4>3 DEF Cur, Running, This, Ctx
      <4> QED  BY <3>1, <3>3, <4>3, <4>4 DEF Callee
    <3> QED  BY <3>2, <3>3
  <2> QED  BY <1>1, <1>8, <2>1 DEF AskedMoves, Asked
<1>9. CASE EnterRun
  BY <1>3, <1>9 DEF EnterRun, Goto, AskedMoves, Asked
<1>10. CASE RunInline \/ EndComplete \/ EndCancelRetry \/ EndRetry \/ AddNewValue \/ RewriteSplice
  <2>1. ~Asked'
    BY <1>10, LeftBelow
  <2>2. pc \in {"run", "rewrite", "return"}
    BY <1>10 DEF RunInline, EndComplete, EndCancelRetry, EndRetry, AddNewValue, RewriteSplice, Returned
  <2> QED  BY <1>2, <2>1, <2>2 DEF AskedMoves
<1>11. CASE RunRecurse
  <2>1. pc = "run" /\ stack # <<>> /\ ~AtEnd /\ pc' = "call" /\ result' = NoResult
        /\ UNCHANGED <<stack, Work, cursor>>
    BY <1>11 DEF RunRecurse, Goto, Recursion, ControlOK
  <2>2. This \in ARs /\ Cur \in ToSet(Work[This]) /\ Cur.i \in Nat /\ Cur.AR \in ARs
    BY <2>1, CurItem
  <2>3. Cur.i <= Len(Set[Cur.AR]) /\ Len(Set[Cur.AR]) \in Nat
    BY <2>2, ItemInRange, LenOfSet
  <2>4. Callee' = [AR |-> Cur.AR, i |-> Cur.i]
    BY <1>4, <2>1 DEF Callee
  <2> QED  BY <1>2, <2>1, <2>2, <2>3, <2>4 DEF AskedMoves
<1>12. CASE \/ SkipKnownValue \/ TransformToSubset \/ DropInlined \/ SkipRetried \/ EraseCompleted
            \/ RewriteHere \/ RewriteBegin
  <2>1. pc = "return" /\ pc' \in {"run", "rewrite"}
    BY <1>12 DEF SkipKnownValue, TransformToSubset, DropInlined, SkipRetried, EraseCompleted,
                 RewriteHere, RewriteBegin, Returned, Goto
  <2> QED  BY <1>3, <2>1 DEF AskedMoves
<1>13. CASE RewriteKeep \/ RewriteDrop
  <2>1. pc = "rewrite" /\ pc' = "rewrite"
    BY <1>13 DEF RewriteKeep, RewriteDrop
  <2> QED  BY <1>2, <1>3, <2>1 DEF AskedMoves
<1>14. CASE TransformToNothing
  <2>1. /\ pc = "return" /\ result.type = "NEXT_VALUE" /\ pc' = "call" /\ result' = NoResult
        /\ UNCHANGED <<stack, Work, cursor>>
    BY <1>14 DEF TransformToNothing, Returned, Goto
  <2> QED  BY <1>1, <1>4, <2>1 DEF AskedMoves, Asked
<1>15. CASE InlineSubset
  <2>1. /\ pc = "return" /\ result.type = "INLINE" /\ pc' = "call" /\ result' = NoResult
        /\ stack' = stack /\ stack # <<>>
    BY <1>15 DEF InlineSubset, Returned, Goto
  <2>2. Work'[This][Ctx.Pos] = Inlined /\ Inlined.AR = result.AR /\ Inlined.i = result.i /\ result.AR \in ARs
        /\ Inlined \in Works
    BY <1>15, InlineItems
  <2>3. Callee' = [AR |-> result.AR, i |-> result.i]
    BY <2>1, <2>2 DEF Callee, Cur, This, Ctx
  <2>4. result.i <= Len(Set[result.AR]) /\ Len(Set[result.AR]) \in Nat /\ result.i \in Nat
    <3>1. result \in EnumerationResults
      BY DEF Recursion, TypeOK
    <3> QED  BY <2>1, <2>2, <3>1, LenOfSet DEF InRange, ResultInRange, EnumerationResults
  <2>5. ~Asked
    BY <2>1 DEF Asked
  <2> QED  BY <2>1, <2>3, <2>4, <2>5 DEF AskedMoves
<1> QED  BY <1>5, <1>6, <1>7, <1>8, <1>9, <1>10, <1>11, <1>12, <1>13, <1>14, <1>15
         DEF Next, Step, Enter, Run, Handle

-----------------------------------------------------------------------------
(* Steps that begin to enumerate a settled AR.                             *)

(* The nearest transform is below the activation. *)
LTDBelow == \A k \in 1 .. Len(stack) : stack[k].LTD < k - 1

LEMMA CalleeLTDType ==
    ASSUME Recursion, LTDBelow, NEW n \in Nat, Len(stack) = n
    PROVE  CalleeLTD \in Nat \cup {-1} /\ CalleeLTD < n
<1>1. CASE stack = <<>>
  BY <1>1, StackLen DEF CalleeLTD, Recursion
<1>2. CASE stack # <<>>
  <2>1. n >= 1 /\ Depth = n - 1 /\ Ctx \in Contexts /\ Ctx = stack[n]
    BY <1>2, TopFrame
  <2>2. Ctx.LTD \in Nat \cup {-1} /\ Depth \in Nat
    BY <2>1 DEF Contexts
  <2>3. Ctx.LTD < n - 1
    BY <2>1 DEF LTDBelow
  <2> QED  BY <1>2, <2>1, <2>2, <2>3 DEF CalleeLTD
<1> QED  BY <1>1, <1>2

LEMMA NextLTDBelow ==
    ASSUME Recursion, LTDBelow, Next
    PROVE  LTDBelow'
<1>1. PICK n \in Nat : Len(stack) = n
  BY StackLen DEF Recursion
<1>2. stack \in Seq(Contexts)
  BY DEF Recursion, TypeOK
<1>3. CASE stack' = stack
  BY <1>3 DEF LTDBelow
<1>4. CASE stack # <<>> /\ stack' = Front(stack)
  <2>1. n >= 1
    BY <1>1, <1>4, TopFrame
  <2>2. Len(Front(stack)) = n - 1 /\ \A k \in 1 .. n - 1 : Front(stack)[k] = stack[k]
    BY <1>1, <1>2, <2>1, FrontProperties
  <2>3. \A k \in 1 .. n - 1 : k \in 1 .. n
    BY <2>1
  <2> QED  BY <1>1, <1>4, <2>2, <2>3 DEF LTDBelow
<1>5. CASE /\ stack # <<>> /\ Len(stack') = Len(stack)
           /\ \A k \in 1 .. Len(stack) : stack'[k].AR = stack[k].AR /\ stack'[k].LTD = stack[k].LTD
  BY <1>1, <1>5 DEF LTDBelow
<1>6. CASE EnterRun
  <2> DEFINE c == [AR |-> Callee.AR, LTD |-> CalleeLTD, Pos |-> 1, Retry |-> NoAR]
  <2>1. stack' = Append(stack, c) /\ c.LTD < n
    BY <1>1, <1>6, CalleeLTDType DEF EnterRun
  <2> HIDE DEF c
  <2>2. Len(stack') = n + 1 /\ stack'[n + 1] = c /\ \A k \in 1 .. n : stack'[k] = stack[k]
    BY <1>1, <1>2, <2>1
  <2>3. \A k \in 1 .. n + 1 : k \in 1 .. n \/ (k = n + 1 /\ k - 1 = n)
    OBVIOUS
  <2>4. \A k \in 1 .. n : stack'[k].LTD < k - 1
    BY <1>1, <2>2 DEF LTDBelow
  <2>5. \A k \in 1 .. n + 1 : stack'[k].LTD < k - 1
    BY <2>1, <2>2, <2>3, <2>4
  <2> QED  BY <2>2, <2>5 DEF LTDBelow
<1> QED  BY <1>3, <1>4, <1>5, <1>6, NextFrames

(* ++i on the Enumerator that is answered from what is known. *)
LEMMA AdvancedCallee ==
    ASSUME Recursion, EnterCached
    PROVE  Callee' = [Callee EXCEPT !.i = @ + 1]
<1>1. Advance(stack) /\ stack' = stack /\ pc = "call"
  BY DEF EnterCached
<1>2. CASE stack = <<>>
  <2>1. cursor' = [cursor EXCEPT !.i = @ + 1] /\ cursor \in Enumerators
    BY <1>1, <1>2 DEF Advance, Recursion, TypeOK
  <2> QED  BY <1>1, <1>2, <2>1 DEF Callee
<1>3. CASE stack # <<>>
  <2>1. PICK n \in Nat : n >= 1 /\ Len(stack) = n /\ Ctx = stack[n]
    BY <1>3, TopFrame
  <2>2. Last(stack) = stack[n] /\ n \in 1 .. Len(stack)
    BY <1>1, <1>3, <2>1, LastFrame
  <2>3. /\ Work'[stack[n].AR][stack[n].Pos] = Next1(Running(n))
        /\ Next1(Running(n)).AR = Running(n).AR /\ Next1(Running(n)).i = Running(n).i + 1
    BY <1>1, <1>3, <2>2, AdvanceItems
  <2>4. Cur' = Next1(Running(n)) /\ Cur = Running(n)
    BY <1>1, <2>1, <2>3 DEF Cur, Running, This, Ctx
  <2>5. Callee = [AR |-> Cur.AR, i |-> Cur.i] /\ Callee' = [AR |-> Cur'.AR, i |-> Cur'.i]
    BY <1>1, <1>3 DEF Callee
  <2> QED  BY <2>3, <2>4, <2>5
<1> QED  BY <1>2, <1>3

(* What there is to see from b, whether or not b is what it was. *)
DepthsFrom(b) == [a \in ARs |-> IF a \in Part THEN Rebased(EnumerationDepth[a], b) ELSE -1]
ClientFrom(b) == IF b = 0 THEN cursor ELSE [AR |-> Running(b).AR, i |-> Running(b).i]

LEMMA SeenFrom ==
    \A b : TypeOK /\ IsBase(b) => /\ Base = b /\ PartStack = Above(stack, b)
                                  /\ PartDepth = DepthsFrom(b) /\ Client = ClientFrom(b)
                                  /\ b < Len(stack) => /\ PartCursor = ClientFrom(b)
                                                       /\ PartPc = pc /\ PartResult = result
<1> SUFFICES ASSUME NEW b, TypeOK, IsBase(b)
             PROVE  /\ Base = b /\ PartStack = Above(stack, b)
                    /\ PartDepth = DepthsFrom(b) /\ Client = ClientFrom(b)
                    /\ b < Len(stack) => PartCursor = ClientFrom(b) /\ PartPc = pc /\ PartResult = result
  OBVIOUS
<1>1. Base = b
  BY BaseOf
<1>2. Client = ClientFrom(b)
  BY <1>1 DEF Client, ClientFrom
<1>3. b < Len(stack) => Serving
  BY <1>1 DEF Serving
<1> QED  BY <1>1, <1>2, <1>3 DEF PartStack, PartDepth, DepthsFrom, PartCursor, PartPc, PartResult

LEMMA SeenFromAfter ==
    (\A b : TypeOK /\ IsBase(b) => /\ Base = b /\ PartStack = Above(stack, b)
                                   /\ PartDepth = DepthsFrom(b) /\ Client = ClientFrom(b)
                                   /\ b < Len(stack) => /\ PartCursor = ClientFrom(b)
                                                        /\ PartPc = pc /\ PartResult = result)'
BY SeenFrom, PTL

(* A frame is pushed for a settled AR. *)
LEMMA PushedAbove ==
    ASSUME Recursion, Recursion', EnterRun, Callee.AR \in Part, NEW n \in Nat, Len(stack) = n,
           NEW b \in 0 .. n, IsBase(b)
    PROVE  /\ IsBase(b)' /\ Base' = b /\ HasBase' /\ InPart' /\ Part' = Part
           /\ PartStack' = Append(Above(stack, b),
                  Lifted([AR |-> Callee.AR, LTD |-> CalleeLTD, Pos |-> 1, Retry |-> NoAR], b))
           /\ PartDepth' = [DepthsFrom(b) EXCEPT ![Callee.AR] = n - b]
           /\ PartCursor' = ClientFrom(b) /\ PartPc' = "run" /\ PartResult' = NoResult
<1> DEFINE c == [AR |-> Callee.AR, LTD |-> CalleeLTD, Pos |-> 1, Retry |-> NoAR]
<1>1. /\ pc = "call" /\ stack' = Append(stack, c) /\ pc' = "run" /\ result' = NoResult
      /\ EnumerationDepth' = [EnumerationDepth EXCEPT ![Callee.AR] = n]
      /\ UNCHANGED <<sys, Set, Work, Subsets, cursor>>
  BY DEF EnterRun, Goto
<1>2. Callee.AR \in ARs
  BY <1>1, CalleeType
<1>3. c \in Contexts /\ c.AR = Callee.AR
  <2>1. stack' \in Seq(Contexts) /\ Len(stack') = n + 1 /\ stack'[n + 1] = c
    <3>1. stack' \in Seq(Contexts) /\ stack \in Seq(Contexts)
      BY DEF Recursion, TypeOK
    <3> HIDE DEF c
    <3> QED  BY <1>1, <3>1
  <2>2. n + 1 \in 1 .. Len(stack')
    BY <2>1
  <2>3. stack'[n + 1] \in Contexts
    BY <2>1, <2>2, ElementOfSeq
  <2> QED  BY <2>1, <2>3
<1> HIDE DEF c
<1>4. stack \in Seq(Contexts) /\ EnumerationDepth \in [ARs -> Nat \cup {-1}]
  BY DEF Recursion, TypeOK
<1>5. Len(stack') = n + 1 /\ stack'[n + 1] = c /\ \A k \in 1 .. n : stack'[k] = stack[k]
  BY <1>1, <1>3, <1>4
<1>6. \A k \in 1 .. b : stack[k].AR \notin Part
  BY DEF IsBase
<1>7. \A k \in b + 1 .. n : stack[k].AR \in Part
  BY DEF IsBase
<1>8. IsBase(b)' /\ Base' = b /\ HasBase'
  <2>1. n + 1 \in Nat /\ b <= n + 1 /\ b \in Nat
    OBVIOUS
  <2>2. \A k \in 1 .. b : stack'[k].AR \notin Part
    <3>1. \A k \in 1 .. b : k \in 1 .. n
      OBVIOUS
    <3> QED  BY <1>5, <1>6, <3>1
  <2>3. \A k \in b + 1 .. n + 1 : stack'[k].AR \in Part
    <3>1. \A k \in b + 1 .. n + 1 : k = n + 1 \/ (k \in b + 1 .. n /\ k \in 1 .. n)
      OBVIOUS
    <3> QED  BY <1>3, <1>5, <1>7, <3>1
  <2> QED  BY <1>1, <1>5, <2>1, <2>2, <2>3, NextBase
<1>9. Part' = Part
  BY <1>1 DEF Part
<1>10. InPart'
  <2>1. stack' # <<>>
    BY <1>1, <1>3, <1>4
  <2> QED  BY <1>3, <1>5, <1>9, <2>1 DEF InPart, This, Ctx
<1>11. /\ PartStack' = Above(stack', b)
       /\ PartDepth' = DepthsFrom(b)' /\ PartCursor' = ClientFrom(b)' /\ PartPc' = pc' /\ PartResult' = result'
  <2>1. TypeOK' /\ b < Len(stack')
    BY <1>5 DEF Recursion
  <2> QED  BY <1>8, <2>1, SeenFromAfter
<1>12. PartStack' = Append(Above(stack, b), Lifted(c, b))
  BY <1>1, <1>3, <1>4, <1>11, AbovePushed
<1>13. PartDepth' = [DepthsFrom(b) EXCEPT ![Callee.AR] = n - b]
  <2>1. \A a \in ARs : EnumerationDepth'[a] = IF a = Callee.AR THEN n ELSE EnumerationDepth[a]
    BY <1>1, <1>4
  <2>2. Rebased(n, b) = n - b
    BY DEF Rebased
  <2> QED  BY <1>2, <1>9, <1>11, <2>1, <2>2 DEF DepthsFrom
<1>14. PartCursor' = ClientFrom(b)
  <2>1. CASE b = 0
    BY <1>1, <1>11, <2>1 DEF ClientFrom
  <2>2. CASE b # 0
    <3>1. b \in 1 .. n
      BY <2>2
    <3>2. Running(b)' = Running(b)
      BY <1>1, <1>5, <3>1 DEF Running
    <3> QED  BY <1>11, <2>2, <3>2 DEF ClientFrom
  <2> QED  BY <2>1, <2>2
<1> QED  BY <1>1, <1>8, <1>9, <1>10, <1>11, <1>12, <1>13, <1>14 DEF c

-----------------------------------------------------------------------------
(* The work of settled ARs is about settled ARs.                           *)

FitWorks ==
    {w \in Works : /\ w.AR \in Part
                   /\ IsTransform(w) => \A v \in Whole[w.AR] : sys.results[w.alg][v] \in Part \cup {NoAR}}

WorksInside == \A a \in Part : Work[a] \in Seq(FitWorks)

(* So is the work that one of them offers for inlining. *)
ResultInside == pc = "return" /\ result.type = "INLINE" /\ Callee.AR \in Part => result.AR \in Part

Inside == WorksInside /\ ResultInside /\ HasBase /\ LTDBelow

(* The work that a settled AR's activation runs. *)
LEMMA CurInside ==
    ASSUME Recursion, Inside, InPart, pc = "run" => ~AtEnd, pc # "rewrite"
    PROVE  /\ Cur \in FitWorks /\ Cur \in Works /\ Cur.AR \in Part /\ Cur.AR \in ARs
           /\ PartSet[Cur.AR] = Set[Cur.AR] /\ PartWork[Cur.AR] = Work[Cur.AR]
<1>1. stack # <<>> /\ This \in Part
  BY DEF InPart
<1>2. Work[This] \in Seq(FitWorks)
  BY <1>1 DEF Inside, WorksInside
<1>3. Cur \in FitWorks
  BY <1>1, <1>2, CurInList
<1>4. Part \subseteq ARs
  BY PartType
<1> QED  BY <1>3, <1>4 DEF FitWorks, PartSet, PartWork

-----------------------------------------------------------------------------
(* Steps of activations of settled ARs.                                    *)

LEMMA SameLists ==
    ASSUME Part' = Part
    PROVE  /\ Set' = Set => PartSet' = PartSet
           /\ Work' = Work => PartWork' = PartWork
           /\ Subsets' = Subsets => PartSubsets' = PartSubsets
BY DEF PartSet, PartWork, PartSubsets

(* ++i on the Enumerator of a settled AR's work. *)
LEMMA PartAdvanced ==
    ASSUME Recursion, Part' = Part, NEW a \in Part, NEW p,
           Work' = [Work EXCEPT ![a][p].i = @ + 1]
    PROVE  PartWork' = [PartWork EXCEPT ![a][p].i = @ + 1]
<1>1. a \in ARs
  BY PartType
<1>2. \A c \in ARs : Work'[c] = IF c = a THEN [Work[a] EXCEPT ![p].i = @ + 1] ELSE Work[c]
  BY <1>1 DEF Recursion, TypeOK
<1> QED  BY <1>1, <1>2 DEF PartWork

-----------------------------------------------------------------------------
(* Work stays about settled ARs.                                           *)

LEMMA FitWorksStay ==
    ASSUME sys' = sys
    PROVE  FitWorks' = FitWorks /\ Part' = Part
<1>1. Part' = Part /\ Whole' = Whole
  BY DEF Part, Whole
<1> QED  BY <1>1 DEF FitWorks

LEMMA NextFit ==
    ASSUME Recursion, NEW w \in FitWorks
    PROVE  Next1(w) \in FitWorks
<1>1. /\ Next1(w) \in Works /\ Next1(w).AR = w.AR /\ Next1(w).alg = w.alg
      /\ (IsTransform(Next1(w)) <=> IsTransform(w))
  BY DEF FitWorks, Works, SubsetWorks, TransformWorks, Next1, IsTransform
<1> QED  BY <1>1 DEF FitWorks

(* One list changes, of an activation of a settled AR. *)
LEMMA SetWorkInside ==
    ASSUME Recursion, WorksInside, InPart, sys' = sys, NEW w \in Seq(FitWorks), SetWork(w)
    PROVE  WorksInside'
<1>1. This \in ARs
  BY TopFrame DEF InPart
<1>2. Part \subseteq ARs
  BY PartType
<1> QED  BY <1>1, <1>2, SetWorkItems, FitWorksStay DEF WorksInside

LEMMA AdvanceInside ==
    ASSUME Recursion, WorksInside, sys' = sys, NEW a \in ARs, NEW p \in DOMAIN Work[a],
           Work' = [Work EXCEPT ![a][p].i = @ + 1]
    PROVE  WorksInside'
<1>1. Part \subseteq ARs /\ FitWorks' = FitWorks /\ Part' = Part
  BY PartType, FitWorksStay
<1>2. \A c \in ARs : Work'[c] = IF c = a THEN [Work[a] EXCEPT ![p].i = @ + 1] ELSE Work[c]
  BY DEF Recursion, TypeOK
<1>3. CASE a \notin Part
  BY <1>1, <1>2, <1>3 DEF WorksInside
<1>4. CASE a \in Part
  <2>1. Work[a] \in Seq(FitWorks)
    BY <1>4 DEF WorksInside
  <2>2. Work[a][p] \in FitWorks
    BY <2>1
  <2>3. Next1(Work[a][p]) \in FitWorks
    BY <2>2, NextFit
  <2>4. [Work[a] EXCEPT ![p].i = @ + 1] = [Work[a] EXCEPT ![p] = Next1(Work[a][p])]
    BY <2>1 DEF Next1
  <2>5. [Work[a] EXCEPT ![p] = Next1(Work[a][p])] \in Seq(FitWorks)
    BY <2>1, <2>3
  <2>6. Work'[a] \in Seq(FitWorks)
    BY <1>2, <2>4, <2>5
  <2> QED  BY <1>1, <1>2, <2>6 DEF WorksInside
<1> QED  BY <1>3, <1>4

(* What is offered for inlining by a settled AR is settled. *)
LEMMA NextResultInside ==
    ASSUME Recursion, Routing, Inside, Next
    PROVE  ResultInside'
<1> SUFFICES ASSUME pc' = "return", result'.type = "INLINE", Callee'.AR \in Part'
             PROVE  result'.AR \in Part'
  BY DEF ResultInside
<1>1. Part' = Part
  BY NextKeepsSystem DEF Part
<1>2. CASE RunInline
  <2>1. /\ stack # <<>> /\ SuspendedKept /\ cursor'.AR = cursor.AR
        /\ stack' = Front(stack) /\ pc = "run" /\ ~AtEnd /\ result' = Inline(Cur)
    BY <1>2, LeaveKept DEF RunInline, Leave, Return
  <2>2. Callee'.AR = This
    BY <2>1, AfterLeave DEF Routing
  <2>3. InPart
    BY <1>1, <2>1, <2>2 DEF InPart
  <2>4. Cur.AR \in Part
    BY <2>1, <2>3, CurInside
  <2> QED  BY <1>1, <2>1, <2>4 DEF Inline
<1>3. CASE Enter
  BY <1>3 DEF Enter, EnterRewrite, EnterCached, EnterRetry, EnterRun, Return, Goto, Rewrite, NextValue, Retry
<1>4. CASE RunRecurse \/ EndComplete \/ EndCancelRetry \/ EndRetry
  BY <1>4 DEF RunRecurse, EndComplete, EndCancelRetry, EndRetry, Leave, Return, Goto, Complete, Retry
<1>5. CASE AddNewValue \/ RewriteSplice
  <2>1. result' = result /\ result.type # "INLINE"
    BY <1>5 DEF AddNewValue, RewriteSplice, Leave, Return, Returned, Recursion, ControlOK
  <2> QED  BY <2>1
<1>6. CASE \/ SkipKnownValue \/ TransformToNothing \/ TransformToSubset \/ InlineSubset \/ DropInlined
           \/ SkipRetried \/ EraseCompleted \/ RewriteHere \/ RewriteBegin \/ RewriteKeep \/ RewriteDrop
  BY <1>6 DEF SkipKnownValue, TransformToNothing, TransformToSubset, InlineSubset, DropInlined, SkipRetried,
              EraseCompleted, RewriteHere, RewriteBegin, RewriteKeep, RewriteDrop, Goto
<1>7. CASE Answer \/ \E a \in ARs : \E i \in 0 .. Len(Set[a]) : Query(a, i)
  BY <1>7 DEF Answer, Query, Goto
<1> QED  BY <1>2, <1>3, <1>4, <1>5, <1>6, <1>7 DEF Next, Step, Run, Handle

(* Nothing in the list of a settled AR changes. *)
LEMMA LowerWorksInside ==
    ASSUME WorksInside, PartKept, sys' = sys
    PROVE  WorksInside'
BY FitWorksStay DEF WorksInside, PartKept

-----------------------------------------------------------------------------
(* The invariant: the engine's own, and what the settled ARs see of it is  *)
(* an engine on a system without a cycle of subsets.                       *)

LEMMA InitInside ==
    ASSUME Init
    PROVE  Inside /\ OutPart
<1>1. /\ Recursion /\ sys \in EquationSystems /\ Work = sys.work /\ stack = <<>> /\ Len(stack) = 0
      /\ pc = "idle"
  BY InitRecursion, EmptySeq DEF Init, StartsFrom, Recursion, TypeOK
<1>2. Part \subseteq ARs /\ Closed(sys, Part)
  BY <1>1, PartType
<1>3. WorksInside
  <2> SUFFICES ASSUME NEW a \in Part
               PROVE  Work[a] \in Seq(FitWorks)
    BY DEF WorksInside
  <2>1. Work[a] \in Seq(Works) /\ Work[a] = sys.work[a]
    BY <1>1, <1>2 DEF Recursion, TypeOK
  <2>2. ASSUME NEW k \in DOMAIN Work[a]
        PROVE  Work[a][k] \in FitWorks
    <3>1. Work[a][k] \in Works
      BY <2>1, LenProperties, ElementOfSeq
    <3>2. /\ Work[a][k].AR \in Part
          /\ IsTransform(Work[a][k]) =>
                \A v \in Whole[Work[a][k].AR] : sys.results[Work[a][k].alg][v] \in Part \cup {NoAR}
      BY <1>2, <2>1 DEF Closed, Whole
    <3> QED  BY <3>1, <3>2 DEF FitWorks
  <2> QED  BY <2>1, <2>2, SeqOverSubset
<1>4. ResultInside /\ LTDBelow
  BY <1>1 DEF ResultInside, LTDBelow
<1>5. HasBase
  <2>1. IsBase(0)
    BY <1>1 DEF IsBase
  <2> QED  BY <2>1 DEF HasBase
<1> QED  BY <1>1, <1>3, <1>4, <1>5 DEF Inside, OutPart, InPart

-----------------------------------------------------------------------------
(* The least solution by iteration.                                        *)

(* A set satisfies a work iff it holds what the work adds. *)
LEMMA ContributionSatisfies ==
    ASSUME NEW s \in EquationSystems, NEW S \in Families, NEW a \in ARs, NEW w \in Works
    PROVE  /\ Satisfies(s.results, S, a, w) <=> Contribution(s.results, S, w) \subseteq S[a]
           /\ Contribution(s.results, S, w) \subseteq VIs
<1>1. w.AR \in ARs /\ S[w.AR] \subseteq VIs
  BY DEF Works, SubsetWorks, TransformWorks, Families
<1>2. CASE IsSubset(w)
  BY <1>1, <1>2 DEF Satisfies, Contribution
<1>3. CASE ~IsSubset(w)
  <2>1. w.alg \in Algs
    BY <1>3 DEF Works, SubsetWorks, TransformWorks, IsSubset
  <2>2. \A v \in S[w.AR] : s.results[w.alg][v] \in ARs \cup {NoAR}
    BY <1>1, <2>1 DEF EquationSystems
  <2> DEFINE Outs == {s.results[w.alg][v] : v \in S[w.AR]} \ {NoAR}
  <2>3. Contribution(s.results, S, w) = UNION {S[r] : r \in Outs}
    BY <1>3 DEF Contribution
  <2>4. Outs \subseteq ARs /\ \A r \in Outs : S[r] \subseteq VIs
    BY <2>2 DEF Families
  <2>5. Satisfies(s.results, S, a, w) <=> \A r \in Outs : S[r] \subseteq S[a]
    BY <1>3 DEF Satisfies
  <2> HIDE DEF Outs
  <2> QED  BY <2>3, <2>4, <2>5
<1> QED  BY <1>2, <1>3

(* What works add grows with the sets. *)
LEMMA ContributionGrows ==
    ASSUME NEW s \in EquationSystems, NEW S \in Families, NEW T \in Families, NEW w \in Works,
           \A a \in ARs : S[a] \subseteq T[a]
    PROVE  Contribution(s.results, S, w) \subseteq Contribution(s.results, T, w)
<1>1. w.AR \in ARs /\ S[w.AR] \subseteq VIs
  BY DEF Works, SubsetWorks, TransformWorks, Families
<1>2. CASE IsSubset(w)
  BY <1>1, <1>2 DEF Contribution
<1>3. CASE ~IsSubset(w)
  <2>1. w.alg \in Algs
    BY <1>3 DEF Works, SubsetWorks, TransformWorks, IsSubset
  <2>2. \A v \in S[w.AR] : s.results[w.alg][v] \in ARs \cup {NoAR}
    BY <1>1, <2>1 DEF EquationSystems
  <2> DEFINE Outs(R) == {s.results[w.alg][v] : v \in R[w.AR]} \ {NoAR}
  <2>3. /\ Contribution(s.results, S, w) = UNION {S[r] : r \in Outs(S)}
        /\ Contribution(s.results, T, w) = UNION {T[r] : r \in Outs(T)}
    BY <1>3 DEF Contribution
  <2>4. Outs(S) \subseteq ARs /\ Outs(S) \subseteq Outs(T)
    BY <1>1, <2>2
  <2> HIDE DEF Outs
  <2> QED  BY <2>3, <2>4
<1> QED  BY <1>2, <1>3

(* One round of the iteration. *)
Round(s) ==
    [S \in [ARs -> SUBSET VIs] |->
        [a \in ARs |->
            IF s.work[a] # <<>>
            THEN S[a] \cup UNION {Contribution(s.results, S, w) : w \in ToSet(s.work[a])}
            ELSE S[a]]]

LEMMA RoundAdds ==
    ASSUME NEW s \in EquationSystems, NEW S \in Families
    PROVE  /\ Round(s)[S] \in Families
           /\ \A a \in ARs : Round(s)[S][a] =
                 S[a] \cup UNION {Contribution(s.results, S, w) : w \in ToSet(s.work[a])}
<1>1. ASSUME NEW a \in ARs
      PROVE  ToSet(s.work[a]) \subseteq Works /\ (s.work[a] = <<>> => ToSet(s.work[a]) = {})
  <2>1. s.work[a] \in Seq(Works)
    BY DEF EquationSystems
  <2> QED  BY <2>1, ItemsOf, EmptySeq
<1> DEFINE Added(a) == UNION {Contribution(s.results, S, w) : w \in ToSet(s.work[a])}
<1>2. ASSUME NEW a \in ARs
      PROVE  Added(a) \subseteq VIs /\ (s.work[a] = <<>> => Added(a) = {})
  BY <1>1, ContributionSatisfies
<1>3. Round(s)[S] = [a \in ARs |-> IF s.work[a] # <<>> THEN S[a] \cup Added(a) ELSE S[a]]
  BY DEF Round, Families
<1> HIDE DEF Added
<1>4. \A a \in ARs : Round(s)[S][a] = S[a] \cup Added(a) /\ S[a] \subseteq VIs
  BY <1>2, <1>3 DEF Families
<1>5. Round(s)[S] \in Families
  BY <1>2, <1>3, <1>4 DEF Families
<1> QED  BY <1>4, <1>5 DEF Added

LEMMA RoundIsStep ==
    ASSUME NEW s \in EquationSystems
    PROVE  IsStep(Round(s), ARs, VIs)
<1>1. Round(s) \in [Families -> Families]
  <2>1. \A S \in Families : Round(s)[S] \in Families
    BY RoundAdds
  <2>2. DOMAIN Round(s) = Families /\ Round(s) = [S \in Families |-> Round(s)[S]]
    BY DEF Round, Families
  <2> QED  BY <2>1, <2>2
<1>2. \A S \in Families : Below(S, Round(s)[S])
  <2> SUFFICES ASSUME NEW S \in Families
               PROVE  Below(S, Round(s)[S])
    OBVIOUS
  <2>1. \A a \in ARs : S[a] \subseteq Round(s)[S][a]
    BY RoundAdds
  <2> QED  BY <2>1 DEF Below, Families
<1>3. \A S, T \in Families : Below(S, T) => Below(Round(s)[S], Round(s)[T])
  <2> SUFFICES ASSUME NEW S \in Families, NEW T \in Families, Below(S, T)
               PROVE  Below(Round(s)[S], Round(s)[T])
    OBVIOUS
  <2>1. \A a \in ARs : S[a] \subseteq T[a]
    BY DEF Below, Families
  <2>2. ASSUME NEW a \in ARs, NEW w \in ToSet(s.work[a])
        PROVE  Contribution(s.results, S, w) \subseteq Contribution(s.results, T, w)
    <3>1. s.work[a] \in Seq(Works)
      BY DEF EquationSystems
    <3>2. w \in Works
      BY <3>1, ItemsOf
    <3> QED  BY <2>1, <3>2, ContributionGrows
  <2>3. /\ Round(s)[S] \in Families
        /\ \A a \in ARs : Round(s)[S][a] =
              S[a] \cup UNION {Contribution(s.results, S, w) : w \in ToSet(s.work[a])}
    BY RoundAdds
  <2>4. \A a \in ARs : Round(s)[T][a] =
              T[a] \cup UNION {Contribution(s.results, T, w) : w \in ToSet(s.work[a])}
    BY RoundAdds
  <2>5. ASSUME NEW a \in ARs
        PROVE  Round(s)[S][a] \subseteq Round(s)[T][a]
    BY <2>1, <2>2, <2>3, <2>4
  <2> QED  BY <2>3, <2>5 DEF Below, Families
<1> QED  BY <1>1, <1>2, <1>3 DEF IsStep, Families

(* Solutions are what the iteration leaves as it is. *)
LEMMA SolutionsAreClosed ==
    ASSUME NEW s \in EquationSystems, NEW S \in Families
    PROVE  IsSolution(s, S) <=> /\ \A a \in ARs : ToSet(s.set[a]) \subseteq S[a]
                                /\ \A a \in ARs : Round(s)[S][a] \subseteq S[a]
<1>1. ASSUME NEW a \in ARs
      PROVE  (\A k \in DOMAIN s.work[a] : Satisfies(s.results, S, a, s.work[a][k]))
             <=> Round(s)[S][a] \subseteq S[a]
  <2>1. s.work[a] \in Seq(Works)
    BY DEF EquationSystems
  <2>2. /\ ToSet(s.work[a]) \subseteq Works
        /\ \A k \in DOMAIN s.work[a] : s.work[a][k] \in ToSet(s.work[a])
        /\ \A w \in ToSet(s.work[a]) : \E k \in DOMAIN s.work[a] : s.work[a][k] = w
    BY <2>1, ItemsOf
  <2>3. (\A k \in DOMAIN s.work[a] : Satisfies(s.results, S, a, s.work[a][k]))
        <=> \A w \in ToSet(s.work[a]) : Satisfies(s.results, S, a, w)
    BY <2>2
  <2>4. \A w \in ToSet(s.work[a]) :
            Satisfies(s.results, S, a, w) <=> Contribution(s.results, S, w) \subseteq S[a]
    BY <2>2, ContributionSatisfies
  <2>5. Round(s)[S][a] = S[a] \cup UNION {Contribution(s.results, S, w) : w \in ToSet(s.work[a])}
    BY RoundAdds
  <2> QED  BY <2>3, <2>4, <2>5
<1> QED  BY <1>1 DEF IsSolution

(* Iteration finds the least solution, which is defined as what all        *)
(* solutions have in common.                                               *)
THEOREM IterationFindsLeast ==
    ASSUME IsFiniteSet(ARs), IsFiniteSet(VIs), NEW s \in EquationSystems
    PROVE  IteratedSolution(s) = LeastSolution(s)
<1> DEFINE F == Round(s)
           b == [a \in ARs |-> ToSet(s.set[a])]
           I == LeastFixedPoint(F, b)
           L == LeastSolution(s)
<1>1. DOMAIN s.set = ARs /\ \A a \in ARs : s.set[a] \in Seq(VIs)
  BY DEF EquationSystems
<1>2. b \in Families
  <2>1. \A a \in ARs : ToSet(s.set[a]) \subseteq VIs
    BY <1>1, ItemsOf
  <2> QED  BY <2>1 DEF Families
<1>3. IteratedSolution(s) = [a \in ARs |-> I[a]]
  <2>1. F = [S \in [ARs -> SUBSET VIs] |->
                [a \in ARs |->
                    IF a \in {c \in ARs : s.work[c] # <<>>}
                    THEN S[a] \cup UNION {Contribution(s.results, S, w) : w \in ToSet(s.work[a])}
                    ELSE S[a]]]
    BY DEF Round
  <2> HIDE DEF F
  <2> QED  BY <1>1, <2>1 DEF IteratedSolution
<1>4. IsStep(F, ARs, VIs)
  BY RoundIsStep
<1> HIDE DEF F, b
<1>5. /\ I \in Families /\ F[I] = I /\ Below(b, I)
      /\ \A T \in Families : Below(F[T], T) /\ Below(b, T) => Below(I, T)
  BY <1>2, <1>4, LeastFixedPointIsLeast DEF Families
<1> HIDE DEF I
<1>6. IteratedSolution(s) = I
  BY <1>3, <1>5 DEF Families
<1>7. L \in Families /\ IsSolution(s, L) /\ \A S \in Solutions(s) : \A a \in ARs : L[a] \subseteq S[a]
  BY LeastSolutionIsSolution DEF Solutions, Families
<1> HIDE DEF L
<1>8. IsSolution(s, I)
  <2>1. \A a \in ARs : ToSet(s.set[a]) \subseteq I[a]
    BY <1>2, <1>5 DEF b, Below
  <2>2. \A a \in ARs : Round(s)[I][a] \subseteq I[a]
    BY <1>5 DEF F
  <2> QED  BY <1>5, <2>1, <2>2, SolutionsAreClosed
<1>9. \A a \in ARs : L[a] \subseteq I[a]
  BY <1>5, <1>7, <1>8 DEF Solutions, Families
<1>10. Below(I, L)
  <2>1. Below(b, L)
    BY <1>7, SolutionsAreClosed DEF Below, b
  <2>2. Below(F[L], L)
    <3>1. Round(s)[L] \in Families /\ \A a \in ARs : Round(s)[L][a] \subseteq L[a]
      BY <1>7, SolutionsAreClosed, RoundAdds
    <3> QED  BY <3>1 DEF Below, F, Families
  <2> QED  BY <1>5, <1>7, <2>1, <2>2
<1>11. I = L
  <2>1. I \in [ARs -> SUBSET VIs] /\ L \in [ARs -> SUBSET VIs]
    BY <1>5, <1>7 DEF Families
  <2>2. Below(L, I)
    BY <1>9, <2>1 DEF Below
  <2> QED  BY ONLY <1>10, <2>1, <2>2, BelowAntisymmetric
<1> QED  BY <1>6, <1>11 DEF L

-----------------------------------------------------------------------------
(* Refinement: what clients see of enumeration.                            *)

(* Between queries no client's enumerator is advanced, one that waits has  *)
(* seen all there is, and the end of a set comes without a value.          *)
ClientAtEnd == stack # <<>> => cursor.i = Len(Set[cursor.AR])

ClientOK ==
    /\ pc = "idle" => cursor = Nobody
    /\ result.type = "COMPLETE" => result.VI = NoVI
    /\ ClientAtEnd

LEMMA NextClientAtEnd ==
    ASSUME Recursion, Routing, InRange, ClientAtEnd, [Next]_vars
    PROVE  ClientAtEnd'
<1> SUFFICES ASSUME stack' # <<>>
             PROVE  cursor'.i = Len(Set'[cursor'.AR])
  BY DEF ClientAtEnd
<1>1. CASE UNCHANGED <<Set, cursor>> /\ stack # <<>>
  BY <1>1 DEF ClientAtEnd
<1>2. CASE EnterRun
  <2>1. UNCHANGED <<Set, cursor>>
    BY <1>2 DEF EnterRun
  <2>2. stack = <<>> => cursor.i = Len(Set[cursor.AR])
    BY <1>2, CalleeExhausted DEF EnterRun
  <2> QED  BY <2>1, <2>2 DEF ClientAtEnd
<1>3. CASE EnterRewrite \/ EnterCached \/ EnterRetry
  <2>1. stack' = stack /\ Set' = Set /\ (stack # <<>> => cursor' = cursor)
    BY <1>3 DEF EnterRewrite, EnterCached, EnterRetry, Return, Advance
  <2> QED  BY <2>1 DEF ClientAtEnd
<1>4. CASE AddNewValue
  <2>1. stack # <<>> /\ SuspendedKept /\ cursor'.AR = cursor.AR /\ stack' = Front(stack)
    BY <1>4, LeaveKept DEF AddNewValue, Leave
  <2>2. PICK n \in Nat : n >= 1 /\ Len(stack) = n /\ (stack' = <<>> <=> n = 1)
    BY <2>1, AfterLeave DEF Routing
  <2>3. cursor' = cursor
    BY <1>4, <2>1 DEF AddNewValue, Advance
  <2>4. cursor.AR \in ARs /\ cursor.AR # This
    <3>1. 1 \in 1 .. n - 1
      BY <2>2
    <3>2. stack[1].AR \in ARs /\ stack[1].AR # This
      BY <2>1, <2>2, <3>1, TopFrame
    <3> QED  BY <2>1, <3>2 DEF Routing, RootIsCursor
  <2>5. Set'[cursor.AR] = Set[cursor.AR]
    <3>1. Set \in [ARs -> Seq(VIs)] /\ Set' = [Set EXCEPT ![This] = Append(@, result.VI)]
      BY <1>4 DEF AddNewValue, Recursion, TypeOK
    <3> QED  BY <2>4, <3>1
  <2> QED  BY <2>1, <2>3, <2>5 DEF ClientAtEnd
<1>5. CASE RunInline \/ RunRecurse \/ EndComplete \/ EndCancelRetry \/ EndRetry
  <2>1. UNCHANGED <<Set, cursor>> /\ stack # <<>>
    BY <1>5 DEF RunInline, RunRecurse, EndComplete, EndCancelRetry, EndRetry, Recursion, ControlOK
  <2> QED  BY <1>1, <2>1
<1>6. CASE \/ SkipKnownValue \/ TransformToNothing \/ TransformToSubset \/ InlineSubset \/ DropInlined
           \/ SkipRetried \/ EraseCompleted \/ RewriteHere \/ RewriteBegin
  <2>1. UNCHANGED <<Set, cursor>> /\ stack # <<>>
    BY <1>6 DEF SkipKnownValue, TransformToNothing, TransformToSubset, InlineSubset, DropInlined,
                SkipRetried, EraseCompleted, RewriteHere, RewriteBegin, Returned
  <2> QED  BY <1>1, <2>1
<1>7. CASE RewriteKeep \/ RewriteDrop \/ RewriteSplice
  <2>1. UNCHANGED <<Set, cursor>> /\ stack # <<>>
    BY <1>7 DEF RewriteKeep, RewriteDrop, RewriteSplice, Recursion, ControlOK
  <2> QED  BY <1>1, <2>1
<1>8. CASE Answer \/ \E a \in ARs : \E i \in 0 .. Len(Set[a]) : Query(a, i)
  <2>1. stack' = stack /\ stack = <<>>
    BY <1>8 DEF Answer, Query, Recursion, ControlOK
  <2> QED  BY <2>1
<1>9. CASE UNCHANGED vars
  BY <1>9 DEF vars, ClientAtEnd
<1> QED  BY <1>2, <1>3, <1>4, <1>5, <1>6, <1>7, <1>8, <1>9 DEF Next, Step, Enter, Run, Handle

LEMMA NextClient ==
    ASSUME Recursion, Routing, InRange, ClientOK, [Next]_vars
    PROVE  ClientOK'
<1> ClientAtEnd'
  BY NextClientAtEnd DEF ClientOK
<1>1. CASE Enter
  <2>1. pc' # "idle"
    BY <1>1 DEF Enter, EnterRewrite, EnterCached, EnterRetry, EnterRun, Return, Goto
  <2>2. result'.type # "COMPLETE"
    BY <1>1 DEF Enter, EnterRewrite, EnterCached, EnterRetry, EnterRun, Return, Goto,
                Rewrite, NextValue, Retry, NoResult
  <2> QED  BY <2>1, <2>2 DEF ClientOK
<1>2. CASE Run
  <2>1. pc' # "idle"
    BY <1>2 DEF Run, RunInline, RunRecurse, EndComplete, EndCancelRetry, EndRetry, Leave, Return, Goto
  <2>2. result'.type = "COMPLETE" => result'.VI = NoVI
    BY <1>2 DEF Run, RunInline, RunRecurse, EndComplete, EndCancelRetry, EndRetry, Leave, Return, Goto,
                Inline, Complete, Retry, NoResult
  <2> QED  BY <2>1, <2>2 DEF ClientOK
<1>3. CASE Handle
  <2>1. pc' # "idle"
    BY <1>3 DEF Handle, AddNewValue, SkipKnownValue, TransformToNothing, TransformToSubset,
                InlineSubset, DropInlined, SkipRetried, EraseCompleted,
                RewriteHere, RewriteBegin, RewriteKeep, RewriteDrop, RewriteSplice, Leave, Return, Goto
  <2>2. result' = result \/ result' = NoResult
    <3>1. AddNewValue \/ RewriteSplice => result' = result
      BY DEF AddNewValue, RewriteSplice, Leave, Return
    <3>2. RewriteBegin \/ RewriteKeep \/ RewriteDrop => result' = result
      BY DEF RewriteBegin, RewriteKeep, RewriteDrop
    <3>3. SkipKnownValue \/ TransformToNothing \/ TransformToSubset \/ InlineSubset \/ DropInlined
          \/ SkipRetried \/ EraseCompleted \/ RewriteHere => result' = NoResult
      BY DEF SkipKnownValue, TransformToNothing, TransformToSubset, InlineSubset, DropInlined,
             SkipRetried, EraseCompleted, RewriteHere, Goto
    <3> QED  BY <1>3, <3>1, <3>2, <3>3 DEF Handle
  <2>3. NoResult.type # "COMPLETE"
    BY DEF NoResult
  <2> QED  BY <2>1, <2>2, <2>3 DEF ClientOK
<1>4. CASE Answer
  BY <1>4 DEF Answer, Goto, NoResult, ClientOK
<1>5. CASE \E a \in ARs : \E i \in 0 .. Len(Set[a]) : Query(a, i)
  BY <1>5 DEF Query, Goto, NoResult, ClientOK
<1>6. CASE UNCHANGED vars
  BY <1>6 DEF vars, ClientOK
<1> QED  BY <1>1, <1>2, <1>3, <1>4, <1>5, <1>6 DEF Next, Step

(* The variables of LazySets. *)
Found    == IteratedSolution(sys)
Reliable == SettledUnder(sys, IteratedSolution(sys))
Ended    == {a \in ARs : isDone(a)}
Told     == IF Answered THEN result.VI ELSE NoAnswer

(* Settled ARs without work have all their values. *)
SettledDone == \A a \in Settled(sys) : Work[a] = <<>> => ToSet(Set[a]) = Whole[a]

(* What a step of enumeration may assume of its states. *)
KnownOfAll == Recursion /\ Routing /\ EverySound /\ InRange
Refining == KnownOfAll /\ ClientOK /\ SettledDone

LEMMA FoundWhole ==
    ASSUME Recursion
    PROVE  Found = Whole /\ Reliable = Settled(sys)
BY IterationFindsLeast, FiniteAssumption DEF Found, Whole, Reliable, Settled, Recursion, TypeOK

LEMMA SeeksHere ==
    ASSUME Refining
    PROVE  /\ cursor = Nobody <=> pc = "idle"
           /\ Told = NoAnswer <=> ~Answered
           /\ Answered => result.VI \in VIs \cup {NoVI}
           /\ Answered => result.type \in {"NEXT_VALUE", "COMPLETE"}
<1>1. pc # "idle" => cursor # Nobody
  BY NullsAssumption DEF Refining, KnownOfAll, Recursion, ControlOK, Nobody
<1>2. result.VI \in VIs \cup {NoVI}
  BY DEF Refining, KnownOfAll, Recursion, TypeOK, EnumerationResults
<1>3. WellRouted
  BY RoutedWell DEF Refining, KnownOfAll
<1> QED  BY <1>1, <1>2, <1>3, AnswerAssumption DEF Told, Answered, WellRouted, Refining, ClientOK

LEMMA AnsweredAfter == (Recursion /\ Routing => WellRouted)'
BY RoutedWell, PTL

LEMMA AnswerAfter ==
    ASSUME KnownOfAll'
    PROVE  Answered' => result'.type \in {"NEXT_VALUE", "COMPLETE"}
<1>1. WellRouted'
  BY AnsweredAfter DEF KnownOfAll
<1> QED  BY <1>1 DEF WellRouted, Answered

LEMMA WholeIsSoundAfter == (Recursion /\ EverySound => Sound(Whole))'
<1>1. Recursion /\ EverySound => Sound(Whole)
  BY KnownWhole
<1> QED  BY <1>1, PTL

-----------------------------------------------------------------------------
(* The steps of LazySets. *)

LEMMA AskStep ==
    ASSUME NEW a \in ARs, NEW i \in 0 .. Len(Set[a]), cursor = Nobody,
           cursor' = [AR |-> a, i |-> i], UNCHANGED <<Found, Reliable, Set, Ended, Told>>
    PROVE  Lazy!LazyNext
<1>1. Lazy!Ask(Lazy!Enumerator(a, i))
  <2>1. i <= Len(Set[a])
    OBVIOUS
  <2> QED  BY <2>1 DEF Lazy!Ask, Lazy!Idle, Lazy!Nobody, Lazy!Enumerator, Nobody, Lazy!sets, Found, Reliable, Ended, Told
<1> QED  BY <1>1 DEF Lazy!LazyNext

LEMMA TakeStep ==
    ASSUME Told # NoAnswer, Told' = NoAnswer, cursor' = Nobody, UNCHANGED <<Found, Reliable, Set, Ended>>
    PROVE  Lazy!LazyNext
<1>1. Lazy!Take
  BY DEF Lazy!Take, Lazy!Nobody, Lazy!Enumerator, Nobody, Lazy!sets, Found, Reliable, Ended, Told
<1> QED  BY <1>1 DEF Lazy!LazyNext

LEMMA NewValueStep ==
    ASSUME NEW a \in ARs, NEW v \in VIs, a \notin Ended, ~Contains(Set[a], v), v \in Found[a],
           Set' = [Set EXCEPT ![a] = Append(@, v)]
    PROVE  Lazy!New(a, v)
BY DEF Lazy!New, Lazy!Contains, Contains, Ended, Found

LEMMA SeeksStep ==
    ASSUME cursor # Nobody, Told = NoAnswer
    PROVE  Lazy!Seeks
BY DEF Lazy!Seeks, Lazy!Idle, Lazy!Nobody, Lazy!Enumerator, Nobody, Told

LEMMA FindStep ==
    ASSUME NEW a \in ARs, NEW v \in VIs, cursor # Nobody, Told = NoAnswer,
           Lazy!New(a, v), UNCHANGED <<Found, Reliable, Ended, cursor, Told>>
    PROVE  Lazy!LazyNext
<1>1. Lazy!Find(a, v)
  BY SeeksStep DEF Lazy!Find, Lazy!sets, Found, Reliable, Ended, Told
<1> QED  BY <1>1 DEF Lazy!LazyNext, Lazy!Serve

LEMMA FinishStep ==
    ASSUME NEW a \in ARs, cursor # Nobody, Told = NoAnswer,
           a \notin Ended, ToSet(Set[a]) = Found[a] \/ a \notin Reliable, Ended' = Ended \cup {a},
           UNCHANGED <<Found, Reliable, Set, cursor, Told>>
    PROVE  Lazy!LazyNext
<1>1. ToSet(Set[a]) = Found[a] <=> Lazy!IsWhole(a)
  BY DEF Lazy!IsWhole, Lazy!ToSet, ToSet, Found
<1>2. Lazy!Finish(a)
  BY <1>1, SeeksStep DEF Lazy!Finish, Lazy!MayEnd, Lazy!sets, Found, Reliable, Ended, Told
<1> QED  BY <1>2 DEF Lazy!LazyNext, Lazy!Serve

LEMMA GiveKnownStep ==
    ASSUME cursor # Nobody, Told = NoAnswer, cursor.i < Len(Set[cursor.AR]),
           Told' = Set[cursor.AR][cursor.i + 1], cursor' = [cursor EXCEPT !.i = @ + 1],
           UNCHANGED <<Found, Reliable, Set, Ended>>
    PROVE  Lazy!LazyNext
<1>1. Lazy!GiveKnown
  BY SeeksStep DEF Lazy!GiveKnown, Lazy!Advanced, Lazy!sets, Found, Reliable, Ended, Told
<1> QED  BY <1>1 DEF Lazy!LazyNext, Lazy!Serve

LEMMA GiveNewStep ==
    ASSUME NEW v \in VIs, cursor # Nobody, Told = NoAnswer, cursor.i = Len(Set[cursor.AR]),
           Lazy!New(cursor.AR, v), Told' = v, cursor' = [cursor EXCEPT !.i = @ + 1],
           UNCHANGED <<Found, Reliable, Ended>>
    PROVE  Lazy!LazyNext
<1>1. Lazy!GiveNew(v)
  BY SeeksStep DEF Lazy!GiveNew, Lazy!Advanced, Lazy!sets, Found, Reliable, Ended, Told
<1> QED  BY <1>1 DEF Lazy!LazyNext, Lazy!Serve

LEMMA GiveEndStep ==
    ASSUME cursor # Nobody, Told = NoAnswer, cursor.i = Len(Set[cursor.AR]),
           ToSet(Set[cursor.AR]) = Found[cursor.AR] \/ cursor.AR \notin Reliable, Told' = NoVI,
           Ended' = Ended \cup {cursor.AR}, UNCHANGED <<Found, Reliable, Set, cursor>>
    PROVE  Lazy!LazyNext
<1>1. ToSet(Set[cursor.AR]) = Found[cursor.AR] <=> Lazy!IsWhole(cursor.AR)
  BY DEF Lazy!IsWhole, Lazy!ToSet, ToSet, Found
<1>2. Lazy!GiveEnd
  BY <1>1, SeeksStep DEF Lazy!GiveEnd, Lazy!MayEnd, Lazy!sets, Found, Reliable, Ended, Told
<1> QED  BY <1>2 DEF Lazy!LazyNext, Lazy!Serve

LEMMA QuietStep ==
    ASSUME UNCHANGED <<Found, Reliable, Set, Ended, cursor, Told>>
    PROVE  UNCHANGED Lazy!lazyVars
BY DEF Lazy!lazyVars, Lazy!sets, Found, Reliable, Ended, Told

-----------------------------------------------------------------------------
(* The steps of enumeration.                                               *)

(* What a step leaves of what clients see. *)
LEMMA RefinedStep ==
    ASSUME Refining, Refining', [Next]_vars
    PROVE  /\ sys' = sys /\ Found' = Found /\ Found = Whole /\ Reliable' = Reliable
           /\ \A a \in Ended : a \in Ended'
           /\ \A a \in Ended' : a \in ARs /\ (ToSet(Set'[a]) = Found[a] \/ a \notin Reliable)
<1>1. sys' = sys /\ Recursion /\ Routing
  BY NextKeepsSystem DEF Refining, KnownOfAll
<1>2. Found' = Found /\ Found = Whole /\ Reliable' = Reliable /\ Reliable = Settled(sys) /\ Whole' = Whole
  BY <1>1, FoundWhole DEF Found, Reliable, Whole
<1>3. ASSUME NEW a \in Ended
      PROVE  a \in Ended'
  <2>1. a \in ARs /\ isDone(a)
    BY DEF Ended
  <2>2. StaysDone(a)
    BY <1>1, <2>1, NextKeepsDone
  <2> QED  BY <2>1, <2>2 DEF StaysDone, Ended, isDone
<1>4. ASSUME NEW a \in Ended'
      PROVE  a \in ARs /\ (ToSet(Set'[a]) = Found[a] \/ a \notin Reliable)
  <2>1. a \in ARs /\ Work'[a] = <<>>
    BY DEF Ended, isDone
  <2>2. a \in Settled(sys') => ToSet(Set'[a]) = Whole'[a]
    BY <2>1 DEF Refining, SettledDone
  <2> QED  BY <1>1, <1>2, <2>1, <2>2
<1> QED  BY <1>1, <1>2, <1>3, <1>4

(* Where work is unchanged and none is being spliced, the same are done. *)
LEMMA SameEnded ==
    ASSUME Work' = Work, pc # "rewrite", pc' # "rewrite"
    PROVE  Ended' = Ended
BY DEF Ended, isDone

(* Those without work, where none is being spliced. *)
LEMMA EndedHere == pc # "rewrite" => Ended = {a \in ARs : Work[a] = <<>>}
BY DEF Ended, isDone

LEMMA EndedAfter == pc' # "rewrite" => Ended' = {a \in ARs : Work'[a] = <<>>}
BY DEF Ended, isDone

LEMMA NotTold ==
    ASSUME Refining, ~Answered
    PROVE  Told = NoAnswer
BY SeeksHere

LEMMA NotToldAfter == ~Answered' => Told' = NoAnswer
BY DEF Told

(* Where the outermost activation is. *)
LEMMA Outermost ==
    ASSUME Refining, stack # <<>>
    PROVE  /\ This \in ARs /\ Depth \in Nat
           /\ Front(stack) = <<>> <=> Depth = 0
           /\ Depth = 0 => cursor.AR = This /\ cursor.i = Len(Set[This])
<1>1. PICK n \in Nat : n >= 1 /\ Len(stack) = n /\ Ctx = stack[n] /\ This = Ctx.AR /\ This \in ARs /\ Depth = n - 1
  BY TopFrame DEF Refining, KnownOfAll
<1>2. stack \in Seq(Contexts)
  BY DEF Refining, KnownOfAll, Recursion, TypeOK
<1>3. Front(stack) \in Seq(Contexts) /\ Len(Front(stack)) = n - 1
  BY <1>1, <1>2, FrontProperties
<1>4. Front(stack) = <<>> <=> n - 1 = 0
  BY <1>3, EmptySeq
<1>5. Depth = 0 => n = 1
  BY <1>1
<1>6. stack[1].AR = cursor.AR /\ cursor.i = Len(Set[cursor.AR])
  BY DEF Refining, KnownOfAll, Routing, RootIsCursor, ClientOK, ClientAtEnd
<1> QED  BY <1>1, <1>4, <1>5, <1>6

(* A step that clients cannot see. *)
LEMMA Unseen ==
    ASSUME Refining, Refining', [Next]_vars, ~Answered, ~Answered', UNCHANGED <<Set, cursor>>,
           Ended' = Ended
    PROVE  UNCHANGED Lazy!lazyVars
<1>1. Found' = Found /\ Reliable' = Reliable
  BY RefinedStep
<1>2. Told' = Told
  BY NotTold, NotToldAfter
<1> QED  BY <1>1, <1>2, QuietStep

(* The work of an activation may have come to its end. *)
LEMMA MayFinish ==
    ASSUME Refining, Refining', [Next]_vars, ~Answered, ~Answered', pc # "idle",
           UNCHANGED <<Set, cursor>>, This \in ARs,
           \A a \in ARs \ {This} : a \in Ended' => a \in Ended
    PROVE  [Lazy!LazyNext]_(Lazy!lazyVars)
<1>1. /\ Found' = Found /\ Reliable' = Reliable
      /\ \A a \in Ended : a \in Ended'
      /\ \A a \in Ended' : a \in ARs /\ (ToSet(Set'[a]) = Found[a] \/ a \notin Reliable)
  BY RefinedStep
<1>2. Ended \subseteq ARs
  BY DEF Ended
<1>3. CASE This \in Ended \/ This \notin Ended'
  <2>1. Ended' = Ended
    BY <1>1, <1>2, <1>3
  <2> QED  BY <2>1, Unseen
<1>4. CASE This \notin Ended /\ This \in Ended'
  <2>1. /\ Ended' = Ended \cup {This}
        /\ ToSet(Set[This]) = Found[This] \/ This \notin Reliable
    BY <1>1, <1>2, <1>4
  <2>2. cursor # Nobody /\ Told = NoAnswer /\ Told' = Told
    BY SeeksHere, NotToldAfter
  <2> QED  BY <1>1, <1>4, <2>1, <2>2, FinishStep
<1> QED  BY <1>3, <1>4

LEMMA QueryRefines ==
    ASSUME Refining, Refining', NEW a \in ARs, NEW i \in 0 .. Len(Set[a]), Query(a, i)
    PROVE  Lazy!LazyNext
<1>1. [Next]_vars
  BY DEF Next
<1>2. /\ pc = "idle" /\ pc' = "call" /\ cursor' = [AR |-> a, i |-> i] /\ UNCHANGED <<Set, Work>>
  BY DEF Query, Goto
<1>3. Found' = Found /\ Reliable' = Reliable /\ Ended' = Ended
  BY <1>1, <1>2, RefinedStep, SameEnded
<1>4. Told' = Told
  BY <1>2, NotTold, NotToldAfter DEF Answered
<1>5. cursor = Nobody
  BY <1>2 DEF Refining, ClientOK
<1> QED  BY <1>2, <1>3, <1>4, <1>5, AskStep

LEMMA AnswerRefines ==
    ASSUME Refining, Refining', Answer
    PROVE  Lazy!LazyNext
<1>1. [Next]_vars
  BY DEF Next, Step
<1>2. Answered /\ pc' = "idle" /\ cursor' = Nobody /\ UNCHANGED <<Set, Work>>
  BY DEF Answer, Goto, Answered
<1>3. Found' = Found /\ Reliable' = Reliable /\ Ended' = Ended
  BY <1>1, <1>2, RefinedStep, SameEnded DEF Answered
<1>4. Told # NoAnswer /\ Told' = NoAnswer
  BY <1>2, SeeksHere, NotToldAfter DEF Answered
<1> QED  BY <1>2, <1>3, <1>4, TakeStep

LEMMA EnterRefines ==
    ASSUME Refining, Refining', Enter
    PROVE  [Lazy!LazyNext]_(Lazy!lazyVars)
<1>1. [Next]_vars
  BY DEF Next, Step
<1>2. pc = "call" /\ ~Answered /\ Set' = Set /\ pc' # "rewrite"
  BY DEF Enter, EnterRewrite, EnterCached, EnterRetry, EnterRun, Answered, Return, Goto
<1>3. KnownOfAll /\ KnownOfAll' /\ Recursion /\ Recursion'
  BY DEF Refining, KnownOfAll
<1>4. CASE EnterRewrite \/ EnterRetry
  <2>1. /\ UNCHANGED <<Set, Work, cursor>> /\ result'.type \in {"RETRY", "REWRITE"}
    BY <1>4 DEF EnterRewrite, EnterRetry, Return, Rewrite, Retry
  <2>2. ~Answered'
    BY <1>3, <2>1, AnswerAfter
  <2> QED  BY <1>1, <1>2, <2>1, <2>2, Unseen, SameEnded
<1>5. CASE EnterRun
  <2>1. /\ UNCHANGED <<Set, Work, cursor>> /\ pc' = "run"
    BY <1>5 DEF EnterRun, Goto
  <2>2. ~Answered'
    BY <2>1 DEF Answered
  <2> QED  BY <1>1, <1>2, <2>1, <2>2, Unseen, SameEnded
<1>6. CASE EnterCached
  <2>1. /\ Advance(stack) /\ pc' = "return" /\ stack' = stack /\ IsCached
        /\ result' = NextValue(Set[Callee.AR][Callee.i + 1])
    BY <1>6 DEF EnterCached, Return
  <2>2. CASE stack = <<>>
    <3>1. Work' = Work /\ cursor' = [cursor EXCEPT !.i = @ + 1] /\ Callee = cursor
      BY <2>1, <2>2 DEF Advance, Callee
    <3>2. Told' = Set[cursor.AR][cursor.i + 1] /\ cursor.i < Len(Set[cursor.AR])
      BY <2>1, <2>2, <3>1 DEF Told, Answered, NextValue, IsCached
    <3>3. cursor # Nobody /\ Told = NoAnswer
      BY <1>2, SeeksHere
    <3>4. Found' = Found /\ Reliable' = Reliable /\ Ended' = Ended
      BY <1>1, <1>2, <3>1, RefinedStep, SameEnded
    <3> QED  BY <1>2, <3>1, <3>2, <3>3, <3>4, GiveKnownStep
  <2>3. CASE stack # <<>>
    <3>1. PICK n \in Nat : n >= 1 /\ Len(stack) = n /\ Ctx = stack[n] /\ This = Ctx.AR
      BY <1>3, <2>3, TopFrame
    <3>2. n \in 1 .. Len(stack) /\ Last(stack) = stack[n]
      BY <3>1 DEF Last
    <3>3. /\ stack[n].AR \in ARs /\ \A a \in ARs \ {stack[n].AR} : Work'[a] = Work[a]
          /\ Len(Work'[stack[n].AR]) = Len(Work[stack[n].AR])
      BY <1>2, <1>3, <2>1, <2>3, <3>2, AdvanceItems
    <3>4. \A a \in ARs : Len(Work'[a]) = Len(Work[a])
      BY <3>3
    <3>5. \A a \in ARs : Work[a] \in Seq(Works) /\ Work'[a] \in Seq(Works)
      BY <1>3 DEF Recursion, TypeOK
    <3>6. Ended' = Ended
      <4>1. \A a \in ARs : Work'[a] = <<>> <=> Work[a] = <<>>
        BY <3>4, <3>5, EmptySeq
      <4> QED  BY <1>2, <4>1, EndedHere, EndedAfter
    <3>7. cursor' = cursor /\ ~Answered'
      BY <2>1, <2>3 DEF Advance, Answered
    <3> QED  BY <1>1, <1>2, <3>6, <3>7, Unseen
  <2> QED  BY <2>2, <2>3
<1> QED  BY <1>2, <1>4, <1>5, <1>6 DEF Enter

LEMMA EndRefines ==
    ASSUME Refining, Refining', EndComplete \/ EndCancelRetry
    PROVE  [Lazy!LazyNext]_(Lazy!lazyVars)
<1>1. [Next]_vars
  BY DEF Next, Step, Run
<1>2. /\ pc = "run" /\ pc' = "return" /\ stack' = Front(stack) /\ result' = Complete
      /\ UNCHANGED <<Set, cursor>> /\ AtEnd
  BY DEF EndComplete, EndCancelRetry, Leave, Return
<1>3. KnownOfAll /\ Recursion /\ stack # <<>> /\ ~Answered
  BY <1>2 DEF Refining, KnownOfAll, Recursion, ControlOK, Answered
<1>4. /\ This \in ARs /\ Depth \in Nat
      /\ Front(stack) = <<>> <=> Depth = 0
      /\ Depth = 0 => cursor.AR = This /\ cursor.i = Len(Set[This])
  BY <1>3, Outermost
<1>5. Work'[This] = <<>> /\ \A a \in ARs \ {This} : Work'[a] = Work[a]
  <2>1. CASE EndComplete
    <3>1. Ctx.Retry = NoAR /\ Work' = Work
      BY <2>1 DEF EndComplete
    <3>2. PICK n \in Nat : n >= 1 /\ Len(stack) = n /\ Ctx = stack[n]
      BY <1>3, TopFrame
    <3>3. n \in 1 .. Len(stack)
      BY <3>2
    <3>4. Ctx.Pos = 1
      BY <1>2, <1>3, <3>1, <3>2, <3>3 DEF KnownOfAll, Routing, RetriedPassed
    <3>5. Work[This] \in Seq(Works)
      BY <1>3, <1>4 DEF Recursion, TypeOK
    <3>6. Len(Work[This]) = 0
      BY <1>2, <3>4, <3>5, LenProperties DEF AtEnd
    <3> QED  BY <3>1, <3>5, <3>6, EmptySeq
  <2>2. CASE EndCancelRetry
    <3>1. SetWork(<<>>)
      BY <2>2 DEF EndCancelRetry
    <3> QED  BY <1>3, <1>4, <3>1, SetWorkItems
  <2> QED  BY <2>1, <2>2
<1>6. CASE Depth = 0
  <2>1. Told' = NoVI
    BY <1>2, <1>4, <1>6 DEF Told, Answered, Complete
  <2>2. cursor # Nobody /\ Told = NoAnswer
    BY <1>2, <1>3, SeeksHere
  <2>3. Ended' = Ended \cup {This}
    <3>1. Ended = {a \in ARs : Work[a] = <<>>} /\ Ended' = {a \in ARs : Work'[a] = <<>>}
      BY <1>2, EndedHere, EndedAfter
    <3> QED  BY <1>4, <1>5, <3>1
  <2>4. Found' = Found /\ Reliable' = Reliable /\ (ToSet(Set[This]) = Found[This] \/ This \notin Reliable)
    BY <1>1, <1>2, <2>3, RefinedStep
  <2> QED  BY <1>2, <1>4, <1>6, <2>1, <2>2, <2>3, <2>4, GiveEndStep
<1>7. CASE Depth # 0
  <2>1. ~Answered'
    BY <1>2, <1>4, <1>7 DEF Answered
  <2>2. \A a \in ARs \ {This} : a \in Ended' => a \in Ended
    BY <1>2, <1>5, EndedHere, EndedAfter
  <2> QED  BY <1>1, <1>2, <1>3, <1>4, <2>1, <2>2, MayFinish
<1> QED  BY <1>6, <1>7

LEMMA RunRefines ==
    ASSUME Refining, Refining', Run
    PROVE  [Lazy!LazyNext]_(Lazy!lazyVars)
<1>1. [Next]_vars
  BY DEF Next, Step
<1>2. CASE RunInline \/ EndRetry
  <2>1. /\ UNCHANGED <<Set, Work, cursor>> /\ pc = "run" /\ pc' = "return"
        /\ result'.type \in {"INLINE", "RETRY"}
    BY <1>2 DEF RunInline, EndRetry, Leave, Return, Inline, Retry
  <2>2. ~Answered /\ ~Answered'
    BY <2>1, AnswerAfter DEF Refining, Answered
  <2> QED  BY <1>1, <2>1, <2>2, Unseen, SameEnded
<1>3. CASE RunRecurse
  <2>1. UNCHANGED <<Set, Work, cursor>> /\ ~Answered /\ ~Answered' /\ pc = "run" /\ pc' = "call"
    BY <1>3 DEF RunRecurse, Goto, Answered
  <2> QED  BY <1>1, <2>1, Unseen, SameEnded
<1> QED  BY <1>2, <1>3, EndRefines DEF Run

LEMMA AddNewValueRefines ==
    ASSUME Refining, Refining', AddNewValue
    PROVE  Lazy!LazyNext
<1>1. [Next]_vars
  BY DEF Next, Step, Handle
<1>2. /\ Recursion /\ Recursion' /\ Routing /\ EverySound'
      /\ stack # <<>> /\ SuspendedKept /\ cursor'.AR = cursor.AR
  BY LeaveKept DEF Refining, KnownOfAll
<1>3. /\ pc = "return" /\ pc' = "return" /\ stack' = Front(stack) /\ result' = result
      /\ result.type = "NEXT_VALUE" /\ Advance(Front(stack)) /\ ~Answered
      /\ Set' = [Set EXCEPT ![This] = Append(@, result.VI)] /\ ~Contains(Set[This], result.VI)
  BY <1>2 DEF AddNewValue, Leave, Return, Returned, Answered
<1>4. PICK n \in Nat : n >= 1 /\ Len(stack) = n /\ (stack' = <<>> <=> n = 1)
  BY <1>2, <1>3, AfterLeave DEF Routing
<1>5. /\ This \in ARs /\ Depth = n - 1 /\ result.VI \in VIs /\ Set[This] \in Seq(VIs)
      /\ Set \in [ARs -> Seq(VIs)]
  BY <1>2, <1>3, <1>4, TopFrame DEF Recursion, ControlOK, TypeOK
<1>6. \A a \in ARs : Work'[a] = <<>> <=> Work[a] = <<>>
  <2>1. CASE n = 1
    BY <1>3, <1>4, <2>1 DEF Advance
  <2>2. CASE n # 1
    <3>1. n - 1 \in 1 .. Len(stack) /\ n - 1 < Len(stack) /\ n - 1 \in 1 .. n - 1
      BY <1>4, <2>2
    <3>2. Front(stack) # <<>> /\ Last(Front(stack)) = stack[n - 1]
      <4>1. Len(Front(stack)) = n - 1 /\ \A k \in 1 .. n - 1 : Front(stack)[k] = stack[k]
        BY <1>2, <1>4, FrontProperties DEF Recursion, TypeOK
      <4> QED  BY <1>3, <1>4, <2>2, <3>1, <4>1 DEF Last
    <3>3. /\ stack[n - 1].AR \in ARs
          /\ \A a \in ARs \ {stack[n - 1].AR} : Work'[a] = Work[a]
          /\ Len(Work'[stack[n - 1].AR]) = Len(Work[stack[n - 1].AR])
      BY <1>2, <1>3, <3>1, <3>2, AdvanceItems
    <3>4. \A a \in ARs : Len(Work'[a]) = Len(Work[a])
      BY <3>3
    <3>5. \A a \in ARs : Work[a] \in Seq(Works) /\ Work'[a] \in Seq(Works)
      BY <1>2 DEF Recursion, TypeOK
    <3> QED  BY <3>4, <3>5, EmptySeq
  <2> QED  BY <2>1, <2>2
<1>7. Ended' = Ended
  BY <1>3, <1>6, EndedHere, EndedAfter
<1>8. sys' = sys /\ Found' = Found /\ Reliable' = Reliable /\ Found = Whole
  BY <1>1, RefinedStep
<1>9. This \notin Ended
  <2>1. Cur \in ToSet(Work[This])
    BY <1>2, <1>3, CurItem
  <2>2. Work[This] # <<>>
    BY <2>1 DEF ToSet
  <2> QED  BY <2>2 DEF Ended, isDone
<1>10. result.VI \in Found[This]
  <2>1. Sound(Whole)'
    BY <1>2, WholeIsSoundAfter
  <2>2. ToSet(Set'[This]) \subseteq Whole'[This]
    BY <1>5, <2>1 DEF Sound, SetsSound
  <2>3. result.VI \in ToSet(Set'[This])
    BY <1>3, <1>5, ToSetAppend
  <2> QED  BY <1>8, <2>2, <2>3 DEF Whole
<1>11. Lazy!New(This, result.VI)
  BY <1>3, <1>5, <1>9, <1>10, NewValueStep
<1>12. cursor # Nobody /\ Told = NoAnswer
  BY <1>3, SeeksHere
<1>13. CASE n = 1
  <2>1. cursor.AR = This /\ cursor.i = Len(Set[This])
    BY <1>2, <1>5, <1>13, Outermost
  <2>2. Told' = result.VI /\ cursor' = [cursor EXCEPT !.i = @ + 1]
    BY <1>3, <1>4, <1>13 DEF Told, Answered, Advance
  <2> QED  BY <1>5, <1>7, <1>8, <1>11, <1>12, <2>1, <2>2, GiveNewStep
<1>14. CASE n # 1
  <2>1. Told' = Told /\ cursor' = cursor
    BY <1>3, <1>4, <1>12, <1>14, NotToldAfter DEF Answered, Advance
  <2> QED  BY <1>5, <1>7, <1>8, <1>11, <1>12, <2>1, FindStep
<1> QED  BY <1>13, <1>14

(* The work list that is being spliced away counts as work. *)
LEMMA RewriteRefines ==
    ASSUME Refining, Refining', RewriteBegin \/ RewriteKeep \/ RewriteDrop \/ RewriteSplice
    PROVE  UNCHANGED Lazy!lazyVars
<1>1. [Next]_vars
  BY DEF Next, Step, Handle
<1>2. /\ Recursion /\ Recursion' /\ Routing /\ KnownOfAll' /\ stack # <<>>
      /\ UNCHANGED <<Set, cursor>> /\ result' = result /\ pc' \in {"rewrite", "return"}
      /\ pc \in {"rewrite", "return"} /\ result.type = "REWRITE"
  BY DEF Refining, KnownOfAll, Recursion, ControlOK, RewriteBegin, RewriteKeep, RewriteDrop, RewriteSplice,
         Returned, Leave, Return
<1>3. ~Answered /\ ~Answered'
  BY <1>2, AnswerAfter DEF Answered
<1>4. PICK n \in Nat : n >= 1 /\ Len(stack) = n /\ Ctx = stack[n] /\ This = Ctx.AR /\ This \in ARs /\ Depth = n - 1
  BY <1>2, TopFrame
<1>5. Work \in [ARs -> Seq(Works)] /\ \A a \in Ended : a \in Ended'
  BY <1>1, <1>2, RefinedStep DEF Recursion, TypeOK
<1>6. CASE RewriteBegin \/ RewriteKeep \/ RewriteDrop
  <2>1. /\ pc' = "rewrite"
        /\ Work' = Work \/ \E w : Work' = [Work EXCEPT ![This] = w]
    BY <1>6 DEF RewriteBegin, RewriteKeep, RewriteDrop, EraseCur, SetWork
  <2>2. This' = This
    <3>1. \/ stack' = stack
          \/ \E p : stack' = [stack EXCEPT ![n].Pos = p]
      BY <1>4, <1>6 DEF RewriteBegin, RewriteKeep, RewriteDrop, SetPos
    <3>2. stack \in Seq(Contexts) /\ n \in 1 .. n
      BY <1>2, <1>4 DEF Recursion, TypeOK
    <3>3. ASSUME NEW p, stack' = [stack EXCEPT ![n].Pos = p]
          PROVE  This' = This
      <4>1. Len(stack') = n
        BY <1>4, <3>2, <3>3
      <4>2. stack'[n].AR = stack[n].AR
        BY <1>4, <3>2, <3>3
      <4> QED  BY <1>4, <4>1, <4>2 DEF This, Ctx
    <3> QED  BY <3>1, <3>3 DEF This, Ctx
  <2>3. \A a \in ARs \ {This} : Work'[a] = Work[a]
    BY <1>5, <2>1
  <2>4. This \notin Ended'
    BY <2>1, <2>2 DEF Ended, isDone
  <2>5. \A a \in Ended' : a \in Ended
    BY <2>3, <2>4 DEF Ended, isDone
  <2> QED  BY <1>1, <1>2, <1>3, <1>5, <2>5, Unseen DEF Ended
<1>7. CASE RewriteSplice
  <2>1. result.AR \in ARs /\ result.AR # This
    BY <1>2, <1>7, RewriteTarget DEF RewriteSplice
  <2>2. /\ Work' = [Work EXCEPT ![result.AR] = @ \o Work[This],
                                ![This] = <<SubsetWork(result.AR)>>]
        /\ pc' = "return"
    BY <1>7 DEF RewriteSplice, Leave, Return
  <2>3. /\ Work'[This] = <<SubsetWork(result.AR)>> /\ Work'[result.AR] = Work[result.AR] \o Work[This]
        /\ \A a \in ARs \ {This, result.AR} : Work'[a] = Work[a]
    BY <1>4, <1>5, <2>1, <2>2
  <2>4. Work'[This] # <<>>
    BY <2>3
  <2>5. Work'[result.AR] = <<>> => Work[result.AR] = <<>>
    <3>1. PICK m \in Nat, k \in Nat : Len(Work[result.AR]) = m /\ Len(Work[This]) = k
      BY <1>4, <1>5, <2>1, LenProperties
    <3>2. Work[result.AR] \in Seq(Works) /\ Work[This] \in Seq(Works)
      BY <1>4, <1>5, <2>1
    <3>3. Len(Work[result.AR] \o Work[This]) = m + k
      BY <3>1, <3>2, ConcatProperties
    <3>4. Work'[result.AR] = <<>> => m + k = 0
      BY <2>3, <3>3, EmptySeq
    <3> QED  BY <1>5, <2>1, <3>1, <3>4, EmptySeq
  <2>6. \A a \in Ended' : a \in Ended
    BY <2>2, <2>3, <2>4, <2>5 DEF Ended, isDone
  <2> QED  BY <1>1, <1>2, <1>3, <1>5, <2>6, Unseen DEF Ended
<1> QED  BY <1>6, <1>7

LEMMA HandleRefines ==
    ASSUME Refining, Refining', Handle
    PROVE  [Lazy!LazyNext]_(Lazy!lazyVars)
<1>1. [Next]_vars
  BY DEF Next, Step
<1>2. Recursion /\ Recursion'
  BY DEF Refining, KnownOfAll
<1>3. CASE SkipKnownValue \/ TransformToNothing \/ SkipRetried
  <2>1. UNCHANGED <<Set, Work, cursor>> /\ ~Answered /\ ~Answered' /\ pc = "return" /\ pc' # "rewrite"
    BY <1>3 DEF SkipKnownValue, TransformToNothing, SkipRetried, Goto, Returned, Answered
  <2> QED  BY <1>1, <2>1, Unseen, SameEnded
<1>4. CASE TransformToSubset \/ InlineSubset
  <2>1. /\ UNCHANGED <<Set, cursor>> /\ ~Answered /\ ~Answered' /\ stack # <<>> /\ pc = "return"
        /\ pc' # "rewrite"
    BY <1>4 DEF TransformToSubset, InlineSubset, Goto, Returned, Answered
  <2>2. Cur \in ToSet(Work[This])
    BY <1>2, <2>1, CurItem
  <2>3. /\ \A a \in ARs \ {This} : Work'[a] = Work[a]
        /\ ToSet(Work'[This]) # {}
    BY <1>2, <1>4, PushItems, InlineItems
  <2>4. Work[This] # <<>> /\ Work'[This] # <<>>
    BY <2>2, <2>3 DEF ToSet
  <2>5. Ended' = Ended
    BY <2>1, <2>3, <2>4, EndedHere, EndedAfter
  <2> QED  BY <1>1, <2>1, <2>5, Unseen
<1>5. CASE DropInlined \/ EraseCompleted \/ RewriteHere
  <2>1. /\ UNCHANGED <<Set, cursor>> /\ ~Answered /\ ~Answered' /\ stack # <<>> /\ pc = "return"
        /\ EraseCur /\ pc' # "rewrite"
    BY <1>5 DEF DropInlined, EraseCompleted, RewriteHere, Goto, Returned, Answered
  <2>2. This \in ARs /\ \A a \in ARs \ {This} : Work'[a] = Work[a]
    BY <1>2, <2>1, EraseCurItems
  <2>3. \A a \in ARs \ {This} : a \in Ended' => a \in Ended
    BY <2>1, <2>2, EndedHere, EndedAfter
  <2> QED  BY <1>1, <2>1, <2>2, <2>3, MayFinish
<1> QED  BY <1>3, <1>4, <1>5, AddNewValueRefines, RewriteRefines DEF Handle

LEMMA NextRefines ==
    ASSUME Refining, Refining', [Next]_vars
    PROVE  [Lazy!LazyNext]_(Lazy!lazyVars)
<1>1. CASE UNCHANGED vars
  <2>1. UNCHANGED <<sys, Set, Work, cursor, pc, stack, result>>
    BY <1>1 DEF vars
  <2>2. Found' = Found /\ Reliable' = Reliable /\ Ended' = Ended
    BY <2>1 DEF Found, Reliable, Ended, isDone, This, Ctx
  <2>3. Told' = Told
    BY <2>1 DEF Told, Answered
  <2> QED  BY <2>1, <2>2, <2>3, QuietStep
<1> QED  BY <1>1, EnterRefines, RunRefines, HandleRefines, AnswerRefines, QueryRefines DEF Next, Step

(* What nothing is added to is in the least solution what it is. *)
LEMMA WithoutWork ==
    ASSUME NEW s \in EquationSystems, NEW a \in ARs, s.work[a] = <<>>
    PROVE  ToSet(s.set[a]) = LeastSolution(s)[a]
<1> DEFINE L == LeastSolution(s)
           S == [L EXCEPT ![a] = ToSet(s.set[a])]
<1>1. /\ L \in [ARs -> SUBSET VIs] /\ IsSolution(s, L)
      /\ \A T \in Solutions(s) : \A b \in ARs : L[b] \subseteq T[b]
  BY LeastSolutionIsSolution DEF Solutions
<1>2. ToSet(s.set[a]) \subseteq L[a] /\ DOMAIN <<>> = {}
  BY <1>1 DEF IsSolution
<1> HIDE DEF L
<1>3. /\ S \in [ARs -> SUBSET VIs] /\ S[a] = ToSet(s.set[a]) /\ \A b \in ARs \ {a} : S[b] = L[b]
      /\ \A b \in ARs : S[b] \subseteq L[b]
  BY <1>1, <1>2
<1> HIDE DEF S
<1>4. ASSUME NEW b \in ARs, NEW k \in DOMAIN s.work[b]
      PROVE  Satisfies(s.results, S, b, s.work[b][k])
  <2> DEFINE w == s.work[b][k]
  <2>1. b # a
    BY <1>2
  <2>2. Satisfies(s.results, L, b, w)
    BY <1>1 DEF IsSolution
  <2>3. s.work[b] \in Seq(Works) /\ s.results \in [Algs -> [VIs -> ARs \cup {NoAR}]]
    BY DEF EquationSystems
  <2>4. w \in Works
    BY <2>3, LenProperties, ElementOfSeq
  <2>5. w.AR \in ARs /\ (~IsSubset(w) => w.alg \in Algs)
    BY <2>4 DEF Works, SubsetWorks, TransformWorks, IsSubset
  <2> HIDE DEF w
  <2>6. CASE IsSubset(w)
    <3>1. L[w.AR] \subseteq L[b]
      BY <2>2, <2>6 DEF Satisfies
    <3>2. S[w.AR] \subseteq S[b]
      BY <1>3, <2>1, <2>5, <3>1
    <3> QED  BY <2>6, <3>2 DEF Satisfies, w
  <2>7. CASE ~IsSubset(w)
    <3> SUFFICES ASSUME NEW v \in S[w.AR], s.results[w.alg][v] # NoAR
                 PROVE  S[s.results[w.alg][v]] \subseteq S[b]
      BY <2>7 DEF Satisfies, w
    <3>1. v \in L[w.AR] /\ v \in VIs
      BY <1>1, <1>3, <2>5
    <3>2. s.results[w.alg][v] \in ARs
      BY <2>3, <2>5, <2>7, <3>1
    <3>3. L[s.results[w.alg][v]] \subseteq L[b]
      BY <2>2, <2>7, <3>1 DEF Satisfies
    <3> QED  BY <1>3, <2>1, <3>2, <3>3
  <2> QED  BY <2>6, <2>7
<1>5. \A b \in ARs : ToSet(s.set[b]) \subseteq S[b]
  BY <1>1, <1>3 DEF IsSolution
<1>6. S \in Solutions(s)
  BY <1>3, <1>4, <1>5 DEF Solutions, IsSolution
<1>7. L[a] \subseteq S[a]
  BY <1>1, <1>6
<1> QED  BY <1>2, <1>3, <1>7 DEF L

LEMMA InitRefines ==
    ASSUME Init, Recursion, EverySound
    PROVE  Lazy!LazyInit
<1>1. /\ Set = sys.set /\ pc = "idle" /\ cursor = Nobody /\ sys \in Systems
  BY DEF Init, StartsFrom
<1>2. /\ Found = Whole /\ Ended = {a \in ARs : Work[a] = <<>>} /\ Work = sys.work
      /\ Reliable \in SUBSET ARs
  BY <1>1, FoundWhole, EndedHere, SettledOf DEF Init, StartsFrom
<1>3. Set \in [ARs -> SeqOf(VIs, 1)]
  <2>1. Set \in [ARs -> Seq(VIs)] /\ \A a \in ARs : Len(Set[a]) <= 1
    BY <1>1, SeedsAssumption DEF Recursion, TypeOK
  <2>2. ASSUME NEW a \in ARs
        PROVE  Set[a] \in SeqOf(VIs, 1)
    <3>1. Set[a] \in Seq(VIs) /\ Len(Set[a]) <= 1
      BY <2>1
    <3>2. PICK m \in Nat : Len(Set[a]) = m
      BY <3>1, LenProperties
    <3>3. Set[a] \in [1 .. m -> VIs]
      BY <3>1, <3>2, LenProperties, ElementOfSeq
    <3>4. m <= 1
      BY <3>1, <3>2
    <3>5. m \in 0 .. 1
      BY <3>4
    <3> QED  BY <3>3, <3>5 DEF SeqOf
  <2> QED  BY <2>1, <2>2
<1>4. /\ Whole \in [ARs -> SUBSET VIs] /\ \A a \in ARs : ToSet(Set[a]) \subseteq Whole[a]
      /\ \A a \in ARs : Work[a] = <<>> => ToSet(Set[a]) = Whole[a]
  <2>1. Whole \in [ARs -> SUBSET VIs] /\ Sound(Whole) /\ sys \in EquationSystems
    BY KnownWhole
  <2>2. \A a \in ARs : ToSet(Set[a]) \subseteq Whole[a]
    BY <2>1 DEF Sound, SetsSound
  <2>3. \A a \in ARs : Work[a] = <<>> => ToSet(Set[a]) = Whole[a]
    BY <1>1, <1>2, <2>1, WithoutWork DEF Whole
  <2> QED  BY <2>1, <2>2, <2>3
<1> HIDE DEF Whole
<1>5. [solution |-> Found, reliable |-> Reliable, Set |-> Set, done |-> Ended] \in Lazy!FreshSets
  <2> DEFINE fresh == [solution |-> Found, reliable |-> Reliable, Set |-> Set, done |-> Ended]
  <2>1. fresh \in [solution : [ARs -> SUBSET VIs], reliable : SUBSET ARs,
                     Set : [ARs -> SeqOf(VIs, 1)], done : SUBSET ARs]
    BY <1>2, <1>3, <1>4
  <2>2. ASSUME NEW a \in ARs
        PROVE  /\ ToSet(fresh.Set[a]) \subseteq fresh.solution[a]
               /\ a \in fresh.done => ToSet(fresh.Set[a]) = fresh.solution[a]
    BY <1>2, <1>4
  <2> HIDE DEF fresh
  <2>3. fresh \in Lazy!FreshSets
    BY <2>1, <2>2 DEF Lazy!FreshSets, Lazy!SeqOf, SeqOf, Lazy!ToSet, ToSet
  <2> QED  BY <2>3 DEF fresh
<1>6. Told = NoAnswer
  BY <1>1 DEF Told, Answered
<1> QED  BY <1>1, <1>5, <1>6 DEF Lazy!LazyInit, Lazy!Nobody, Lazy!Enumerator, Nobody, Lazy!sets, Found, Reliable, Ended, Told

-----------------------------------------------------------------------------
(* The engine on the settled part of the equations.                        *)

In == INSTANCE CompletenessProofs WITH
    Systems <- PartSystems,
    sys <- Restricted(sys), Set <- PartSet, Work <- PartWork, Subsets <- PartSubsets,
    EnumerationDepth <- PartDepth, stack <- PartStack, cursor <- PartCursor,
    result <- PartResult, pc <- PartPc

LEMMA PartAssumptions == In!NullsAssumption /\ In!SystemsAssumption /\ In!FreshAssumption
<1>1. In!NullsAssumption
  BY NullsAssumption DEF In!NullsAssumption
<1>2. In!EquationSystems = EquationSystems
  BY DEF In!EquationSystems, EquationSystems, In!Works, In!SubsetWorks, In!TransformWorks, Works, SubsetWorks, TransformWorks
<1>3. In!SystemsAssumption
  BY SystemsAssumption, RestrictedType, <1>2 DEF In!SystemsAssumption, PartSystems
<1>4. In!FreshAssumption
  <2> SUFFICES ASSUME NEW s \in Systems, NEW a \in ARs
               PROVE  \A k \in DOMAIN Restricted(s).work[a] : Restricted(s).work[a][k].i = 0
    BY DEF In!FreshAssumption, PartSystems
  <2>1. \A k \in DOMAIN s.work[a] : s.work[a][k].i = 0
    BY FreshAssumption
  <2> QED  BY <2>1, RestrictedType, SystemsAssumption
<1> QED  BY <1>1, <1>3, <1>4

(* What the instance says of equations is what they say. *)
LEMMA PartSolution ==
    ASSUME NEW s
    PROVE  In!LeastSolution(s) = LeastSolution(s)
<1>1. \A S : In!IsSolution(s, S) <=> IsSolution(s, S)
  BY DEF In!IsSolution, IsSolution, In!Satisfies, Satisfies, In!ToSet, ToSet, In!IsSubset, IsSubset
<1>2. In!Solutions(s) = Solutions(s)
  BY <1>1 DEF In!Solutions, Solutions
<1> QED  BY <1>2 DEF In!LeastSolution, LeastSolution

LEMMA PartPotentialSubsets ==
    ASSUME NEW s
    PROVE  In!PotentialSubsets(s) = PotentialSubsets(s)
BY PartSolution DEF In!PotentialSubsets, PotentialSubsets, In!SubsetsUnder, SubsetsUnder, In!IsSubset, IsSubset

LEMMA PartAcyclic ==
    ASSUME sys \in EquationSystems
    PROVE  In!NoSubsetCycles(Restricted(sys))
BY RestrictedAcyclic, PartPotentialSubsets DEF In!NoSubsetCycles, NoSubsetCycles, In!NoCycles, NoCycles

-----------------------------------------------------------------------------
(* What the settled ARs see while one of them is enumerated.               *)

(* The innermost activation, of a settled AR, as seen from b. *)
SeenAbove(b, n) ==
    /\ b \in Nat /\ n \in Nat /\ b < n
    /\ IsBase(b) /\ Base = b /\ Len(stack) = n /\ Ctx = stack[n] /\ Ctx \in Contexts /\ This \in ARs
    /\ PartStack = Above(stack, b) /\ PartStack # <<>> /\ Len(PartStack) = n - b
    /\ PartStack[Len(PartStack)] = Lifted(Ctx, b)
    /\ In!Ctx = Lifted(Ctx, b) /\ In!This = This
    /\ In!Ctx.Pos = Ctx.Pos /\ In!Ctx.Retry = Ctx.Retry /\ In!Ctx.LTD = Rebased(Ctx.LTD, b)
    /\ PartWork[This] = Work[This] /\ PartSet[This] = Set[This] /\ PartSubsets[This] = Subsets[This]
    /\ In!Cur = Cur /\ (In!AtEnd <=> AtEnd) /\ In!Depth = Depth - b
    /\ PartPc = pc /\ PartResult = result /\ PartCursor = Client
    /\ In!Callee = Callee

LEMMA UpperView == Recursion /\ HasBase /\ InPart => \E b, n \in Nat : SeenAbove(b, n)
<1> SUFFICES ASSUME Recursion, HasBase, InPart
             PROVE  \E b, n \in Nat : SeenAbove(b, n)
  OBVIOUS
<1>1. PICK n \in Nat : /\ n >= 1 /\ Len(stack) = n /\ Ctx = stack[n] /\ Ctx \in Contexts
                       /\ This = Ctx.AR /\ This \in ARs /\ Depth = n - 1
  BY TopFrame DEF InPart
<1>2. PICK b : IsBase(b)
  BY DEF HasBase
<1>3. Base = b /\ b \in Nat /\ b <= n
  BY <1>1, <1>2, BaseIs DEF Recursion
<1>4. b # n
  <2> SUFFICES ASSUME b = n
               PROVE  FALSE
    OBVIOUS
  <2>1. n \in 1 .. b
    BY <1>1
  <2> QED  BY <1>1, <1>2, <2>1 DEF IsBase, InPart
<1>5. b < n /\ b \in 0 .. Len(stack) /\ b < Len(stack)
  BY <1>1, <1>3, <1>4
<1>6. stack \in Seq(Contexts)
  BY DEF Recursion, TypeOK
<1>7. /\ PartStack = Above(stack, b) /\ PartStack # <<>> /\ Len(PartStack) = n - b
      /\ PartStack[Len(PartStack)] = Lifted(Ctx, b)
  <2>1. PartStack = Above(stack, b)
    BY <1>3 DEF PartStack
  <2>2. /\ Len(Above(stack, b)) = Len(stack) - b
        /\ Above(stack, b) = <<>> <=> b = Len(stack)
        /\ Above(stack, b)[Len(Above(stack, b))] = Lifted(stack[Len(stack)], b)
    BY <1>5, <1>6, AboveType
  <2>3. b # Len(stack)
    BY <1>1, <1>4
  <2> QED  BY <1>1, <2>1, <2>2, <2>3
<1>8. /\ In!Ctx = Lifted(Ctx, b) /\ In!This = This
      /\ In!Ctx.Pos = Ctx.Pos /\ In!Ctx.Retry = Ctx.Retry /\ In!Ctx.LTD = Rebased(Ctx.LTD, b)
  <2>1. In!Ctx = Lifted(Ctx, b)
    BY <1>7 DEF In!Ctx
  <2>2. /\ Lifted(Ctx, b).AR = Ctx.AR /\ Lifted(Ctx, b).Pos = Ctx.Pos
        /\ Lifted(Ctx, b).Retry = Ctx.Retry /\ Lifted(Ctx, b).LTD = Rebased(Ctx.LTD, b)
    BY <1>1, <1>3, LiftedType
  <2> QED  BY <1>1, <2>1, <2>2 DEF In!This
<1>9. /\ PartWork[This] = Work[This] /\ PartSet[This] = Set[This] /\ PartSubsets[This] = Subsets[This]
  BY <1>1 DEF PartWork, PartSet, PartSubsets, InPart
<1>10. In!Cur = Cur /\ (In!AtEnd <=> AtEnd)
  BY <1>8, <1>9 DEF In!Cur, Cur, In!AtEnd, AtEnd
<1>11. In!Depth = Depth - b
  BY <1>1, <1>3, <1>7 DEF In!Depth
<1>12. Serving
  BY <1>1, <1>3, <1>5 DEF Serving
<1>13. PartPc = pc /\ PartResult = result /\ PartCursor = Client
  BY <1>12 DEF PartPc, PartResult, PartCursor
<1>14. In!Callee = Callee
  BY <1>7, <1>10 DEF In!Callee, Callee, InPart
<1> HIDE DEF InPart
<1> QED  BY <1>1, <1>2, <1>3, <1>5, <1>7, <1>8, <1>9, <1>10, <1>11, <1>13, <1>14 DEF SeenAbove

-----------------------------------------------------------------------------
(* What a step of another activation is to the settled ARs.                *)

PartStep == In!Next \/ In!AskAgain \/ In!GiveUp \/ UNCHANGED In!vars

LEMMA LowerMoves ==
    ASSUME TypeOK, SeenBelow, SeenBelow', PartKept, sys' = sys, In!WellRouted, AskedMoves
    PROVE  PartStep
<1>1. /\ Part' = Part /\ Restricted(sys)' = Restricted(sys)
      /\ PartSet' = PartSet /\ PartWork' = PartWork /\ PartSubsets' = PartSubsets
  BY ListsKept
<1>2. PartStack = <<>> /\ PartStack' = <<>> /\ PartDepth' = PartDepth
  BY DEF SeenBelow
<1>3. /\ PartCursor = IF Asked THEN Callee ELSE Nobody
      /\ PartResult = IF Asked THEN result ELSE NoResult
      /\ PartPc = IF Asked THEN pc ELSE "idle"
  BY DEF SeenBelow
<1>4. /\ PartCursor' = IF Asked' THEN Callee' ELSE Nobody
      /\ PartResult' = IF Asked' THEN result' ELSE NoResult
      /\ PartPc' = IF Asked' THEN pc' ELSE "idle"
  BY DEF SeenBelow, Nobody, NoResult
<1> DEFINE Rest == UNCHANGED <<Restricted(sys), PartSet, PartWork, PartSubsets, PartDepth, PartStack>>
<1>5. Rest
  BY <1>1, <1>2
<1>6. CASE ~Asked /\ ~Asked'
  BY <1>3, <1>4, <1>5, <1>6 DEF PartStep, In!vars
<1>7. CASE /\ ~Asked /\ Asked' /\ pc' = "call" /\ result' = NoResult
           /\ Callee' = [AR |-> Callee'.AR, i |-> Callee'.i]
           /\ Callee'.i \in 0 .. Len(Set[Callee'.AR])
  <2>1. Callee'.AR \in Part
    BY <1>1, <1>7 DEF Asked
  <2>2. Callee'.AR \in ARs /\ PartSet[Callee'.AR] = Set[Callee'.AR]
    <3>1. Part \subseteq ARs
      BY SettledTogether DEF TypeOK, Part
    <3> QED  BY <2>1, <3>1 DEF PartSet
  <2>3. In!Query(Callee'.AR, Callee'.i)
    BY <1>3, <1>4, <1>5, <1>7 DEF In!Query, In!Goto, In!NoResult, NoResult
  <2> QED  BY <1>7, <2>2, <2>3 DEF PartStep, In!Next
<1>8. CASE Asked /\ ~Asked' /\ pc = "return"
  <2>1. PartResult.type \in {"NEXT_VALUE", "COMPLETE"}
    BY <1>2, <1>3, <1>8 DEF In!WellRouted
  <2>2. In!Answer
    BY <1>2, <1>3, <1>4, <1>5, <1>8, <2>1 DEF In!Answer, In!Goto, In!NoResult, NoResult, In!Nobody, Nobody
  <2> QED  BY <2>2 DEF PartStep, In!Next, In!Step
<1>9. CASE /\ Asked /\ Asked' /\ pc = "return" /\ result.type = "NEXT_VALUE"
           /\ pc' = "call" /\ result' = NoResult /\ Callee' = Callee
  <2>1. In!AskAgain
    BY <1>2, <1>3, <1>4, <1>5, <1>9 DEF In!AskAgain, In!Goto, In!NoResult, NoResult
  <2> QED  BY <2>1 DEF PartStep
<1> QED  BY <1>6, <1>7, <1>8, <1>9 DEF AskedMoves

LEMMA LowerEnterCached ==
    ASSUME Recursion, SeenBelow, SeenBelow', PartKept, EnterCached, Callee.AR \in Part
    PROVE  PartStep
<1>1. /\ pc = "call" /\ IsCached /\ result' = NextValue(Set[Callee.AR][Callee.i + 1]) /\ pc' = "return"
      /\ sys' = sys
  BY DEF EnterCached, Return
<1>2. /\ Part' = Part /\ Restricted(sys)' = Restricted(sys)
      /\ PartSet' = PartSet /\ PartWork' = PartWork /\ PartSubsets' = PartSubsets
  BY <1>1, ListsKept
<1>3. Callee' = [Callee EXCEPT !.i = @ + 1]
  BY AdvancedCallee
<1>4. Callee.AR \in ARs /\ Callee = [AR |-> Callee.AR, i |-> Callee.i]
  <2>1. cursor \in Enumerators
    BY DEF Recursion, TypeOK
  <2> QED  BY <1>1, <2>1, CalleeType DEF Callee, Enumerators
<1>5. Callee'.AR = Callee.AR
  BY <1>3, <1>4
<1>6. Asked /\ Asked'
  BY <1>1, <1>2, <1>5 DEF Asked, NextValue
<1>7. PartCursor = Callee /\ PartPc = "call" /\ PartStack = <<>> /\ PartDepth = [a \in ARs |-> -1]
  BY <1>1, <1>6 DEF SeenBelow
<1>8. /\ PartCursor' = Callee' /\ PartPc' = "return" /\ PartStack' = <<>> /\ PartDepth' = PartDepth
      /\ PartResult' = result'
  BY <1>1, <1>6 DEF SeenBelow
<1>9. In!Callee = Callee /\ In!CalleeLTD = -1
  BY <1>7 DEF In!Callee, In!CalleeLTD
<1>10. PartSet[Callee.AR] = Set[Callee.AR]
  BY <1>4 DEF PartSet
<1>11. ~In!IsRewrite /\ In!IsCached
  BY <1>1, <1>4, <1>7, <1>9, <1>10 DEF In!IsRewrite, In!IsCached, IsCached
<1>12. In!Return(In!NextValue(PartSet[In!Callee.AR][In!Callee.i + 1]))
  BY <1>1, <1>8, <1>9, <1>10 DEF In!Return, In!NextValue, NextValue
<1>13. In!Advance(PartStack)
  BY <1>2, <1>3, <1>7, <1>8 DEF In!Advance
<1>14. In!EnterCached
  BY <1>2, <1>7, <1>8, <1>11, <1>12, <1>13 DEF In!EnterCached
<1> QED  BY <1>14 DEF PartStep, In!Next, In!Step, In!Enter

LEMMA LowerEnterRun ==
    ASSUME Recursion, Recursion', LTDBelow, SeenBelow, PartKept, EnterRun, Callee.AR \in Part
    PROVE  PartStep /\ HasBase'
<1>1. PICK n \in Nat : Len(stack) = n /\ IsBase(n) /\ Base = n
  BY DEF SeenBelow
<1>2. pc = "call" /\ ~IsCached /\ sys' = sys
  BY DEF EnterRun
<1>3. /\ Part' = Part /\ Restricted(sys)' = Restricted(sys)
      /\ PartSet' = PartSet /\ PartWork' = PartWork /\ PartSubsets' = PartSubsets
  BY <1>2, ListsKept
<1>4. Callee.AR \in ARs
  BY <1>2, CalleeType
<1>5. Asked
  BY <1>2 DEF Asked
<1>6. PartCursor = Callee /\ PartPc = "call" /\ PartStack = <<>> /\ PartDepth = [a \in ARs |-> -1]
  BY <1>2, <1>5 DEF SeenBelow
<1>7. Above(stack, n) = <<>> /\ DepthsFrom(n) = PartDepth /\ ClientFrom(n) = PartCursor
  <2>1. Above(stack, n) = <<>> /\ DepthsFrom(n) = PartDepth /\ ClientFrom(n) = Client
    BY <1>1, <1>6, SeenFrom DEF Recursion
  <2>2. Serving
    <3>1. Client = Callee
      <4>1. CASE n = 0
        BY <1>1, <4>1, StackLen DEF Client, Callee, Recursion
      <4>2. CASE n # 0
        <5>1. Running(n) = Cur /\ stack # <<>>
          BY <1>1, <4>2, StackLen DEF Running, Cur, This, Ctx, Recursion
        <5> QED  BY <1>1, <4>2, <5>1 DEF Client, Callee
      <4> QED  BY <4>1, <4>2
    <3> QED  BY <1>2, <3>1 DEF Serving
  <2> QED  BY <2>1, <2>2 DEF PartCursor
<1> DEFINE c == [AR |-> Callee.AR, LTD |-> CalleeLTD, Pos |-> 1, Retry |-> NoAR]
<1>8. /\ HasBase' /\ PartStack' = Append(<<>>, Lifted(c, n))
      /\ PartDepth' = [PartDepth EXCEPT ![Callee.AR] = 0]
      /\ PartCursor' = PartCursor /\ PartPc' = "run" /\ PartResult' = NoResult
  <2>1. n \in 0 .. n /\ n - n = 0
    OBVIOUS
  <2> QED  BY <1>1, <1>7, <2>1, PushedAbove
<1>9. Lifted(c, n) = [AR |-> Callee.AR, LTD |-> -1, Pos |-> 1, Retry |-> NoAR]
  <2>1. CalleeLTD \in Nat \cup {-1} /\ CalleeLTD < n
    BY <1>1, CalleeLTDType
  <2> QED  BY <2>1 DEF Lifted, Rebased
<1>10. In!Callee = Callee /\ In!CalleeLTD = -1
  BY <1>6 DEF In!Callee, In!CalleeLTD
<1>11. PartSet[Callee.AR] = Set[Callee.AR]
  BY <1>4 DEF PartSet
<1>12. ~In!IsRewrite /\ ~In!IsCached /\ ~In!isEnumerating(In!Callee.AR)
  BY <1>2, <1>4, <1>6, <1>10, <1>11 DEF In!IsRewrite, In!IsCached, In!isEnumerating, IsCached
<1>13. Len(PartStack) = 0
  BY <1>6
<1> HIDE DEF c
<1>14. In!Goto("run")
  BY <1>8 DEF In!Goto, In!NoResult, NoResult
<1>15. PartStack' = Append(PartStack, [AR |-> In!Callee.AR, LTD |-> In!CalleeLTD, Pos |-> 1, Retry |-> NoAR])
  BY <1>6, <1>8, <1>9, <1>10
<1>16. PartDepth' = [PartDepth EXCEPT ![In!Callee.AR] = Len(PartStack)]
  BY <1>8, <1>10, <1>13
<1>17. In!EnterRun
  BY <1>3, <1>6, <1>8, <1>12, <1>14, <1>15, <1>16 DEF In!EnterRun
<1> QED  BY <1>8, <1>17 DEF PartStep, In!Next, In!Step, In!Enter

(* Every step of an activation of none of the settled ARs. *)
LEMMA LowerStep ==
    ASSUME Recursion, Recursion', Routing, InRange, LTDBelow, HasBase, OutPart, Next, In!WellRouted
    PROVE  PartStep /\ HasBase' /\ PartKept
<1>1. PartKept /\ SeenBelow /\ sys' = sys
  BY LowerKeeps, LowerView, NextKeepsSystem
<1>2. CASE EnterRun /\ Callee.AR \in Part
  BY <1>1, <1>2, LowerEnterRun
<1>3. CASE ~(EnterRun /\ Callee.AR \in Part)
  <2>1. HasBase' /\ SeenBelow'
    BY <1>3, LowerFrames
  <2>2. CASE EnterCached /\ Callee.AR \in Part
    BY <1>1, <2>1, <2>2, LowerEnterCached
  <2>3. CASE ~(EnterCached /\ Callee.AR \in Part)
    <3>1. AskedMoves
      BY <1>1, <1>3, <2>3, LowerAsked
    <3>2. TypeOK
      BY DEF Recursion
    <3> QED  BY <1>1, <2>1, <3>1, <3>2, LowerMoves
  <2> QED  BY <1>1, <2>1, <2>2, <2>3
<1> QED  BY <1>2, <1>3

-----------------------------------------------------------------------------
(* Steps of activations of settled ARs.                                    *)

(* Depths of settled ARs. *)
LEMMA UpperDepth ==
    ASSUME Recursion, NEW b, NEW n, SeenAbove(b, n), NEW a \in Part
    PROVE  \/ EnumerationDepth[a] = -1 /\ PartDepth[a] = -1
           \/ EnumerationDepth[a] \in Nat /\ b <= EnumerationDepth[a] /\ PartDepth[a] = EnumerationDepth[a] - b
<1>1. b \in Nat /\ n \in Nat /\ b < n /\ Base = b /\ Len(stack) = n /\ IsBase(b)
  BY DEF SeenAbove
<1>2. a \in ARs /\ EnumerationDepth[a] \in Nat \cup {-1}
  BY PartType DEF Recursion, TypeOK
<1>3. PartDepth[a] = Rebased(EnumerationDepth[a], b)
  BY <1>1, <1>2 DEF PartDepth
<1>4. CASE EnumerationDepth[a] = -1
  BY <1>1, <1>3, <1>4 DEF Rebased
<1>5. CASE EnumerationDepth[a] \in Nat
  <2>1. EnumerationDepth[a] < n /\ stack[EnumerationDepth[a] + 1].AR = a
    BY <1>1, <1>2, <1>5 DEF Recursion, DepthsMirrorStack
  <2>2. b <= EnumerationDepth[a]
    <3> SUFFICES ASSUME EnumerationDepth[a] < b
                 PROVE  FALSE
      BY <1>1, <1>5
    <3>1. EnumerationDepth[a] + 1 \in 1 .. b
      BY <1>1, <1>5
    <3> QED  BY <1>1, <2>1, <3>1 DEF IsBase
  <2> QED  BY <1>1, <1>3, <1>5, <2>2 DEF Rebased
<1> QED  BY <1>2, <1>4, <1>5

(* Frames that differ in nothing but the last one's Pos and Retry. *)
LEMMA StayAbove ==
    ASSUME Recursion, Recursion', InPart, NEW b, NEW n, SeenAbove(b, n), sys' = sys,
           Len(stack') = n, \A k \in 1 .. n - 1 : stack'[k] = stack[k], stack'[n].AR = This,
           EnumerationDepth' = EnumerationDepth, cursor' = cursor,
           \A a \in ARs \ {This} : Work'[a] = Work[a]
    PROVE  /\ HasBase' /\ InPart' /\ Part' = Part /\ Restricted(sys)' = Restricted(sys)
           /\ PartStack' = Above(stack', b) /\ PartDepth' = PartDepth /\ PartCursor' = PartCursor
           /\ PartPc' = pc' /\ PartResult' = result'
<1>1. b \in Nat /\ n \in Nat /\ b < n /\ Base = b /\ Len(stack) = n /\ IsBase(b) /\ This \in ARs
  BY DEF SeenAbove
<1>2. Part' = Part /\ Restricted(sys)' = Restricted(sys) /\ This \in Part
  BY DEF Part, Restricted, About, InPart
<1>3. \A k \in 1 .. b : k \in 1 .. n - 1
  BY <1>1
<1>4. IsBase(b)' /\ Base' = b /\ HasBase'
  <2>1. \A k \in 1 .. b : stack'[k].AR \notin Part
    BY <1>1, <1>3 DEF IsBase
  <2>2. \A k \in b + 1 .. n : stack'[k].AR \in Part
    <3>1. \A k \in b + 1 .. n : k = n \/ (k \in 1 .. n - 1 /\ k \in b + 1 .. n)
      BY <1>1
    <3> QED  BY <1>1, <1>2, <3>1 DEF IsBase
  <2> QED  BY <1>1, <2>1, <2>2, NextBase
<1>5. InPart'
  <2>1. stack' # <<>>
    BY <1>1
  <2> QED  BY <1>1, <1>2, <2>1 DEF InPart, This, Ctx
<1>6. /\ PartStack' = Above(stack', b)
      /\ PartDepth' = DepthsFrom(b)' /\ PartCursor' = ClientFrom(b)' /\ PartPc' = pc' /\ PartResult' = result'
  BY <1>1, <1>4, SeenFromAfter DEF Recursion
<1>7. PartDepth = DepthsFrom(b) /\ PartCursor = ClientFrom(b)
  BY <1>1, SeenFrom DEF Recursion
<1>8. DepthsFrom(b)' = DepthsFrom(b)
  BY <1>2 DEF DepthsFrom
<1>9. ClientFrom(b)' = ClientFrom(b)
  <2>1. CASE b = 0
    BY <2>1 DEF ClientFrom
  <2>2. CASE b # 0
    <3>1. b \in 1 .. b /\ b \in 1 .. n - 1 /\ b \in 1 .. n
      BY <1>1, <2>2
    <3>2. stack[b].AR \notin Part /\ stack'[b] = stack[b]
      BY <1>1, <3>1 DEF IsBase
    <3>3. stack[b].AR \in ARs \ {This}
      <4>1. stack[b] \in Contexts
        BY <1>1, <3>1, ElementOfSeq DEF Recursion, TypeOK
      <4> QED  BY <1>2, <3>2, <4>1 DEF Contexts
    <3>4. Running(b)' = Running(b)
      BY <3>2, <3>3 DEF Running
    <3> QED  BY <3>4, <2>2 DEF ClientFrom
  <2> QED  BY <2>1, <2>2
<1> QED  BY <1>2, <1>4, <1>5, <1>6, <1>7, <1>8, <1>9

LEMMA SameAbove ==
    ASSUME Recursion, Recursion', InPart, NEW b, NEW n, SeenAbove(b, n), sys' = sys,
           stack' = stack, EnumerationDepth' = EnumerationDepth, cursor' = cursor,
           \A a \in ARs \ {This} : Work'[a] = Work[a]
    PROVE  /\ HasBase' /\ InPart' /\ Part' = Part /\ Restricted(sys)' = Restricted(sys)
           /\ PartStack' = PartStack /\ PartDepth' = PartDepth /\ PartCursor' = PartCursor
           /\ PartPc' = pc' /\ PartResult' = result'
<1>1. Len(stack) = n /\ Ctx = stack[n] /\ PartStack = Above(stack, b)
  BY DEF SeenAbove
<1>2. stack'[n].AR = This
  BY <1>1 DEF This
<1> QED  BY <1>1, <1>2, StayAbove

(* The innermost activation returns. *)
LEMMA PopAbove ==
    ASSUME Recursion, Recursion', RootIsCursor, InPart, NEW b, NEW n, SeenAbove(b, n), sys' = sys,
           SuspendedKept, cursor'.AR = cursor.AR, NEW er, Leave(er)
    PROVE  /\ HasBase' /\ Part' = Part /\ Restricted(sys)' = Restricted(sys)
           /\ PartStack' = Front(PartStack) /\ PartDepth' = [PartDepth EXCEPT ![This] = -1]
           /\ IF n = b + 1 /\ er.type = "INLINE"
              THEN PartPc' = "idle" /\ PartResult' = NoResult /\ PartCursor' = Nobody
              ELSE PartPc' = "return" /\ PartResult' = er /\ PartCursor' = ClientFrom(b)'
           /\ n = b + 1 => OutPart'
           /\ n > b + 1 => InPart'
<1>1. /\ b \in Nat /\ n \in Nat /\ b < n /\ Base = b /\ Len(stack) = n /\ IsBase(b) /\ This \in ARs
      /\ PartStack = Above(stack, b) /\ stack # <<>>
  BY DEF SeenAbove, InPart
<1>2. Part' = Part /\ Restricted(sys)' = Restricted(sys) /\ This \in Part
  BY DEF Part, Restricted, About, InPart
<1>3. stack' = Front(stack) /\ EnumerationDepth' = [EnumerationDepth EXCEPT ![This] = -1]
      /\ pc' = "return" /\ result' = er
  BY DEF Leave, Return
<1>4. /\ Len(stack') = n - 1 /\ (stack' = <<>> <=> n = 1)
      /\ \A k \in 1 .. n - 1 : stack'[k] = stack[k]
      /\ Callee'.AR = This
  BY <1>1, <1>3, AfterLeave
<1>5. IsBase(b)' /\ Base' = b /\ HasBase'
  <2>1. n - 1 \in Nat /\ b <= n - 1 /\ \A k \in 1 .. b : k \in 1 .. n - 1
    BY <1>1
  <2>2. \A k \in 1 .. b : stack'[k].AR \notin Part
    BY <1>1, <1>4, <2>1 DEF IsBase
  <2>3. \A k \in b + 1 .. n - 1 : stack'[k].AR \in Part
    <3>1. \A k \in b + 1 .. n - 1 : k \in 1 .. n - 1 /\ k \in b + 1 .. n
      BY <1>1
    <3> QED  BY <1>1, <1>4, <3>1 DEF IsBase
  <2> QED  BY <1>1, <1>4, <2>1, <2>2, <2>3, NextBase
<1>6. PartStack' = Above(stack', b) /\ PartDepth' = DepthsFrom(b)' /\ Client' = ClientFrom(b)'
  BY <1>5, SeenFromAfter DEF Recursion
<1>7. PartStack' = Front(PartStack)
  <2>1. stack \in Seq(Contexts) /\ b \in 0 .. Len(stack) /\ b < Len(stack)
    BY <1>1 DEF Recursion, TypeOK
  <2> QED  BY <1>1, <1>3, <1>6, <2>1, AbovePopped
<1>8. PartDepth' = [PartDepth EXCEPT ![This] = -1]
  <2>1. PartDepth = DepthsFrom(b)
    BY <1>1, SeenFrom DEF Recursion
  <2>2. \A a \in ARs : EnumerationDepth'[a] = IF a = This THEN -1 ELSE EnumerationDepth[a]
    BY <1>1, <1>3 DEF Recursion, TypeOK
  <2>3. Rebased(-1, b) = -1
    BY <1>1 DEF Rebased
  <2> QED  BY <1>1, <1>2, <1>6, <2>1, <2>2, <2>3 DEF DepthsFrom
<1>9. n > b + 1 => InPart'
  <2> SUFFICES ASSUME n > b + 1
               PROVE  InPart'
    OBVIOUS
  <2>1. n - 1 \in b + 1 .. n /\ n - 1 \in 1 .. n - 1 /\ n # 1
    BY <1>1
  <2>2. stack'[n - 1].AR \in Part
    BY <1>1, <1>4, <2>1 DEF IsBase
  <2> QED  BY <1>2, <1>4, <2>1, <2>2 DEF InPart, This, Ctx
<1>10. n = b + 1 => OutPart'
  <2> SUFFICES ASSUME n = b + 1, stack' # <<>>
               PROVE  This' \notin Part'
    BY DEF OutPart, InPart
  <2>1. b \in 1 .. b /\ b = n - 1 /\ b \in 1 .. n - 1
    BY <1>1, <1>4
  <2> QED  BY <1>1, <1>2, <1>4, <2>1 DEF IsBase, This, Ctx
<1>11. CASE n = b + 1
  <2>1. SeenBelow' /\ PartCursor' = (IF Asked THEN Callee ELSE Nobody)'
    <3>1. SeenBelow'
      BY <1>5, <1>10, <1>11, SeenBelowAfter
    <3> QED  BY <3>1 DEF SeenBelow
  <2>2. /\ PartCursor' = IF Asked' THEN Client' ELSE Nobody
        /\ PartResult' = IF Asked' THEN er ELSE NoResult
        /\ PartPc' = IF Asked' THEN "return" ELSE "idle"
    <3>1. Base' = Len(stack')
      BY <1>1, <1>4, <1>5, <1>11
    <3>2. Client' = Callee'
      <4>1. CASE b = 0
        BY <1>4, <1>5, <1>11, <4>1 DEF Client, Callee
      <4>2. CASE b # 0
        <5>1. Running(b)' = Cur'
          BY <1>1, <1>4, <1>11, <4>2 DEF Running, Cur, This, Ctx
        <5> QED  BY <1>1, <1>4, <1>5, <1>11, <4>2, <5>1 DEF Client, Callee
      <4> QED  BY <4>1, <4>2
    <3> QED  BY <1>3, <2>1, <3>2 DEF SeenBelow, Nobody, NoResult
  <2>3. Asked' <=> er.type # "INLINE"
    BY <1>2, <1>3, <1>4 DEF Asked
  <2> QED  BY <1>2, <1>5, <1>6, <1>7, <1>8, <1>9, <1>10, <1>11, <2>2, <2>3
<1>12. CASE n # b + 1
  <2>1. b < Len(stack') /\ n > b + 1
    BY <1>1, <1>4, <1>12
  <2>2. PartCursor' = ClientFrom(b)' /\ PartPc' = pc' /\ PartResult' = result'
    BY <1>5, <2>1, SeenFromAfter DEF Recursion
  <2> QED  BY <1>2, <1>3, <1>5, <1>7, <1>8, <1>9, <1>12, <2>1, <2>2
<1> QED  BY <1>11, <1>12

(* The same if nothing changes that the activations below have. *)
LEMMA PopSame ==
    ASSUME Recursion, NEW b, NEW n, SeenAbove(b, n), InPart, stack' = Front(stack), cursor' = cursor,
           \A a \in ARs \ {This} : Work'[a] = Work[a]
    PROVE  ClientFrom(b)' = PartCursor
<1>1. b \in Nat /\ n \in Nat /\ b < n /\ Len(stack) = n /\ IsBase(b) /\ This \in Part
  BY DEF SeenAbove, InPart
<1>2. PartCursor = ClientFrom(b)
  BY <1>1, SeenFrom DEF Recursion
<1>3. CASE b = 0
  BY <1>2, <1>3 DEF ClientFrom
<1>4. CASE b # 0
  <2>1. b \in 1 .. b /\ b \in 1 .. n - 1 /\ b \in 1 .. n /\ n >= 1
    BY <1>1, <1>4
  <2>2. stack \in Seq(Contexts)
    BY DEF Recursion, TypeOK
  <2>3. stack'[b] = stack[b] /\ stack[b].AR \notin Part
    BY <1>1, <2>1, <2>2, FrontProperties DEF IsBase
  <2>4. stack[b].AR \in ARs \ {This}
    <3>1. stack[b] \in Contexts
      BY <1>1, <2>1, <2>2, ElementOfSeq
    <3> QED  BY <1>1, <2>3, <3>1 DEF Contexts
  <2>5. Running(b)' = Running(b)
    BY <2>3, <2>4 DEF Running
  <2> QED  BY <1>2, <1>4, <2>5 DEF ClientFrom
<1> QED  BY <1>3, <1>4

(* One work list changes. *)
LEMMA PartSetWork ==
    ASSUME Recursion, InPart, NEW b, NEW n, SeenAbove(b, n), Part' = Part, NEW w, SetWork(w)
    PROVE  In!SetWork(w)
<1>1. This \in ARs /\ In!This = This /\ This \in Part
  BY DEF SeenAbove, InPart
<1>2. \A a \in ARs : Work'[a] = IF a = This THEN w ELSE Work[a]
  BY DEF SetWork, Recursion, TypeOK
<1>3. PartWork' = [PartWork EXCEPT ![This] = w]
  BY <1>1, <1>2 DEF PartWork
<1> QED  BY <1>1, <1>3 DEF In!SetWork

LEMMA PartEraseCur ==
    ASSUME Recursion, InPart, NEW b, NEW n, SeenAbove(b, n), Part' = Part, EraseCur
    PROVE  In!EraseCur
<1>1. SetWork(RemoveAt(Work[This], Ctx.Pos))
  BY DEF EraseCur
<1>2. In!SetWork(RemoveAt(Work[This], Ctx.Pos))
  BY <1>1, PartSetWork
<1>3. PartWork[In!This] = Work[This] /\ In!Ctx.Pos = Ctx.Pos
  BY DEF SeenAbove
<1> QED  BY <1>2, <1>3 DEF In!EraseCur, In!RemoveAt, RemoveAt

(* Whether s would be a new subset, and that it is noted. *)
LEMMA PartNoteSubset ==
    ASSUME Recursion, InPart, NEW b, NEW n, SeenAbove(b, n), Part' = Part, NEW s
    PROVE  /\ In!prepareForSubset(This, s) <=> prepareForSubset(This, s)
           /\ NoteSubset(This, s) => In!NoteSubset(This, s)
<1>1. This \in ARs /\ This \in Part /\ PartSubsets[This] = Subsets[This]
  BY DEF SeenAbove, InPart
<1>2. In!prepareForSubset(This, s) <=> prepareForSubset(This, s)
  BY <1>1 DEF In!prepareForSubset, prepareForSubset
<1>3. ASSUME NoteSubset(This, s)
      PROVE  In!NoteSubset(This, s)
  <2>1. \A a \in ARs : Subsets'[a] = IF a = This THEN Subsets[This] \cup ({s} \ {This}) ELSE Subsets[a]
    BY <1>1, <1>3 DEF NoteSubset, Recursion, TypeOK
  <2>2. PartSubsets' = [PartSubsets EXCEPT ![This] = @ \cup ({s} \ {This})]
    BY <1>1, <2>1 DEF PartSubsets
  <2> QED  BY <2>2 DEF In!NoteSubset
<1> QED  BY <1>2, <1>3

(* What is entered, and the depths that are passed. *)
LEMMA UpperCallee ==
    ASSUME Recursion, Inside, InPart, NEW b, NEW n, SeenAbove(b, n), pc = "call"
    PROVE  /\ Callee = [AR |-> Cur.AR, i |-> Cur.i] /\ Callee.AR \in Part /\ In!Callee = Callee
           /\ PartSet[Callee.AR] = Set[Callee.AR]
           /\ In!CalleeLTD = Rebased(CalleeLTD, b)
           /\ In!IsRewrite <=> IsRewrite
           /\ In!IsCached <=> IsCached
           /\ In!isEnumerating(Callee.AR) <=> isEnumerating(Callee.AR)
<1>1. /\ b \in Nat /\ n \in Nat /\ b < n /\ Len(stack) = n /\ stack # <<>>
      /\ In!Callee = Callee /\ In!Cur = Cur /\ In!Ctx.LTD = Rebased(Ctx.LTD, b)
      /\ In!Depth = Depth - b /\ PartStack # <<>>
  BY DEF SeenAbove, InPart
<1>2. Depth = n - 1
  BY <1>1 DEF Depth
<1>3. Callee = [AR |-> Cur.AR, i |-> Cur.i]
  BY <1>1 DEF Callee
<1>4. Callee.AR \in Part /\ PartSet[Callee.AR] = Set[Callee.AR]
  BY <1>3, CurInside
<1>5. In!CalleeLTD = Rebased(CalleeLTD, b)
  <2>1. In!IsTransform(Cur) <=> IsTransform(Cur)
    BY DEF In!IsTransform, IsTransform
  <2>2. Rebased(n - 1, b) = (n - 1) - b
    BY <1>1 DEF Rebased
  <2>3. CASE IsTransform(Cur)
    BY <1>1, <1>2, <2>1, <2>2, <2>3 DEF In!CalleeLTD, CalleeLTD
  <2>4. CASE ~IsTransform(Cur)
    BY <1>1, <2>1, <2>4 DEF In!CalleeLTD, CalleeLTD
  <2> QED  BY <2>3, <2>4
<1>6. CalleeLTD \in Nat \cup {-1}
  BY <1>1, CalleeLTDType DEF Inside
<1>7. \/ EnumerationDepth[Callee.AR] = -1 /\ PartDepth[Callee.AR] = -1
      \/ /\ EnumerationDepth[Callee.AR] \in Nat /\ b <= EnumerationDepth[Callee.AR]
         /\ PartDepth[Callee.AR] = EnumerationDepth[Callee.AR] - b
  BY <1>4, UpperDepth
<1>8. In!IsRewrite <=> IsRewrite
  <2>1. In!IsRewrite <=> Rebased(CalleeLTD, b) < PartDepth[Callee.AR]
    BY <1>1, <1>5 DEF In!IsRewrite
  <2>2. IsRewrite <=> CalleeLTD < EnumerationDepth[Callee.AR]
    BY DEF IsRewrite
  <2> QED  BY <1>1, <1>6, <1>7, <2>1, <2>2 DEF Rebased
<1>9. In!IsCached <=> IsCached
  BY <1>1, <1>4 DEF In!IsCached, IsCached
<1>10. In!isEnumerating(Callee.AR) <=> isEnumerating(Callee.AR)
  BY <1>1, <1>7 DEF In!isEnumerating, isEnumerating
<1> QED  BY <1>1, <1>3, <1>4, <1>5, <1>8, <1>9, <1>10

LEMMA UpperEnter ==
    ASSUME Recursion, Recursion', Inside, InPart, NEW b, NEW n, SeenAbove(b, n), Enter
    PROVE  PartStep /\ HasBase'
<1>1. pc = "call" /\ sys' = sys /\ Set' = Set /\ Subsets' = Subsets
  BY DEF Enter, EnterRewrite, EnterCached, EnterRetry, EnterRun
<1>2. /\ Callee = [AR |-> Cur.AR, i |-> Cur.i] /\ Callee.AR \in Part /\ In!Callee = Callee
      /\ PartSet[Callee.AR] = Set[Callee.AR]
      /\ In!CalleeLTD = Rebased(CalleeLTD, b)
      /\ In!IsRewrite <=> IsRewrite
      /\ In!IsCached <=> IsCached
      /\ In!isEnumerating(Callee.AR) <=> isEnumerating(Callee.AR)
  BY <1>1, UpperCallee
<1>3. /\ b \in Nat /\ n \in Nat /\ b < n /\ Len(stack) = n /\ stack # <<>> /\ IsBase(b) /\ PartPc = pc
      /\ Ctx = stack[n] /\ This \in ARs /\ This \in Part /\ Len(PartStack) = n - b /\ PartStack # <<>>
      /\ In!This = This /\ In!Ctx.Pos = Ctx.Pos /\ PartStack = Above(stack, b)
      /\ PartStack[Len(PartStack)] = In!Ctx
  BY DEF SeenAbove, InPart, In!Ctx
<1>4. CASE EnterRewrite
  <2>1. IsRewrite /\ pc' = "return" /\ result' = Rewrite(Callee.AR)
        /\ UNCHANGED <<Work, EnumerationDepth, stack, cursor>>
    BY <1>4 DEF EnterRewrite, Return
  <2>2. /\ HasBase' /\ Part' = Part /\ Restricted(sys)' = Restricted(sys)
        /\ PartStack' = PartStack /\ PartDepth' = PartDepth /\ PartCursor' = PartCursor
        /\ PartPc' = pc' /\ PartResult' = result'
    BY <1>1, <2>1, SameAbove
  <2>3. In!Return(In!Rewrite(In!Callee.AR))
    BY <1>2, <2>1, <2>2 DEF In!Return, In!Rewrite, Rewrite
  <2>4. In!EnterRewrite
    BY <1>1, <1>2, <1>3, <2>1, <2>2, <2>3, SameLists DEF In!EnterRewrite
  <2> QED  BY <2>2, <2>4 DEF PartStep, In!Next, In!Step, In!Enter
<1>5. CASE EnterRetry
  <2>1. /\ ~IsRewrite /\ ~IsCached /\ isEnumerating(Callee.AR) /\ pc' = "return" /\ result' = Retry(Callee.AR)
        /\ UNCHANGED <<Work, EnumerationDepth, stack, cursor>>
    BY <1>5 DEF EnterRetry, Return
  <2>2. /\ HasBase' /\ Part' = Part /\ Restricted(sys)' = Restricted(sys)
        /\ PartStack' = PartStack /\ PartDepth' = PartDepth /\ PartCursor' = PartCursor
        /\ PartPc' = pc' /\ PartResult' = result'
    BY <1>1, <2>1, SameAbove
  <2>3. In!Return(In!Retry(In!Callee.AR))
    BY <1>2, <2>1, <2>2 DEF In!Return, In!Retry, Retry
  <2>4. In!EnterRetry
    BY <1>1, <1>2, <1>3, <2>1, <2>2, <2>3, SameLists DEF In!EnterRetry
  <2> QED  BY <2>2, <2>4 DEF PartStep, In!Next, In!Step, In!Enter
<1>6. CASE EnterCached
  <2>1. /\ ~IsRewrite /\ IsCached /\ pc' = "return" /\ result' = NextValue(Set[Callee.AR][Callee.i + 1])
        /\ UNCHANGED <<EnumerationDepth, stack>> /\ Advance(stack)
    BY <1>6 DEF EnterCached, Return
  <2>2. Last(stack) = Ctx
    BY <1>1, <1>3, LastFrame
  <2>3. Work' = [Work EXCEPT ![This][Ctx.Pos].i = @ + 1] /\ cursor' = cursor
    BY <1>3, <2>1, <2>2 DEF Advance, This
  <2>4. \A a \in ARs \ {This} : Work'[a] = Work[a]
    BY <2>3 DEF Recursion, TypeOK
  <2>5. /\ HasBase' /\ Part' = Part /\ Restricted(sys)' = Restricted(sys)
        /\ PartStack' = PartStack /\ PartDepth' = PartDepth /\ PartCursor' = PartCursor
        /\ PartPc' = pc' /\ PartResult' = result'
    BY <1>1, <2>1, <2>3, <2>4, SameAbove
  <2>6. PartWork' = [PartWork EXCEPT ![This][Ctx.Pos].i = @ + 1]
    BY <1>3, <2>3, <2>5, PartAdvanced
  <2>7. In!Advance(PartStack)
    <3>1. In!Last(PartStack) = In!Ctx
      BY <1>3 DEF In!Last
    <3>2. In!Last(PartStack).AR = This /\ In!Last(PartStack).Pos = Ctx.Pos
      BY <1>3, <3>1 DEF In!This
    <3> QED  BY <1>3, <2>5, <2>6, <3>2 DEF In!Advance
  <2>8. In!Return(In!NextValue(PartSet[In!Callee.AR][In!Callee.i + 1]))
    BY <1>2, <2>1, <2>5 DEF In!Return, In!NextValue, NextValue
  <2>9. In!EnterCached
    BY <1>1, <1>2, <1>3, <2>1, <2>5, <2>7, <2>8, SameLists DEF In!EnterCached
  <2> QED  BY <2>5, <2>9 DEF PartStep, In!Next, In!Step, In!Enter
<1>7. CASE EnterRun
  <2>1. ~IsRewrite /\ ~IsCached /\ ~isEnumerating(Callee.AR) /\ Work' = Work
    BY <1>7 DEF EnterRun
  <2> DEFINE c == [AR |-> Callee.AR, LTD |-> CalleeLTD, Pos |-> 1, Retry |-> NoAR]
  <2>2. /\ HasBase' /\ Part' = Part
        /\ PartStack' = Append(PartStack, Lifted(c, b))
        /\ PartDepth' = [DepthsFrom(b) EXCEPT ![Callee.AR] = n - b]
        /\ PartCursor' = ClientFrom(b) /\ PartPc' = "run" /\ PartResult' = NoResult
    <3>1. b \in 0 .. n
      BY <1>3
    <3> QED  BY <1>2, <1>3, <1>7, <3>1, PushedAbove
  <2>3. DepthsFrom(b) = PartDepth /\ ClientFrom(b) = PartCursor
    BY <1>3, SeenFrom DEF Recursion
  <2>4. Lifted(c, b) = [AR |-> In!Callee.AR, LTD |-> In!CalleeLTD, Pos |-> 1, Retry |-> NoAR]
    BY <1>2 DEF Lifted
  <2> HIDE DEF c
  <2>5. PartStack' = Append(PartStack, [AR |-> In!Callee.AR, LTD |-> In!CalleeLTD, Pos |-> 1, Retry |-> NoAR])
    BY <2>2, <2>4
  <2>6. PartDepth' = [PartDepth EXCEPT ![In!Callee.AR] = Len(PartStack)]
    BY <1>2, <1>3, <2>2, <2>3
  <2>7. In!Goto("run")
    BY <2>2 DEF In!Goto, In!NoResult, NoResult
  <2>8. Restricted(sys)' = Restricted(sys)
    BY <1>1 DEF Restricted, About
  <2>9. In!EnterRun
    BY <1>1, <1>2, <1>3, <2>1, <2>2, <2>3, <2>5, <2>6, <2>7, <2>8, SameLists DEF In!EnterRun
  <2> QED  BY <2>2, <2>9 DEF PartStep, In!Next, In!Step, In!Enter
<1> QED  BY <1>4, <1>5, <1>6, <1>7 DEF Enter

(* The innermost activation returns er, and all below it keeps its work. *)
LEMMA UpperLeave ==
    ASSUME Recursion, Recursion', RootIsCursor, InPart, NEW b, NEW n, SeenAbove(b, n), sys' = sys,
           SuspendedKept, cursor' = cursor, \A a \in ARs \ {This} : Work'[a] = Work[a],
           NEW er, Leave(er), er.type = "INLINE" => n > b + 1
    PROVE  /\ HasBase' /\ Part' = Part /\ Restricted(sys)' = Restricted(sys)
           /\ In!Leave(er) /\ PartCursor' = PartCursor
<1>1. /\ HasBase' /\ Part' = Part /\ Restricted(sys)' = Restricted(sys)
      /\ PartStack' = Front(PartStack) /\ PartDepth' = [PartDepth EXCEPT ![This] = -1]
      /\ PartPc' = "return" /\ PartResult' = er /\ PartCursor' = ClientFrom(b)'
  <2>1. b \in Nat
    BY DEF SeenAbove
  <2>2. ~(n = b + 1 /\ er.type = "INLINE")
    BY <2>1
  <2> QED  BY <2>2, PopAbove
<1>2. stack' = Front(stack)
  BY DEF Leave
<1>3. ClientFrom(b)' = PartCursor
  BY <1>2, PopSame
<1>4. In!This = This
  BY DEF SeenAbove
<1> QED  BY <1>1, <1>3, <1>4 DEF In!Leave, In!Return, In!Front, Front

LEMMA UpperRun ==
    ASSUME Recursion, Recursion', Routing, Inside, InPart, NEW b, NEW n, SeenAbove(b, n), Run
    PROVE  PartStep /\ HasBase'
<1>1. pc = "run" /\ sys' = sys /\ Set' = Set /\ Subsets' = Subsets /\ cursor' = cursor
  BY DEF Run, RunInline, RunRecurse, EndComplete, EndCancelRetry, EndRetry
<1>2. /\ b \in Nat /\ n \in Nat /\ b < n /\ Len(stack) = n /\ stack # <<>> /\ PartPc = pc
      /\ Ctx \in Contexts /\ This \in ARs /\ Len(PartStack) = n - b
      /\ In!This = This /\ In!Ctx.Retry = Ctx.Retry /\ In!Ctx.LTD = Rebased(Ctx.LTD, b)
      /\ In!Cur = Cur /\ (In!AtEnd <=> AtEnd) /\ In!Depth = Depth - b
      /\ PartWork[This] = Work[This] /\ PartStack \in Seq(Contexts)
  <2>1. stack \in Seq(Contexts) /\ b \in 0 .. Len(stack)
    BY DEF SeenAbove, Recursion, TypeOK
  <2>2. PartStack \in Seq(Contexts)
    BY <2>1, AboveType DEF SeenAbove
  <2> QED  BY <2>2 DEF SeenAbove, InPart
<1>3. In!IsSubset(In!Cur) <=> IsSubset(Cur)
  BY <1>2 DEF In!IsSubset, IsSubset
<1>4. Depth = n - 1 /\ Ctx.LTD \in Nat \cup {-1}
  BY <1>2 DEF Depth, Contexts
<1>5. (canInline /\ n > b + 1 => In!canInline) /\ (In!canInline => canInline)
  BY <1>2, <1>4 DEF canInline, In!canInline, Rebased
<1>6. CASE RunInline
  <2>1. /\ ~AtEnd /\ IsSubset(Cur) /\ canInline /\ Leave(Inline(Cur)) /\ Work' = Work
    BY <1>6 DEF RunInline
  <2>2. SuspendedKept
    BY <1>6, LeaveKept
  <2>3. CASE n > b + 1
    <3>1. /\ HasBase' /\ Part' = Part /\ Restricted(sys)' = Restricted(sys)
          /\ In!Leave(Inline(Cur)) /\ PartCursor' = PartCursor
      BY <1>1, <2>1, <2>2, <2>3, UpperLeave DEF Routing
    <3>2. In!Leave(In!Inline(In!Cur))
      BY <1>2, <3>1 DEF In!Inline, Inline
    <3>3. In!RunInline
      BY <1>1, <1>2, <1>3, <1>5, <2>1, <2>3, <3>1, <3>2, SameLists DEF In!RunInline
    <3> QED  BY <3>1, <3>3 DEF PartStep, In!Next, In!Step, In!Run
  <2>4. CASE n = b + 1
    <3>1. /\ HasBase' /\ Part' = Part /\ Restricted(sys)' = Restricted(sys)
          /\ PartStack' = Front(PartStack) /\ PartDepth' = [PartDepth EXCEPT ![This] = -1]
          /\ PartPc' = "idle" /\ PartResult' = NoResult /\ PartCursor' = Nobody
      <4>1. Inline(Cur).type = "INLINE" /\ cursor'.AR = cursor.AR
        BY <1>1 DEF Inline
      <4> QED  BY <1>1, <2>1, <2>2, <2>4, <4>1, PopAbove DEF Routing
    <3>2. Front(PartStack) = <<>>
      <4>1. Len(PartStack) = 1
        BY <1>2, <2>4
      <4>2. Front(PartStack) \in Seq(Contexts) /\ Len(Front(PartStack)) = 1 - 1
        BY <1>2, <4>1, FrontProperties
      <4> QED  BY <4>2
    <3>3. In!Depth = 0
      BY <1>2, <1>4, <2>4
    <3>4. In!GiveUp
      BY <1>1, <1>2, <1>3, <2>1, <3>1, <3>2, <3>3, SameLists
         DEF In!GiveUp, In!Goto, In!NoResult, NoResult, In!Nobody, Nobody
    <3> QED  BY <3>1, <3>4 DEF PartStep
  <2> QED  BY <1>2, <2>3, <2>4
<1>7. CASE RunRecurse
  <2>1. ~AtEnd /\ ~(IsSubset(Cur) /\ canInline) /\ pc' = "call" /\ result' = NoResult
        /\ UNCHANGED <<Work, EnumerationDepth, stack>>
    BY <1>7 DEF RunRecurse, Goto
  <2>2. /\ HasBase' /\ Part' = Part /\ Restricted(sys)' = Restricted(sys)
        /\ PartStack' = PartStack /\ PartDepth' = PartDepth /\ PartCursor' = PartCursor
        /\ PartPc' = pc' /\ PartResult' = result'
    BY <1>1, <2>1, SameAbove
  <2>3. In!RunRecurse
    BY <1>1, <1>2, <1>3, <1>5, <2>1, <2>2, SameLists DEF In!RunRecurse, In!Goto, In!NoResult, NoResult
  <2> QED  BY <2>2, <2>3 DEF PartStep, In!Next, In!Step, In!Run
<1>8. CASE EndComplete
  <2>1. AtEnd /\ Ctx.Retry = NoAR /\ Leave(Complete) /\ Work' = Work /\ Complete.type # "INLINE"
    BY <1>8 DEF EndComplete, Complete
  <2>2. SuspendedKept
    BY <1>8, LeaveKept
  <2>3. /\ HasBase' /\ Part' = Part /\ Restricted(sys)' = Restricted(sys)
        /\ In!Leave(Complete) /\ PartCursor' = PartCursor
    BY <1>1, <2>1, <2>2, UpperLeave DEF Routing
  <2>4. In!Leave(In!Complete)
    BY <2>3 DEF In!Complete, Complete
  <2>5. In!EndComplete
    BY <1>1, <1>2, <2>1, <2>3, <2>4, SameLists DEF In!EndComplete
  <2> QED  BY <2>3, <2>5 DEF PartStep, In!Next, In!Step, In!Run
<1>9. CASE EndCancelRetry
  <2>1. AtEnd /\ Ctx.Retry = This /\ Leave(Complete) /\ SetWork(<<>>) /\ Complete.type # "INLINE"
    BY <1>9 DEF EndCancelRetry, Complete
  <2>2. SuspendedKept /\ \A a \in ARs \ {This} : Work'[a] = Work[a]
    BY <1>2, <1>9, <2>1, LeaveKept, SetWorkItems
  <2>3. /\ HasBase' /\ Part' = Part /\ Restricted(sys)' = Restricted(sys)
        /\ In!Leave(Complete) /\ PartCursor' = PartCursor
    BY <1>1, <2>1, <2>2, UpperLeave DEF Routing
  <2>4. In!Leave(In!Complete)
    BY <2>3 DEF In!Complete, Complete
  <2>5. In!SetWork(<<>>)
    BY <2>1, <2>3, PartSetWork
  <2>6. In!EndCancelRetry
    BY <1>1, <1>2, <2>1, <2>3, <2>4, <2>5, SameLists, NullsAssumption DEF In!EndCancelRetry
  <2> QED  BY <2>3, <2>6 DEF PartStep, In!Next, In!Step, In!Run
<1>10. CASE EndRetry
  <2>1. AtEnd /\ Ctx.Retry \notin {NoAR, This} /\ Leave(Retry(Ctx.Retry)) /\ Work' = Work
        /\ Retry(Ctx.Retry).type # "INLINE"
    BY <1>10 DEF EndRetry, Retry
  <2>2. SuspendedKept
    BY <1>10, LeaveKept
  <2>3. /\ HasBase' /\ Part' = Part /\ Restricted(sys)' = Restricted(sys)
        /\ In!Leave(Retry(Ctx.Retry)) /\ PartCursor' = PartCursor
    BY <1>1, <2>1, <2>2, UpperLeave DEF Routing
  <2>4. In!Leave(In!Retry(In!Ctx.Retry))
    BY <1>2, <2>3 DEF In!Retry, Retry
  <2>5. In!EndRetry
    BY <1>1, <1>2, <2>1, <2>3, <2>4, SameLists DEF In!EndRetry
  <2> QED  BY <2>3, <2>5 DEF PartStep, In!Next, In!Step, In!Run
<1> QED  BY <1>6, <1>7, <1>8, <1>9, <1>10 DEF Run

(* The two views of what an activation of a settled AR handles. *)
LEMMA UpperReturned ==
    ASSUME InPart, NEW b, NEW n, SeenAbove(b, n), pc = "return"
    PROVE  /\ b \in Nat /\ n \in Nat /\ b < n /\ Len(stack) = n /\ stack # <<>> /\ PartStack # <<>>
           /\ Ctx \in Contexts /\ This \in ARs /\ This \in Part /\ In!This = This
           /\ In!Cur = Cur /\ PartSet[This] = Set[This] /\ PartWork[This] = Work[This]
           /\ In!Ctx.Pos = Ctx.Pos /\ PartResult = result /\ PartPc = "return"
           /\ In!IsSubset(In!Cur) <=> IsSubset(Cur)
           /\ In!IsTransform(In!Cur) <=> IsTransform(Cur)
           /\ \A t : In!Returned(t) <=> Returned(t)
           /\ \A s, v : In!Contains(s, v) <=> Contains(s, v)
           /\ In!Analyzed = Analyzed
<1>1. /\ b \in Nat /\ n \in Nat /\ b < n /\ Len(stack) = n /\ stack # <<>> /\ PartStack # <<>>
      /\ Ctx \in Contexts /\ This \in ARs /\ This \in Part /\ In!This = This
      /\ In!Cur = Cur /\ PartSet[This] = Set[This] /\ PartWork[This] = Work[This]
      /\ In!Ctx.Pos = Ctx.Pos /\ PartResult = result /\ PartPc = "return"
  BY DEF SeenAbove, InPart
<1>2. /\ In!IsSubset(In!Cur) <=> IsSubset(Cur)
      /\ In!IsTransform(In!Cur) <=> IsTransform(Cur)
  BY <1>1 DEF In!IsSubset, IsSubset, In!IsTransform, IsTransform
<1>3. \A t : In!Returned(t) <=> Returned(t)
  BY <1>1 DEF In!Returned, Returned
<1>4. \A s, v : In!Contains(s, v) <=> Contains(s, v)
  BY DEF In!Contains, Contains
<1>5. In!Analyzed = Analyzed
  BY <1>1 DEF In!Analyzed, Analyzed, Restricted, About
<1> QED  BY <1>1, <1>2, <1>3, <1>4, <1>5

(* The AR to retry at is a settled one, if a settled one is to retry. *)
LEMMA UpperCancellation ==
    ASSUME Recursion, In!Routing, InPart, NEW b, NEW n, SeenAbove(b, n), Returned("RETRY")
    PROVE  In!CancellationPoint(Ctx.Retry, result.AR) = CancellationPoint(Ctx.Retry, result.AR)
<1>1. pc = "return" /\ result.type = "RETRY"
  BY DEF Returned
<1>2. /\ PartPc = "return" /\ PartResult = result /\ Ctx \in Contexts /\ PartStack # <<>>
      /\ In!Ctx.Retry = Ctx.Retry /\ b \in Nat /\ n \in Nat /\ b < n /\ Len(PartStack) = n - b
      /\ In!Ctx = PartStack[Len(PartStack)]
  BY <1>1 DEF SeenAbove, In!Ctx
<1>3. result.AR \in ARs
  BY <1>1 DEF Recursion, ControlOK
<1>4. PartDepth[result.AR] \in Nat
  BY <1>1, <1>2 DEF In!Routing, In!ResultRouted
<1>5. result.AR \in Part
  BY <1>3, <1>4 DEF PartDepth
<1>6. Ctx.Retry # NoAR => Ctx.Retry \in Part
  <2> SUFFICES ASSUME Ctx.Retry # NoAR
               PROVE  Ctx.Retry \in Part
    OBVIOUS
  <2>1. Ctx.Retry \in ARs
    BY <1>2 DEF Contexts
  <2>2. Len(PartStack) \in 1 .. Len(PartStack)
    BY <1>2
  <2>3. PartDepth[Ctx.Retry] \in 0 .. Len(PartStack) - 1
    BY <1>2, <2>2 DEF In!Routing, In!RetriesBelow
  <2> QED  BY <2>1, <2>3 DEF PartDepth
<1>7. Ctx.Retry # NoAR => (PartDepth[result.AR] < PartDepth[Ctx.Retry]
                           <=> EnumerationDepth[result.AR] < EnumerationDepth[Ctx.Retry])
  <2> SUFFICES ASSUME Ctx.Retry # NoAR
               PROVE  (PartDepth[result.AR] < PartDepth[Ctx.Retry]
                       <=> EnumerationDepth[result.AR] < EnumerationDepth[Ctx.Retry])
    OBVIOUS
  <2>1. \/ EnumerationDepth[result.AR] = -1 /\ PartDepth[result.AR] = -1
        \/ /\ EnumerationDepth[result.AR] \in Nat /\ b <= EnumerationDepth[result.AR]
           /\ PartDepth[result.AR] = EnumerationDepth[result.AR] - b
    BY <1>5, UpperDepth
  <2>2. \/ EnumerationDepth[Ctx.Retry] = -1 /\ PartDepth[Ctx.Retry] = -1
        \/ /\ EnumerationDepth[Ctx.Retry] \in Nat /\ b <= EnumerationDepth[Ctx.Retry]
           /\ PartDepth[Ctx.Retry] = EnumerationDepth[Ctx.Retry] - b
    BY <1>6, UpperDepth
  <2> QED  BY <1>2, <2>1, <2>2
<1> QED  BY <1>7 DEF In!CancellationPoint, CancellationPoint

LEMMA UpperSkipRetried ==
    ASSUME Recursion, Recursion', In!Routing, InPart, NEW b, NEW n, SeenAbove(b, n), SkipRetried
    PROVE  PartStep /\ HasBase'
<1>1. /\ Returned("RETRY") /\ pc' = "run" /\ result' = NoResult
      /\ UNCHANGED <<sys, Set, Work, Subsets, EnumerationDepth, cursor>>
      /\ stack' = [stack EXCEPT ![Len(stack)].Pos = @ + 1,
                                ![Len(stack)].Retry = CancellationPoint(@, result.AR)]
  BY DEF SkipRetried, Goto
<1>2. pc = "return"
  BY <1>1 DEF Returned
<1>3. /\ b \in Nat /\ n \in Nat /\ b < n /\ Len(stack) = n /\ Ctx = stack[n] /\ Ctx \in Contexts
      /\ PartStack = Above(stack, b) /\ PartStack[Len(PartStack)] = Lifted(Ctx, b) /\ This = Ctx.AR
  BY DEF SeenAbove, This
<1> DEFINE point == CancellationPoint(Ctx.Retry, result.AR)
           c == [Ctx EXCEPT !.Pos = @ + 1, !.Retry = point]
<1>4. point \in ARs \cup {NoAR}
  BY <1>1, <1>3 DEF CancellationPoint, Contexts, Recursion, ControlOK, Returned
<1>5. stack \in Seq(Contexts) /\ n \in 1 .. n /\ n \in DOMAIN stack
  BY <1>3 DEF Recursion, TypeOK
<1>6. stack' = [stack EXCEPT ![n] = c]
  BY <1>1, <1>3, <1>5
<1>7. c \in Contexts /\ c.AR = Ctx.AR /\ c.LTD = Ctx.LTD /\ c.Pos = Ctx.Pos + 1 /\ c.Retry = point
  <2> HIDE DEF point
  <2>1. Ctx.Pos + 1 \in Nat \ {0}
    BY <1>3 DEF Contexts
  <2> QED  BY <1>3, <1>4, <2>1 DEF Contexts
<1>8. Lifted(c, b) = [Lifted(Ctx, b) EXCEPT !.Pos = @ + 1, !.Retry = point]
  <2> HIDE DEF point
  <2> QED  BY <1>3 DEF Lifted, Contexts
<1> HIDE DEF c
<1>9. /\ HasBase' /\ Part' = Part /\ Restricted(sys)' = Restricted(sys)
      /\ PartStack' = Above(stack', b) /\ PartDepth' = PartDepth /\ PartCursor' = PartCursor
      /\ PartPc' = pc' /\ PartResult' = result'
  <2>1. Len(stack') = n /\ stack'[n].AR = This /\ \A k \in 1 .. n - 1 : stack'[k] = stack[k]
    BY <1>3, <1>5, <1>6, <1>7
  <2> QED  BY <1>1, <2>1, StayAbove
<1>10. PartStack' = [PartStack EXCEPT ![Len(PartStack)] = Lifted(c, b)]
  <2>1. b \in 0 .. Len(stack) /\ b < Len(stack)
    BY <1>3
  <2> QED  BY <1>3, <1>5, <1>6, <1>7, <1>9, <2>1, AboveEdited
<1>11. point = In!CancellationPoint(Ctx.Retry, result.AR)
  BY <1>1, UpperCancellation
<1> HIDE DEF point
<1>12. PartResult = result /\ \A t : In!Returned(t) <=> Returned(t)
  BY <1>2, UpperReturned
<1>13. Lifted(Ctx, b).Retry = Ctx.Retry
  BY <1>3, LiftedType
<1>14. PartStack' = [PartStack EXCEPT ![Len(PartStack)].Pos = @ + 1,
                             ![Len(PartStack)].Retry = In!CancellationPoint(@, PartResult.AR)]
  <2>1. Len(PartStack) \in DOMAIN PartStack
    <3>1. b \in 0 .. Len(stack)
      BY <1>3
    <3>2. PartStack \in Seq(Contexts) /\ Len(PartStack) = n - b
      BY <1>3, <1>5, <3>1, AboveType
    <3> QED  BY <1>3, <3>2
  <2>2. \A p : [PartStack EXCEPT ![Len(PartStack)].Pos = @ + 1, ![Len(PartStack)].Retry = p]
                = [PartStack EXCEPT ![Len(PartStack)] =
                      [PartStack[Len(PartStack)] EXCEPT !.Pos = @ + 1, !.Retry = p]]
    BY <2>1
  <2>3. In!CancellationPoint(PartStack[Len(PartStack)].Retry, PartResult.AR) = point
    BY <1>3, <1>11, <1>12, <1>13
  <2>4. PartStack' = [PartStack EXCEPT ![Len(PartStack)] =
                      [PartStack[Len(PartStack)] EXCEPT !.Pos = @ + 1, !.Retry = point]]
    BY <1>3, <1>8, <1>10
  <2>5. PartStack' = [PartStack EXCEPT ![Len(PartStack)].Pos = @ + 1, ![Len(PartStack)].Retry = point]
    BY <2>2, <2>4
  <2> QED  BY <2>3, <2>5
<1>15. In!SkipRetried
  BY <1>1, <1>9, <1>12, <1>14, SameLists DEF In!SkipRetried, In!Goto, In!NoResult, NoResult
<1> QED  BY <1>9, <1>15 DEF PartStep, In!Next, In!Step, In!Handle

LEMMA UpperAddNewValue ==
    ASSUME Recursion, Recursion', Routing, InPart, NEW b, NEW n, SeenAbove(b, n), AddNewValue
    PROVE  PartStep /\ HasBase'
<1>1. /\ Returned("NEXT_VALUE") /\ IsSubset(Cur) /\ ~Contains(Set[This], result.VI)
      /\ Leave(result) /\ sys' = sys /\ Subsets' = Subsets /\ pc = "return" /\ result.type # "INLINE"
  BY DEF AddNewValue, Returned
<1>2. /\ b \in Nat /\ n \in Nat /\ b < n /\ Len(stack) = n /\ IsBase(b)
      /\ This \in ARs /\ This \in Part /\ In!This = This
      /\ In!Cur = Cur /\ PartSet[This] = Set[This] /\ PartResult = result
      /\ In!IsSubset(In!Cur) <=> IsSubset(Cur)
      /\ \A t : In!Returned(t) <=> Returned(t)
      /\ \A s, v : In!Contains(s, v) <=> Contains(s, v)
      /\ PartStack = Above(stack, b) /\ Len(PartStack) = n - b
  <2>1. IsBase(b) /\ PartStack = Above(stack, b) /\ Len(PartStack) = n - b
    BY DEF SeenAbove
  <2> QED  BY <1>1, <2>1, UpperReturned
<1>3. SuspendedKept /\ cursor'.AR = cursor.AR
  BY LeaveKept
<1>4. /\ HasBase' /\ Part' = Part /\ Restricted(sys)' = Restricted(sys)
      /\ PartStack' = Front(PartStack) /\ PartDepth' = [PartDepth EXCEPT ![This] = -1]
      /\ PartPc' = "return" /\ PartResult' = result /\ PartCursor' = ClientFrom(b)'
  <2>1. ~(n = b + 1 /\ result.type = "INLINE") /\ RootIsCursor
    BY <1>1 DEF Routing
  <2> QED  BY <1>1, <1>3, <2>1, PopAbove
<1>5. In!Leave(PartResult)
  BY <1>2, <1>4 DEF In!Leave, In!Return, In!Front, Front
<1>6. /\ Set' = [Set EXCEPT ![This] = Append(@, result.VI)]
      /\ n = 1 => cursor' = [cursor EXCEPT !.i = @ + 1] /\ Work' = Work
      /\ n > 1 => /\ cursor' = cursor
                  /\ n - 1 \in 1 .. Len(stack)
                  /\ Work' = [Work EXCEPT ![stack[n - 1].AR][stack[n - 1].Pos].i = @ + 1]
                  /\ \A a \in ARs \ {stack[n - 1].AR} : Work'[a] = Work[a]
  BY <1>2, CallerAdvanced
<1>7. PartSet' = [PartSet EXCEPT ![This] = Append(@, result.VI)]
  <2>1. \A a \in ARs : Set'[a] = IF a = This THEN Append(Set[This], result.VI) ELSE Set[a]
    BY <1>2, <1>6 DEF Recursion, TypeOK
  <2> QED  BY <1>2, <1>4, <2>1 DEF PartSet
<1>8. PartCursor = ClientFrom(b)
  BY <1>2, SeenFrom DEF Recursion
<1>9. stack \in Seq(Contexts) /\ stack' = Front(stack)
  BY <1>1 DEF Recursion, TypeOK, Leave
<1>10. PartStack \in Seq(Contexts) /\ \A k \in 1 .. n - b : PartStack[k] = Lifted(stack[k + b], b)
  <2>1. b \in 0 .. Len(stack)
    BY <1>2
  <2> QED  BY <1>2, <1>9, <2>1, AboveType
<1>11. In!Advance(In!Front(PartStack))
  <2>1. Front(PartStack) \in Seq(Contexts) /\ Len(Front(PartStack)) = n - b - 1
        /\ \A k \in 1 .. n - b - 1 : Front(PartStack)[k] = PartStack[k]
    <3>1. n - b \in Nat /\ n - b >= 1
      BY <1>2
    <3> DEFINE m == n - b
    <3>2. Len(PartStack) = m /\ m \in Nat /\ m >= 1
      BY <1>2, <3>1
    <3> HIDE DEF m
    <3>3. Front(PartStack) \in Seq(Contexts) /\ Len(Front(PartStack)) = m - 1
          /\ \A k \in 1 .. m - 1 : Front(PartStack)[k] = PartStack[k]
      BY <1>10, <3>2, FrontProperties
    <3> QED  BY <3>3 DEF m
  <2>2. In!Front(PartStack) = Front(PartStack)
    BY DEF In!Front, Front
  <2>3. CASE n = b + 1
    <3>1. Front(PartStack) = <<>>
      BY <2>1, <2>3, <1>2
    <3>2. PartCursor' = [PartCursor EXCEPT !.i = @ + 1] /\ PartWork' = PartWork
      <4>1. CASE b = 0
        <5>1. cursor' = [cursor EXCEPT !.i = @ + 1] /\ Work' = Work
          BY <1>6, <2>3, <4>1
        <5> QED  BY <1>4, <1>8, <4>1, <5>1, SameLists DEF ClientFrom
      <4>2. CASE b # 0
        <5>1. n > 1 /\ n - 1 = b /\ b \in 1 .. b /\ b \in 1 .. n - 1 /\ n >= 1 /\ b \in 1 .. n
          BY <1>2, <2>3, <4>2
        <5>2. /\ Work' = [Work EXCEPT ![stack[b].AR][stack[b].Pos].i = @ + 1]
              /\ \A a \in ARs \ {stack[b].AR} : Work'[a] = Work[a]
          BY <1>6, <5>1
        <5>3. stack[b].AR \notin Part
          BY <1>2, <5>1 DEF IsBase
        <5>4. PartWork' = PartWork
          BY <1>4, <5>2, <5>3 DEF PartWork
        <5>5. stack'[b] = stack[b]
          BY <1>2, <1>9, <5>1, FrontProperties
        <5>6. /\ stack[b].AR \in ARs /\ stack[b].Pos \in 1 .. Len(Work[stack[b].AR])
              /\ Running(b) \in Works
          <6>1. b < Len(stack) /\ b \in 1 .. Len(stack)
            BY <1>2, <5>1
          <6> QED  BY <6>1, RunningItem
        <5>7. Running(b)' = [Running(b) EXCEPT !.i = @ + 1]
          <6>1. Work[stack[b].AR] \in Seq(Works) /\ Work \in [ARs -> Seq(Works)]
            BY <5>6 DEF Recursion, TypeOK
          <6>2. Work'[stack[b].AR] = [Work[stack[b].AR] EXCEPT ![stack[b].Pos].i = @ + 1]
            BY <5>2, <5>6, <6>1
          <6>3. Work'[stack[b].AR][stack[b].Pos] = [Work[stack[b].AR][stack[b].Pos] EXCEPT !.i = @ + 1]
            BY <5>6, <6>1, <6>2
          <6> QED  BY <5>5, <6>3 DEF Running
        <5>8. Running(b)'.AR = Running(b).AR /\ Running(b)'.i = Running(b).i + 1
          BY <5>6, <5>7 DEF Works, SubsetWorks, TransformWorks
        <5> QED  BY <1>4, <1>8, <4>2, <5>4, <5>8 DEF ClientFrom
      <4> QED  BY <4>1, <4>2
    <3> QED  BY <2>2, <3>1, <3>2 DEF In!Advance
  <2>4. CASE n # b + 1
    <3>1. n > 1 /\ n - 1 > b /\ n - b - 1 \in 1 .. n - b - 1 /\ n - b - 1 \in 1 .. n - b /\ (n - b - 1) + b = n - 1
          /\ n - 1 \in b + 1 .. n
      BY <1>2, <2>4
    <3>2. PartStack[n - b - 1] = Lifted(stack[n - 1], b)
      BY <1>10, <3>1
    <3>3. Front(PartStack) # <<>> /\ Last(Front(PartStack)) = Lifted(stack[n - 1], b)
      <4>1. Front(PartStack)[n - b - 1] = Lifted(stack[n - 1], b)
        BY <2>1, <3>1, <3>2
      <4>2. Len(Front(PartStack)) = n - b - 1 /\ n - b - 1 # 0
        BY <2>1, <3>1
      <4>3. Front(PartStack) # <<>>
        BY <4>2
      <4> QED  BY <4>1, <4>2, <4>3 DEF Last
    <3>4. stack[n - 1].AR \in Part
      BY <1>2, <3>1 DEF IsBase
    <3>5. stack[n - 1] \in Contexts
      BY <1>2, <1>6, <1>9, <3>1, ElementOfSeq
    <3>6. Lifted(stack[n - 1], b).AR = stack[n - 1].AR /\ Lifted(stack[n - 1], b).Pos = stack[n - 1].Pos
      BY <1>2, <3>5, LiftedType
    <3>7. Work' = [Work EXCEPT ![stack[n - 1].AR][stack[n - 1].Pos].i = @ + 1] /\ cursor' = cursor
      BY <1>6, <3>1
    <3>8. PartWork' = [PartWork EXCEPT ![stack[n - 1].AR][stack[n - 1].Pos].i = @ + 1]
      BY <1>4, <3>4, <3>7, PartAdvanced
    <3>9. PartCursor' = PartCursor
      <4>1. CASE b = 0
        BY <1>4, <1>8, <3>7, <4>1 DEF ClientFrom
      <4>2. CASE b # 0
        <5>1. b \in 1 .. b /\ b \in 1 .. n - 1 /\ n >= 1 /\ b \in 1 .. n
          BY <1>2, <4>2
        <5>2. stack'[b] = stack[b] /\ stack[b].AR \notin Part /\ stack[b] \in Contexts
          BY <1>2, <1>9, <5>1, FrontProperties, ElementOfSeq DEF IsBase
        <5>3. Work'[stack[b].AR] = Work[stack[b].AR]
          <6>1. stack[b].AR \in ARs \ {stack[n - 1].AR}
            BY <3>4, <5>2 DEF Contexts
          <6> QED  BY <1>6, <3>1, <6>1
        <5>4. Running(b)' = Running(b)
          BY <5>2, <5>3 DEF Running
        <5> QED  BY <1>4, <1>8, <4>2, <5>4 DEF ClientFrom
      <4> QED  BY <4>1, <4>2
    <3>10. In!Last(In!Front(PartStack)) = Last(Front(PartStack))
      BY <2>2 DEF In!Last, Last
    <3> QED  BY <2>2, <3>3, <3>6, <3>8, <3>9, <3>10 DEF In!Advance
  <2> QED  BY <2>3, <2>4
<1>12. In!AddNewValue
  BY <1>1, <1>2, <1>4, <1>5, <1>7, <1>11, SameLists DEF In!AddNewValue
<1> QED  BY <1>4, <1>12 DEF PartStep, In!Next, In!Step, In!Handle

LEMMA UpperHandle ==
    ASSUME Recursion, Recursion', Routing, In!Routing, In!NothingRewritten, InPart,
           NEW b, NEW n, SeenAbove(b, n), Handle
    PROVE  PartStep /\ HasBase'
<1>1. pc \in {"return", "rewrite"} /\ PartPc = pc /\ PartResult = result /\ In!This = This
  BY DEF SeenAbove, Handle, AddNewValue, SkipKnownValue, TransformToNothing, TransformToSubset,
         InlineSubset, DropInlined, SkipRetried, EraseCompleted,
         RewriteHere, RewriteBegin, RewriteKeep, RewriteDrop, RewriteSplice, Returned
<1>2. pc = "return" /\ result.type # "REWRITE"
  BY <1>1 DEF In!NothingRewritten
<1>3. ~(RewriteHere \/ RewriteBegin \/ RewriteKeep \/ RewriteDrop \/ RewriteSplice)
  BY <1>2 DEF RewriteHere, RewriteBegin, RewriteKeep, RewriteDrop, RewriteSplice, Returned
<1>4. /\ stack # <<>> /\ This \in ARs /\ This \in Part
      /\ In!Cur = Cur /\ PartSet[This] = Set[This] /\ PartWork[This] = Work[This]
      /\ In!Ctx.Pos = Ctx.Pos /\ PartPc = "return"
      /\ In!IsSubset(In!Cur) <=> IsSubset(Cur)
      /\ In!IsTransform(In!Cur) <=> IsTransform(Cur)
      /\ \A t : In!Returned(t) <=> Returned(t)
      /\ \A s, v : In!Contains(s, v) <=> Contains(s, v)
      /\ In!Analyzed = Analyzed
  BY <1>2, UpperReturned
<1>5. ASSUME UNCHANGED <<sys, stack, EnumerationDepth, cursor>>,
             \A a \in ARs \ {This} : Work'[a] = Work[a]
      PROVE  /\ HasBase' /\ Part' = Part /\ Restricted(sys)' = Restricted(sys)
             /\ PartStack' = PartStack /\ PartDepth' = PartDepth /\ PartCursor' = PartCursor
             /\ PartPc' = pc' /\ PartResult' = result'
  BY <1>5, SameAbove
<1>6. \A l : pc' = l /\ result' = NoResult /\ PartPc' = pc' /\ PartResult' = result' => In!Goto(l)
  BY DEF In!Goto, In!NoResult, NoResult
<1>7. \A s : In!prepareForSubset(This, s) <=> prepareForSubset(This, s)
  BY DEF SeenAbove, In!prepareForSubset, prepareForSubset
<1>8. CASE SkipKnownValue
  <2>1. /\ Returned("NEXT_VALUE") /\ IsSubset(Cur) /\ Contains(Set[This], result.VI)
        /\ pc' = "run" /\ result' = NoResult
        /\ UNCHANGED <<sys, Set, Work, Subsets, EnumerationDepth, stack, cursor>>
    BY <1>8 DEF SkipKnownValue, Goto
  <2>2. In!SkipKnownValue /\ HasBase'
    BY <1>1, <1>4, <1>5, <1>6, <2>1, SameLists DEF In!SkipKnownValue
  <2> QED  BY <2>2 DEF PartStep, In!Next, In!Step, In!Handle
<1>9. CASE TransformToNothing
  <2>1. /\ Returned("NEXT_VALUE") /\ IsTransform(Cur)
        /\ Analyzed # NoAR => ~prepareForSubset(This, Analyzed)
        /\ pc' = "call" /\ result' = NoResult
        /\ UNCHANGED <<sys, Set, Work, Subsets, EnumerationDepth, stack, cursor>>
    BY <1>9 DEF TransformToNothing, Goto
  <2>2. In!TransformToNothing /\ HasBase'
    BY <1>1, <1>4, <1>5, <1>6, <1>7, <2>1, SameLists DEF In!TransformToNothing
  <2> QED  BY <2>2 DEF PartStep, In!Next, In!Step, In!Handle
<1>10. CASE TransformToSubset
  <2>1. /\ Returned("NEXT_VALUE") /\ IsTransform(Cur)
        /\ Analyzed # NoAR /\ prepareForSubset(This, Analyzed)
        /\ NoteSubset(This, Analyzed)
        /\ SetWork(InsertAt(Work[This], Ctx.Pos, SubsetWork(Analyzed)))
        /\ pc' = "run" /\ result' = NoResult
        /\ UNCHANGED <<sys, Set, EnumerationDepth, stack, cursor>>
    BY <1>10 DEF TransformToSubset, Goto
  <2>2. \A a \in ARs \ {This} : Work'[a] = Work[a]
    BY <1>10, PushItems
  <2>3. /\ HasBase' /\ Part' = Part /\ Restricted(sys)' = Restricted(sys)
        /\ PartStack' = PartStack /\ PartDepth' = PartDepth /\ PartCursor' = PartCursor
        /\ PartPc' = pc' /\ PartResult' = result' /\ PartSet' = PartSet
    BY <1>5, <2>1, <2>2, SameLists
  <2>4. In!SetWork(InsertAt(Work[This], Ctx.Pos, SubsetWork(Analyzed))) /\ In!NoteSubset(This, Analyzed)
    BY <2>1, <2>3, PartSetWork, PartNoteSubset
  <2>5. In!SetWork(In!InsertAt(PartWork[In!This], In!Ctx.Pos, In!SubsetWork(In!Analyzed)))
    BY <1>1, <1>4, <2>4 DEF In!InsertAt, InsertAt, In!SubsetWork, SubsetWork
  <2>6. In!TransformToSubset
    BY <1>1, <1>4, <1>6, <1>7, <2>1, <2>3, <2>4, <2>5 DEF In!TransformToSubset
  <2> QED  BY <2>3, <2>6 DEF PartStep, In!Next, In!Step, In!Handle
<1>11. CASE InlineSubset
  <2>1. /\ Returned("INLINE") /\ IsSubset(Cur)
        /\ prepareForSubset(This, result.AR)
        /\ NoteSubset(This, result.AR)
        /\ SetWork([Work[This] EXCEPT ![Ctx.Pos].AR = result.AR, ![Ctx.Pos].i = result.i])
        /\ pc' = "call" /\ result' = NoResult
        /\ UNCHANGED <<sys, Set, EnumerationDepth, stack, cursor>>
    BY <1>11 DEF InlineSubset, Goto
  <2>2. \A a \in ARs \ {This} : Work'[a] = Work[a]
    BY <1>11, InlineItems
  <2>3. /\ HasBase' /\ Part' = Part /\ Restricted(sys)' = Restricted(sys)
        /\ PartStack' = PartStack /\ PartDepth' = PartDepth /\ PartCursor' = PartCursor
        /\ PartPc' = pc' /\ PartResult' = result' /\ PartSet' = PartSet
    BY <1>5, <2>1, <2>2, SameLists
  <2>4. /\ In!SetWork([Work[This] EXCEPT ![Ctx.Pos].AR = result.AR, ![Ctx.Pos].i = result.i])
        /\ In!NoteSubset(This, result.AR)
    BY <2>1, <2>3, PartSetWork, PartNoteSubset
  <2>5. In!InlineSubset
    BY <1>1, <1>4, <1>6, <1>7, <2>1, <2>3, <2>4 DEF In!InlineSubset
  <2> QED  BY <2>3, <2>5 DEF PartStep, In!Next, In!Step, In!Handle
<1>12. CASE DropInlined \/ EraseCompleted
  <2>1. /\ EraseCur /\ pc' = "run" /\ result' = NoResult
        /\ UNCHANGED <<sys, Set, Subsets, EnumerationDepth, stack, cursor>>
    BY <1>12 DEF DropInlined, EraseCompleted, Goto
  <2>2. \A a \in ARs \ {This} : Work'[a] = Work[a]
    BY <1>2, <1>4, <2>1, EraseCurItems
  <2>3. /\ HasBase' /\ Part' = Part /\ Restricted(sys)' = Restricted(sys)
        /\ PartStack' = PartStack /\ PartDepth' = PartDepth /\ PartCursor' = PartCursor
        /\ PartPc' = pc' /\ PartResult' = result' /\ PartSet' = PartSet /\ PartSubsets' = PartSubsets
    BY <1>5, <2>1, <2>2, SameLists
  <2>4. In!EraseCur
    BY <2>1, <2>3, PartEraseCur
  <2>5. DropInlined => In!DropInlined
    BY <1>1, <1>4, <1>6, <1>7, <2>1, <2>3, <2>4 DEF DropInlined, In!DropInlined
  <2>6. EraseCompleted => In!EraseCompleted
    BY <1>1, <1>4, <1>6, <2>1, <2>3, <2>4 DEF EraseCompleted, In!EraseCompleted
  <2> QED  BY <1>12, <2>3, <2>5, <2>6 DEF PartStep, In!Next, In!Step, In!Handle
<1>13. CASE AddNewValue
  BY <1>13, UpperAddNewValue
<1>14. CASE SkipRetried
  BY <1>14, UpperSkipRetried
<1> QED  BY <1>3, <1>8, <1>9, <1>10, <1>11, <1>12, <1>13, <1>14 DEF Handle

LEMMA UpperStep ==
    ASSUME Recursion, Recursion', Routing, Inside, InPart, In!Routing, In!NothingRewritten, Next
    PROVE  PartStep /\ HasBase'
<1>1. HasBase
  BY DEF Inside
<1>2. PICK b \in Nat : \E n \in Nat : SeenAbove(b, n)
  BY <1>1, UpperView
<1>3. PICK n \in Nat : SeenAbove(b, n)
  BY <1>2
<1>4. ~Answer /\ ~\E a \in ARs : \E i \in 0 .. Len(Set[a]) : Query(a, i)
  BY DEF Answer, Query, InPart, Recursion, ControlOK
<1> QED  BY <1>3, <1>4, UpperEnter, UpperRun, UpperHandle DEF Next, Step

-----------------------------------------------------------------------------
(* Work stays about settled ARs.                                           *)

LEMMA UpperWorksInside ==
    ASSUME Recursion, Routing, EverySound, Inside, InPart, In!NothingRewritten, Next
    PROVE  WorksInside'
<1>1. sys' = sys /\ WorksInside
  BY NextKeepsSystem DEF Inside
<1>2. stack # <<>> /\ This \in Part /\ This \in ARs /\ Work[This] \in Seq(FitWorks)
  BY <1>1, TopFrame DEF InPart, WorksInside
<1>3. \E b, n \in Nat : SeenAbove(b, n)
  BY UpperView DEF Inside
<1>4. PartPc = pc /\ PartResult = result
  BY <1>3 DEF SeenAbove
<1>5. pc # "rewrite" /\ ~(pc = "return" /\ result.type = "REWRITE")
  BY <1>4 DEF In!NothingRewritten
<1>6. FitWorks' = FitWorks /\ Part' = Part
  BY <1>1, FitWorksStay
<1>7. ASSUME Work' = Work
      PROVE  WorksInside'
  BY <1>1, <1>6, <1>7 DEF WorksInside
<1>8. CASE \/ EnterRewrite \/ EnterRetry \/ EnterRun \/ RunInline \/ RunRecurse \/ EndComplete \/ EndRetry
           \/ SkipKnownValue \/ TransformToNothing \/ SkipRetried \/ Answer
           \/ \E a \in ARs : \E i \in 0 .. Len(Set[a]) : Query(a, i)
  BY <1>7, <1>8 DEF EnterRewrite, EnterRetry, EnterRun, RunInline, RunRecurse, EndComplete, EndRetry,
                SkipKnownValue, TransformToNothing, SkipRetried, Answer, Query
<1>9. CASE RewriteHere \/ RewriteBegin \/ RewriteKeep \/ RewriteDrop \/ RewriteSplice
  BY <1>5, <1>9 DEF RewriteHere, RewriteBegin, RewriteKeep, RewriteDrop, RewriteSplice, Returned
<1>10. CASE EndCancelRetry
  <2>1. <<>> \in Seq(FitWorks)
    OBVIOUS
  <2> QED  BY <1>1, <1>10, <2>1, SetWorkInside DEF EndCancelRetry
<1>11. CASE DropInlined \/ EraseCompleted
  <2>1. SetWork(RemoveAt(Work[This], Ctx.Pos)) /\ pc = "return"
    BY <1>11 DEF DropInlined, EraseCompleted, EraseCur, Returned
  <2>2. RemoveAt(Work[This], Ctx.Pos) \in Seq(FitWorks)
    BY <1>2, <2>1, EraseInList
  <2> QED  BY <1>1, <2>1, <2>2, SetWorkInside
<1>12. CASE TransformToSubset
  <2>1. /\ Returned("NEXT_VALUE") /\ IsTransform(Cur) /\ Analyzed # NoAR
        /\ SetWork(InsertAt(Work[This], Ctx.Pos, SubsetWork(Analyzed)))
    BY <1>12 DEF TransformToSubset
  <2>2. Cur \in FitWorks /\ Callee.AR = Cur.AR
    BY <1>2, <2>1, CurInside DEF Returned, Callee
  <2>3. result.VI \in Whole[Cur.AR]
    BY <2>1, <2>2, KnownWhole DEF Sound, ResultSound, Returned
  <2>4. Analyzed \in Part
    BY <2>1, <2>2, <2>3 DEF FitWorks, Analyzed
  <2>5. SubsetWork(Analyzed) \in FitWorks
    <3>1. SubsetWork(Analyzed) \in Works
      BY <2>1, TransformedType
    <3> QED  BY <2>4, <3>1 DEF FitWorks, SubsetWork, IsTransform
  <2>6. Ctx.Pos \in 1 .. Len(Work[This])
    BY <1>2, <2>1, CurType DEF Returned
  <2>7. InsertAt(Work[This], Ctx.Pos, SubsetWork(Analyzed)) \in Seq(FitWorks)
    BY <1>2, <2>5, <2>6, InsertAtProperties
  <2> QED  BY <1>1, <2>1, <2>7, SetWorkInside
<1>13. CASE InlineSubset
  <2>1. Returned("INLINE") /\ SetWork([Work[This] EXCEPT ![Ctx.Pos].AR = result.AR, ![Ctx.Pos].i = result.i])
        /\ pc = "return" /\ IsSubset(Cur)
    BY <1>13 DEF InlineSubset, Returned
  <2>2. Cur.AR \in Part /\ Callee.AR = Cur.AR /\ Cur \in Works
    BY <1>2, <2>1, CurInside DEF Callee
  <2>3. result.AR \in Part
    BY <2>1, <2>2 DEF Inside, ResultInside, Returned
  <2>4. Inlined \in Works /\ IsSubset(Inlined) /\ Inlined.AR = result.AR
    BY <1>13, InlineItems
  <2>5. Inlined \in FitWorks
    BY <2>3, <2>4 DEF FitWorks, IsSubset, IsTransform
  <2>6. Ctx.Pos \in 1 .. Len(Work[This])
    BY <1>2, <2>1, CurType
  <2>7. [Work[This] EXCEPT ![Ctx.Pos].AR = result.AR, ![Ctx.Pos].i = result.i]
        = [Work[This] EXCEPT ![Ctx.Pos] = Inlined]
    BY <1>2, <2>2, <2>6 DEF Inlined, Cur
  <2>8. [Work[This] EXCEPT ![Ctx.Pos] = Inlined] \in Seq(FitWorks)
    BY <1>2, <2>5, <2>6
  <2>9. [Work[This] EXCEPT ![Ctx.Pos].AR = result.AR, ![Ctx.Pos].i = result.i] \in Seq(FitWorks)
    BY <2>7, <2>8
  <2> QED  BY <1>1, <2>1, <2>9, SetWorkInside
<1>14. CASE EnterCached
  <2>1. pc = "call" /\ Advance(stack)
    BY <1>14 DEF EnterCached
  <2>2. Last(stack) = Ctx /\ Ctx.AR \in ARs /\ Ctx.Pos \in DOMAIN Work[Ctx.AR]
    BY <1>2, <2>1, LastFrame
  <2>3. Work' = [Work EXCEPT ![Ctx.AR][Ctx.Pos].i = @ + 1]
    BY <1>2, <2>1, <2>2 DEF Advance
  <2> QED  BY <1>1, <2>2, <2>3, AdvanceInside
<1>15. CASE AddNewValue
  <2>1. PICK n \in Nat :
           /\ n >= 1 /\ Len(stack) = n
           /\ n = 1 => Work' = Work
           /\ n > 1 => /\ n - 1 \in 1 .. Len(stack)
                       /\ Work' = [Work EXCEPT ![stack[n - 1].AR][stack[n - 1].Pos].i = @ + 1]
    BY <1>15, CallerAdvanced
  <2>2. CASE n = 1
    BY <1>7, <2>1, <2>2
  <2>3. CASE n > 1
    <3>1. n - 1 < Len(stack) /\ n - 1 \in 1 .. Len(stack)
      BY <2>1, <2>3
    <3>2. stack[n - 1].AR \in ARs /\ stack[n - 1].Pos \in 1 .. Len(Work[stack[n - 1].AR])
      BY <3>1, RunningItem
    <3>3. stack[n - 1].Pos \in DOMAIN Work[stack[n - 1].AR]
      BY <3>2 DEF Recursion, TypeOK
    <3>4. Work' = [Work EXCEPT ![stack[n - 1].AR][stack[n - 1].Pos].i = @ + 1]
      BY <2>1, <2>3
    <3> QED  BY <1>1, <3>2, <3>3, <3>4, AdvanceInside
  <2> QED  BY <2>1, <2>2, <2>3
<1>16. \/ EnterRewrite \/ EnterRetry \/ EnterRun \/ RunInline \/ RunRecurse \/ EndComplete \/ EndRetry
       \/ SkipKnownValue \/ TransformToNothing \/ SkipRetried \/ Answer
       \/ (\E a \in ARs : \E i \in 0 .. Len(Set[a]) : Query(a, i))
       \/ RewriteHere \/ RewriteBegin \/ RewriteKeep \/ RewriteDrop \/ RewriteSplice
       \/ EndCancelRetry \/ DropInlined \/ EraseCompleted \/ TransformToSubset \/ InlineSubset
       \/ EnterCached \/ AddNewValue
  BY DEF Next, Step, Enter, Run, Handle
<1> QED  BY <1>8, <1>9, <1>10, <1>11, <1>12, <1>13, <1>14, <1>15, <1>16

-----------------------------------------------------------------------------
(* The invariant: the engine's own, and what the settled ARs see of it is  *)
(* an engine on a system without a cycle of subsets.                       *)

PartComplete == Recursion /\ Routing /\ EverySound /\ InRange /\ Inside /\ In!Completeness

LEMMA InitPart ==
    ASSUME Init
    PROVE  In!Init
<1>1. /\ Recursion /\ sys \in Systems /\ sys \in EquationSystems /\ pc = "idle"
      /\ Set = sys.set /\ Work = sys.work
      /\ Subsets = [a \in ARs |-> {w.AR : w \in {u \in ToSet(sys.work[a]) : IsSubset(u)}}]
  BY InitRecursion DEF Init, StartsFrom, Recursion, TypeOK
<1>2. SeenBelow /\ ~Asked
  BY <1>1, InitInside, LowerView DEF Inside, Asked
<1>3. /\ PartStack = <<>> /\ PartDepth = [a \in ARs |-> -1] /\ PartCursor = Nobody
      /\ PartResult = NoResult /\ PartPc = "idle"
  BY <1>2 DEF SeenBelow
<1>4. Restricted(sys) \in PartSystems
  BY <1>1 DEF PartSystems
<1>5. PartSet = Restricted(sys).set /\ PartWork = Restricted(sys).work
  BY <1>1 DEF PartSet, PartWork, Part, Restricted, About
<1>6. PartSubsets = [a \in ARs |-> {w.AR : w \in {u \in In!ToSet(Restricted(sys).work[a]) : In!IsSubset(u)}}]
  <2>1. ASSUME NEW a \in ARs
        PROVE  PartSubsets[a] = {w.AR : w \in {u \in In!ToSet(Restricted(sys).work[a]) : In!IsSubset(u)}}
    <3>1. Restricted(sys).work[a] = IF a \in Part THEN sys.work[a] ELSE <<>>
      BY <1>1, RestrictedType DEF Part
    <3>2. In!ToSet(Restricted(sys).work[a]) = ToSet(Restricted(sys).work[a])
      BY DEF In!ToSet, ToSet
    <3>3. \A u : In!IsSubset(u) <=> IsSubset(u)
      BY DEF In!IsSubset, IsSubset
    <3>4. {w.AR : w \in {u \in In!ToSet(Restricted(sys).work[a]) : In!IsSubset(u)}}
          = {w.AR : w \in {u \in ToSet(Restricted(sys).work[a]) : IsSubset(u)}}
      BY <3>2, <3>3
    <3>5. CASE a \in Part
      BY <1>1, <3>1, <3>4, <3>5 DEF PartSubsets
    <3>6. CASE a \notin Part
      <4>1. ToSet(<<>>) = {}
        BY DEF ToSet
      <4> QED  BY <3>1, <3>4, <3>6, <4>1 DEF PartSubsets
    <3> QED  BY <3>5, <3>6
  <2> QED  BY <2>1 DEF PartSubsets
<1>7. In!Nobody = Nobody /\ In!NoResult = NoResult
  BY DEF In!Nobody, Nobody, In!NoResult, NoResult
<1> QED  BY <1>3, <1>4, <1>5, <1>6, <1>7 DEF In!Init, In!StartsFrom

LEMMA InitPartComplete ==
    ASSUME Init
    PROVE  PartComplete
<1>1. Recursion /\ Routing /\ EverySound /\ InRange /\ Inside
  BY InitRecursion, InitRouting, InitSound, InitInRange, InitInside
<1>2. In!NoSubsetCycles(Restricted(sys))
  BY <1>1, PartAcyclic DEF Recursion, TypeOK
<1>3. In!Completeness
  BY <1>2, InitPart, PartAssumptions, In!InitCompleteness
<1> QED  BY <1>1, <1>3 DEF PartComplete

(* Every step of the engine is one to the settled ARs. *)
LEMMA NextPart ==
    ASSUME PartComplete, Recursion', Next
    PROVE  PartStep /\ HasBase' /\ WorksInside'
<1>1. Recursion /\ Routing /\ EverySound /\ InRange /\ Inside /\ In!Recursion /\ In!Routing /\ In!Ordered
  BY DEF PartComplete, In!Completeness, In!Known
<1>2. sys' = sys /\ HasBase /\ LTDBelow /\ WorksInside
  BY <1>1, NextKeepsSystem DEF Inside
<1>3. CASE InPart
  <2>1. In!NothingRewritten
    BY <1>1 DEF In!Ordered
  <2> QED  BY <1>1, <1>3, <2>1, UpperStep, UpperWorksInside
<1>4. CASE OutPart
  <2>1. In!WellRouted
    BY <1>1, PartAssumptions, In!RoutedWell
  <2>2. PartStep /\ HasBase' /\ PartKept
    BY <1>1, <1>2, <1>4, <2>1, LowerStep
  <2> QED  BY <1>2, <2>2, LowerWorksInside
<1> QED  BY <1>3, <1>4 DEF OutPart

LEMMA PartStepCompleteness ==
    ASSUME In!Completeness, PartStep
    PROVE  In!Completeness'
<1>1. CASE In!Next \/ UNCHANGED In!vars
  BY <1>1, PartAssumptions, In!NextCompleteness
<1>2. CASE In!AskAgain
  BY <1>2, PartAssumptions, In!AskAgainCompleteness
<1>3. CASE In!GiveUp
  BY <1>3, PartAssumptions, In!GiveUpCompleteness
<1> QED  BY <1>1, <1>2, <1>3 DEF PartStep

LEMMA NextPartComplete ==
    ASSUME PartComplete, [Next]_vars
    PROVE  PartComplete'
<1>1. Recursion' /\ Routing' /\ EverySound' /\ InRange'
  BY NextRecursion, NextRouting, NextSound, NextInRange DEF PartComplete
<1>2. CASE Next
  <2>1. PartStep /\ HasBase' /\ WorksInside'
    BY <1>1, <1>2, NextPart
  <2>2. ResultInside' /\ LTDBelow'
    BY <1>2, NextResultInside, NextLTDBelow DEF PartComplete, Inside
  <2>3. In!Completeness'
    BY <2>1, PartStepCompleteness DEF PartComplete
  <2> QED  BY <1>1, <2>1, <2>2, <2>3 DEF PartComplete, Inside
<1>3. CASE UNCHANGED vars
  <2>1. UNCHANGED <<sys, Set, Work, Subsets, EnumerationDepth, stack, cursor, result, pc>>
    BY <1>3 DEF vars
  <2>2. Part' = Part /\ Base' = Base /\ Restricted(sys)' = Restricted(sys) /\ FitWorks' = FitWorks
    BY <2>1, FitWorksStay DEF Part, Base, IsBase, Restricted, About
  <2>3. WorksInside' /\ LTDBelow'
    BY <2>1, <2>2 DEF PartComplete, Inside, WorksInside, LTDBelow
  <2>4. Callee' = Callee /\ Client' = Client
    BY <2>1, <2>2 DEF Callee, Cur, This, Ctx, Client, Running
  <2>5. ResultInside'
    BY <2>1, <2>2, <2>4 DEF PartComplete, Inside, ResultInside
  <2>6. HasBase'
    BY <2>1, <2>2 DEF PartComplete, Inside, HasBase, IsBase
  <2>7. PartSet' = PartSet /\ PartWork' = PartWork /\ PartSubsets' = PartSubsets
    BY <2>1, <2>2 DEF PartSet, PartWork, PartSubsets
  <2>8. PartStack' = PartStack /\ PartDepth' = PartDepth
    BY <2>1, <2>2 DEF PartStack, PartDepth, Above
  <2>9. Serving' = Serving
    BY <2>1, <2>2, <2>4 DEF Serving
  <2>10. PartCursor' = PartCursor /\ PartResult' = PartResult /\ PartPc' = PartPc
    BY <2>1, <2>4, <2>9 DEF PartCursor, PartResult, PartPc
  <2>11. UNCHANGED In!vars
    BY <2>2, <2>7, <2>8, <2>10 DEF In!vars
  <2>12. In!Completeness'
    BY <2>11, PartStepCompleteness DEF PartComplete, PartStep
  <2> QED  BY <1>1, <2>3, <2>5, <2>6, <2>12 DEF PartComplete, Inside
<1> QED  BY <1>2, <1>3

LEMMA PartCompleteInvariant == Spec => []PartComplete
<1>1. Init => PartComplete
  BY InitPartComplete
<1>2. PartComplete /\ [Next]_vars => PartComplete'
  BY NextPartComplete
<1> QED  BY <1>1, <1>2, PTL DEF Spec

-----------------------------------------------------------------------------
(* The theorems. *)

LEMMA SettledAreDone == PartComplete => SettledDone
<1> SUFFICES ASSUME PartComplete, NEW a \in Settled(sys), Work[a] = <<>>
             PROVE  ToSet(Set[a]) = LeastSolution(sys)[a]
  BY DEF SettledDone, Whole
<1>1. Recursion /\ sys \in EquationSystems /\ a \in Part /\ a \in ARs
  BY PartType DEF PartComplete, Recursion, TypeOK, Part
<1>2. In!Known /\ In!NothingLost
  BY DEF PartComplete, In!Completeness
<1>3. \A c \in ARs : PartWork[c] = <<>> => In!ToSet(PartSet[c]) = In!Whole[c]
  BY <1>2, PartAssumptions, In!DoneAreWhole
<1>4. PartWork[a] = Work[a] /\ PartSet[a] = Set[a]
  BY <1>1 DEF PartWork, PartSet
<1>5. In!Whole[a] = LeastSolution(Restricted(sys))[a]
  BY PartSolution DEF In!Whole
<1>6. In!ToSet(Set[a]) = ToSet(Set[a])
  BY DEF In!ToSet, ToSet
<1> QED  BY <1>1, <1>3, <1>4, <1>5, <1>6, SettledSolution

(* AnalysisResult::enumerate, in any system of equations: an AR that has   *)
(* nothing to do with a cycle of subsets has, once its work list is empty, *)
(* every value that the equations of the whole system force into it and no *)
(* other, whatever clients and other ARs have asked of it and whichever    *)
(* cycles those are on, however its work came to an end: used up, inlined  *)
(* away, dropped as a subset it had before, or given up by a retry that    *)
(* came back to it.                                                        *)
THEOREM SettledSetsAreWhole ==
    Spec => [](\A a \in Settled(sys) : Work[a] = <<>> => ToSet(Set[a]) = LeastSolution(sys)[a])
<1>1. PartComplete => \A a \in Settled(sys) : Work[a] = <<>> => ToSet(Set[a]) = LeastSolution(sys)[a]
  BY SettledAreDone DEF SettledDone, Whole
<1> QED  BY <1>1, PartCompleteInvariant, PTL

(* What is left, and the settled part of it. *)
Left == [set |-> Set, work |-> Work, results |-> sys.results]

LEMMA LeftBelowWhole ==
    ASSUME Recursion, EverySound, NEW a \in ARs
    PROVE  Left \in EquationSystems /\ LeastSolution(Left)[a] \subseteq Whole[a]
<1>1. Left \in EquationSystems
  BY DEF Left, Recursion, TypeOK, EquationSystems
<1>2. /\ Whole \in [ARs -> SUBSET VIs]
      /\ \A b \in ARs : ToSet(Set[b]) \subseteq Whole[b] /\ Work[b] \in Seq(SoundWorks(Whole, b))
  BY KnownWhole DEF Sound, SetsSound, WorksSound
<1> HIDE DEF Whole
<1>3. ASSUME NEW b \in ARs, NEW k \in DOMAIN Work[b]
      PROVE  Satisfies(sys.results, Whole, b, Work[b][k])
  <2>1. Work[b][k] \in SoundWorks(Whole, b)
    BY <1>2, ElementOfSeq, LenProperties
  <2> QED  BY <2>1 DEF SoundWorks
<1>4. Whole \in Solutions(Left)
  BY <1>2, <1>3 DEF Solutions, IsSolution, Left
<1> QED  BY <1>1, <1>4, LeastSolutionIsSolution

LEMMA LeftClosed ==
    ASSUME PartComplete
    PROVE  Closed(Left, Part)
<1>1. Recursion /\ EverySound /\ WorksInside /\ Part \subseteq ARs
  BY PartType DEF PartComplete, Inside
<1> SUFFICES ASSUME NEW a \in Part, NEW k \in DOMAIN Left.work[a]
             PROVE  /\ Left.work[a][k].AR \in Part
                    /\ IsTransform(Left.work[a][k]) =>
                          \A v \in LeastSolution(Left)[Left.work[a][k].AR] :
                             Left.results[Left.work[a][k].alg][v] \in Part \cup {NoAR}
  BY DEF Closed
<1>2. Left.work = Work /\ Left.results = sys.results
  BY DEF Left
<1>3. Work[a] \in Seq(FitWorks) /\ k \in DOMAIN Work[a]
  BY <1>1, <1>2 DEF WorksInside
<1>4. Work[a][k] \in FitWorks
  BY <1>3, LenProperties, ElementOfSeq
<1>5. /\ Work[a][k].AR \in Part
      /\ IsTransform(Work[a][k]) =>
            \A v \in Whole[Work[a][k].AR] : sys.results[Work[a][k].alg][v] \in Part \cup {NoAR}
  BY <1>4 DEF FitWorks
<1>6. LeastSolution(Left)[Work[a][k].AR] \subseteq Whole[Work[a][k].AR]
  BY <1>1, <1>5, LeftBelowWhole
<1> QED  BY <1>2, <1>5, <1>6

(* Between queries the settled ARs see none. *)
LEMMA IdleToPart ==
    ASSUME PartComplete, pc = "idle"
    PROVE  PartPc = "idle"
<1>1. Recursion /\ stack = <<>> /\ Len(stack) = 0 /\ HasBase
  BY EmptySeq DEF PartComplete, Inside, Recursion, ControlOK
<1>2. PICK b : IsBase(b)
  BY <1>1 DEF HasBase
<1>3. Base = b /\ b = 0
  BY <1>1, <1>2, BaseOf DEF IsBase, Recursion
<1> QED  BY <1>1, <1>3 DEF PartPc, Serving

(* AnalysisResult::enumerate, in any system of equations: what a query     *)
(* leaves behind, the values and the rest of the work, is a system of      *)
(* equations that gives every AR that has nothing to do with a cycle of    *)
(* subsets what the one that instruction analysis left gives it. Nothing   *)
(* of it is lost by inlining a sole subset, by dropping a subset that was  *)
(* there before, by skipping work that waits for an activation below, by   *)
(* giving all of it up there, or by what is rewritten elsewhere.           *)
THEOREM NothingIsLost == Spec => []EquationsPreserved
<1>1. PartComplete => EquationsPreserved
  <2> SUFFICES ASSUME PartComplete, pc = "idle", NEW a \in Settled(sys)
               PROVE  LeastSolution(Left)[a] = LeastSolution(sys)[a]
    BY DEF EquationsPreserved, Left
  <2>1. Recursion /\ EverySound /\ sys \in EquationSystems /\ a \in Part /\ a \in ARs /\ Part \in SUBSET ARs
    BY PartType DEF PartComplete, Recursion, TypeOK, Part
  <2>2. LeastSolution(About(Left, Part))[a] = LeastSolution(Left)[a]
    BY <2>1, LeftBelowWhole, LeftClosed, ClosedSolution
  <2>3. In!LeastSolution([set |-> PartSet, work |-> PartWork, results |-> Restricted(sys).results]) = In!Whole
    BY IdleToPart, PartAssumptions, In!LeftIsWhole DEF PartComplete
  <2>4. About(Left, Part) = [set |-> PartSet, work |-> PartWork, results |-> Restricted(sys).results]
    BY DEF About, Left, PartSet, PartWork, Restricted
  <2>5. In!Whole = LeastSolution(Restricted(sys))
    BY PartSolution DEF In!Whole
  <2>6. LeastSolution(About(Left, Part)) = LeastSolution(Restricted(sys))
    BY <2>3, <2>4, <2>5, PartSolution
  <2>7. LeastSolution(Restricted(sys))[a] = LeastSolution(sys)[a]
    BY <2>1, SettledSolution
  <2> QED  BY <2>2, <2>6, <2>7
<1> QED  BY <1>1, PartCompleteInvariant, PTL

(* AnalysisResult implements LazySets, in any system of equations:         *)
(* everything that enumeration does, down to the innermost activation of   *)
(* any query and the rewriting of lists, looks to its clients like a step  *)
(* of LazySets. A set only ever takes on elements of the solution, one     *)
(* that has nothing to do with a cycle of subsets is told to be whole, for *)
(* good, only when it is, and a client is told its next element, or the    *)
(* end of the set.                                                         *)
THEOREM EnumerationIsLazy == Spec => ImplementsLazySets
<1>1. Init => Lazy!LazyInit /\ ClientOK
  BY InitRecursion, InitSound, InitRefines, EmptySeq DEF Init, StartsFrom, ClientOK, ClientAtEnd, NoResult
<1>2. PartComplete => KnownOfAll /\ SettledDone
  BY SettledAreDone DEF PartComplete, KnownOfAll
<1>3. KnownOfAll /\ ClientOK /\ [Next]_vars => ClientOK'
  BY NextClient DEF KnownOfAll
<1>4. /\ KnownOfAll /\ SettledDone /\ ClientOK /\ (KnownOfAll /\ SettledDone)' /\ ClientOK' /\ [Next]_vars
      => [Lazy!LazyNext]_(Lazy!lazyVars)
  BY NextRefines DEF Refining
<1> QED  BY <1>1, <1>2, <1>3, <1>4, PartCompleteInvariant, PTL DEF Spec, ImplementsLazySets, Lazy!LazySpec
===============================================================================
