------------------------ MODULE RelationHandlerProofs ------------------------
(*****************************************************************************)
(* Theorems about RelationHandler: whatever relations a program has and in   *)
(* whatever order they are handled, the least solution of the equations is   *)
(* Andersen's points-to sets.                                                *)
(*                                                                           *)
(* The proof is in five parts. The textbook's sets are the least that obey   *)
(* the relations (AndersenIsLeast). The heap that handling relations leaves  *)
(* is described by the inclusions they ask for (Holds). The solution of the  *)
(* equations is the least that has these inclusions and what the traversals  *)
(* find (SolutionSolves). Without the ARs between the hops, such a solution  *)
(* is a pair of points-to and reverse points-to sets (Flows). The least such *)
(* pair is Andersen's sets and their inverse (FlowIsSound, FlowsAgree,       *)
(* FlowIsComplete).                                                          *)
(*****************************************************************************)
EXTENDS RelationHandler, DataLemmas

(* Andersen's analysis. *)

(* S has what the relation R says: the textbook inequality for it. *)
Rule(S, R) ==
    /\ R.type = "DEPENDS_ON" => pt(S, R.Dst) \subseteq pt(S, R.Src)
    /\ R.type = "LOADED_FROM" => \A r \in pt(S, R.Dst) : S[<<"memory", r>>] \subseteq pt(S, R.Src)
    /\ R.type = "STORED_TO" => \A r \in pt(S, R.Dst) : pt(S, R.Src) \subseteq S[<<"memory", r>>]
    /\ R.type = "ARGUMENT_TO_CALLEE" => \A r \in pt(S, R.Dst) : pt(S, R.Src) \subseteq S[<<"parameters", r>>]
    /\ R.type = "ARGUMENT_FROM_CALLER" => S[<<"parameters", R.Dst>>] \subseteq pt(S, R.Src)
    /\ R.type = "RETURNED_TO_CALLER" => pt(S, R.Src) \subseteq S[<<"return", R.Dst>>]
    /\ R.type = "RETURNED_FROM_CALLEE" => \A r \in pt(S, R.Dst) : S[<<"return", r>>] \subseteq pt(S, R.Src)

(* S has what all relations of rels say. *)
Obeys(S, rels) == (\A r \in Regions : r \in pt(S, r)) /\ \A R \in rels : Rule(S, R)

(* Relations of a program: arguments and return values belong to regions. *)
ProgramRelations == {rels \in SUBSET Relations :
    \A R \in rels : R.type \in {"ARGUMENT_FROM_CALLER", "RETURNED_TO_CALLER"} => R.Dst \in Regions}

(* The relation R makes R.Src point to x. *)
Gets(S, R, x) ==
    \/ R.type = "DEPENDS_ON" /\ x \in pt(S, R.Dst)
    \/ R.type = "LOADED_FROM" /\ \E r \in pt(S, R.Dst) : x \in S[<<"memory", r>>]
    \/ R.type = "RETURNED_FROM_CALLEE" /\ \E r \in pt(S, R.Dst) : x \in S[<<"return", r>>]
    \/ R.type = "ARGUMENT_FROM_CALLER" /\ x \in S[<<"parameters", R.Dst>>]

(* What is derived for a points-to set comes from one relation. *)
LEMMA DerivedPointsTo ==
    ASSUME NEW rels, NEW S, NEW v, NEW x
    PROVE  x \in Derived(rels, S, <<"points-to", v>>) <=>
              \/ x = v /\ v \in Regions
              \/ \E R \in rels : R.Src = v /\ Gets(S, R, x)
<1> DEFINE From(t) == {R.Dst : R \in {Q \in OfType(rels, t) : Q.Src = v}}
<1>1. \A t, d : d \in From(t) <=> \E R \in rels : R.type = t /\ R.Src = v /\ R.Dst = d
  BY DEF OfType
<1>2. Derived(rels, S, <<"points-to", v>>) =
               UNION {{v} \cap Regions,
                      UNION {pt(S, d) : d \in From("DEPENDS_ON")},
                      UNION {Contents(S, "memory", d) : d \in From("LOADED_FROM")},
                      UNION {Contents(S, "return", d) : d \in From("RETURNED_FROM_CALLEE")},
                      UNION {S[<<"parameters", d>>] : d \in From("ARGUMENT_FROM_CALLER")}}
  BY DEF Derived
<1> HIDE DEF From
<1>3. x \in Derived(rels, S, <<"points-to", v>>) <=>
         \/ x = v /\ v \in Regions
         \/ \E d \in From("DEPENDS_ON") : x \in pt(S, d)
         \/ \E d \in From("LOADED_FROM") : x \in Contents(S, "memory", d)
         \/ \E d \in From("RETURNED_FROM_CALLEE") : x \in Contents(S, "return", d)
         \/ \E d \in From("ARGUMENT_FROM_CALLER") : x \in S[<<"parameters", d>>]
  BY <1>2
<1>4. \A part, d : x \in Contents(S, part, d) <=> \E r \in pt(S, d) : x \in S[<<part, r>>]
  BY DEF Contents
<1>5. (\E d \in From("DEPENDS_ON") : x \in pt(S, d)) <=>
            \E R \in rels : R.Src = v /\ R.type = "DEPENDS_ON" /\ x \in pt(S, R.Dst)
  BY <1>1
<1>6. (\E d \in From("LOADED_FROM") : x \in Contents(S, "memory", d)) <=>
            \E R \in rels : R.Src = v /\ R.type = "LOADED_FROM" /\ \E r \in pt(S, R.Dst) : x \in S[<<"memory", r>>]
  <2>1. ASSUME NEW d \in From("LOADED_FROM"), x \in Contents(S, "memory", d)
        PROVE  \E R \in rels : R.Src = v /\ R.type = "LOADED_FROM" /\ \E r \in pt(S, R.Dst) : x \in S[<<"memory", r>>]
    <3>1. PICK R \in rels : R.type = "LOADED_FROM" /\ R.Src = v /\ R.Dst = d
      BY <1>1
    <3> QED  BY <2>1, <3>1, <1>4
  <2>2. ASSUME NEW R \in rels, R.Src = v, R.type = "LOADED_FROM", \E r \in pt(S, R.Dst) : x \in S[<<"memory", r>>]
        PROVE  \E d \in From("LOADED_FROM") : x \in Contents(S, "memory", d)
    <3>1. R.Dst \in From("LOADED_FROM")
      BY <1>1, <2>2
    <3> QED  BY <2>2, <3>1, <1>4
  <2> QED  BY <2>1, <2>2
<1>7. (\E d \in From("RETURNED_FROM_CALLEE") : x \in Contents(S, "return", d)) <=>
            \E R \in rels : R.Src = v /\ R.type = "RETURNED_FROM_CALLEE" /\ \E r \in pt(S, R.Dst) : x \in S[<<"return", r>>]
  <2>1. ASSUME NEW d \in From("RETURNED_FROM_CALLEE"), x \in Contents(S, "return", d)
        PROVE  \E R \in rels : R.Src = v /\ R.type = "RETURNED_FROM_CALLEE" /\ \E r \in pt(S, R.Dst) : x \in S[<<"return", r>>]
    <3>1. PICK R \in rels : R.type = "RETURNED_FROM_CALLEE" /\ R.Src = v /\ R.Dst = d
      BY <1>1
    <3> QED  BY <2>1, <3>1, <1>4
  <2>2. ASSUME NEW R \in rels, R.Src = v, R.type = "RETURNED_FROM_CALLEE", \E r \in pt(S, R.Dst) : x \in S[<<"return", r>>]
        PROVE  \E d \in From("RETURNED_FROM_CALLEE") : x \in Contents(S, "return", d)
    <3>1. R.Dst \in From("RETURNED_FROM_CALLEE")
      BY <1>1, <2>2
    <3> QED  BY <2>2, <3>1, <1>4
  <2> QED  BY <2>1, <2>2
<1>8. (\E d \in From("ARGUMENT_FROM_CALLER") : x \in S[<<"parameters", d>>]) <=>
            \E R \in rels : R.Src = v /\ R.type = "ARGUMENT_FROM_CALLER" /\ x \in S[<<"parameters", R.Dst>>]
  <2>1. ASSUME NEW d \in From("ARGUMENT_FROM_CALLER"), x \in S[<<"parameters", d>>]
        PROVE  \E R \in rels : R.Src = v /\ R.type = "ARGUMENT_FROM_CALLER" /\ x \in S[<<"parameters", R.Dst>>]
    <3>1. PICK R \in rels : R.type = "ARGUMENT_FROM_CALLER" /\ R.Src = v /\ R.Dst = d
      BY <1>1
    <3> QED  BY <2>1, <3>1
  <2>2. ASSUME NEW R \in rels, R.Src = v, R.type = "ARGUMENT_FROM_CALLER", x \in S[<<"parameters", R.Dst>>]
        PROVE  \E d \in From("ARGUMENT_FROM_CALLER") : x \in S[<<"parameters", d>>]
    <3>1. R.Dst \in From("ARGUMENT_FROM_CALLER")
      BY <1>1, <2>2
    <3> QED  BY <2>2, <3>1
  <2> QED  BY <2>1, <2>2
<1> QED  BY <1>3, <1>5, <1>6, <1>7, <1>8 DEF Gets

(* What flows into a region comes from one relation. *)
LEMMA DerivedFlow ==
    ASSUME NEW rels, NEW S, NEW t, NEW v, NEW x
    PROVE  x \in FlowsInto(rels, S, t, v) <=>
              \E R \in rels : R.type = t /\ v \in pt(S, R.Dst) /\ x \in pt(S, R.Src)
BY DEF FlowsInto, OfType

(* What a region returns comes from one relation. *)
LEMMA DerivedReturn ==
    ASSUME NEW rels, NEW S, NEW v, NEW x
    PROVE  x \in Derived(rels, S, <<"return", v>>) <=>
              \E R \in rels : R.type = "RETURNED_TO_CALLER" /\ R.Dst = v /\ x \in pt(S, R.Src)
<1>1. Derived(rels, S, <<"return", v>>) =
       UNION {pt(S, R.Src) : R \in {Q \in OfType(rels, "RETURNED_TO_CALLER") : Q.Dst = v}}
  BY DEF Derived
<1> QED  BY <1>1 DEF OfType

(* What memory and parameters hold is what flows into them. *)
LEMMA DerivedContents ==
    ASSUME NEW rels, NEW S, NEW v
    PROVE  /\ Derived(rels, S, <<"memory", v>>) = FlowsInto(rels, S, "STORED_TO", v)
           /\ Derived(rels, S, <<"parameters", v>>) = FlowsInto(rels, S, "ARGUMENT_TO_CALLEE", v)
BY DEF Derived

(* The lattice in which Andersen iterates. *)
Space == [Unknowns -> SUBSET Regions]

(* What an unknown can be. *)
LEMMA UnknownsAre ==
    ASSUME NEW u \in Unknowns
    PROVE  \/ \E v \in VIs : u = <<"points-to", v>>
           \/ \E r \in Regions : u \in {<<"memory", r>>, <<"parameters", r>>, <<"return", r>>}
BY DEF Unknowns

(* What is an unknown. *)
LEMMA AreUnknowns ==
    /\ \A v \in VIs : <<"points-to", v>> \in Unknowns
    /\ \A r \in Regions : {<<"memory", r>>, <<"parameters", r>>, <<"return", r>>} \subseteq Unknowns
BY DEF Unknowns

(* All unknowns stand for sets of regions. *)
LEMMA SpaceType ==
    ASSUME NEW S \in Space
    PROVE  /\ \A v \in VIs : pt(S, v) \subseteq Regions
           /\ \A r \in Regions : /\ S[<<"memory", r>>] \subseteq Regions
                                 /\ S[<<"parameters", r>>] \subseteq Regions
                                 /\ S[<<"return", r>>] \subseteq Regions
BY AreUnknowns DEF Space, pt

(* The types of a program's relations. *)
LEMMA RelationType ==
    ASSUME NEW rels \in ProgramRelations, NEW R \in rels
    PROVE  /\ R.Src \in VIs /\ R.Dst \in VIs
           /\ R.type \in {"ARGUMENT_FROM_CALLER", "RETURNED_TO_CALLER"} => R.Dst \in Regions
BY DEF ProgramRelations, Relations

(* More is derived from more. *)
LEMMA DerivedMonotone ==
    ASSUME NEW rels \in ProgramRelations, NEW S \in Space, NEW T \in Space, Below(S, T), NEW u \in Unknowns
    PROVE  Derived(rels, S, u) \subseteq Derived(rels, T, u)
<1>1. /\ \A v \in VIs : pt(S, v) \subseteq pt(T, v)
      /\ \A r \in Regions : /\ S[<<"memory", r>>] \subseteq T[<<"memory", r>>]
                            /\ S[<<"parameters", r>>] \subseteq T[<<"parameters", r>>]
                            /\ S[<<"return", r>>] \subseteq T[<<"return", r>>]
  BY AreUnknowns DEF Space, Below, pt
<1>2. ASSUME NEW v \in VIs
      PROVE  Derived(rels, S, <<"points-to", v>>) \subseteq Derived(rels, T, <<"points-to", v>>)
  <2> SUFFICES ASSUME NEW x \in Derived(rels, S, <<"points-to", v>>)
               PROVE  x \in Derived(rels, T, <<"points-to", v>>)
    OBVIOUS
  <2>1. \A R \in rels : /\ pt(S, R.Dst) \subseteq pt(T, R.Dst)
                        /\ R.type = "ARGUMENT_FROM_CALLER" => S[<<"parameters", R.Dst>>] \subseteq T[<<"parameters", R.Dst>>]
                        /\ \A r \in pt(S, R.Dst) : /\ S[<<"memory", r>>] \subseteq T[<<"memory", r>>]
                                                   /\ S[<<"return", r>>] \subseteq T[<<"return", r>>]
    BY <1>1, SpaceType, RelationType
  <2>2. ASSUME NEW R \in rels, Gets(S, R, x)
        PROVE  Gets(T, R, x)
    BY <2>1, <2>2 DEF Gets
  <2> QED  BY <2>2, DerivedPointsTo
<1>3. ASSUME NEW t, NEW r
      PROVE  FlowsInto(rels, S, t, r) \subseteq FlowsInto(rels, T, t, r)
  BY <1>1, RelationType, DerivedFlow
<1>4. ASSUME NEW r
      PROVE  Derived(rels, S, <<"return", r>>) \subseteq Derived(rels, T, <<"return", r>>)
  BY <1>1, RelationType, DerivedReturn
<1>5. CASE \E v \in VIs : u = <<"points-to", v>>
  BY <1>2, <1>5
<1>6. ASSUME NEW r \in Regions, u \in {<<"memory", r>>, <<"parameters", r>>, <<"return", r>>}
      PROVE  Derived(rels, S, u) \subseteq Derived(rels, T, u)
  <2>1. CASE u = <<"memory", r>>
    <3>1. /\ Derived(rels, S, u) = FlowsInto(rels, S, "STORED_TO", r)
          /\ Derived(rels, T, u) = FlowsInto(rels, T, "STORED_TO", r)
      BY <2>1, DerivedContents
    <3> QED  BY <3>1, <1>3
  <2>2. CASE u = <<"parameters", r>>
    <3>1. /\ Derived(rels, S, u) = FlowsInto(rels, S, "ARGUMENT_TO_CALLEE", r)
          /\ Derived(rels, T, u) = FlowsInto(rels, T, "ARGUMENT_TO_CALLEE", r)
      BY <2>2, DerivedContents
    <3> QED  BY <3>1, <1>3
  <2>3. CASE u = <<"return", r>>
    BY <2>3, <1>4
  <2> QED  BY <1>6, <2>1, <2>2, <2>3
<1> QED  BY <1>5, <1>6, UnknownsAre

(* Only regions are derived. *)
LEMMA DerivedRegions ==
    ASSUME NEW rels \in ProgramRelations, NEW S \in Space, NEW u \in Unknowns
    PROVE  Derived(rels, S, u) \subseteq Regions
<1>2. ASSUME NEW v \in VIs
      PROVE  Derived(rels, S, <<"points-to", v>>) \subseteq Regions
  <2> SUFFICES ASSUME NEW x \in Derived(rels, S, <<"points-to", v>>)
               PROVE  x \in Regions
    OBVIOUS
  <2>1. \A R \in rels : /\ pt(S, R.Dst) \subseteq Regions
                        /\ R.type = "ARGUMENT_FROM_CALLER" => S[<<"parameters", R.Dst>>] \subseteq Regions
                        /\ \A r \in pt(S, R.Dst) : S[<<"memory", r>>] \subseteq Regions /\ S[<<"return", r>>] \subseteq Regions
    BY SpaceType, RelationType
  <2>2. ASSUME NEW R \in rels, Gets(S, R, x)
        PROVE  x \in Regions
    BY <2>1, <2>2 DEF Gets
  <2> QED  BY <2>2, DerivedPointsTo
<1>3. ASSUME NEW t, NEW r
      PROVE  FlowsInto(rels, S, t, r) \subseteq Regions
  BY SpaceType, RelationType, DerivedFlow
<1>4. ASSUME NEW r
      PROVE  Derived(rels, S, <<"return", r>>) \subseteq Regions
  BY SpaceType, RelationType, DerivedReturn
<1>5. CASE \E v \in VIs : u = <<"points-to", v>>
  BY <1>2, <1>5
<1>6. ASSUME NEW r \in Regions, u \in {<<"memory", r>>, <<"parameters", r>>, <<"return", r>>}
      PROVE  Derived(rels, S, u) \subseteq Regions
  <2>1. CASE u = <<"memory", r>>
    <3>1. Derived(rels, S, u) = FlowsInto(rels, S, "STORED_TO", r)
      BY <2>1, DerivedContents
    <3> QED  BY <3>1, <1>3
  <2>2. CASE u = <<"parameters", r>>
    <3>1. Derived(rels, S, u) = FlowsInto(rels, S, "ARGUMENT_TO_CALLEE", r)
      BY <2>2, DerivedContents
    <3> QED  BY <3>1, <1>3
  <2>3. CASE u = <<"return", r>>
    BY <2>3, <1>4
  <2> QED  BY <1>6, <2>1, <2>2, <2>3
<1> QED  BY <1>5, <1>6, UnknownsAre

(* A textbook solution obeys every relation, and is all that is derived.   *)
LEMMA ObeysIsClosed ==
    ASSUME NEW rels \in ProgramRelations, NEW S \in Space
    PROVE  Obeys(S, rels) <=> \A u \in Unknowns : Derived(rels, S, u) \subseteq S[u]
<1>1. ASSUME Obeys(S, rels), NEW u \in Unknowns
      PROVE  Derived(rels, S, u) \subseteq S[u]
  <2>1. \A R \in rels : Rule(S, R)
    BY <1>1 DEF Obeys
  <2>2. ASSUME NEW v \in VIs
        PROVE  Derived(rels, S, <<"points-to", v>>) \subseteq S[<<"points-to", v>>]
    <3> SUFFICES ASSUME NEW x \in Derived(rels, S, <<"points-to", v>>)
                 PROVE  x \in pt(S, v)
      BY DEF pt
    <3>1. v \in Regions => v \in pt(S, v)
      BY <1>1 DEF Obeys
    <3>2. ASSUME NEW R \in rels, Gets(S, R, x)
          PROVE  x \in pt(S, R.Src)
      BY <2>1, <3>2 DEF Gets, Rule
    <3> QED  BY <3>1, <3>2, DerivedPointsTo
  <2>3. ASSUME NEW r \in Regions
        PROVE  /\ FlowsInto(rels, S, "STORED_TO", r) \subseteq S[<<"memory", r>>]
               /\ FlowsInto(rels, S, "ARGUMENT_TO_CALLEE", r) \subseteq S[<<"parameters", r>>]
    <3>1. ASSUME NEW x \in FlowsInto(rels, S, "STORED_TO", r)
          PROVE  x \in S[<<"memory", r>>]
      <4>1. PICK R \in rels : R.type = "STORED_TO" /\ r \in pt(S, R.Dst) /\ x \in pt(S, R.Src)
        BY DerivedFlow
      <4>2. Rule(S, R)
        BY <2>1
      <4> QED  BY <4>1, <4>2 DEF Rule
    <3>2. ASSUME NEW x \in FlowsInto(rels, S, "ARGUMENT_TO_CALLEE", r)
          PROVE  x \in S[<<"parameters", r>>]
      <4>1. PICK R \in rels : R.type = "ARGUMENT_TO_CALLEE" /\ r \in pt(S, R.Dst) /\ x \in pt(S, R.Src)
        BY DerivedFlow
      <4>2. Rule(S, R)
        BY <2>1
      <4> QED  BY <4>1, <4>2 DEF Rule
    <3> QED  BY <3>1, <3>2
  <2>4. ASSUME NEW r \in Regions
        PROVE  Derived(rels, S, <<"return", r>>) \subseteq S[<<"return", r>>]
    <3> SUFFICES ASSUME NEW x \in Derived(rels, S, <<"return", r>>)
                 PROVE  x \in S[<<"return", r>>]
      OBVIOUS
    <3>1. PICK R \in rels : R.type = "RETURNED_TO_CALLER" /\ R.Dst = r /\ x \in pt(S, R.Src)
      BY DerivedReturn
    <3>2. Rule(S, R)
      BY <2>1
    <3> QED  BY <3>1, <3>2 DEF Rule
  <2>5. CASE \E v \in VIs : u = <<"points-to", v>>
    BY <2>2, <2>5
  <2>6. ASSUME NEW r \in Regions, u \in {<<"memory", r>>, <<"parameters", r>>, <<"return", r>>}
        PROVE  Derived(rels, S, u) \subseteq S[u]
    BY <2>3, <2>4, <2>6, DerivedContents
  <2> QED  BY <2>5, <2>6, UnknownsAre
<1>2. ASSUME \A u \in Unknowns : Derived(rels, S, u) \subseteq S[u]
      PROVE  Obeys(S, rels)
  <2>1. ASSUME NEW r \in Regions
        PROVE  r \in pt(S, r)
    <3>1. r \in Derived(rels, S, <<"points-to", r>>)
      BY DerivedPointsTo
    <3> QED  BY <1>2, <3>1, AreUnknowns, RegionsAssumption DEF pt
  <2>2. ASSUME NEW R \in rels
        PROVE  Rule(S, R)
    <3>1. R.Src \in VIs /\ R.Dst \in VIs
      BY RelationType
    <3>2. Derived(rels, S, <<"points-to", R.Src>>) \subseteq pt(S, R.Src)
      BY <1>2, <3>1, AreUnknowns DEF pt
    <3>3. ASSUME NEW r \in Regions
          PROVE  /\ FlowsInto(rels, S, "STORED_TO", r) \subseteq S[<<"memory", r>>]
                 /\ FlowsInto(rels, S, "ARGUMENT_TO_CALLEE", r) \subseteq S[<<"parameters", r>>]
                 /\ Derived(rels, S, <<"return", r>>) \subseteq S[<<"return", r>>]
      BY <1>2, AreUnknowns, DerivedContents
    <3>4. /\ R.type = "DEPENDS_ON" => pt(S, R.Dst) \subseteq pt(S, R.Src)
          /\ R.type = "LOADED_FROM" => \A r \in pt(S, R.Dst) : S[<<"memory", r>>] \subseteq pt(S, R.Src)
          /\ R.type = "ARGUMENT_FROM_CALLER" => S[<<"parameters", R.Dst>>] \subseteq pt(S, R.Src)
          /\ R.type = "RETURNED_FROM_CALLEE" => \A r \in pt(S, R.Dst) : S[<<"return", r>>] \subseteq pt(S, R.Src)
      <4>1. \A x : Gets(S, R, x) => x \in pt(S, R.Src)
        BY <3>2, DerivedPointsTo
      <4> QED  BY <4>1 DEF Gets
    <3>5. /\ R.type = "STORED_TO" => \A r \in pt(S, R.Dst) : pt(S, R.Src) \subseteq S[<<"memory", r>>]
          /\ R.type = "ARGUMENT_TO_CALLEE" => \A r \in pt(S, R.Dst) : pt(S, R.Src) \subseteq S[<<"parameters", r>>]
      BY <3>1, <3>3, SpaceType, DerivedFlow
    <3>6. R.type = "RETURNED_TO_CALLER" => pt(S, R.Src) \subseteq S[<<"return", R.Dst>>]
      BY <3>3, RelationType, DerivedReturn
    <3> QED  BY <3>4, <3>5, <3>6 DEF Rule
  <2> QED  BY <2>1, <2>2 DEF Obeys
<1> QED  BY <1>1, <1>2

(* Andersen's sets obey all relations, and are the least that do. *)
LEMMA AndersenIsLeast ==
    ASSUME NEW rels \in ProgramRelations
    PROVE  /\ Andersen(rels) \in Space
           /\ Obeys(Andersen(rels), rels)
           /\ \A S \in Space : Obeys(S, rels) => Below(Andersen(rels), S)
<1> DEFINE F == [S \in Space |-> [u \in Unknowns |-> S[u] \cup Derived(rels, S, u)]]
           b == [u \in Unknowns |-> {}]
<1>1. Andersen(rels) = LeastFixedPoint(F, b)
  BY DEF Andersen, Space
<1>2. IsStep(F, Unknowns, Regions)
  <2>1. F \in [Space -> Space]
    BY DerivedRegions DEF Space
  <2>2. ASSUME NEW S \in Space
        PROVE  Below(S, F[S])
    BY DEF Below, Space
  <2>3. ASSUME NEW S \in Space, NEW T \in Space, Below(S, T)
        PROVE  Below(F[S], F[T])
    <3>1. \A u \in Unknowns : S[u] \subseteq T[u]
      BY <2>3 DEF Below, Space
    <3>2. \A u \in Unknowns : Derived(rels, S, u) \subseteq Derived(rels, T, u)
      BY <2>3, DerivedMonotone
    <3> QED  BY <3>1, <3>2 DEF Below
  <2> HIDE DEF F
  <2> QED  BY <2>1, <2>2, <2>3 DEF IsStep, Space
<1>3. IsFiniteSet(Unknowns) /\ IsFiniteSet(Regions)
  <2>1. IsFiniteSet(VIs) /\ IsFiniteSet(Regions)
    BY RegionsAssumption, FS_Subset
  <2>2. IsFiniteSet({"points-to"}) /\ IsFiniteSet({"memory", "parameters", "return"})
    <3>1. {"memory", "parameters", "return"} = ({"memory"} \cup {"parameters"}) \cup {"return"}
      OBVIOUS
    <3>2. IsFiniteSet({"points-to"}) /\ IsFiniteSet({"memory"}) /\ IsFiniteSet({"parameters"}) /\ IsFiniteSet({"return"})
      BY FS_Singleton
    <3>3. IsFiniteSet({"memory"} \cup {"parameters"})
      BY <3>2, FS_Union
    <3>4. IsFiniteSet(({"memory"} \cup {"parameters"}) \cup {"return"})
      BY <3>2, <3>3, FS_Union
    <3> QED  BY <3>1, <3>2, <3>4
  <2>3. IsFiniteSet({"points-to"} \X VIs) /\ IsFiniteSet({"memory", "parameters", "return"} \X Regions)
    BY <2>1, <2>2, FS_Product
  <2> QED  BY <2>1, <2>3, FS_Union DEF Unknowns
<1>4. b \in Space
  BY DEF Space
<1> DEFINE L == LeastFixedPoint(F, b)
<1>5. /\ L \in Space /\ F[L] = L
      /\ \A S \in Space : Below(F[S], S) /\ Below(b, S) => Below(L, S)
  <2> HIDE DEF F, b
  <2> QED  BY <1>2, <1>3, <1>4, LeastFixedPointIsLeast DEF Space
<1> HIDE DEF L
<1>6. Obeys(L, rels)
  <2>1. F[L] = [u \in Unknowns |-> L[u] \cup Derived(rels, L, u)]
    BY <1>5
  <2>2. \A u \in Unknowns : Derived(rels, L, u) \subseteq L[u]
    BY <1>5, <2>1
  <2> QED  BY <1>5, <2>2, ObeysIsClosed
<1>7. ASSUME NEW S \in Space, Obeys(S, rels)
      PROVE  Below(L, S)
  <2>1. Below(F[S], S)
    BY <1>7, ObeysIsClosed DEF Below, Space
  <2>2. Below(b, S)
    BY DEF Below
  <2> QED  BY <1>5, <2>1, <2>2
<1> QED  BY <1>1, <1>5, <1>6, <1>7 DEF L

-----------------------------------------------------------------------------
(* The algorithms. *)

(* The hops of paths of one, two and three. *)
LEMMA Hops ==
    /\ \A x : /\ Len(<<x>>) = 1 /\ ~IsTraversal(<<x>>)
    /\ \A x, y : /\ <<x>> \o <<y>> = <<x, y>>
                 /\ IsTraversal(<<x, y>>)
                 /\ FirstHop(<<x, y>>) = <<x>>
                 /\ SecondHop(<<x, y>>) = <<y>>
    /\ \A x, y, z : /\ <<x>> \o <<y>> \o <<z>> = <<x, y, z>>
                    /\ IsTraversal(<<x, y, z>>)
                    /\ FirstHop(<<x, y, z>>) = <<x>>
                    /\ SecondHop(<<x, y, z>>) = <<y, z>>
<1>1. ASSUME NEW x
      PROVE  Len(<<x>>) = 1 /\ ~IsTraversal(<<x>>)
  BY DEF IsTraversal
<1>2. ASSUME NEW x, NEW y
      PROVE  /\ <<x>> \o <<y>> = <<x, y>>
             /\ IsTraversal(<<x, y>>)
             /\ FirstHop(<<x, y>>) = <<x>>
             /\ SecondHop(<<x, y>>) = <<y>>
  <2>1. <<x>> \o <<y>> = <<x, y>>
    BY ConcatOne
  <2>2. Len(<<x, y>>) = 2 /\ Head(<<x, y>>) = x
    OBVIOUS
  <2>3. Tail(<<x, y>>) = <<y>>
    OBVIOUS
  <2> QED  BY <2>1, <2>2, <2>3 DEF IsTraversal, FirstHop, SecondHop
<1>3. ASSUME NEW x, NEW y, NEW z
      PROVE  /\ <<x>> \o <<y>> \o <<z>> = <<x, y, z>>
             /\ IsTraversal(<<x, y, z>>)
             /\ FirstHop(<<x, y, z>>) = <<x>>
             /\ SecondHop(<<x, y, z>>) = <<y, z>>
  <2>1. <<x>> \o <<y>> \o <<z>> = <<x, y, z>>
    <3>1. (<<x>> \o <<y>>) = <<x, y>>
      BY ConcatOne
    <3>2. (<<x>> \o <<y>>) \o <<z>> = <<x, y>> \o <<z>>
      BY <3>1
    <3> QED  BY <3>2, ConcatTwo
  <2>2. Len(<<x, y, z>>) = 3 /\ Head(<<x, y, z>>) = x
    OBVIOUS
  <2>3. Tail(<<x, y, z>>) = <<y, z>>
    OBVIOUS
  <2> QED  BY <2>1, <2>2, <2>3 DEF IsTraversal, FirstHop, SecondHop
<1> QED  BY <1>1, <1>2, <1>3

(* The algorithms, by the paths that they follow. *)
TwoHops == {<<"self-reverse", "actual-params">>, <<"self-reverse", "formal-return-value">>,
            <<"self", "actual-return-value">>, <<"self", "formal-params-reverse">>,
            <<"self-reverse", "stored-values">>, <<"self-reverse", "loaded-values-reverse">>}
ThreeHops == {<<"self", "self-reverse", "stored-values">>,
              <<"self", "self-reverse", "loaded-values-reverse">>}
Literals == {<<"self">>, <<"self-reverse">>, <<"actual-params">>, <<"actual-return-value">>,
             <<"formal-params-reverse">>, <<"formal-return-value">>, <<"loaded-values-reverse">>, <<"stored-values">>}

(* The paths of the traversals. *)
LEMMA TraversalNames ==
    /\ TwoHopTraversal(ReversePointsTo, ActualParameters) = <<"self-reverse", "actual-params">>
    /\ TwoHopTraversal(ReversePointsTo, FormalReturnValueRev) = <<"self-reverse", "formal-return-value">>
    /\ TwoHopTraversal(PointsToSet, ActualReturnValue) = <<"self", "actual-return-value">>
    /\ TwoHopTraversal(PointsToSet, FormalParametersRev) = <<"self", "formal-params-reverse">>
    /\ ThreeHopTraversal(PointsToSet, ReversePointsTo, StoredValues) = <<"self", "self-reverse", "stored-values">>
    /\ ThreeHopTraversal(PointsToSet, ReversePointsTo, LoadedValuesRev) = <<"self", "self-reverse", "loaded-values-reverse">>
BY Hops DEF TwoHopTraversal, ThreeHopTraversal, PointsToSet, ReversePointsTo, ActualParameters, ActualReturnValue, FormalParametersRev,
  FormalReturnValueRev, LoadedValuesRev, StoredValues

(* Nothing else is a traversal. *)
LEMMA TraversalsAre == Traversals = TwoHops \cup ThreeHops
<1>1. RelationTraversals =
   {<<"self-reverse", "actual-params">>, <<"self-reverse", "formal-return-value">>,
            <<"self", "actual-return-value">>, <<"self", "formal-params-reverse">>,
    <<"self", "self-reverse", "stored-values">>,
              <<"self", "self-reverse", "loaded-values-reverse">>}
  BY TraversalNames DEF RelationTraversals
<1>2. {u \in RelationTraversals : Len(u) = 3} = ThreeHops
  <2>1. \A x, y : Len(<<x, y>>) # 3
    OBVIOUS
  <2>2. \A x, y, z : Len(<<x, y, z>>) = 3
    OBVIOUS
  <2> QED  BY <1>1, <2>1, <2>2 DEF ThreeHops
<1>3. {SecondHop(t) : t \in ThreeHops} = {<<"self-reverse", "stored-values">>, <<"self-reverse", "loaded-values-reverse">>}
  BY Hops DEF ThreeHops
<1> QED  BY <1>1, <1>2, <1>3 DEF Traversals, TwoHops, ThreeHops

(* The algorithms that a traversal can apply to the values of its first     *)
(* hop.                                                                     *)
LEMMA TransformsAre ==
    TransformAlgorithms = {<<"actual-params">>, <<"formal-return-value">>, <<"actual-return-value">>,
        <<"formal-params-reverse">>, <<"stored-values">>, <<"loaded-values-reverse">>,
        <<"self-reverse", "stored-values">>, <<"self-reverse", "loaded-values-reverse">>}
<1>1. {SecondHop(t) : t \in TwoHops} = {<<"actual-params">>, <<"formal-return-value">>, <<"actual-return-value">>,
        <<"formal-params-reverse">>, <<"stored-values">>, <<"loaded-values-reverse">>}
  BY Hops DEF TwoHops
<1>2. {SecondHop(t) : t \in ThreeHops} = {<<"self-reverse", "stored-values">>, <<"self-reverse", "loaded-values-reverse">>}
  BY Hops DEF ThreeHops
<1> QED  BY <1>1, <1>2, TraversalsAre DEF TransformAlgorithms

(* There are no other algorithms. *)
LEMMA AlgorithmsAre == Algorithms = Literals \cup TwoHops \cup ThreeHops
BY TraversalsAre DEF Algorithms, InstructionAnalysisAlgorithms, Literals, PointsToSet, ReversePointsTo, ActualParameters, ActualReturnValue, FormalParametersRev,
  FormalReturnValueRev, LoadedValuesRev, StoredValues

-----------------------------------------------------------------------------
(* The heap. *)

(* What the heap has for an AR. *)
Cells == [set : Seq(VIs), work : Seq(Eq!Works), subsets : SUBSET AnalysisResults]

(* The AR of the first hop of the traversal a, and the work that a starts   *)
(* with.                                                                    *)
FirstAR(a) == <<FirstHop(a[1]), a[2]>>
Traverse(a) == Eq!TransformWork(SecondHop(a[1]), FirstAR(a))

(* The ValueInfo that is in the AR a from the start. *)
Own(a) == IF a[1] = ReversePointsTo \/ (a[1] = PointsToSet /\ a[2] \in Regions) THEN <<a[2]>> ELSE <<>>

(* The cell c is that of the AR a once the inclusions I, pairs of ARs, are  *)
(* made: a transform if a is a traversal, and a SubsetWork for each of its  *)
(* inclusions.                                                              *)
IsCell(a, c, I) ==
    /\ c \in Cells
    /\ c.set = Own(a)
    /\ c.subsets = {s \in AnalysisResults : <<a, s>> \in I /\ s # a}
    /\ IsTraversal(a[1]) => 1 \in DOMAIN c.work /\ c.work[1] = Traverse(a)
    /\ \A j \in DOMAIN c.work : \/ IsTraversal(a[1]) /\ j = 1
                                \/ \E s \in c.subsets : c.work[j] = Eq!SubsetWork(s)
    /\ \A s \in c.subsets : \E j \in DOMAIN c.work : c.work[j] = Eq!SubsetWork(s)

(* The heap h holds the inclusions I and nothing else. *)
Holds(h, I) ==
    /\ h \in [DOMAIN h -> Cells]
    /\ DOMAIN h \subseteq AnalysisResults
    /\ \A a \in DOMAIN h : IsCell(a, h[a], I)
    /\ \A a \in DOMAIN h : IsTraversal(a[1]) => FirstAR(a) \in DOMAIN h
    /\ I \subseteq (DOMAIN h) \X (DOMAIN h)
    /\ \A r \in Regions : <<PointsToSet, r>> \in DOMAIN h

(* The hops of a traversal are algorithms, and its first hop is literal. *)
LEMMA TraversalHops ==
    ASSUME NEW alg \in Algorithms
    PROVE  /\ IsTraversal(alg) <=> alg \in Traversals
           /\ IsTraversal(alg) => /\ FirstHop(alg) \in {PointsToSet, ReversePointsTo}
                                  /\ FirstHop(alg) \in Algorithms /\ ~IsTraversal(FirstHop(alg))
                                  /\ SecondHop(alg) \in Algorithms
                                  /\ SecondHop(alg) \in TransformAlgorithms
<1>1. CASE alg \in Literals
  BY <1>1, Hops, TraversalsAre DEF Literals, TwoHops, ThreeHops
<1>2. CASE alg \in TwoHops
  <2>1. IsTraversal(alg) /\ alg \in Traversals
    BY <1>2, Hops, TraversalsAre DEF TwoHops
  <2>2. FirstHop(alg) \in {<<"self">>, <<"self-reverse">>}
    BY <1>2, Hops DEF TwoHops
  <2>3. SecondHop(alg) \in Literals
    BY <1>2, Hops DEF TwoHops, Literals
  <2>4. ~IsTraversal(FirstHop(alg)) /\ FirstHop(alg) \in Algorithms
    BY <2>2, Hops, AlgorithmsAre DEF Literals
  <2>5. SecondHop(alg) \in TransformAlgorithms
    BY <2>1 DEF TransformAlgorithms
  <2> QED  BY <2>1, <2>2, <2>3, <2>4, <2>5, AlgorithmsAre DEF PointsToSet, ReversePointsTo
<1>3. CASE alg \in ThreeHops
  <2>1. IsTraversal(alg) /\ alg \in Traversals
    BY <1>3, Hops, TraversalsAre DEF ThreeHops
  <2>2. FirstHop(alg) \in {<<"self">>, <<"self-reverse">>}
    BY <1>3, Hops DEF ThreeHops
  <2>3. SecondHop(alg) \in TwoHops
    BY <1>3, Hops DEF TwoHops, ThreeHops
  <2>4. ~IsTraversal(FirstHop(alg)) /\ FirstHop(alg) \in Algorithms
    BY <2>2, Hops, AlgorithmsAre DEF Literals
  <2>5. SecondHop(alg) \in TransformAlgorithms
    BY <2>1 DEF TransformAlgorithms
  <2> QED  BY <2>1, <2>2, <2>3, <2>4, <2>5, AlgorithmsAre DEF PointsToSet, ReversePointsTo
<1> QED  BY <1>1, <1>2, <1>3, AlgorithmsAre

(* The parts of an AR's name. *)
LEMMA ARType ==
    ASSUME NEW a \in AnalysisResults
    PROVE  a[1] \in Algorithms /\ a[2] \in VIs /\ a = <<a[1], a[2]>>
BY DEF AnalysisResults

(* The types of the AR and the work that a traversal starts with. *)
LEMMA FirstARType ==
    ASSUME NEW a \in AnalysisResults, IsTraversal(a[1])
    PROVE  /\ FirstAR(a) \in AnalysisResults
           /\ ~IsTraversal(FirstAR(a)[1])
           /\ FirstAR(a)[1] \in {PointsToSet, ReversePointsTo} /\ FirstAR(a)[2] = a[2]
           /\ Traverse(a) \in Eq!Works
<1>1. FirstAR(a) \in AnalysisResults /\ FirstAR(a)[1] = FirstHop(a[1]) /\ FirstAR(a)[2] = a[2]
  BY ARType, TraversalHops DEF FirstAR, AnalysisResults
<1>2. SecondHop(a[1]) \in Algorithms
  BY ARType, TraversalHops
<1>3. Traverse(a) \in Eq!TransformWorks
  BY <1>1, <1>2 DEF Traverse, Eq!TransformWork, Eq!TransformWorks
<1> QED  BY <1>1, <1>3, ARType, TraversalHops DEF Eq!Works

(* The two algorithms of first hops are different, and literal. *)
LEMMA NotTraversals == ~IsTraversal(PointsToSet) /\ ~IsTraversal(ReversePointsTo) /\ PointsToSet # ReversePointsTo
BY Hops DEF PointsToSet, ReversePointsTo

(* A new AR has the cell of one without inclusions. *)
LEMMA NewCell ==
    ASSUME NEW a \in AnalysisResults, ~(a[1] = PointsToSet /\ a[2] \in Regions), NEW I,
           \A s : <<a, s>> \notin I
    PROVE  IsCell(a, run(a), I)
<1>1. CASE IsTraversal(a[1])
  <2>1. run(a) = [set |-> <<>>, work |-> <<Traverse(a)>>, subsets |-> {}]
    BY <1>1, NotTraversals DEF run, Traverse, FirstAR
  <2>2. Own(a) = <<>>
    BY <1>1, NotTraversals DEF Own
  <2>3. Traverse(a) \in Eq!Works
    BY <1>1, FirstARType
  <2> DEFINE w == <<Traverse(a)>>
  <2>4. w \in Seq(Eq!Works) /\ DOMAIN w = {1} /\ w[1] = Traverse(a)
    BY <2>3
  <2> HIDE DEF w
  <2>5. run(a) = [set |-> <<>>, work |-> w, subsets |-> {}]
    BY <2>1 DEF w
  <2> QED  BY <1>1, <2>2, <2>4, <2>5 DEF IsCell, Cells
<1>2. CASE ~IsTraversal(a[1])
  <2>1. run(a).work = <<>> /\ run(a).subsets = {} /\ run(a).set = Own(a)
    BY <1>2 DEF run, Own
  <2>2. run(a) = [set |-> Own(a), work |-> <<>>, subsets |-> {}]
    BY <1>2 DEF run, Own
  <2>3. Own(a) \in Seq(VIs)
    BY ARType DEF Own
  <2>4. DOMAIN <<>> = {}
    OBVIOUS
  <2> QED  BY <1>2, <2>1, <2>2, <2>3, <2>4 DEF IsCell, Cells
<1> QED  BY <1>1, <1>2

(* Creating an AR makes no inclusion. *)
LEMMA CreateHolds ==
    ASSUME NEW h, NEW I, Holds(h, I), NEW a \in AnalysisResults,
           IsTraversal(a[1]) => FirstAR(a) \in DOMAIN h
    PROVE  /\ Holds(Create(h, a), I)
           /\ DOMAIN Create(h, a) = DOMAIN h \cup {a}
<1> DEFINE g == Create(h, a)
<1>1. g = [x \in DOMAIN h \cup {a} |-> IF x \in DOMAIN h THEN h[x] ELSE run(a)]
  <2>1. CASE a \in DOMAIN h
    <3>1. DOMAIN h \cup {a} = DOMAIN h
      BY <2>1
    <3>2. h = [x \in DOMAIN h |-> h[x]]
      BY DEF Holds
    <3> QED  BY <2>1, <3>1, <3>2 DEF Create
  <2>2. CASE a \notin DOMAIN h
    BY <2>2 DEF Create
  <2> QED  BY <2>1, <2>2
<1> HIDE DEF g
<1>2. DOMAIN g = DOMAIN h \cup {a} /\ \A x \in DOMAIN h : g[x] = h[x]
  BY <1>1
<1>3. ASSUME a \notin DOMAIN h
      PROVE  IsCell(a, g[a], I)
  <2>1. g[a] = run(a)
    BY <1>1, <1>3
  <2>2. \A s : <<a, s>> \notin I
    BY <1>3 DEF Holds
  <2>3. ~(a[1] = PointsToSet /\ a[2] \in Regions)
    BY <1>3, ARType DEF Holds
  <2> QED  BY <2>1, <2>2, <2>3, NewCell
<1>4. \A x \in DOMAIN g : IsCell(x, g[x], I)
  BY <1>2, <1>3 DEF Holds
<1>5. g \in [DOMAIN g -> Cells]
  <2>1. \A x \in DOMAIN g : g[x] \in Cells
    BY <1>4 DEF IsCell
  <2>2. g = [x \in DOMAIN g |-> g[x]]
    BY <1>1
  <2> QED  BY <2>1, <2>2
<1> QED  BY <1>2, <1>4, <1>5 DEF Holds, g

(* Asking for an AR makes no inclusion, and leaves it in the heap. *)
LEMMA GetOrCreateHolds ==
    ASSUME NEW h, NEW I, Holds(h, I), NEW a \in AnalysisResults
    PROVE  /\ Holds(getOrCreateAlgorithmResult(h, a), I)
           /\ a \in DOMAIN getOrCreateAlgorithmResult(h, a)
           /\ DOMAIN h \subseteq DOMAIN getOrCreateAlgorithmResult(h, a)
<1>1. CASE IsTraversal(a[1]) /\ a \notin DOMAIN h
  <2> DEFINE k == Create(h, FirstAR(a))
  <2>1. Holds(k, I) /\ DOMAIN k = DOMAIN h \cup {FirstAR(a)}
    BY <1>1, FirstARType, CreateHolds
  <2>2. getOrCreateAlgorithmResult(h, a) = Create(k, a)
    BY <1>1 DEF getOrCreateAlgorithmResult, FirstAR
  <2> HIDE DEF k
  <2>3. Holds(Create(k, a), I) /\ DOMAIN Create(k, a) = DOMAIN k \cup {a}
    BY <2>1, CreateHolds
  <2> QED  BY <2>1, <2>2, <2>3
<1>2. CASE ~(IsTraversal(a[1]) /\ a \notin DOMAIN h)
  <2>1. getOrCreateAlgorithmResult(h, a) = Create(h, a)
    BY <1>2 DEF getOrCreateAlgorithmResult
  <2>2. IsTraversal(a[1]) => FirstAR(a) \in DOMAIN h
    BY <1>2 DEF Holds
  <2>3. Holds(Create(h, a), I) /\ DOMAIN Create(h, a) = DOMAIN h \cup {a}
    BY <2>2, CreateHolds
  <2> QED  BY <2>1, <2>3
<1> QED  BY <1>1, <1>2

(* Appending a subset makes one inclusion. *)
LEMMA AppendedCell ==
    ASSUME NEW a \in AnalysisResults, NEW c, NEW I, IsCell(a, c, I),
           NEW s \in AnalysisResults, s # a, <<a, s>> \notin I
    PROVE  IsCell(a, [c EXCEPT !.work = Append(@, Eq!SubsetWork(s)), !.subsets = @ \cup {s}],
                  I \cup {<<a, s>>})
<1> DEFINE w == Append(c.work, Eq!SubsetWork(s))
           d == [c EXCEPT !.work = Append(@, Eq!SubsetWork(s)), !.subsets = @ \cup {s}]
<1>1. Eq!SubsetWork(s) \in Eq!Works
  BY DEF Eq!SubsetWork, Eq!Works, Eq!SubsetWorks
<1>2. c \in Cells /\ c.work \in Seq(Eq!Works)
  BY DEF IsCell, Cells
<1>3. PICK n \in Nat : Len(c.work) = n /\ DOMAIN c.work = 1 .. n
  BY <1>2, LenProperties
<1>4. /\ w \in Seq(Eq!Works) /\ DOMAIN w = 1 .. n + 1
      /\ \A j \in 1 .. n : w[j] = c.work[j]
      /\ w[n + 1] = Eq!SubsetWork(s)
  BY <1>1, <1>2, <1>3, AppendProperties, LenProperties
<1>5. d.work = w /\ d.set = c.set /\ d.subsets = c.subsets \cup {s} /\ d \in Cells
  BY <1>2, <1>4 DEF Cells
<1> HIDE DEF w, d
<1>6. d.subsets = {x \in AnalysisResults : <<a, x>> \in I \cup {<<a, s>>} /\ x # a}
  BY <1>5 DEF IsCell
<1>7. IsTraversal(a[1]) => 1 \in DOMAIN d.work /\ d.work[1] = Traverse(a)
  BY <1>3, <1>4, <1>5 DEF IsCell
<1>8. ASSUME NEW j \in DOMAIN d.work
      PROVE  \/ IsTraversal(a[1]) /\ j = 1
             \/ \E x \in d.subsets : d.work[j] = Eq!SubsetWork(x)
  <2>1. CASE j = n + 1
    BY <1>4, <1>5, <2>1
  <2>2. CASE j \in 1 .. n
    <3>1. \/ IsTraversal(a[1]) /\ j = 1
          \/ \E x \in c.subsets : c.work[j] = Eq!SubsetWork(x)
      BY <1>3, <2>2 DEF IsCell
    <3> QED  BY <3>1, <2>2, <1>4, <1>5
  <2> QED  BY <2>1, <2>2, <1>3, <1>4, <1>5
<1>9. ASSUME NEW x \in d.subsets
      PROVE  \E j \in DOMAIN d.work : d.work[j] = Eq!SubsetWork(x)
  <2>1. CASE x = s
    <3>1. n + 1 \in DOMAIN d.work
      BY <1>3, <1>4, <1>5
    <3> QED  BY <1>4, <1>5, <2>1, <3>1
  <2>2. CASE x \in c.subsets
    <3>1. PICK j \in DOMAIN c.work : c.work[j] = Eq!SubsetWork(x)
      BY <2>2 DEF IsCell
    <3>2. j \in DOMAIN d.work /\ d.work[j] = c.work[j]
      BY <1>3, <1>4, <1>5, <3>1
    <3> QED  BY <3>1, <3>2
  <2> QED  BY <2>1, <2>2, <1>5
<1> QED  BY <1>5, <1>6, <1>7, <1>8, <1>9 DEF IsCell, d

(* Inclusions of other ARs leave a cell alone. *)
LEMMA MoreInclusions ==
    ASSUME NEW a \in AnalysisResults, NEW c, NEW I, NEW b, NEW s, IsCell(a, c, I), a # b \/ s = a
    PROVE  IsCell(a, c, I \cup {<<b, s>>})
<1>1. {x \in AnalysisResults : <<a, x>> \in I /\ x # a}
          = {x \in AnalysisResults : <<a, x>> \in I \cup {<<b, s>>} /\ x # a}
  OBVIOUS
<1> QED  BY <1>1 DEF IsCell

(* addInstructionAnalysisWork makes one inclusion, whether or not it was    *)
(* made before.                                                             *)
LEMMA WorkHolds ==
    ASSUME NEW h, NEW I, Holds(h, I), NEW a \in AnalysisResults, NEW s \in AnalysisResults
    PROVE  Holds(addInstructionAnalysisWork(h, a, s), I \cup {<<a, s>>})
<1> DEFINE g == getOrCreateAlgorithmResult(h, a)
           k == getOrCreateAlgorithmResult(g, s)
           J == I \cup {<<a, s>>}
<1>1. Holds(g, I) /\ a \in DOMAIN g
  BY GetOrCreateHolds
<1> HIDE DEF g
<1>2. Holds(k, I) /\ s \in DOMAIN k /\ a \in DOMAIN k
  BY <1>1, GetOrCreateHolds
<1> HIDE DEF k
<1>3. addInstructionAnalysisWork(h, a, s) = appendSubset(k, a, s)
  BY DEF addInstructionAnalysisWork, k, g
<1>4. IsCell(a, k[a], I)
  BY <1>2 DEF Holds
<1>5. \A x \in DOMAIN k : x # a => IsCell(x, k[x], J)
  BY <1>2, MoreInclusions DEF Holds
<1>6. J \subseteq (DOMAIN k) \X (DOMAIN k)
  BY <1>2 DEF Holds
<1>7. CASE s # a /\ s \notin k[a].subsets
  <2> DEFINE m == [k EXCEPT ![a].work = Append(@, Eq!SubsetWork(s)), ![a].subsets = @ \cup {s}]
             d == [k[a] EXCEPT !.work = Append(@, Eq!SubsetWork(s)), !.subsets = @ \cup {s}]
  <2>1. <<a, s>> \notin I
    BY <1>4, <1>7 DEF IsCell
  <2>2. IsCell(a, d, J)
    BY <1>4, <1>7, <2>1, AppendedCell
  <2>3. k \in [DOMAIN k -> Cells]
    BY <1>2 DEF Holds
  <2>4. m = [k EXCEPT ![a] = d]
    BY <1>2, <2>3 DEF Cells
  <2> HIDE DEF d, m
  <2>5. DOMAIN m = DOMAIN k /\ m[a] = d /\ \A x \in DOMAIN k : x # a => m[x] = k[x]
    BY <1>2, <2>3, <2>4
  <2>6. \A x \in DOMAIN m : IsCell(x, m[x], J)
    BY <1>5, <2>2, <2>5
  <2>7. m \in [DOMAIN m -> Cells]
    BY <2>2, <2>3, <2>4 DEF IsCell
  <2>8. Holds(m, J)
    BY <1>2, <1>6, <2>5, <2>6, <2>7 DEF Holds
  <2> QED  BY <1>3, <1>7, <2>8 DEF appendSubset, m
<1>8. CASE s = a
  <2>1. IsCell(a, k[a], J)
    BY <1>4, <1>8, MoreInclusions
  <2>2. Holds(k, J)
    BY <1>2, <1>5, <1>6, <2>1 DEF Holds
  <2> QED  BY <1>3, <1>8, <2>2 DEF appendSubset
<1>9. CASE s \in k[a].subsets
  <2>1. J = I
    BY <1>4, <1>9 DEF IsCell
  <2> QED  BY <1>2, <1>3, <1>9, <2>1 DEF appendSubset
<1> QED  BY <1>7, <1>8, <1>9

(* The inclusions that the relation R asks for: what one AR includes from now on. *)
Inclusions(R) ==
    CASE R.type = "ARGUMENT_FROM_CALLER" ->
        {<<<<FormalParametersRev, R.Dst>>, <<ReversePointsTo, R.Src>>>>,
         <<<<PointsToSet, R.Src>>, <<TwoHopTraversal(ReversePointsTo, ActualParameters), R.Dst>>>>}
      [] R.type = "ARGUMENT_TO_CALLEE" ->
        {<<<<ActualParameters, R.Dst>>, <<PointsToSet, R.Src>>>>,
         <<<<ReversePointsTo, R.Src>>, <<TwoHopTraversal(PointsToSet, FormalParametersRev), R.Dst>>>>}
      [] R.type = "DEPENDS_ON" ->
        {<<<<PointsToSet, R.Src>>, <<PointsToSet, R.Dst>>>>,
         <<<<ReversePointsTo, R.Dst>>, <<ReversePointsTo, R.Src>>>>}
      [] R.type = "LOADED_FROM" ->
        {<<<<LoadedValuesRev, R.Dst>>, <<ReversePointsTo, R.Src>>>>,
         <<<<PointsToSet, R.Src>>, <<ThreeHopTraversal(PointsToSet, ReversePointsTo, StoredValues), R.Dst>>>>}
      [] R.type = "RETURNED_FROM_CALLEE" ->
        {<<<<FormalReturnValueRev, R.Dst>>, <<ReversePointsTo, R.Src>>>>,
         <<<<PointsToSet, R.Src>>, <<TwoHopTraversal(PointsToSet, ActualReturnValue), R.Dst>>>>}
      [] R.type = "RETURNED_TO_CALLER" ->
        {<<<<ActualReturnValue, R.Dst>>, <<PointsToSet, R.Src>>>>,
         <<<<ReversePointsTo, R.Src>>, <<TwoHopTraversal(ReversePointsTo, FormalReturnValueRev), R.Dst>>>>}
      [] R.type = "STORED_TO" ->
        {<<<<ReversePointsTo, R.Src>>, <<ThreeHopTraversal(PointsToSet, ReversePointsTo, LoadedValuesRev), R.Dst>>>>,
         <<<<StoredValues, R.Dst>>, <<PointsToSet, R.Src>>>>}

(* The inclusions that all relations of rels ask for. *)
AllInclusions(rels) == UNION {Inclusions(R) : R \in rels}

(* All ARs that the relations speak of exist. *)
LEMMA AlgorithmTypes ==
    /\ \A v \in VIs : \A alg \in {PointsToSet, ReversePointsTo, ActualParameters, ActualReturnValue, FormalParametersRev,
          FormalReturnValueRev, LoadedValuesRev, StoredValues} : <<alg, v>> \in AnalysisResults
    /\ \A v \in VIs : \A alg \in RelationTraversals : <<alg, v>> \in AnalysisResults
BY DEF AnalysisResults, Algorithms, InstructionAnalysisAlgorithms, Traversals

(* handleRelation makes the inclusions that its relation asks for. *)
LEMMA HandleHolds ==
    ASSUME NEW h, NEW I, Holds(h, I), NEW R \in Relations
    PROVE  Holds(handleRelation(h, R), I \cup Inclusions(R))
<1>0. R.Src \in VIs /\ R.Dst \in VIs /\ R.type \in RelationTypes
  BY DEF Relations
<1>1. CASE R.type = "ARGUMENT_FROM_CALLER"
  <2> DEFINE k == addInstructionAnalysisWork(h, <<FormalParametersRev, R.Dst>>, <<ReversePointsTo, R.Src>>)
             m == addInstructionAnalysisWork(k, <<PointsToSet, R.Src>>, <<TwoHopTraversal(ReversePointsTo, ActualParameters), R.Dst>>)
  <2>1. \A x : /\ ForActualParameters(x, R) = x
              /\ ForActualReturnValue(x, R) = x
              /\ ForFormalReturnValueRev(x, R) = x
              /\ ForLoadedValuesRev(x, R) = x
              /\ ForReversePointsTo(x, R) = x
              /\ ForStoredValues(x, R) = x
    BY <1>1 DEF When, ForActualParameters, ForActualReturnValue, ForFormalReturnValueRev, ForLoadedValuesRev, ForReversePointsTo, ForStoredValues
  <2>2. ForFormalParametersRev(h, R) = k
    BY <1>1 DEF When, ForFormalParametersRev
  <2>3. ForPointsTo(k, R) = m
    BY <1>1 DEF When, ForPointsTo
  <2>4. Inclusions(R) = {<<<<FormalParametersRev, R.Dst>>, <<ReversePointsTo, R.Src>>>>, <<<<PointsToSet, R.Src>>, <<TwoHopTraversal(ReversePointsTo, ActualParameters), R.Dst>>>>}
    BY <1>1 DEF Inclusions
  <2>5. /\ <<FormalParametersRev, R.Dst>> \in AnalysisResults /\ <<ReversePointsTo, R.Src>> \in AnalysisResults
        /\ <<PointsToSet, R.Src>> \in AnalysisResults /\ <<TwoHopTraversal(ReversePointsTo, ActualParameters), R.Dst>> \in AnalysisResults
    BY <1>0, AlgorithmTypes DEF RelationTraversals
  <2>6. Holds(k, I \cup {<<<<FormalParametersRev, R.Dst>>, <<ReversePointsTo, R.Src>>>>})
    BY <2>5, WorkHolds
  <2> HIDE DEF k
  <2>7. Holds(m, (I \cup {<<<<FormalParametersRev, R.Dst>>, <<ReversePointsTo, R.Src>>>>}) \cup {<<<<PointsToSet, R.Src>>, <<TwoHopTraversal(ReversePointsTo, ActualParameters), R.Dst>>>>})
    BY <2>5, <2>6, WorkHolds
  <2> HIDE DEF m
  <2>8. handleRelation(h, R) = m
    BY <2>1, <2>2, <2>3 DEF handleRelation
  <2>9. I \cup Inclusions(R) = (I \cup {<<<<FormalParametersRev, R.Dst>>, <<ReversePointsTo, R.Src>>>>}) \cup {<<<<PointsToSet, R.Src>>, <<TwoHopTraversal(ReversePointsTo, ActualParameters), R.Dst>>>>}
    BY <2>4
  <2> QED  BY <2>7, <2>8, <2>9
<1>2. CASE R.type = "ARGUMENT_TO_CALLEE"
  <2> DEFINE k == addInstructionAnalysisWork(h, <<ActualParameters, R.Dst>>, <<PointsToSet, R.Src>>)
             m == addInstructionAnalysisWork(k, <<ReversePointsTo, R.Src>>, <<TwoHopTraversal(PointsToSet, FormalParametersRev), R.Dst>>)
  <2>1. \A x : /\ ForActualReturnValue(x, R) = x
              /\ ForFormalParametersRev(x, R) = x
              /\ ForFormalReturnValueRev(x, R) = x
              /\ ForLoadedValuesRev(x, R) = x
              /\ ForPointsTo(x, R) = x
              /\ ForStoredValues(x, R) = x
    BY <1>2 DEF When, ForActualReturnValue, ForFormalParametersRev, ForFormalReturnValueRev, ForLoadedValuesRev, ForPointsTo, ForStoredValues
  <2>2. ForActualParameters(h, R) = k
    BY <1>2 DEF When, ForActualParameters
  <2>3. ForReversePointsTo(k, R) = m
    BY <1>2 DEF When, ForReversePointsTo
  <2>4. Inclusions(R) = {<<<<ActualParameters, R.Dst>>, <<PointsToSet, R.Src>>>>, <<<<ReversePointsTo, R.Src>>, <<TwoHopTraversal(PointsToSet, FormalParametersRev), R.Dst>>>>}
    BY <1>2 DEF Inclusions
  <2>5. /\ <<ActualParameters, R.Dst>> \in AnalysisResults /\ <<PointsToSet, R.Src>> \in AnalysisResults
        /\ <<ReversePointsTo, R.Src>> \in AnalysisResults /\ <<TwoHopTraversal(PointsToSet, FormalParametersRev), R.Dst>> \in AnalysisResults
    BY <1>0, AlgorithmTypes DEF RelationTraversals
  <2>6. Holds(k, I \cup {<<<<ActualParameters, R.Dst>>, <<PointsToSet, R.Src>>>>})
    BY <2>5, WorkHolds
  <2> HIDE DEF k
  <2>7. Holds(m, (I \cup {<<<<ActualParameters, R.Dst>>, <<PointsToSet, R.Src>>>>}) \cup {<<<<ReversePointsTo, R.Src>>, <<TwoHopTraversal(PointsToSet, FormalParametersRev), R.Dst>>>>})
    BY <2>5, <2>6, WorkHolds
  <2> HIDE DEF m
  <2>8. handleRelation(h, R) = m
    BY <2>1, <2>2, <2>3 DEF handleRelation
  <2>9. I \cup Inclusions(R) = (I \cup {<<<<ActualParameters, R.Dst>>, <<PointsToSet, R.Src>>>>}) \cup {<<<<ReversePointsTo, R.Src>>, <<TwoHopTraversal(PointsToSet, FormalParametersRev), R.Dst>>>>}
    BY <2>4
  <2> QED  BY <2>7, <2>8, <2>9
<1>3. CASE R.type = "DEPENDS_ON"
  <2> DEFINE k == addInstructionAnalysisWork(h, <<PointsToSet, R.Src>>, <<PointsToSet, R.Dst>>)
             m == addInstructionAnalysisWork(k, <<ReversePointsTo, R.Dst>>, <<ReversePointsTo, R.Src>>)
  <2>1. \A x : /\ ForActualParameters(x, R) = x
              /\ ForActualReturnValue(x, R) = x
              /\ ForFormalParametersRev(x, R) = x
              /\ ForFormalReturnValueRev(x, R) = x
              /\ ForLoadedValuesRev(x, R) = x
              /\ ForStoredValues(x, R) = x
    BY <1>3 DEF When, ForActualParameters, ForActualReturnValue, ForFormalParametersRev, ForFormalReturnValueRev, ForLoadedValuesRev, ForStoredValues
  <2>2. ForPointsTo(h, R) = k
    BY <1>3 DEF When, ForPointsTo
  <2>3. ForReversePointsTo(k, R) = m
    BY <1>3 DEF When, ForReversePointsTo
  <2>4. Inclusions(R) = {<<<<PointsToSet, R.Src>>, <<PointsToSet, R.Dst>>>>, <<<<ReversePointsTo, R.Dst>>, <<ReversePointsTo, R.Src>>>>}
    BY <1>3 DEF Inclusions
  <2>5. /\ <<PointsToSet, R.Src>> \in AnalysisResults /\ <<PointsToSet, R.Dst>> \in AnalysisResults
        /\ <<ReversePointsTo, R.Dst>> \in AnalysisResults /\ <<ReversePointsTo, R.Src>> \in AnalysisResults
    BY <1>0, AlgorithmTypes DEF RelationTraversals
  <2>6. Holds(k, I \cup {<<<<PointsToSet, R.Src>>, <<PointsToSet, R.Dst>>>>})
    BY <2>5, WorkHolds
  <2> HIDE DEF k
  <2>7. Holds(m, (I \cup {<<<<PointsToSet, R.Src>>, <<PointsToSet, R.Dst>>>>}) \cup {<<<<ReversePointsTo, R.Dst>>, <<ReversePointsTo, R.Src>>>>})
    BY <2>5, <2>6, WorkHolds
  <2> HIDE DEF m
  <2>8. handleRelation(h, R) = m
    BY <2>1, <2>2, <2>3 DEF handleRelation
  <2>9. I \cup Inclusions(R) = (I \cup {<<<<PointsToSet, R.Src>>, <<PointsToSet, R.Dst>>>>}) \cup {<<<<ReversePointsTo, R.Dst>>, <<ReversePointsTo, R.Src>>>>}
    BY <2>4
  <2> QED  BY <2>7, <2>8, <2>9
<1>4. CASE R.type = "LOADED_FROM"
  <2> DEFINE k == addInstructionAnalysisWork(h, <<LoadedValuesRev, R.Dst>>, <<ReversePointsTo, R.Src>>)
             m == addInstructionAnalysisWork(k, <<PointsToSet, R.Src>>, <<ThreeHopTraversal(PointsToSet, ReversePointsTo, StoredValues), R.Dst>>)
  <2>1. \A x : /\ ForActualParameters(x, R) = x
              /\ ForActualReturnValue(x, R) = x
              /\ ForFormalParametersRev(x, R) = x
              /\ ForFormalReturnValueRev(x, R) = x
              /\ ForReversePointsTo(x, R) = x
              /\ ForStoredValues(x, R) = x
    BY <1>4 DEF When, ForActualParameters, ForActualReturnValue, ForFormalParametersRev, ForFormalReturnValueRev, ForReversePointsTo, ForStoredValues
  <2>2. ForLoadedValuesRev(h, R) = k
    BY <1>4 DEF When, ForLoadedValuesRev
  <2>3. ForPointsTo(k, R) = m
    BY <1>4 DEF When, ForPointsTo
  <2>4. Inclusions(R) = {<<<<LoadedValuesRev, R.Dst>>, <<ReversePointsTo, R.Src>>>>, <<<<PointsToSet, R.Src>>, <<ThreeHopTraversal(PointsToSet, ReversePointsTo, StoredValues), R.Dst>>>>}
    BY <1>4 DEF Inclusions
  <2>5. /\ <<LoadedValuesRev, R.Dst>> \in AnalysisResults /\ <<ReversePointsTo, R.Src>> \in AnalysisResults
        /\ <<PointsToSet, R.Src>> \in AnalysisResults /\ <<ThreeHopTraversal(PointsToSet, ReversePointsTo, StoredValues), R.Dst>> \in AnalysisResults
    BY <1>0, AlgorithmTypes DEF RelationTraversals
  <2>6. Holds(k, I \cup {<<<<LoadedValuesRev, R.Dst>>, <<ReversePointsTo, R.Src>>>>})
    BY <2>5, WorkHolds
  <2> HIDE DEF k
  <2>7. Holds(m, (I \cup {<<<<LoadedValuesRev, R.Dst>>, <<ReversePointsTo, R.Src>>>>}) \cup {<<<<PointsToSet, R.Src>>, <<ThreeHopTraversal(PointsToSet, ReversePointsTo, StoredValues), R.Dst>>>>})
    BY <2>5, <2>6, WorkHolds
  <2> HIDE DEF m
  <2>8. handleRelation(h, R) = m
    BY <2>1, <2>2, <2>3 DEF handleRelation
  <2>9. I \cup Inclusions(R) = (I \cup {<<<<LoadedValuesRev, R.Dst>>, <<ReversePointsTo, R.Src>>>>}) \cup {<<<<PointsToSet, R.Src>>, <<ThreeHopTraversal(PointsToSet, ReversePointsTo, StoredValues), R.Dst>>>>}
    BY <2>4
  <2> QED  BY <2>7, <2>8, <2>9
<1>5. CASE R.type = "RETURNED_FROM_CALLEE"
  <2> DEFINE k == addInstructionAnalysisWork(h, <<FormalReturnValueRev, R.Dst>>, <<ReversePointsTo, R.Src>>)
             m == addInstructionAnalysisWork(k, <<PointsToSet, R.Src>>, <<TwoHopTraversal(PointsToSet, ActualReturnValue), R.Dst>>)
  <2>1. \A x : /\ ForActualParameters(x, R) = x
              /\ ForActualReturnValue(x, R) = x
              /\ ForFormalParametersRev(x, R) = x
              /\ ForLoadedValuesRev(x, R) = x
              /\ ForReversePointsTo(x, R) = x
              /\ ForStoredValues(x, R) = x
    BY <1>5 DEF When, ForActualParameters, ForActualReturnValue, ForFormalParametersRev, ForLoadedValuesRev, ForReversePointsTo, ForStoredValues
  <2>2. ForFormalReturnValueRev(h, R) = k
    BY <1>5 DEF When, ForFormalReturnValueRev
  <2>3. ForPointsTo(k, R) = m
    BY <1>5 DEF When, ForPointsTo
  <2>4. Inclusions(R) = {<<<<FormalReturnValueRev, R.Dst>>, <<ReversePointsTo, R.Src>>>>, <<<<PointsToSet, R.Src>>, <<TwoHopTraversal(PointsToSet, ActualReturnValue), R.Dst>>>>}
    BY <1>5 DEF Inclusions
  <2>5. /\ <<FormalReturnValueRev, R.Dst>> \in AnalysisResults /\ <<ReversePointsTo, R.Src>> \in AnalysisResults
        /\ <<PointsToSet, R.Src>> \in AnalysisResults /\ <<TwoHopTraversal(PointsToSet, ActualReturnValue), R.Dst>> \in AnalysisResults
    BY <1>0, AlgorithmTypes DEF RelationTraversals
  <2>6. Holds(k, I \cup {<<<<FormalReturnValueRev, R.Dst>>, <<ReversePointsTo, R.Src>>>>})
    BY <2>5, WorkHolds
  <2> HIDE DEF k
  <2>7. Holds(m, (I \cup {<<<<FormalReturnValueRev, R.Dst>>, <<ReversePointsTo, R.Src>>>>}) \cup {<<<<PointsToSet, R.Src>>, <<TwoHopTraversal(PointsToSet, ActualReturnValue), R.Dst>>>>})
    BY <2>5, <2>6, WorkHolds
  <2> HIDE DEF m
  <2>8. handleRelation(h, R) = m
    BY <2>1, <2>2, <2>3 DEF handleRelation
  <2>9. I \cup Inclusions(R) = (I \cup {<<<<FormalReturnValueRev, R.Dst>>, <<ReversePointsTo, R.Src>>>>}) \cup {<<<<PointsToSet, R.Src>>, <<TwoHopTraversal(PointsToSet, ActualReturnValue), R.Dst>>>>}
    BY <2>4
  <2> QED  BY <2>7, <2>8, <2>9
<1>6. CASE R.type = "RETURNED_TO_CALLER"
  <2> DEFINE k == addInstructionAnalysisWork(h, <<ActualReturnValue, R.Dst>>, <<PointsToSet, R.Src>>)
             m == addInstructionAnalysisWork(k, <<ReversePointsTo, R.Src>>, <<TwoHopTraversal(ReversePointsTo, FormalReturnValueRev), R.Dst>>)
  <2>1. \A x : /\ ForActualParameters(x, R) = x
              /\ ForFormalParametersRev(x, R) = x
              /\ ForFormalReturnValueRev(x, R) = x
              /\ ForLoadedValuesRev(x, R) = x
              /\ ForPointsTo(x, R) = x
              /\ ForStoredValues(x, R) = x
    BY <1>6 DEF When, ForActualParameters, ForFormalParametersRev, ForFormalReturnValueRev, ForLoadedValuesRev, ForPointsTo, ForStoredValues
  <2>2. ForActualReturnValue(h, R) = k
    BY <1>6 DEF When, ForActualReturnValue
  <2>3. ForReversePointsTo(k, R) = m
    BY <1>6 DEF When, ForReversePointsTo
  <2>4. Inclusions(R) = {<<<<ActualReturnValue, R.Dst>>, <<PointsToSet, R.Src>>>>, <<<<ReversePointsTo, R.Src>>, <<TwoHopTraversal(ReversePointsTo, FormalReturnValueRev), R.Dst>>>>}
    BY <1>6 DEF Inclusions
  <2>5. /\ <<ActualReturnValue, R.Dst>> \in AnalysisResults /\ <<PointsToSet, R.Src>> \in AnalysisResults
        /\ <<ReversePointsTo, R.Src>> \in AnalysisResults /\ <<TwoHopTraversal(ReversePointsTo, FormalReturnValueRev), R.Dst>> \in AnalysisResults
    BY <1>0, AlgorithmTypes DEF RelationTraversals
  <2>6. Holds(k, I \cup {<<<<ActualReturnValue, R.Dst>>, <<PointsToSet, R.Src>>>>})
    BY <2>5, WorkHolds
  <2> HIDE DEF k
  <2>7. Holds(m, (I \cup {<<<<ActualReturnValue, R.Dst>>, <<PointsToSet, R.Src>>>>}) \cup {<<<<ReversePointsTo, R.Src>>, <<TwoHopTraversal(ReversePointsTo, FormalReturnValueRev), R.Dst>>>>})
    BY <2>5, <2>6, WorkHolds
  <2> HIDE DEF m
  <2>8. handleRelation(h, R) = m
    BY <2>1, <2>2, <2>3 DEF handleRelation
  <2>9. I \cup Inclusions(R) = (I \cup {<<<<ActualReturnValue, R.Dst>>, <<PointsToSet, R.Src>>>>}) \cup {<<<<ReversePointsTo, R.Src>>, <<TwoHopTraversal(ReversePointsTo, FormalReturnValueRev), R.Dst>>>>}
    BY <2>4
  <2> QED  BY <2>7, <2>8, <2>9
<1>7. CASE R.type = "STORED_TO"
  <2> DEFINE k == addInstructionAnalysisWork(h, <<ReversePointsTo, R.Src>>, <<ThreeHopTraversal(PointsToSet, ReversePointsTo, LoadedValuesRev), R.Dst>>)
             m == addInstructionAnalysisWork(k, <<StoredValues, R.Dst>>, <<PointsToSet, R.Src>>)
  <2>1. \A x : /\ ForActualParameters(x, R) = x
              /\ ForActualReturnValue(x, R) = x
              /\ ForFormalParametersRev(x, R) = x
              /\ ForFormalReturnValueRev(x, R) = x
              /\ ForLoadedValuesRev(x, R) = x
              /\ ForPointsTo(x, R) = x
    BY <1>7 DEF When, ForActualParameters, ForActualReturnValue, ForFormalParametersRev, ForFormalReturnValueRev, ForLoadedValuesRev, ForPointsTo
  <2>2. ForReversePointsTo(h, R) = k
    BY <1>7 DEF When, ForReversePointsTo
  <2>3. ForStoredValues(k, R) = m
    BY <1>7 DEF When, ForStoredValues
  <2>4. Inclusions(R) = {<<<<ReversePointsTo, R.Src>>, <<ThreeHopTraversal(PointsToSet, ReversePointsTo, LoadedValuesRev), R.Dst>>>>, <<<<StoredValues, R.Dst>>, <<PointsToSet, R.Src>>>>}
    BY <1>7 DEF Inclusions
  <2>5. /\ <<ReversePointsTo, R.Src>> \in AnalysisResults /\ <<ThreeHopTraversal(PointsToSet, ReversePointsTo, LoadedValuesRev), R.Dst>> \in AnalysisResults
        /\ <<StoredValues, R.Dst>> \in AnalysisResults /\ <<PointsToSet, R.Src>> \in AnalysisResults
    BY <1>0, AlgorithmTypes DEF RelationTraversals
  <2>6. Holds(k, I \cup {<<<<ReversePointsTo, R.Src>>, <<ThreeHopTraversal(PointsToSet, ReversePointsTo, LoadedValuesRev), R.Dst>>>>})
    BY <2>5, WorkHolds
  <2> HIDE DEF k
  <2>7. Holds(m, (I \cup {<<<<ReversePointsTo, R.Src>>, <<ThreeHopTraversal(PointsToSet, ReversePointsTo, LoadedValuesRev), R.Dst>>>>}) \cup {<<<<StoredValues, R.Dst>>, <<PointsToSet, R.Src>>>>})
    BY <2>5, <2>6, WorkHolds
  <2> HIDE DEF m
  <2>8. handleRelation(h, R) = m
    BY <2>1, <2>2, <2>3 DEF handleRelation
  <2>9. I \cup Inclusions(R) = (I \cup {<<<<ReversePointsTo, R.Src>>, <<ThreeHopTraversal(PointsToSet, ReversePointsTo, LoadedValuesRev), R.Dst>>>>}) \cup {<<<<StoredValues, R.Dst>>, <<PointsToSet, R.Src>>>>}
    BY <2>4
  <2> QED  BY <2>7, <2>8, <2>9
<1> QED  BY <1>0, <1>1, <1>2, <1>3, <1>4, <1>5, <1>6, <1>7 DEF RelationTypes

(* The heap before the first relation: the regions point to themselves. *)
MadeRegions == [a \in {PointsToSet} \X Regions |-> makeRegion(<<>>, a[2])[a]]

(* It holds no inclusion. *)
LEMMA MadeHolds == Holds(MadeRegions, {})
<1>1. DOMAIN MadeRegions = {PointsToSet} \X Regions
  BY DEF MadeRegions
<1>2. {PointsToSet} \X Regions \subseteq AnalysisResults
  <2>1. PointsToSet \in Algorithms
    BY DEF Algorithms, InstructionAnalysisAlgorithms
  <2> QED  BY <2>1, RegionsAssumption DEF AnalysisResults
<1>3. ASSUME NEW a \in {PointsToSet} \X Regions
      PROVE  IsCell(a, MadeRegions[a], {}) /\ ~IsTraversal(a[1])
  <2>1. a[1] = PointsToSet /\ a[2] \in Regions /\ a[2] \in VIs /\ a = <<PointsToSet, a[2]>>
    BY RegionsAssumption
  <2>2. ~IsTraversal(a[1]) /\ a[1] # ReversePointsTo
    BY <2>1, NotTraversals
  <2> DEFINE c == [set |-> <<>>, work |-> <<>>, subsets |-> {}]
             k == [x \in {a} |-> c]
             d == [set |-> <<a[2]>>, work |-> <<>>, subsets |-> {}]
  <2>3. run(a) = c
    BY <2>2 DEF run
  <2>4. DOMAIN <<>> = {}
    OBVIOUS
  <2>5. Create(<<>>, a) = k
    BY <2>3, <2>4 DEF Create
  <2>6. getOrCreateAlgorithmResult(<<>>, a) = k
    BY <2>2, <2>5 DEF getOrCreateAlgorithmResult
  <2>7. makeRegion(<<>>, a[2]) = [k EXCEPT ![a].set = Append(@, a[2])]
    BY <2>1, <2>6 DEF makeRegion
  <2>8. Append(<<>>, a[2]) = <<a[2]>>
    OBVIOUS
  <2>9. [k EXCEPT ![a].set = Append(@, a[2])][a] = d
    BY <2>8
  <2>10. MadeRegions[a] = d
    BY <2>7, <2>9 DEF MadeRegions
  <2>11. Own(a) = <<a[2]>> /\ <<a[2]>> \in Seq(VIs)
    BY <2>1, <2>2 DEF Own
  <2>12. d \in Cells
    BY <2>11 DEF Cells
  <2> QED  BY <2>2, <2>4, <2>10, <2>11, <2>12 DEF IsCell
<1>4. MadeRegions \in [DOMAIN MadeRegions -> Cells]
  <2>1. \A a \in DOMAIN MadeRegions : MadeRegions[a] \in Cells
    BY <1>1, <1>3 DEF IsCell
  <2>2. MadeRegions = [a \in DOMAIN MadeRegions |-> MadeRegions[a]]
    BY DEF MadeRegions
  <2> QED  BY <2>1, <2>2
<1>5. /\ \A a \in DOMAIN MadeRegions : IsCell(a, MadeRegions[a], {}) /\ ~IsTraversal(a[1])
      /\ \A r \in Regions : <<PointsToSet, r>> \in DOMAIN MadeRegions
      /\ DOMAIN MadeRegions \subseteq AnalysisResults
  BY <1>1, <1>2, <1>3
<1> QED  BY <1>4, <1>5 DEF Holds

(* What handleRelations goes through. *)
LEMMA HandleRelationsHolds ==
    ASSUME NEW rels \in Seq(Relations)
    PROVE  Holds(handleRelations(rels), AllInclusions(ToSet(rels)))
<1> DEFINE Next1(x, n) == IF n = 0 THEN MadeRegions ELSE handleRelation(x, rels[n])
           Is(f, k) == f = [n \in 0 .. k |-> IF n = 0 THEN MadeRegions ELSE handleRelation(f[n - 1], rels[n])]
           After[n \in 0 .. Len(rels)] ==
               IF n = 0 THEN MadeRegions ELSE handleRelation(After[n - 1], rels[n])
           Before(n) == {rels[i] : i \in 1 .. n}
<1>1. After = CHOOSE f : Is(f, Len(rels))
  BY DEF After
<1>2. handleRelations(rels) = After[Len(rels)]
  BY DEF handleRelations, MadeRegions
<1> HIDE DEF After
<1>3. PICK N \in Nat : Len(rels) = N /\ DOMAIN rels = 1 .. N /\ \A i \in 1 .. N : rels[i] \in Relations
  BY LenProperties, ElementOfSeq
<1>4. \A k \in 0 .. N : \E f : Is(f, k)
  <2> DEFINE T == {k \in 0 .. N : ~ \E f : Is(f, k)}
  <2> SUFFICES ASSUME T # {}
               PROVE  FALSE
    OBVIOUS
  <2>1. T \subseteq Nat
    OBVIOUS
  <2>2. PICK k \in T : \A m \in T : k <= m
    <3> HIDE DEF T
    <3> QED  BY <2>1, LeastNat
  <2>3. CASE k = 0
    <3> DEFINE f == [n \in 0 .. 0 |-> MadeRegions]
    <3>1. Is(f, 0)
      OBVIOUS
    <3>2. \E g : Is(g, k)
      <4> HIDE DEF f
      <4> QED  BY <3>1, <2>3
    <3> QED  BY <3>2, <2>2
  <2>4. CASE k # 0
    <3>1. k - 1 \in 0 .. N /\ k - 1 \notin T /\ k \in 1 .. N
      BY <2>2, <2>4
    <3>2. PICK f : Is(f, k - 1)
      BY <3>1
    <3> DEFINE g == [n \in 0 .. k |-> IF n = k THEN handleRelation(f[k - 1], rels[k]) ELSE f[n]]
    <3>3. \A n \in 0 .. k - 1 : g[n] = f[n]
      BY <3>1
    <3>4. \A n \in 0 .. k - 1 : f[n] = IF n = 0 THEN MadeRegions ELSE handleRelation(f[n - 1], rels[n])
      BY <3>2
    <3>5. \A n \in 0 .. k : g[n] = IF n = 0 THEN MadeRegions ELSE handleRelation(g[n - 1], rels[n])
      <4>1. ASSUME NEW n \in 0 .. k - 1
            PROVE  g[n] = IF n = 0 THEN MadeRegions ELSE handleRelation(g[n - 1], rels[n])
        <5>1. CASE n = 0
          BY <3>3, <3>4, <5>1
        <5>2. CASE n # 0
          <6>1. n - 1 \in 0 .. k - 1
            BY <5>2, <3>1
          <6>2. g[n - 1] = f[n - 1]
            BY <6>1, <3>3
          <6> HIDE DEF g
          <6> QED  BY <5>2, <6>2, <3>3, <3>4
        <5> QED  BY <5>1, <5>2
      <4>2. g[k] = handleRelation(g[k - 1], rels[k])
        <5>1. k - 1 \in 0 .. k - 1
          BY <3>1
        <5>2. g[k - 1] = f[k - 1]
          BY <5>1, <3>3
        <5>3. g[k] = handleRelation(f[k - 1], rels[k])
          BY <3>1
        <5> HIDE DEF g
        <5> QED  BY <5>2, <5>3
      <4>3. \A n \in 0 .. k : n = k \/ n \in 0 .. k - 1
        BY <3>1
      <4> HIDE DEF g
      <4> QED  BY <4>1, <4>2, <4>3, <2>4
    <3>6. Is(g, k)
      <4>1. g = [n \in 0 .. k |-> g[n]]
        OBVIOUS
      <4> HIDE DEF g
      <4> QED  BY <4>1, <3>5
    <3>7. \E h : Is(h, k)
      <4> HIDE DEF g
      <4> QED  BY <3>6
    <3> QED  BY <2>2, <3>7
  <2> QED  BY <2>3, <2>4
<1>5. Is(After, N)
  <2> HIDE DEF Is
  <2>1. \E f : Is(f, N)
    BY <1>3, <1>4
  <2> QED  BY <1>1, <1>3, <2>1
<1>6. \A n \in 0 .. N : After[n] = IF n = 0 THEN MadeRegions ELSE handleRelation(After[n - 1], rels[n])
  BY <1>5
<1> HIDE DEF Is
<1>7. \A n \in 0 .. N : Holds(After[n], AllInclusions(Before(n)))
  <2> DEFINE T == {n \in 0 .. N : ~Holds(After[n], AllInclusions(Before(n)))}
  <2> SUFFICES ASSUME T # {}
               PROVE  FALSE
    OBVIOUS
  <2>1. T \subseteq Nat
    OBVIOUS
  <2>2. PICK n \in T : \A m \in T : n <= m
    <3> HIDE DEF T
    <3> QED  BY <2>1, LeastNat
  <2>3. CASE n = 0
    <3>1. Before(0) = {}
      OBVIOUS
    <3>2. AllInclusions({}) = {}
      BY DEF AllInclusions
    <3> QED  BY <1>6, <2>2, <2>3, <3>1, <3>2, MadeHolds
  <2>4. CASE n # 0
    <3>1. n - 1 \in 0 .. N /\ n - 1 \notin T /\ n \in 1 .. N
      BY <2>2, <2>4
    <3>2. Holds(After[n - 1], AllInclusions(Before(n - 1)))
      BY <3>1
    <3>3. Before(n) = Before(n - 1) \cup {rels[n]}
      <4>1. \A i : i \in 1 .. n <=> i \in 1 .. n - 1 \/ i = n
        BY <3>1
      <4> QED  BY <4>1
    <3> HIDE DEF Before
    <3>4. AllInclusions(Before(n)) = AllInclusions(Before(n - 1)) \cup Inclusions(rels[n])
      BY <3>3 DEF AllInclusions
    <3>5. Holds(handleRelation(After[n - 1], rels[n]), AllInclusions(Before(n - 1)) \cup Inclusions(rels[n]))
      BY <1>3, <3>1, <3>2, HandleHolds
    <3>6. After[n] = handleRelation(After[n - 1], rels[n])
      BY <1>6, <2>4, <3>1
    <3> QED  BY <2>2, <3>4, <3>5, <3>6
  <2> QED  BY <2>3, <2>4
<1>8. ToSet(rels) = Before(N)
  BY <1>3 DEF ToSet
<1> HIDE DEF Before
<1>9. N \in 0 .. N
  BY <1>3
<1> QED  BY <1>2, <1>3, <1>7, <1>8, <1>9

-----------------------------------------------------------------------------
(* The solution of the heap's equations. *)

(* The ARs that the equations speak of, and what they start with. *)
GivenIn(h) == {a \in AnalysisResults : a \in DOMAIN h \/ a \in OnDemand}
CellIn(h, a) == IF a \in DOMAIN h THEN h[a] ELSE run(a)
IncludedIn(I, a) == {s \in AnalysisResults : <<a, s>> \in I /\ s # a}

(* What the ARs that are created on demand are. *)
LEMMA OnDemandAre ==
    /\ \A v \in VIs : <<ReversePointsTo, v>> \in OnDemand
    /\ \A v \in VIs : \A alg \in Traversals : SecondHop(alg) \in Traversals => <<SecondHop(alg), v>> \in OnDemand
    /\ \A a \in OnDemand : IsTraversal(a[1]) => FirstAR(a) \in OnDemand
    /\ \A a \in OnDemand : a[1] # PointsToSet
<1> DEFINE sr == <<"self-reverse">>
           sv == <<"self-reverse", "stored-values">>
           lv == <<"self-reverse", "loaded-values-reverse">>
<1>1. InstructionAnalysisAlgorithms = {<<"self">>, <<"actual-params">>, <<"actual-return-value">>,
          <<"formal-params-reverse">>, <<"formal-return-value">>, <<"loaded-values-reverse">>, <<"stored-values">>}
  BY DEF InstructionAnalysisAlgorithms, PointsToSet, ActualParameters, ActualReturnValue, FormalParametersRev,
     FormalReturnValueRev, LoadedValuesRev, StoredValues
<1>2. sr \notin InstructionAnalysisAlgorithms /\ sv \notin InstructionAnalysisAlgorithms /\ lv \notin InstructionAnalysisAlgorithms
  BY <1>1, Hops
<1>3. \A x : FirstHop(<<x>>) = <<x>>
  BY DEF FirstHop
<1>4. {FirstHop(f) : f \in TransformAlgorithms} = {<<"actual-params">>, <<"formal-return-value">>, <<"actual-return-value">>,
        <<"formal-params-reverse">>, <<"stored-values">>, <<"loaded-values-reverse">>, sr}
  <2> DEFINE ones == {<<"actual-params">>, <<"formal-return-value">>, <<"actual-return-value">>,
        <<"formal-params-reverse">>, <<"stored-values">>, <<"loaded-values-reverse">>}
  <2>1. TransformAlgorithms = ones \cup {sv, lv}
    BY TransformsAre
  <2>2. \A f \in ones : FirstHop(f) = f
    BY <1>3
  <2>3. FirstHop(sv) = sr /\ FirstHop(lv) = sr
    BY Hops
  <2> HIDE DEF ones, sv, lv, sr
  <2>4. {FirstHop(f) : f \in TransformAlgorithms} = ones \cup {sr}
    BY <2>1, <2>2, <2>3
  <2> QED  BY <2>4 DEF ones
<1>5. sr \in Algorithms /\ sv \in Algorithms /\ lv \in Algorithms
  BY AlgorithmsAre DEF Literals, TwoHops
<1>6. OnDemand = {sr, sv, lv} \X VIs
  <2>1. ASSUME NEW a \in OnDemand
        PROVE  a \in {sr, sv, lv} \X VIs
    <3>1. a[1] \in TransformAlgorithms \cup {FirstHop(f) : f \in TransformAlgorithms}
          /\ a[1] \notin InstructionAnalysisAlgorithms /\ a \in AnalysisResults
      BY DEF OnDemand, IsEmptyIfMissing
    <3>2. a[1] \in {sr, sv, lv}
      BY <1>1, <1>4, <3>1, TransformsAre
    <3> QED  BY <3>1, <3>2, ARType
  <2>2. ASSUME NEW alg \in {sr, sv, lv}, NEW v \in VIs
        PROVE  <<alg, v>> \in OnDemand
    <3>1. <<alg, v>> \in AnalysisResults
      BY <1>5 DEF AnalysisResults
    <3>2. alg \in TransformAlgorithms \cup {FirstHop(f) : f \in TransformAlgorithms}
      BY <1>4, TransformsAre
    <3>3. ~IsEmptyIfMissing(alg, ENUMERATION_PHASE)
      BY <1>2 DEF IsEmptyIfMissing
    <3> QED  BY <3>1, <3>2, <3>3 DEF OnDemand
  <2> QED  BY <2>1, <2>2
<1>7. \A v \in VIs : <<ReversePointsTo, v>> \in OnDemand
  BY <1>6 DEF ReversePointsTo
<1>8. ASSUME NEW alg \in Traversals, SecondHop(alg) \in Traversals
      PROVE  SecondHop(alg) \in {sv, lv}
  <2>1. CASE alg \in TwoHops
    <3>1. \A x : <<x>> \notin Traversals
      BY Hops, TraversalsAre DEF TwoHops, ThreeHops
    <3>2. \E x : SecondHop(alg) = <<x>>
      BY <2>1, Hops DEF TwoHops
    <3> QED  BY <1>8, <3>1, <3>2
  <2>2. CASE alg \in ThreeHops
    BY <2>2, Hops DEF ThreeHops
  <2> QED  BY <2>1, <2>2, TraversalsAre
<1>9. ASSUME NEW a \in OnDemand, IsTraversal(a[1])
      PROVE  FirstAR(a) \in OnDemand
  <2>1. a[1] \in {sv, lv} /\ a[2] \in VIs
    BY <1>6, <1>9, Hops
  <2>2. FirstHop(a[1]) = sr
    BY <2>1, Hops
  <2> QED  BY <1>6, <2>1, <2>2 DEF FirstAR
<1>10. \A a \in OnDemand : a[1] # PointsToSet
  BY <1>6, Hops DEF PointsToSet
<1> QED  BY <1>6, <1>7, <1>8, <1>9, <1>10

(* Every AR that the equations speak of has its cell, and so have those     *)
(* that its cell refers to.                                                 *)
LEMMA CellsAre ==
    ASSUME NEW h, NEW I, Holds(h, I), NEW a \in GivenIn(h)
    PROVE  /\ IsCell(a, CellIn(h, a), I)
           /\ IsTraversal(a[1]) => FirstAR(a) \in GivenIn(h)
           /\ IncludedIn(I, a) \subseteq GivenIn(h)
<1>1. CASE a \in DOMAIN h
  <2>1. IsCell(a, CellIn(h, a), I)
    BY <1>1 DEF Holds, CellIn
  <2>2. IsTraversal(a[1]) => FirstAR(a) \in GivenIn(h)
    BY <1>1 DEF Holds, GivenIn
  <2>3. IncludedIn(I, a) \subseteq GivenIn(h)
    BY DEF Holds, GivenIn, IncludedIn
  <2> QED  BY <2>1, <2>2, <2>3
<1>2. CASE a \notin DOMAIN h
  <2>1. a \in OnDemand /\ a \in AnalysisResults
    BY <1>2 DEF GivenIn
  <2>2. \A s : <<a, s>> \notin I
    BY <1>2 DEF Holds
  <2>3. IsCell(a, run(a), I)
    BY <2>1, <2>2, OnDemandAre, NewCell
  <2>4. IsTraversal(a[1]) => FirstAR(a) \in GivenIn(h)
    BY <2>1, OnDemandAre, FirstARType DEF GivenIn
  <2> QED  BY <1>2, <2>2, <2>3, <2>4 DEF CellIn, IncludedIn
<1> QED  BY <1>1, <1>2

(* The works of a cell. *)
LEMMA WorksAre ==
    ASSUME NEW a \in AnalysisResults, NEW c, NEW I, IsCell(a, c, I)
    PROVE  \A w : w \in ToSet(c.work) <=> \/ IsTraversal(a[1]) /\ w = Traverse(a)
                                          \/ \E s \in IncludedIn(I, a) : w = Eq!SubsetWork(s)
<1>1. c.subsets = IncludedIn(I, a)
  BY DEF IsCell, IncludedIn
<1>2. \A w : w \in ToSet(c.work) <=> \E j \in DOMAIN c.work : w = c.work[j]
  BY DEF ToSet
<1>3. ASSUME NEW w \in ToSet(c.work)
      PROVE  \/ IsTraversal(a[1]) /\ w = Traverse(a)
             \/ \E s \in IncludedIn(I, a) : w = Eq!SubsetWork(s)
  <2>1. PICK j \in DOMAIN c.work : w = c.work[j]
    BY <1>2
  <2> QED  BY <1>1, <2>1 DEF IsCell
<1>4. ASSUME IsTraversal(a[1])
      PROVE  Traverse(a) \in ToSet(c.work)
  BY <1>2, <1>4 DEF IsCell
<1>5. ASSUME NEW s \in IncludedIn(I, a)
      PROVE  Eq!SubsetWork(s) \in ToSet(c.work)
  <2>1. PICK j \in DOMAIN c.work : c.work[j] = Eq!SubsetWork(s)
    BY <1>1 DEF IsCell
  <2> QED  BY <1>2, <2>1
<1> QED  BY <1>3, <1>4, <1>5

(* The ARs that transforms find. *)
ResultsIn(h) == [alg \in TransformAlgorithms |-> [v \in VIs |->
                    IF <<alg, v>> \in GivenIn(h) THEN <<alg, v>> ELSE NoResult]]

(* The value x is found for the AR a, by a step from S. *)
Gains(h, I, S, a, x) ==
    \/ x \in S[a]
    \/ \E s \in IncludedIn(I, a) : x \in S[s]
    \/ /\ IsTraversal(a[1])
       /\ \E v \in S[FirstAR(a)] : /\ <<SecondHop(a[1]), v>> \in GivenIn(h)
                                   /\ x \in S[<<SecondHop(a[1]), v>>]

(* The lattice in which the solution is iterated, its step and its start. *)
SpaceIn(h) == [GivenIn(h) -> SUBSET VIs]
StepIn(h, I) == [S \in SpaceIn(h) |-> [a \in GivenIn(h) |-> {x \in VIs : Gains(h, I, S, a, x)}]]
StartIn(h) == [a \in GivenIn(h) |-> ToSet(Own(a))]

(* What the transform of a traversal contributes. *)
LEMMA TransformContributes ==
    ASSUME NEW h, NEW S \in SpaceIn(h), NEW a \in AnalysisResults, IsTraversal(a[1]),
           FirstAR(a) \in GivenIn(h)
    PROVE  \A x : x \in Eq!Contribution(ResultsIn(h), S, Traverse(a)) <=>
              \E v \in S[FirstAR(a)] : /\ <<SecondHop(a[1]), v>> \in GivenIn(h)
                                       /\ x \in S[<<SecondHop(a[1]), v>>]
<1> DEFINE f == SecondHop(a[1])
           V == S[FirstAR(a)]
           G == GivenIn(h)
           rs == {ResultsIn(h)[f][v] : v \in V} \ {NoResult}
<1>1. f \in TransformAlgorithms
  BY ARType, TraversalHops
<1>2. V \subseteq VIs
  BY DEF SpaceIn
<1>3. Eq!Contribution(ResultsIn(h), S, Traverse(a)) = UNION {S[r] : r \in rs}
  BY DEF Eq!Contribution, Eq!IsSubset, Traverse, Eq!TransformWork
<1>4. \A v \in V : ResultsIn(h)[f][v] = IF <<f, v>> \in G THEN <<f, v>> ELSE NoResult
  BY <1>1, <1>2 DEF ResultsIn
<1>5. \A v : <<f, v>> # NoResult
  BY DEF NoResult
<1>6. \A r : r \in rs <=> \E v \in V : <<f, v>> \in G /\ r = <<f, v>>
  BY <1>4, <1>5
<1> HIDE DEF f, V, G, rs
<1>7. \A x : x \in UNION {S[r] : r \in rs} <=> \E v \in V : <<f, v>> \in G /\ x \in S[<<f, v>>]
  <2>1. ASSUME NEW x, x \in UNION {S[r] : r \in rs}
        PROVE  \E v \in V : <<f, v>> \in G /\ x \in S[<<f, v>>]
    <3>1. PICK r \in rs : x \in S[r]
      BY <2>1
    <3>2. PICK v \in V : <<f, v>> \in G /\ r = <<f, v>>
      BY <1>6
    <3> QED  BY <3>1, <3>2
  <2>2. ASSUME NEW x, NEW v \in V, <<f, v>> \in G, x \in S[<<f, v>>]
        PROVE  x \in UNION {S[r] : r \in rs}
    <3>1. <<f, v>> \in rs
      BY <1>6, <2>2
    <3> QED  BY <2>2, <3>1
  <2> QED  BY <2>1, <2>2
<1> QED  BY <1>3, <1>7 DEF f, V, G

(* What a subset contributes. *)
LEMMA SubsetContributes ==
    ASSUME NEW h, NEW S, NEW s
    PROVE  Eq!Contribution(ResultsIn(h), S, Eq!SubsetWork(s)) = S[s]
BY DEF Eq!Contribution, Eq!IsSubset, Eq!SubsetWork

(* One step of the iteration gives an AR what it gains. *)
LEMMA StepsAre ==
    ASSUME NEW h, NEW I, Holds(h, I), NEW S \in SpaceIn(h), NEW a \in GivenIn(h)
    PROVE  S[a] \cup UNION {Eq!Contribution(ResultsIn(h), S, w) : w \in ToSet(CellIn(h, a).work)}
               = StepIn(h, I)[S][a]
<1> DEFINE C(w) == Eq!Contribution(ResultsIn(h), S, w)
           W == ToSet(CellIn(h, a).work)
           T == IsTraversal(a[1]) /\ \E v \in S[FirstAR(a)] : <<SecondHop(a[1]), v>> \in GivenIn(h)
<1>1. StepIn(h, I)[S][a] = {x \in VIs : Gains(h, I, S, a, x)}
  BY DEF StepIn
<1>2. /\ IsCell(a, CellIn(h, a), I) /\ a \in AnalysisResults
      /\ IsTraversal(a[1]) => FirstAR(a) \in GivenIn(h)
      /\ IncludedIn(I, a) \subseteq GivenIn(h)
  BY CellsAre DEF GivenIn
<1>3. \A w : w \in W <=> \/ IsTraversal(a[1]) /\ w = Traverse(a)
                         \/ \E s \in IncludedIn(I, a) : w = Eq!SubsetWork(s)
  BY <1>2, WorksAre
<1>4. \A s : C(Eq!SubsetWork(s)) = S[s]
  BY SubsetContributes
<1>5. IsTraversal(a[1]) => \A x : x \in C(Traverse(a)) <=>
              \E v \in S[FirstAR(a)] : /\ <<SecondHop(a[1]), v>> \in GivenIn(h)
                                       /\ x \in S[<<SecondHop(a[1]), v>>]
  BY <1>2, TransformContributes
<1> HIDE DEF C, W
<1>6. ASSUME NEW x \in S[a] \cup UNION {C(w) : w \in W}
      PROVE  x \in VIs /\ Gains(h, I, S, a, x)
  <2>1. CASE x \in S[a]
    BY <2>1 DEF Gains, SpaceIn
  <2>2. ASSUME NEW w \in W, x \in C(w)
        PROVE  x \in VIs /\ Gains(h, I, S, a, x)
    <3>1. CASE IsTraversal(a[1]) /\ w = Traverse(a)
      <4>1. PICK v \in S[FirstAR(a)] : /\ <<SecondHop(a[1]), v>> \in GivenIn(h)
                                       /\ x \in S[<<SecondHop(a[1]), v>>]
        BY <1>5, <2>2, <3>1
      <4> QED  BY <3>1, <4>1 DEF Gains, SpaceIn
    <3>2. ASSUME NEW s \in IncludedIn(I, a), w = Eq!SubsetWork(s)
          PROVE  x \in VIs /\ Gains(h, I, S, a, x)
      BY <1>2, <1>4, <2>2, <3>2 DEF Gains, SpaceIn
    <3> QED  BY <1>3, <3>1, <3>2
  <2> QED  BY <2>1, <2>2
<1>7. ASSUME NEW x \in VIs, Gains(h, I, S, a, x)
      PROVE  x \in S[a] \cup UNION {C(w) : w \in W}
  <2>1. CASE x \in S[a]
    BY <2>1
  <2>2. ASSUME NEW s \in IncludedIn(I, a), x \in S[s]
        PROVE  x \in UNION {C(w) : w \in W}
    <3>1. Eq!SubsetWork(s) \in W /\ x \in C(Eq!SubsetWork(s))
      BY <1>3, <1>4, <2>2
    <3> QED  BY <3>1
  <2>3. CASE /\ IsTraversal(a[1])
             /\ \E v \in S[FirstAR(a)] : /\ <<SecondHop(a[1]), v>> \in GivenIn(h)
                                         /\ x \in S[<<SecondHop(a[1]), v>>]
    <3>1. Traverse(a) \in W /\ x \in C(Traverse(a))
      BY <1>3, <1>5, <2>3
    <3> QED  BY <3>1
  <2> QED  BY <1>7, <2>1, <2>2, <2>3 DEF Gains
<1>8. S[a] \cup UNION {C(w) : w \in W} = StepIn(h, I)[S][a]
  BY <1>1, <1>6, <1>7
<1> QED  BY <1>8 DEF C, W

(* The solution of the heap's equations is the least fixed point of those   *)
(* steps.                                                                   *)
LEMMA SolutionIs ==
    ASSUME NEW h, NEW I, Holds(h, I)
    PROVE  Solution(h) = [a \in AnalysisResults |->
               IF a \in GivenIn(h) THEN LeastFixedPoint(StepIn(h, I), StartIn(h))[a] ELSE {}]
<1> DEFINE sys == System(h)
           G == GivenIn(h)
           BusyOf(D) == {a \in D : sys.work[a] # <<>>}
           StepOf(D) == [S \in [D -> SUBSET VIs] |->
                            [a \in D |->
                                IF a \in BusyOf(D)
                                THEN S[a] \cup UNION {Eq!Contribution(sys.results, S, w) : w \in ToSet(sys.work[a])}
                                ELSE S[a]]]
           startOf(D) == [a \in D |-> ToSet(sys.set[a])]
           Found(D) == [a \in AnalysisResults |-> IF a \in D THEN Eq!LeastFixedPoint(StepOf(D), startOf(D))[a] ELSE {}]
           Busy == BusyOf(G)
           Step == StepOf(G)
           start == startOf(G)
<1>1. /\ sys.set = [a \in G |-> CellIn(h, a).set]
      /\ sys.work = [a \in G |-> CellIn(h, a).work]
      /\ sys.results = ResultsIn(h)
  BY DEF System, GivenIn, CellIn, ResultsIn
<1>2. Solution(h) = [a \in AnalysisResults |-> IF a \in G THEN Eq!LeastFixedPoint(Step, start)[a] ELSE {}]
  <2>1. DOMAIN sys.set = G
    BY <1>1
  <2>2. Solution(h) = Eq!IteratedSolution(sys)
    BY DEF Solution
  <2> HIDE DEF sys, G
  <2>3. Eq!IteratedSolution(sys) = Found(DOMAIN sys.set)
    BY DEF Eq!IteratedSolution, Eq!ToSet, ToSet
  <2>4. Found(DOMAIN sys.set) = Found(G)
    <3> HIDE DEF Found
    <3> QED  BY <2>1
  <2> QED  BY <2>2, <2>3, <2>4
<1>3. start = StartIn(h)
  <2>1. \A a \in G : sys.set[a] = Own(a)
    BY <1>1, CellsAre DEF IsCell
  <2> QED  BY <2>1 DEF StartIn
<1>4. Step = StepIn(h, I)
  <2>1. ASSUME NEW S \in SpaceIn(h), NEW a \in G
        PROVE  (IF a \in Busy
                THEN S[a] \cup UNION {Eq!Contribution(sys.results, S, w) : w \in ToSet(sys.work[a])}
                ELSE S[a]) = StepIn(h, I)[S][a]
    <3>1. S[a] \cup UNION {Eq!Contribution(sys.results, S, w) : w \in ToSet(sys.work[a])} = StepIn(h, I)[S][a]
      BY <1>1, StepsAre
    <3>2. CASE a \in Busy
      BY <3>1, <3>2
    <3>3. CASE a \notin Busy
      <4>1. sys.work[a] = <<>>
        BY <3>3
      <4>2. ToSet(<<>>) = {}
        BY DEF ToSet
      <4>3. UNION {Eq!Contribution(sys.results, S, w) : w \in ToSet(sys.work[a])} = {}
        BY <4>1, <4>2
      <4> QED  BY <3>1, <3>3, <4>3
    <3> QED  BY <3>2, <3>3
  <2>2. StepIn(h, I) = [S \in SpaceIn(h) |-> [a \in G |-> StepIn(h, I)[S][a]]]
    BY DEF StepIn
  <2>3. Step = [S \in SpaceIn(h) |-> [a \in G |-> StepIn(h, I)[S][a]]]
    <3> HIDE DEF BusyOf, sys
    <3>1. \A S \in SpaceIn(h) : [a \in G |->
                           IF a \in Busy
                           THEN S[a] \cup UNION {Eq!Contribution(sys.results, S, w) : w \in ToSet(sys.work[a])}
                           ELSE S[a]] = [a \in G |-> StepIn(h, I)[S][a]]
      BY <2>1
    <3> QED  BY <3>1 DEF SpaceIn
  <2> QED  BY <2>2, <2>3
<1>5. Eq!LeastFixedPoint(Step, start) = LeastFixedPoint(Step, start)
  <2> HIDE DEF Step, start
  <2> QED  BY DEF LeastFixedPoint, Eq!LeastFixedPoint
<1> QED  BY <1>2, <1>3, <1>4, <1>5

(* An enumerated set is finite. *)
LEMMA FourAreFinite ==
    ASSUME NEW a, NEW b, NEW c, NEW d
    PROVE  IsFiniteSet({a, b, c, d})
<1>1. IsFiniteSet({a})
  BY FS_Singleton
<1>2. IsFiniteSet({a} \cup {b})
  BY <1>1, FS_AddElement
<1>3. IsFiniteSet(({a} \cup {b}) \cup {c})
  BY <1>2, FS_AddElement
<1>4. IsFiniteSet((({a} \cup {b}) \cup {c}) \cup {d})
  BY <1>3, FS_AddElement
<1>5. (({a} \cup {b}) \cup {c}) \cup {d} = {a, b, c, d}
  OBVIOUS
<1> QED  BY <1>4, <1>5

(* There are finitely many ARs. *)
LEMMA AnalysisResultsAreFinite == IsFiniteSet(AnalysisResults)
<1> DEFINE L1 == {<<"self">>, <<"self-reverse">>, <<"actual-params">>, <<"actual-return-value">>}
           L2 == {<<"formal-params-reverse">>, <<"formal-return-value">>, <<"loaded-values-reverse">>, <<"stored-values">>}
           T1 == {<<"self-reverse", "actual-params">>, <<"self-reverse", "formal-return-value">>,
                  <<"self", "actual-return-value">>, <<"self", "formal-params-reverse">>}
           T2 == {<<"self-reverse", "stored-values">>, <<"self-reverse", "loaded-values-reverse">>,
                  <<"self", "self-reverse", "stored-values">>, <<"self", "self-reverse", "loaded-values-reverse">>}
<1>1. IsFiniteSet(L1) /\ IsFiniteSet(L2) /\ IsFiniteSet(T1) /\ IsFiniteSet(T2)
  BY FourAreFinite
<1>2. Algorithms = (L1 \cup L2) \cup (T1 \cup T2)
  BY AlgorithmsAre DEF Literals, TwoHops, ThreeHops
<1> HIDE DEF L1, L2, T1, T2
<1>3. IsFiniteSet(L1 \cup L2) /\ IsFiniteSet(T1 \cup T2)
  BY <1>1, FS_Union
<1>4. IsFiniteSet((L1 \cup L2) \cup (T1 \cup T2))
  BY <1>3, FS_Union
<1>5. IsFiniteSet(Algorithms)
  BY <1>2, <1>4
<1> QED  BY <1>5, FS_Product, RegionsAssumption DEF AnalysisResults

(* A step only adds, and adds no less to more. *)
LEMMA StepInIsStep ==
    ASSUME NEW h, NEW I, Holds(h, I)
    PROVE  IsStep(StepIn(h, I), GivenIn(h), VIs)
<1> DEFINE F == StepIn(h, I)
<1>1. F \in [SpaceIn(h) -> SpaceIn(h)]
  BY DEF StepIn, SpaceIn
<1>2. \A S \in SpaceIn(h) : \A a \in GivenIn(h) : F[S][a] = {x \in VIs : Gains(h, I, S, a, x)}
  BY DEF StepIn
<1>3. ASSUME NEW S \in SpaceIn(h)
      PROVE  Below(S, F[S])
  <2>1. ASSUME NEW a \in GivenIn(h), NEW x \in S[a]
        PROVE  x \in F[S][a]
    <3>1. Gains(h, I, S, a, x)
      BY DEF Gains
    <3>2. x \in VIs
      BY DEF SpaceIn
    <3> QED  BY <1>2, <3>1, <3>2
  <2> HIDE DEF F
  <2> QED  BY <2>1 DEF Below, SpaceIn
<1>4. ASSUME NEW S \in SpaceIn(h), NEW T \in SpaceIn(h), Below(S, T)
      PROVE  Below(F[S], F[T])
  <2>1. ASSUME NEW a \in GivenIn(h), NEW x \in VIs, Gains(h, I, S, a, x)
        PROVE  Gains(h, I, T, a, x)
    <3>1. /\ IsTraversal(a[1]) => FirstAR(a) \in GivenIn(h)
          /\ IncludedIn(I, a) \subseteq GivenIn(h)
      BY CellsAre
    <3>2. \A y \in GivenIn(h) : S[y] \subseteq T[y]
      BY <1>4 DEF Below, SpaceIn
    <3>3. CASE x \in S[a]
      BY <3>2, <3>3 DEF Gains
    <3>4. ASSUME NEW s \in IncludedIn(I, a), x \in S[s]
          PROVE  Gains(h, I, T, a, x)
      BY <3>1, <3>2, <3>4 DEF Gains
    <3>5. ASSUME IsTraversal(a[1]), NEW v \in S[FirstAR(a)], <<SecondHop(a[1]), v>> \in GivenIn(h),
                 x \in S[<<SecondHop(a[1]), v>>]
          PROVE  Gains(h, I, T, a, x)
      <4>1. v \in T[FirstAR(a)] /\ x \in T[<<SecondHop(a[1]), v>>]
        BY <3>1, <3>2, <3>5
      <4> QED  BY <3>5, <4>1 DEF Gains
    <3> QED  BY <2>1, <3>3, <3>4, <3>5 DEF Gains
  <2>2. \A a \in GivenIn(h) : F[S][a] \subseteq F[T][a]
    BY <1>2, <2>1
  <2>3. F[S] \in SpaceIn(h)
    BY <1>1
  <2> HIDE DEF F
  <2> QED  BY <2>2, <2>3 DEF Below, SpaceIn
<1> HIDE DEF F
<1>5. /\ F \in [[GivenIn(h) -> SUBSET VIs] -> [GivenIn(h) -> SUBSET VIs]]
      /\ \A S \in [GivenIn(h) -> SUBSET VIs] : Below(S, F[S])
      /\ \A S, T \in [GivenIn(h) -> SUBSET VIs] : Below(S, T) => Below(F[S], F[T])
  BY <1>1, <1>3, <1>4 DEF SpaceIn
<1> QED  BY <1>5 DEF IsStep, F

(* S solves the equations that the inclusions I stand for, where the ARs of h are asked for. *)
Solves(S, h, I) ==
    /\ \A v \in VIs : v \in S[<<ReversePointsTo, v>>]
    /\ \A r \in Regions : r \in S[<<PointsToSet, r>>]
    /\ \A a, s \in AnalysisResults : <<a, s>> \in I => S[s] \subseteq S[a]
    /\ \A a \in GivenIn(h) : IsTraversal(a[1]) =>
          \A v \in S[FirstAR(a)] : S[<<SecondHop(a[1]), v>>] \subseteq S[a]

(* What the least fixed point has, and that it is below all that has it. *)
LEMMA LeastOfStep ==
    ASSUME NEW h, NEW I, Holds(h, I)
    PROVE  LET L == LeastFixedPoint(StepIn(h, I), StartIn(h))
           IN  /\ L \in SpaceIn(h)
               /\ \A a \in GivenIn(h) : L[a] = {x \in VIs : Gains(h, I, L, a, x)}
               /\ \A a \in GivenIn(h) : ToSet(Own(a)) \subseteq L[a]
               /\ \A T \in SpaceIn(h) :
                     /\ \A a \in GivenIn(h) : ToSet(Own(a)) \subseteq T[a]
                     /\ \A a \in GivenIn(h) : \A x \in VIs : Gains(h, I, T, a, x) => x \in T[a]
                     => \A a \in GivenIn(h) : L[a] \subseteq T[a]
<1> DEFINE F == StepIn(h, I)
           b == StartIn(h)
           L == LeastFixedPoint(F, b)
<1>1. IsFiniteSet(GivenIn(h)) /\ IsFiniteSet(VIs)
  <2>1. GivenIn(h) \subseteq AnalysisResults
    BY DEF GivenIn
  <2> QED  BY <2>1, AnalysisResultsAreFinite, FS_Subset, RegionsAssumption
<1>2. b \in SpaceIn(h)
  <2>1. \A a \in GivenIn(h) : ToSet(Own(a)) \subseteq VIs
    <3> SUFFICES ASSUME NEW a \in GivenIn(h)
                 PROVE  ToSet(Own(a)) \subseteq VIs
      OBVIOUS
    <3>1. a[2] \in VIs
      BY ARType DEF GivenIn
    <3>2. ToSet(<<a[2]>>) = {a[2]} /\ ToSet(<<>>) = {}
      BY DEF ToSet
    <3> QED  BY <3>1, <3>2 DEF Own
  <2> QED  BY <2>1 DEF StartIn, SpaceIn
<1>3. IsStep(F, GivenIn(h), VIs)
  BY StepInIsStep
<1>4. \A S \in SpaceIn(h) : \A a \in GivenIn(h) : F[S][a] = {x \in VIs : Gains(h, I, S, a, x)}
  BY DEF StepIn
<1>5. \A S \in SpaceIn(h) : F[S] \in SpaceIn(h)
  BY DEF StepIn, SpaceIn
<1>6. \A a \in GivenIn(h) : b[a] = ToSet(Own(a))
  BY DEF StartIn
<1> HIDE DEF F, b
<1>7. /\ L \in SpaceIn(h) /\ F[L] = L /\ Below(b, L)
      /\ \A T \in SpaceIn(h) : Below(F[T], T) /\ Below(b, T) => Below(L, T)
  BY <1>1, <1>2, <1>3, LeastFixedPointIsLeast DEF SpaceIn
<1> HIDE DEF L
<1>8. ASSUME NEW T \in SpaceIn(h),
             \A a \in GivenIn(h) : ToSet(Own(a)) \subseteq T[a],
             \A a \in GivenIn(h) : \A x \in VIs : Gains(h, I, T, a, x) => x \in T[a],
             NEW a \in GivenIn(h)
      PROVE  L[a] \subseteq T[a]
  <2>1. Below(b, T)
    BY <1>2, <1>6, <1>8 DEF Below, SpaceIn
  <2>2. \A c \in GivenIn(h) : F[T][c] \subseteq T[c]
    BY <1>4, <1>8
  <2>3. Below(F[T], T)
    BY <1>5, <2>2 DEF Below, SpaceIn
  <2> QED  BY <1>7, <2>1, <2>3 DEF Below, SpaceIn
<1>9. \A a \in GivenIn(h) : ToSet(Own(a)) \subseteq L[a]
  BY <1>2, <1>6, <1>7 DEF Below, SpaceIn
<1>10. \A a \in GivenIn(h) : L[a] = {x \in VIs : Gains(h, I, L, a, x)}
  BY <1>4, <1>7
<1> QED  BY <1>7, <1>8, <1>9, <1>10 DEF L, F, b

(* The solution solves the equations, and is the least that does. *)
LEMMA SolutionSolves ==
    ASSUME NEW h, NEW I, Holds(h, I)
    PROVE  /\ Solution(h) \in [AnalysisResults -> SUBSET VIs]
           /\ Solves(Solution(h), h, I)
           /\ \A T \in [AnalysisResults -> SUBSET VIs] : Solves(T, h, I) =>
                 \A a \in AnalysisResults : Solution(h)[a] \subseteq T[a]
<1> DEFINE G == GivenIn(h)
           L == LeastFixedPoint(StepIn(h, I), StartIn(h))
           S == Solution(h)
<1>1. S = [a \in AnalysisResults |-> IF a \in G THEN L[a] ELSE {}]
  BY SolutionIs
<1>2. /\ L \in SpaceIn(h)
      /\ \A a \in G : L[a] = {x \in VIs : Gains(h, I, L, a, x)}
      /\ \A a \in G : ToSet(Own(a)) \subseteq L[a]
      /\ \A T \in SpaceIn(h) :
                     /\ \A a \in G : ToSet(Own(a)) \subseteq T[a]
                     /\ \A a \in G : \A x \in VIs : Gains(h, I, T, a, x) => x \in T[a]
                     => \A a \in G : L[a] \subseteq T[a]
  BY LeastOfStep
<1> HIDE DEF L, S
<1>3. S \in [AnalysisResults -> SUBSET VIs]
  BY <1>1, <1>2 DEF SpaceIn
<1>4. G \subseteq AnalysisResults /\ \A a \in G : S[a] = L[a]
  BY <1>1 DEF GivenIn
<1>5. \A v \in VIs : <<ReversePointsTo, v>> \in G /\ ToSet(Own(<<ReversePointsTo, v>>)) = {v}
  <2> SUFFICES ASSUME NEW v \in VIs
               PROVE  <<ReversePointsTo, v>> \in G /\ ToSet(Own(<<ReversePointsTo, v>>)) = {v}
    OBVIOUS
  <2>1. <<ReversePointsTo, v>> \in G
    BY OnDemandAre DEF GivenIn, OnDemand
  <2>2. Own(<<ReversePointsTo, v>>) = <<v>>
    BY DEF Own
  <2>3. ToSet(<<v>>) = {v}
    BY DEF ToSet
  <2> QED  BY <2>1, <2>2, <2>3
<1>6. \A r \in Regions : <<PointsToSet, r>> \in G /\ ToSet(Own(<<PointsToSet, r>>)) = {r}
  <2> SUFFICES ASSUME NEW r \in Regions
               PROVE  <<PointsToSet, r>> \in G /\ ToSet(Own(<<PointsToSet, r>>)) = {r}
    OBVIOUS
  <2>1. <<PointsToSet, r>> \in G
    BY DEF Holds, GivenIn
  <2>2. Own(<<PointsToSet, r>>) = <<r>>
    BY DEF Own
  <2>3. ToSet(<<r>>) = {r}
    BY DEF ToSet
  <2> QED  BY <2>1, <2>2, <2>3
<1>7. Solves(S, h, I)
  <2>1. \A v \in VIs : v \in S[<<ReversePointsTo, v>>]
    BY <1>2, <1>4, <1>5
  <2>2. \A r \in Regions : r \in S[<<PointsToSet, r>>]
    BY <1>2, <1>4, <1>6
  <2>3. ASSUME NEW a \in AnalysisResults, NEW s \in AnalysisResults, <<a, s>> \in I, NEW x \in S[s]
        PROVE  x \in S[a]
    <3>1. a \in G /\ s \in G
      BY <2>3 DEF Holds, GivenIn
    <3>2. CASE s # a
      <4>1. s \in IncludedIn(I, a)
        BY <2>3, <3>2 DEF IncludedIn
      <4>2. x \in L[s] /\ x \in VIs
        BY <1>3, <1>4, <2>3, <3>1
      <4>3. Gains(h, I, L, a, x)
        BY <4>1, <4>2 DEF Gains
      <4> QED  BY <1>2, <1>4, <3>1, <4>2, <4>3
    <3> QED  BY <2>3, <3>2
  <2>4. ASSUME NEW a \in G, IsTraversal(a[1]), NEW v \in S[FirstAR(a)], NEW x \in S[<<SecondHop(a[1]), v>>]
        PROVE  x \in S[a]
    <3>1. a \in AnalysisResults /\ FirstAR(a) \in G
      BY <1>4, <2>4, CellsAre
    <3>2. v \in VIs /\ v \in L[FirstAR(a)]
      BY <1>3, <1>4, <3>1
    <3>3. <<SecondHop(a[1]), v>> \in AnalysisResults
      BY <2>4, <3>1, <3>2, ARType, TraversalHops DEF AnalysisResults
    <3>4. x \in VIs /\ <<SecondHop(a[1]), v>> \in G
      BY <1>1, <1>3, <3>3
    <3>5. x \in L[<<SecondHop(a[1]), v>>]
      BY <1>4, <3>4
    <3>6. Gains(h, I, L, a, x)
      BY <2>4, <3>2, <3>4, <3>5 DEF Gains
    <3> QED  BY <1>2, <1>4, <3>4, <3>6
  <2> QED  BY <2>1, <2>2, <2>3, <2>4 DEF Solves
<1>8. ASSUME NEW T \in [AnalysisResults -> SUBSET VIs], Solves(T, h, I), NEW a \in AnalysisResults
      PROVE  S[a] \subseteq T[a]
  <2> DEFINE U == [c \in G |-> T[c]]
  <2>1. U \in SpaceIn(h) /\ \A c \in G : U[c] = T[c]
    BY <1>4 DEF SpaceIn
  <2> HIDE DEF U
  <2>2. \A c \in G : ToSet(Own(c)) \subseteq U[c]
    <3> SUFFICES ASSUME NEW c \in G
                 PROVE  ToSet(Own(c)) \subseteq T[c]
      BY <2>1
    <3>1. c[2] \in VIs /\ c = <<c[1], c[2]>>
      BY <1>4, ARType
    <3>2. ToSet(<<c[2]>>) = {c[2]} /\ ToSet(<<>>) = {}
      BY DEF ToSet
    <3>3. CASE c[1] = ReversePointsTo
      BY <1>8, <3>1, <3>2, <3>3 DEF Own, Solves
    <3>4. CASE c[1] = PointsToSet /\ c[2] \in Regions
      BY <1>8, <3>1, <3>2, <3>4 DEF Own, Solves
    <3>5. CASE ~(c[1] = ReversePointsTo \/ (c[1] = PointsToSet /\ c[2] \in Regions))
      BY <3>2, <3>5 DEF Own
    <3> QED  BY <3>3, <3>4, <3>5
  <2>3. ASSUME NEW c \in G, NEW x \in VIs, Gains(h, I, U, c, x)
        PROVE  x \in U[c]
    <3>1. /\ IsTraversal(c[1]) => FirstAR(c) \in G
          /\ IncludedIn(I, c) \subseteq G
          /\ c \in AnalysisResults
      BY <1>4, CellsAre
    <3>2. ASSUME NEW s \in IncludedIn(I, c), x \in U[s]
          PROVE  x \in T[c]
      <4>1. s \in AnalysisResults /\ <<c, s>> \in I /\ x \in T[s]
        BY <2>1, <3>1, <3>2 DEF IncludedIn
      <4> QED  BY <1>8, <3>1, <4>1 DEF Solves
    <3>3. ASSUME IsTraversal(c[1]), NEW v \in U[FirstAR(c)], <<SecondHop(c[1]), v>> \in G,
                 x \in U[<<SecondHop(c[1]), v>>]
          PROVE  x \in T[c]
      <4>1. v \in T[FirstAR(c)] /\ x \in T[<<SecondHop(c[1]), v>>]
        BY <2>1, <3>1, <3>3
      <4> QED  BY <1>8, <3>3, <4>1 DEF Solves
    <3> QED  BY <2>1, <2>3, <3>2, <3>3 DEF Gains
  <2>4. \A c \in G : L[c] \subseteq U[c]
    BY <1>2, <2>1, <2>2, <2>3
  <2>5. CASE a \in G
    BY <1>4, <2>1, <2>4, <2>5
  <2>6. CASE a \notin G
    BY <1>1, <2>6
  <2> QED  BY <2>5, <2>6
<1> QED  BY <1>3, <1>7, <1>8 DEF S

-----------------------------------------------------------------------------
(* Points-to and reverse points-to sets. *)

(* Sets of ValueInfos for the ValueInfos. *)
ValueSets == [VIs -> SUBSET VIs]

(* The rules of the equations without the algorithms that the ARs in between belong to: *)
(* P are points-to sets and R reverse points-to sets.                                    *)
Flows(P, R, rels) ==
    /\ \A v \in VIs : v \in R[v]
    /\ \A r \in Regions : r \in P[r]
    /\ \A d \in rels : d.type = "DEPENDS_ON" => P[d.Dst] \subseteq P[d.Src] /\ R[d.Src] \subseteq R[d.Dst]
    /\ \A s, l \in rels : s.type = "STORED_TO" /\ l.type = "LOADED_FROM" =>
          /\ \A r \in P[l.Dst] : s.Dst \in R[r] => P[s.Src] \subseteq P[l.Src]
          /\ \A r \in P[s.Dst] : l.Dst \in R[r] => R[l.Src] \subseteq R[s.Src]
    /\ \A c, f \in rels : c.type = "ARGUMENT_TO_CALLEE" /\ f.type = "ARGUMENT_FROM_CALLER" =>
          /\ c.Dst \in R[f.Dst] => P[c.Src] \subseteq P[f.Src]
          /\ f.Dst \in P[c.Dst] => R[f.Src] \subseteq R[c.Src]
    /\ \A t, u \in rels : t.type = "RETURNED_TO_CALLER" /\ u.type = "RETURNED_FROM_CALLEE" =>
          /\ t.Dst \in P[u.Dst] => P[t.Src] \subseteq P[u.Src]
          /\ u.Dst \in R[t.Dst] => R[u.Src] \subseteq R[t.Src]

(* The hops of the traversals, by name. *)
LEMMA NamedHops ==
    /\ IsTraversal(TwoHopTraversal(ReversePointsTo, ActualParameters))
    /\ FirstHop(TwoHopTraversal(ReversePointsTo, ActualParameters)) = ReversePointsTo
    /\ SecondHop(TwoHopTraversal(ReversePointsTo, ActualParameters)) = ActualParameters
    /\ IsTraversal(TwoHopTraversal(ReversePointsTo, FormalReturnValueRev))
    /\ FirstHop(TwoHopTraversal(ReversePointsTo, FormalReturnValueRev)) = ReversePointsTo
    /\ SecondHop(TwoHopTraversal(ReversePointsTo, FormalReturnValueRev)) = FormalReturnValueRev
    /\ IsTraversal(TwoHopTraversal(PointsToSet, ActualReturnValue))
    /\ FirstHop(TwoHopTraversal(PointsToSet, ActualReturnValue)) = PointsToSet
    /\ SecondHop(TwoHopTraversal(PointsToSet, ActualReturnValue)) = ActualReturnValue
    /\ IsTraversal(TwoHopTraversal(PointsToSet, FormalParametersRev))
    /\ FirstHop(TwoHopTraversal(PointsToSet, FormalParametersRev)) = PointsToSet
    /\ SecondHop(TwoHopTraversal(PointsToSet, FormalParametersRev)) = FormalParametersRev
    /\ \A g \in {StoredValues, LoadedValuesRev} :
          /\ IsTraversal(ThreeHopTraversal(PointsToSet, ReversePointsTo, g))
          /\ FirstHop(ThreeHopTraversal(PointsToSet, ReversePointsTo, g)) = PointsToSet
          /\ SecondHop(ThreeHopTraversal(PointsToSet, ReversePointsTo, g)) = TwoHopTraversal(ReversePointsTo, g)
          /\ IsTraversal(TwoHopTraversal(ReversePointsTo, g))
          /\ FirstHop(TwoHopTraversal(ReversePointsTo, g)) = ReversePointsTo
          /\ SecondHop(TwoHopTraversal(ReversePointsTo, g)) = g
          /\ TwoHopTraversal(ReversePointsTo, g) \in Traversals
          /\ ThreeHopTraversal(PointsToSet, ReversePointsTo, g) \in Traversals
<1>1. /\ IsTraversal(<<"self-reverse", "actual-params">>)
      /\ FirstHop(<<"self-reverse", "actual-params">>) = <<"self-reverse">>
      /\ SecondHop(<<"self-reverse", "actual-params">>) = <<"actual-params">>
      /\ IsTraversal(<<"self-reverse", "formal-return-value">>)
      /\ FirstHop(<<"self-reverse", "formal-return-value">>) = <<"self-reverse">>
      /\ SecondHop(<<"self-reverse", "formal-return-value">>) = <<"formal-return-value">>
      /\ IsTraversal(<<"self", "actual-return-value">>)
      /\ FirstHop(<<"self", "actual-return-value">>) = <<"self">>
      /\ SecondHop(<<"self", "actual-return-value">>) = <<"actual-return-value">>
      /\ IsTraversal(<<"self", "formal-params-reverse">>)
      /\ FirstHop(<<"self", "formal-params-reverse">>) = <<"self">>
      /\ SecondHop(<<"self", "formal-params-reverse">>) = <<"formal-params-reverse">>
  BY Hops
<1>2. ASSUME NEW x \in {"stored-values", "loaded-values-reverse"}
      PROVE  /\ IsTraversal(<<"self", "self-reverse", x>>)
             /\ FirstHop(<<"self", "self-reverse", x>>) = <<"self">>
             /\ SecondHop(<<"self", "self-reverse", x>>) = <<"self-reverse", x>>
             /\ IsTraversal(<<"self-reverse", x>>)
             /\ FirstHop(<<"self-reverse", x>>) = <<"self-reverse">>
             /\ SecondHop(<<"self-reverse", x>>) = <<x>>
             /\ <<"self-reverse", x>> \in Traversals
             /\ <<"self", "self-reverse", x>> \in Traversals
  <2>1. <<"self-reverse", x>> \in TwoHops /\ <<"self", "self-reverse", x>> \in ThreeHops
    BY DEF TwoHops, ThreeHops
  <2> QED  BY <2>1, Hops, TraversalsAre
<1>3. /\ TwoHopTraversal(ReversePointsTo, StoredValues) = <<"self-reverse", "stored-values">>
      /\ TwoHopTraversal(ReversePointsTo, LoadedValuesRev) = <<"self-reverse", "loaded-values-reverse">>
  BY ConcatOne DEF TwoHopTraversal, ReversePointsTo, StoredValues, LoadedValuesRev
<1> QED  BY <1>1, <1>2, <1>3, TraversalNames DEF PointsToSet, ReversePointsTo, ActualParameters, ActualReturnValue, FormalParametersRev,
     FormalReturnValueRev, LoadedValuesRev, StoredValues

(* What a solution has for a traversal of two hops that is included. *)
LEMMA TwoHopsSolved ==
    ASSUME NEW h, NEW I, Holds(h, I), NEW S \in [AnalysisResults -> SUBSET VIs], Solves(S, h, I),
           NEW a, NEW alg, NEW d, <<a, <<alg, d>>>> \in I, IsTraversal(alg)
    PROVE  /\ \A r \in S[<<FirstHop(alg), d>>] : S[<<SecondHop(alg), r>>] \subseteq S[a]
           /\ S[<<FirstHop(alg), d>>] \subseteq VIs
<1> DEFINE b == <<alg, d>>
<1>1. b \in DOMAIN h /\ a \in DOMAIN h /\ b \in AnalysisResults /\ a \in AnalysisResults
  BY DEF Holds
<1>2. b \in GivenIn(h) /\ FirstAR(b) = <<FirstHop(alg), d>> /\ FirstAR(b) \in AnalysisResults
  BY <1>1, FirstARType DEF GivenIn, FirstAR
<1>3. S[b] \subseteq S[a]
  BY <1>1 DEF Solves
<1>4. \A r \in S[<<FirstHop(alg), d>>] : S[<<SecondHop(alg), r>>] \subseteq S[b]
  BY <1>2 DEF Solves
<1> QED  BY <1>2, <1>3, <1>4

(* What a solution has for a traversal of three hops that is included. *)
LEMMA ThreeHopsSolved ==
    ASSUME NEW h, NEW I, Holds(h, I), NEW S \in [AnalysisResults -> SUBSET VIs], Solves(S, h, I),
           NEW a, NEW g \in {StoredValues, LoadedValuesRev}, NEW d,
           <<a, <<ThreeHopTraversal(PointsToSet, ReversePointsTo, g), d>>>> \in I
    PROVE  \A r \in S[<<PointsToSet, d>>] : \A q \in S[<<ReversePointsTo, r>>] : S[<<g, q>>] \subseteq S[a]
<1> SUFFICES ASSUME NEW r \in S[<<PointsToSet, d>>], NEW q \in S[<<ReversePointsTo, r>>]
             PROVE  S[<<g, q>>] \subseteq S[a]
  OBVIOUS
<1> DEFINE alg == ThreeHopTraversal(PointsToSet, ReversePointsTo, g)
           mid == TwoHopTraversal(ReversePointsTo, g)
<1>1. /\ IsTraversal(alg) /\ FirstHop(alg) = PointsToSet /\ SecondHop(alg) = mid
      /\ IsTraversal(mid) /\ FirstHop(mid) = ReversePointsTo /\ SecondHop(mid) = g
      /\ alg \in Traversals /\ mid \in Traversals
  BY NamedHops
<1> HIDE DEF alg, mid
<1>2. <<a, <<alg, d>>>> \in I
  BY DEF alg
<1>3. S[<<mid, r>>] \subseteq S[a] /\ r \in VIs
  BY <1>1, <1>2, TwoHopsSolved
<1>4. <<mid, r>> \in GivenIn(h)
  BY <1>1, <1>3, OnDemandAre DEF GivenIn, OnDemand
<1>5. FirstAR(<<mid, r>>) = <<ReversePointsTo, r>>
  BY <1>1 DEF FirstAR
<1>6. S[<<g, q>>] \subseteq S[<<mid, r>>]
  BY <1>1, <1>4, <1>5 DEF Solves
<1> QED  BY <1>3, <1>6

(* What a solution has for a relation. *)
Fits(S, Q) ==
    /\ Q.type = "DEPENDS_ON" =>
          /\ S[<<PointsToSet, Q.Dst>>] \subseteq S[<<PointsToSet, Q.Src>>]
          /\ S[<<ReversePointsTo, Q.Src>>] \subseteq S[<<ReversePointsTo, Q.Dst>>]
    /\ Q.type = "LOADED_FROM" =>
          /\ S[<<ReversePointsTo, Q.Src>>] \subseteq S[<<LoadedValuesRev, Q.Dst>>]
          /\ \A r \in S[<<PointsToSet, Q.Dst>>] : \A q \in S[<<ReversePointsTo, r>>] : S[<<StoredValues, q>>] \subseteq S[<<PointsToSet, Q.Src>>]
    /\ Q.type = "STORED_TO" =>
          /\ S[<<PointsToSet, Q.Src>>] \subseteq S[<<StoredValues, Q.Dst>>]
          /\ \A r \in S[<<PointsToSet, Q.Dst>>] : \A q \in S[<<ReversePointsTo, r>>] : S[<<LoadedValuesRev, q>>] \subseteq S[<<ReversePointsTo, Q.Src>>]
    /\ Q.type = "ARGUMENT_TO_CALLEE" =>
          /\ S[<<PointsToSet, Q.Src>>] \subseteq S[<<ActualParameters, Q.Dst>>]
          /\ \A r \in S[<<PointsToSet, Q.Dst>>] : S[<<FormalParametersRev, r>>] \subseteq S[<<ReversePointsTo, Q.Src>>]
    /\ Q.type = "ARGUMENT_FROM_CALLER" =>
          /\ S[<<ReversePointsTo, Q.Src>>] \subseteq S[<<FormalParametersRev, Q.Dst>>]
          /\ \A r \in S[<<ReversePointsTo, Q.Dst>>] : S[<<ActualParameters, r>>] \subseteq S[<<PointsToSet, Q.Src>>]
    /\ Q.type = "RETURNED_TO_CALLER" =>
          /\ S[<<PointsToSet, Q.Src>>] \subseteq S[<<ActualReturnValue, Q.Dst>>]
          /\ \A r \in S[<<ReversePointsTo, Q.Dst>>] : S[<<FormalReturnValueRev, r>>] \subseteq S[<<ReversePointsTo, Q.Src>>]
    /\ Q.type = "RETURNED_FROM_CALLEE" =>
          /\ S[<<ReversePointsTo, Q.Src>>] \subseteq S[<<FormalReturnValueRev, Q.Dst>>]
          /\ \A r \in S[<<PointsToSet, Q.Dst>>] : S[<<ActualReturnValue, r>>] \subseteq S[<<PointsToSet, Q.Src>>]

(* Solutions fit every relation that was handled. *)
LEMMA SolutionFits ==
    ASSUME NEW h, NEW rels, rels \subseteq Relations, Holds(h, AllInclusions(rels)),
           NEW S \in [AnalysisResults -> SUBSET VIs], Solves(S, h, AllInclusions(rels)), NEW Q \in rels
    PROVE  Fits(S, Q)
<1> DEFINE I == AllInclusions(rels)
<1>0. Holds(h, I) /\ Solves(S, h, I) /\ Inclusions(Q) \subseteq I
  BY DEF AllInclusions
<1> HIDE DEF I
<1>00. \A a, s : <<a, s>> \in I => S[s] \subseteq S[a]
  <2>1. \A a, s : <<a, s>> \in I => a \in AnalysisResults /\ s \in AnalysisResults
    BY <1>0 DEF Holds
  <2> QED  BY <1>0, <2>1 DEF Solves
<1>1. CASE Q.type = "DEPENDS_ON"
  <2>1. Inclusions(Q) = {<<<<PointsToSet, Q.Src>>, <<PointsToSet, Q.Dst>>>>, <<<<ReversePointsTo, Q.Dst>>, <<ReversePointsTo, Q.Src>>>>}
    BY <1>1 DEF Inclusions
  <2> QED  BY <1>0, <1>00, <1>1, <2>1 DEF Fits
<1>2. CASE Q.type = "LOADED_FROM"
  <2>1. Inclusions(Q) = {<<<<LoadedValuesRev, Q.Dst>>, <<ReversePointsTo, Q.Src>>>>, <<<<PointsToSet, Q.Src>>, <<ThreeHopTraversal(PointsToSet, ReversePointsTo, StoredValues), Q.Dst>>>>}
    BY <1>2 DEF Inclusions
  <2>2. <<<<PointsToSet, Q.Src>>, <<ThreeHopTraversal(PointsToSet, ReversePointsTo, StoredValues), Q.Dst>>>> \in I
    BY <1>0, <2>1
  <2>3. S[<<ReversePointsTo, Q.Src>>] \subseteq S[<<LoadedValuesRev, Q.Dst>>]
    BY <1>0, <1>00, <2>1
  <2>4. \A r \in S[<<PointsToSet, Q.Dst>>] : \A q \in S[<<ReversePointsTo, r>>] : S[<<StoredValues, q>>] \subseteq S[<<PointsToSet, Q.Src>>]
    <3>1. StoredValues \in {StoredValues, LoadedValuesRev}
      OBVIOUS
    <3> HIDE DEF Inclusions
    <3>2. ASSUME NEW g, g = StoredValues, g \in {StoredValues, LoadedValuesRev}
          PROVE  \A r \in S[<<PointsToSet, Q.Dst>>] : \A q \in S[<<ReversePointsTo, r>>] : S[<<g, q>>] \subseteq S[<<PointsToSet, Q.Src>>]
      <4> DEFINE a == <<PointsToSet, Q.Src>>
                 d == Q.Dst
      <4>1. <<a, <<ThreeHopTraversal(PointsToSet, ReversePointsTo, g), d>>>> \in I
        BY <2>2, <3>2
      <4> HIDE DEF a, d
      <4>2. \A r \in S[<<PointsToSet, d>>] : \A q \in S[<<ReversePointsTo, r>>] : S[<<g, q>>] \subseteq S[a]
        BY <1>0, <3>2, <4>1, ThreeHopsSolved
      <4> QED  BY <4>2 DEF a, d
    <3> QED  BY <3>1, <3>2
  <2> QED  BY <1>2, <2>3, <2>4 DEF Fits
<1>3. CASE Q.type = "STORED_TO"
  <2>1. Inclusions(Q) = {<<<<StoredValues, Q.Dst>>, <<PointsToSet, Q.Src>>>>, <<<<ReversePointsTo, Q.Src>>, <<ThreeHopTraversal(PointsToSet, ReversePointsTo, LoadedValuesRev), Q.Dst>>>>}
    BY <1>3 DEF Inclusions
  <2>2. <<<<ReversePointsTo, Q.Src>>, <<ThreeHopTraversal(PointsToSet, ReversePointsTo, LoadedValuesRev), Q.Dst>>>> \in I
    BY <1>0, <2>1
  <2>3. S[<<PointsToSet, Q.Src>>] \subseteq S[<<StoredValues, Q.Dst>>]
    BY <1>0, <1>00, <2>1
  <2>4. \A r \in S[<<PointsToSet, Q.Dst>>] : \A q \in S[<<ReversePointsTo, r>>] : S[<<LoadedValuesRev, q>>] \subseteq S[<<ReversePointsTo, Q.Src>>]
    <3>1. LoadedValuesRev \in {StoredValues, LoadedValuesRev}
      OBVIOUS
    <3> HIDE DEF Inclusions
    <3>2. ASSUME NEW g, g = LoadedValuesRev, g \in {StoredValues, LoadedValuesRev}
          PROVE  \A r \in S[<<PointsToSet, Q.Dst>>] : \A q \in S[<<ReversePointsTo, r>>] : S[<<g, q>>] \subseteq S[<<ReversePointsTo, Q.Src>>]
      <4> DEFINE a == <<ReversePointsTo, Q.Src>>
                 d == Q.Dst
      <4>1. <<a, <<ThreeHopTraversal(PointsToSet, ReversePointsTo, g), d>>>> \in I
        BY <2>2, <3>2
      <4> HIDE DEF a, d
      <4>2. \A r \in S[<<PointsToSet, d>>] : \A q \in S[<<ReversePointsTo, r>>] : S[<<g, q>>] \subseteq S[a]
        BY <1>0, <3>2, <4>1, ThreeHopsSolved
      <4> QED  BY <4>2 DEF a, d
    <3> QED  BY <3>1, <3>2
  <2> QED  BY <1>3, <2>3, <2>4 DEF Fits
<1>4. CASE Q.type = "ARGUMENT_TO_CALLEE"
  <2>1. Inclusions(Q) = {<<<<ActualParameters, Q.Dst>>, <<PointsToSet, Q.Src>>>>, <<<<ReversePointsTo, Q.Src>>, <<TwoHopTraversal(PointsToSet, FormalParametersRev), Q.Dst>>>>}
    BY <1>4 DEF Inclusions
  <2>2. <<<<ReversePointsTo, Q.Src>>, <<TwoHopTraversal(PointsToSet, FormalParametersRev), Q.Dst>>>> \in I
    BY <1>0, <2>1
  <2>3. S[<<PointsToSet, Q.Src>>] \subseteq S[<<ActualParameters, Q.Dst>>]
    BY <1>0, <1>00, <2>1
  <2>4. /\ IsTraversal(TwoHopTraversal(PointsToSet, FormalParametersRev)) /\ FirstHop(TwoHopTraversal(PointsToSet, FormalParametersRev)) = PointsToSet
        /\ SecondHop(TwoHopTraversal(PointsToSet, FormalParametersRev)) = FormalParametersRev
    BY NamedHops
  <2>5. \A r \in S[<<PointsToSet, Q.Dst>>] : S[<<FormalParametersRev, r>>] \subseteq S[<<ReversePointsTo, Q.Src>>]
    BY <1>0, <2>2, <2>4, TwoHopsSolved
  <2> QED  BY <1>4, <2>3, <2>5 DEF Fits
<1>5. CASE Q.type = "ARGUMENT_FROM_CALLER"
  <2>1. Inclusions(Q) = {<<<<FormalParametersRev, Q.Dst>>, <<ReversePointsTo, Q.Src>>>>, <<<<PointsToSet, Q.Src>>, <<TwoHopTraversal(ReversePointsTo, ActualParameters), Q.Dst>>>>}
    BY <1>5 DEF Inclusions
  <2>2. <<<<PointsToSet, Q.Src>>, <<TwoHopTraversal(ReversePointsTo, ActualParameters), Q.Dst>>>> \in I
    BY <1>0, <2>1
  <2>3. S[<<ReversePointsTo, Q.Src>>] \subseteq S[<<FormalParametersRev, Q.Dst>>]
    BY <1>0, <1>00, <2>1
  <2>4. /\ IsTraversal(TwoHopTraversal(ReversePointsTo, ActualParameters)) /\ FirstHop(TwoHopTraversal(ReversePointsTo, ActualParameters)) = ReversePointsTo
        /\ SecondHop(TwoHopTraversal(ReversePointsTo, ActualParameters)) = ActualParameters
    BY NamedHops
  <2>5. \A r \in S[<<ReversePointsTo, Q.Dst>>] : S[<<ActualParameters, r>>] \subseteq S[<<PointsToSet, Q.Src>>]
    BY <1>0, <2>2, <2>4, TwoHopsSolved
  <2> QED  BY <1>5, <2>3, <2>5 DEF Fits
<1>6. CASE Q.type = "RETURNED_TO_CALLER"
  <2>1. Inclusions(Q) = {<<<<ActualReturnValue, Q.Dst>>, <<PointsToSet, Q.Src>>>>, <<<<ReversePointsTo, Q.Src>>, <<TwoHopTraversal(ReversePointsTo, FormalReturnValueRev), Q.Dst>>>>}
    BY <1>6 DEF Inclusions
  <2>2. <<<<ReversePointsTo, Q.Src>>, <<TwoHopTraversal(ReversePointsTo, FormalReturnValueRev), Q.Dst>>>> \in I
    BY <1>0, <2>1
  <2>3. S[<<PointsToSet, Q.Src>>] \subseteq S[<<ActualReturnValue, Q.Dst>>]
    BY <1>0, <1>00, <2>1
  <2>4. /\ IsTraversal(TwoHopTraversal(ReversePointsTo, FormalReturnValueRev)) /\ FirstHop(TwoHopTraversal(ReversePointsTo, FormalReturnValueRev)) = ReversePointsTo
        /\ SecondHop(TwoHopTraversal(ReversePointsTo, FormalReturnValueRev)) = FormalReturnValueRev
    BY NamedHops
  <2>5. \A r \in S[<<ReversePointsTo, Q.Dst>>] : S[<<FormalReturnValueRev, r>>] \subseteq S[<<ReversePointsTo, Q.Src>>]
    BY <1>0, <2>2, <2>4, TwoHopsSolved
  <2> QED  BY <1>6, <2>3, <2>5 DEF Fits
<1>7. CASE Q.type = "RETURNED_FROM_CALLEE"
  <2>1. Inclusions(Q) = {<<<<FormalReturnValueRev, Q.Dst>>, <<ReversePointsTo, Q.Src>>>>, <<<<PointsToSet, Q.Src>>, <<TwoHopTraversal(PointsToSet, ActualReturnValue), Q.Dst>>>>}
    BY <1>7 DEF Inclusions
  <2>2. <<<<PointsToSet, Q.Src>>, <<TwoHopTraversal(PointsToSet, ActualReturnValue), Q.Dst>>>> \in I
    BY <1>0, <2>1
  <2>3. S[<<ReversePointsTo, Q.Src>>] \subseteq S[<<FormalReturnValueRev, Q.Dst>>]
    BY <1>0, <1>00, <2>1
  <2>4. /\ IsTraversal(TwoHopTraversal(PointsToSet, ActualReturnValue)) /\ FirstHop(TwoHopTraversal(PointsToSet, ActualReturnValue)) = PointsToSet
        /\ SecondHop(TwoHopTraversal(PointsToSet, ActualReturnValue)) = ActualReturnValue
    BY NamedHops
  <2>5. \A r \in S[<<PointsToSet, Q.Dst>>] : S[<<ActualReturnValue, r>>] \subseteq S[<<PointsToSet, Q.Src>>]
    BY <1>0, <2>2, <2>4, TwoHopsSolved
  <2> QED  BY <1>7, <2>3, <2>5 DEF Fits
<1> QED  BY <1>1, <1>2, <1>3, <1>4, <1>5, <1>6, <1>7 DEF Relations, RelationTypes

(* The sets that one algorithm has for all ValueInfos. *)
SetsOf(S, alg) == [v \in VIs |-> S[<<alg, v>>]]

(* What fits every relation flows: the literal algorithms between the hops  *)
(* are left out.                                                            *)
LEMMA SolutionFlows ==
    ASSUME NEW rels, rels \subseteq Relations, NEW S \in [AnalysisResults -> SUBSET VIs],
           \A v \in VIs : v \in S[<<ReversePointsTo, v>>],
           \A r \in Regions : r \in S[<<PointsToSet, r>>],
           \A Q \in rels : Fits(S, Q)
    PROVE  /\ SetsOf(S, PointsToSet) \in ValueSets
           /\ SetsOf(S, ReversePointsTo) \in ValueSets
           /\ Flows(SetsOf(S, PointsToSet), SetsOf(S, ReversePointsTo), rels)
<1> DEFINE P == SetsOf(S, PointsToSet)
           R == SetsOf(S, ReversePointsTo)
<1>1. /\ \A v \in VIs : P[v] = S[<<PointsToSet, v>>] /\ P[v] \subseteq VIs
      /\ \A v \in VIs : R[v] = S[<<ReversePointsTo, v>>] /\ R[v] \subseteq VIs
      /\ P \in ValueSets /\ R \in ValueSets
  BY AlgorithmTypes DEF SetsOf, ValueSets
<1> HIDE DEF P, R
<1>2. \A Q \in rels : Q.Src \in VIs /\ Q.Dst \in VIs
  BY DEF Relations
<1>3. (\A v \in VIs : v \in R[v]) /\ (\A r \in Regions : r \in P[r])
  BY <1>1, RegionsAssumption
<1>4. ASSUME NEW d \in rels, d.type = "DEPENDS_ON"
      PROVE  P[d.Dst] \subseteq P[d.Src] /\ R[d.Src] \subseteq R[d.Dst]
  BY <1>1, <1>2, <1>4 DEF Fits
<1>5. ASSUME NEW s \in rels, NEW l \in rels, s.type = "STORED_TO", l.type = "LOADED_FROM"
      PROVE  /\ \A r \in P[l.Dst] : s.Dst \in R[r] => P[s.Src] \subseteq P[l.Src]
             /\ \A r \in P[s.Dst] : l.Dst \in R[r] => R[l.Src] \subseteq R[s.Src]
  <2>1. Fits(S, s) /\ Fits(S, l)
    OBVIOUS
  <2>2. ASSUME NEW r \in P[l.Dst], s.Dst \in R[r]
        PROVE  P[s.Src] \subseteq P[l.Src]
    <3>1. r \in VIs /\ r \in S[<<PointsToSet, l.Dst>>] /\ s.Dst \in S[<<ReversePointsTo, r>>]
      BY <1>1, <1>2, <2>2
    <3>2. S[<<StoredValues, s.Dst>>] \subseteq S[<<PointsToSet, l.Src>>]
      BY <1>5, <2>1, <3>1 DEF Fits
    <3>3. S[<<PointsToSet, s.Src>>] \subseteq S[<<StoredValues, s.Dst>>]
      BY <1>5, <2>1 DEF Fits
    <3> QED  BY <1>1, <1>2, <3>2, <3>3
  <2>3. ASSUME NEW r \in P[s.Dst], l.Dst \in R[r]
        PROVE  R[l.Src] \subseteq R[s.Src]
    <3>1. r \in VIs /\ r \in S[<<PointsToSet, s.Dst>>] /\ l.Dst \in S[<<ReversePointsTo, r>>]
      BY <1>1, <1>2, <2>3
    <3>2. S[<<LoadedValuesRev, l.Dst>>] \subseteq S[<<ReversePointsTo, s.Src>>]
      BY <1>5, <2>1, <3>1 DEF Fits
    <3>3. S[<<ReversePointsTo, l.Src>>] \subseteq S[<<LoadedValuesRev, l.Dst>>]
      BY <1>5, <2>1 DEF Fits
    <3> QED  BY <1>1, <1>2, <3>2, <3>3
  <2> QED  BY <2>2, <2>3
<1>6. ASSUME NEW c \in rels, NEW f \in rels, c.type = "ARGUMENT_TO_CALLEE", f.type = "ARGUMENT_FROM_CALLER"
      PROVE  /\ c.Dst \in R[f.Dst] => P[c.Src] \subseteq P[f.Src]
             /\ f.Dst \in P[c.Dst] => R[f.Src] \subseteq R[c.Src]
  <2>1. Fits(S, c) /\ Fits(S, f)
    OBVIOUS
  <2> QED  BY <1>1, <1>2, <1>6, <2>1 DEF Fits
<1>7. ASSUME NEW t \in rels, NEW u \in rels, t.type = "RETURNED_TO_CALLER", u.type = "RETURNED_FROM_CALLEE"
      PROVE  /\ t.Dst \in P[u.Dst] => P[t.Src] \subseteq P[u.Src]
             /\ u.Dst \in R[t.Dst] => R[u.Src] \subseteq R[t.Src]
  <2>1. Fits(S, t) /\ Fits(S, u)
    OBVIOUS
  <2> QED  BY <1>1, <1>2, <1>7, <2>1 DEF Fits
<1>8. Flows(P, R, rels)
  BY <1>3, <1>4, <1>5, <1>6, <1>7 DEF Flows
<1> QED  BY <1>1, <1>8 DEF P, R

(* What the relations of type t with the target v make of the sets M of their sources. *)
Gathered(M, rels, t, v) == UNION {M[Q.Src] : Q \in {Z \in rels : Z.type = t /\ Z.Dst = v}}

(* The sets of the ARs, given points-to sets P and reverse points-to sets R. *)
OneHop(P, R, rels, alg, v) ==
    CASE alg = PointsToSet          -> P[v]
      [] alg = ReversePointsTo      -> R[v]
      [] alg = ActualParameters     -> Gathered(P, rels, "ARGUMENT_TO_CALLEE", v)
      [] alg = ActualReturnValue    -> Gathered(P, rels, "RETURNED_TO_CALLER", v)
      [] alg = FormalParametersRev  -> Gathered(R, rels, "ARGUMENT_FROM_CALLER", v)
      [] alg = FormalReturnValueRev -> Gathered(R, rels, "RETURNED_FROM_CALLEE", v)
      [] alg = LoadedValuesRev      -> Gathered(R, rels, "LOADED_FROM", v)
      [] alg = StoredValues         -> Gathered(P, rels, "STORED_TO", v)
      [] OTHER -> {}

(* Those of the traversals. *)
AfterTwo(P, R, rels, alg, v) ==
    UNION {OneHop(P, R, rels, SecondHop(alg), w) : w \in OneHop(P, R, rels, FirstHop(alg), v)}

AfterThree(P, R, rels, alg, v) ==
    UNION {AfterTwo(P, R, rels, SecondHop(alg), w) : w \in OneHop(P, R, rels, FirstHop(alg), v)}

(* Sets for all ARs, made of points-to and reverse points-to sets. *)
Extended(P, R, rels) ==
    [a \in AnalysisResults |->
        IF ~IsTraversal(a[1]) THEN OneHop(P, R, rels, a[1], a[2])
        ELSE IF ~IsTraversal(SecondHop(a[1])) THEN AfterTwo(P, R, rels, a[1], a[2])
        ELSE AfterThree(P, R, rels, a[1], a[2])]

(* The literal algorithms are no traversals. *)
LEMMA LiteralsAreNot ==
    /\ ~IsTraversal(PointsToSet) /\ ~IsTraversal(ReversePointsTo) /\ ~IsTraversal(ActualParameters)
    /\ ~IsTraversal(ActualReturnValue) /\ ~IsTraversal(FormalParametersRev) /\ ~IsTraversal(FormalReturnValueRev)
    /\ ~IsTraversal(LoadedValuesRev) /\ ~IsTraversal(StoredValues)
BY Hops DEF PointsToSet, ReversePointsTo, ActualParameters, ActualReturnValue, FormalParametersRev,
     FormalReturnValueRev, LoadedValuesRev, StoredValues

(* The sets of the literal algorithms. *)
LEMMA HopsAre ==
    ASSUME NEW P, NEW R, NEW rels, NEW v
    PROVE  /\ OneHop(P, R, rels, PointsToSet, v) = P[v]
           /\ OneHop(P, R, rels, ReversePointsTo, v) = R[v]
           /\ OneHop(P, R, rels, ActualParameters, v) = Gathered(P, rels, "ARGUMENT_TO_CALLEE", v)
           /\ OneHop(P, R, rels, ActualReturnValue, v) = Gathered(P, rels, "RETURNED_TO_CALLER", v)
           /\ OneHop(P, R, rels, FormalParametersRev, v) = Gathered(R, rels, "ARGUMENT_FROM_CALLER", v)
           /\ OneHop(P, R, rels, FormalReturnValueRev, v) = Gathered(R, rels, "RETURNED_FROM_CALLEE", v)
           /\ OneHop(P, R, rels, LoadedValuesRev, v) = Gathered(R, rels, "LOADED_FROM", v)
           /\ OneHop(P, R, rels, StoredValues, v) = Gathered(P, rels, "STORED_TO", v)
<1>1. \A x, y : <<x>> = <<y>> => x = y
  OBVIOUS
<1> QED  BY <1>1 DEF OneHop, PointsToSet, ReversePointsTo, ActualParameters, ActualReturnValue, FormalParametersRev,
     FormalReturnValueRev, LoadedValuesRev, StoredValues

(* They are sets of ValueInfos. *)
LEMMA OneHopType ==
    ASSUME NEW P \in ValueSets, NEW R \in ValueSets, NEW rels, rels \subseteq Relations, NEW alg, NEW v \in VIs
    PROVE  OneHop(P, R, rels, alg, v) \subseteq VIs
<1>1. \A Q \in rels : P[Q.Src] \subseteq VIs /\ R[Q.Src] \subseteq VIs
  BY DEF Relations, ValueSets
<1>2. \A t : Gathered(P, rels, t, v) \subseteq VIs /\ Gathered(R, rels, t, v) \subseteq VIs
  BY <1>1 DEF Gathered
<1>3. P[v] \subseteq VIs /\ R[v] \subseteq VIs
  BY DEF ValueSets
<1> QED  BY <1>2, <1>3 DEF OneHop

(* So are those of all ARs. *)
LEMMA ExtendedType ==
    ASSUME NEW P \in ValueSets, NEW R \in ValueSets, NEW rels, rels \subseteq Relations
    PROVE  Extended(P, R, rels) \in [AnalysisResults -> SUBSET VIs]
<1>1. \A alg : \A v \in VIs : OneHop(P, R, rels, alg, v) \subseteq VIs
  BY OneHopType
<1>2. \A alg : \A v \in VIs : AfterTwo(P, R, rels, alg, v) \subseteq VIs
  BY <1>1 DEF AfterTwo
<1>3. \A alg : \A v \in VIs : AfterThree(P, R, rels, alg, v) \subseteq VIs
  BY <1>1, <1>2 DEF AfterThree
<1> QED  BY <1>1, <1>2, <1>3, ARType DEF Extended

(* The sets made for literal algorithms. *)
LEMMA ExtendedLiterals ==
    ASSUME NEW P, NEW R, NEW rels, NEW alg \in Algorithms, ~IsTraversal(alg), NEW v \in VIs
    PROVE  Extended(P, R, rels)[<<alg, v>>] = OneHop(P, R, rels, alg, v)
BY DEF Extended, AnalysisResults

(* The sets made for traversals are what their two hops give. *)
LEMMA ExtendedTraversals ==
    ASSUME NEW P \in ValueSets, NEW R \in ValueSets, NEW rels, rels \subseteq Relations,
           NEW alg \in Algorithms, IsTraversal(alg), NEW v \in VIs
    PROVE  LET T == Extended(P, R, rels)
           IN  T[<<alg, v>>] = UNION {T[<<SecondHop(alg), w>>] : w \in T[<<FirstHop(alg), v>>]}
<1> DEFINE T == Extended(P, R, rels)
           f == FirstHop(alg)
           g == SecondHop(alg)
<1>1. f \in Algorithms /\ g \in Algorithms /\ ~IsTraversal(f)
  BY TraversalHops
<1>2. T[<<f, v>>] = OneHop(P, R, rels, f, v) /\ T[<<f, v>>] \subseteq VIs
  BY <1>1, ExtendedLiterals, OneHopType
<1>3. CASE ~IsTraversal(g)
  <2>1. T[<<alg, v>>] = AfterTwo(P, R, rels, alg, v)
    BY <1>3 DEF Extended, AnalysisResults
  <2>2. \A w \in VIs : T[<<g, w>>] = OneHop(P, R, rels, g, w)
    BY <1>1, <1>3, ExtendedLiterals
  <2> HIDE DEF T
  <2>3. AfterTwo(P, R, rels, alg, v) = UNION {OneHop(P, R, rels, g, w) : w \in T[<<f, v>>]}
    BY <1>2 DEF AfterTwo
  <2>4. {OneHop(P, R, rels, g, w) : w \in T[<<f, v>>]} = {T[<<g, w>>] : w \in T[<<f, v>>]}
    BY <1>2, <2>2
  <2> QED  BY <2>1, <2>3, <2>4 DEF T
<1>4. CASE IsTraversal(g)
  <2>1. T[<<alg, v>>] = AfterThree(P, R, rels, alg, v)
    BY <1>4 DEF Extended, AnalysisResults
  <2>2. ~IsTraversal(SecondHop(g))
    <3>1. alg \in TwoHops \cup ThreeHops
      BY TraversalHops, TraversalsAre
    <3>2. alg \in ThreeHops
      <4>1. ASSUME alg \in TwoHops
            PROVE  FALSE
        <5>1. \E x : g = <<x>>
          BY <4>1, Hops DEF TwoHops
        <5> QED  BY <1>4, <5>1, Hops
      <4> QED  BY <3>1, <4>1
    <3>3. g \in {<<"self-reverse", "stored-values">>, <<"self-reverse", "loaded-values-reverse">>}
      BY <3>2, Hops DEF ThreeHops
    <3> QED  BY <3>3, Hops
  <2>3. \A w \in VIs : T[<<g, w>>] = AfterTwo(P, R, rels, g, w)
    BY <1>1, <1>4, <2>2 DEF Extended, AnalysisResults
  <2> HIDE DEF T
  <2>4. AfterThree(P, R, rels, alg, v) = UNION {AfterTwo(P, R, rels, g, w) : w \in T[<<f, v>>]}
    BY <1>2 DEF AfterThree
  <2>5. {AfterTwo(P, R, rels, g, w) : w \in T[<<f, v>>]} = {T[<<g, w>>] : w \in T[<<f, v>>]}
    BY <1>2, <2>3
  <2> QED  BY <2>1, <2>4, <2>5 DEF T
<1> QED  BY <1>3, <1>4

(* The inclusions of relations that flow. *)
LEMMA ExtendedFits ==
    ASSUME NEW P \in ValueSets, NEW R \in ValueSets, NEW rels, rels \subseteq Relations,
           Flows(P, R, rels), NEW Q \in rels, NEW a, NEW s, <<a, s>> \in Inclusions(Q)
    PROVE  Extended(P, R, rels)[s] \subseteq Extended(P, R, rels)[a]
<1> DEFINE T == Extended(P, R, rels)
<1>1. Q.Src \in VIs /\ Q.Dst \in VIs /\ Q.type \in RelationTypes
  BY DEF Relations
<1>2. \A v \in VIs : /\ T[<<PointsToSet, v>>] = P[v]
                     /\ T[<<ReversePointsTo, v>>] = R[v]
                     /\ T[<<ActualParameters, v>>] = Gathered(P, rels, "ARGUMENT_TO_CALLEE", v)
                     /\ T[<<ActualReturnValue, v>>] = Gathered(P, rels, "RETURNED_TO_CALLER", v)
                     /\ T[<<FormalParametersRev, v>>] = Gathered(R, rels, "ARGUMENT_FROM_CALLER", v)
                     /\ T[<<FormalReturnValueRev, v>>] = Gathered(R, rels, "RETURNED_FROM_CALLEE", v)
                     /\ T[<<LoadedValuesRev, v>>] = Gathered(R, rels, "LOADED_FROM", v)
                     /\ T[<<StoredValues, v>>] = Gathered(P, rels, "STORED_TO", v)
  <2> SUFFICES ASSUME NEW v \in VIs
               PROVE  /\ T[<<PointsToSet, v>>] = P[v]
                     /\ T[<<ReversePointsTo, v>>] = R[v]
                     /\ T[<<ActualParameters, v>>] = Gathered(P, rels, "ARGUMENT_TO_CALLEE", v)
                     /\ T[<<ActualReturnValue, v>>] = Gathered(P, rels, "RETURNED_TO_CALLER", v)
                     /\ T[<<FormalParametersRev, v>>] = Gathered(R, rels, "ARGUMENT_FROM_CALLER", v)
                     /\ T[<<FormalReturnValueRev, v>>] = Gathered(R, rels, "RETURNED_FROM_CALLEE", v)
                     /\ T[<<LoadedValuesRev, v>>] = Gathered(R, rels, "LOADED_FROM", v)
                     /\ T[<<StoredValues, v>>] = Gathered(P, rels, "STORED_TO", v)
    OBVIOUS
  <2>1. \A alg \in InstructionAnalysisAlgorithms \cup {ReversePointsTo} :
           ~IsTraversal(alg) /\ alg \in Algorithms
    BY LiteralsAreNot DEF InstructionAnalysisAlgorithms, Algorithms
  <2>2. \A alg \in InstructionAnalysisAlgorithms \cup {ReversePointsTo} :
           T[<<alg, v>>] = OneHop(P, R, rels, alg, v)
    BY <2>1, ExtendedLiterals
  <2> HIDE DEF T
  <2> QED  BY <2>2, HopsAre DEF InstructionAnalysisAlgorithms
<1>3. \A v \in VIs : P[v] \subseteq VIs /\ R[v] \subseteq VIs
  BY DEF ValueSets
<1>4. ASSUME NEW f \in {PointsToSet, ReversePointsTo}, NEW g, TwoHopTraversal(f, g) \in RelationTraversals, NEW v \in VIs,
             FirstHop(TwoHopTraversal(f, g)) = f, SecondHop(TwoHopTraversal(f, g)) = g, IsTraversal(TwoHopTraversal(f, g))
      PROVE  \A x \in T[<<TwoHopTraversal(f, g), v>>] : \E r \in T[<<f, v>>] : x \in T[<<g, r>>]
  <2>1. TwoHopTraversal(f, g) \in Algorithms
    BY <1>4 DEF Algorithms, Traversals
  <2>2. T[<<TwoHopTraversal(f, g), v>>] = UNION {T[<<g, r>>] : r \in T[<<f, v>>]}
    BY <1>4, <2>1, ExtendedTraversals
  <2> HIDE DEF T
  <2> QED  BY <2>2
<1>5. ASSUME NEW g \in {StoredValues, LoadedValuesRev}, NEW v \in VIs
      PROVE  \A x \in T[<<ThreeHopTraversal(PointsToSet, ReversePointsTo, g), v>>] :
                \E r \in P[v] : \E q \in R[r] : x \in T[<<g, q>>]
  <2> DEFINE alg == ThreeHopTraversal(PointsToSet, ReversePointsTo, g)
             mid == TwoHopTraversal(ReversePointsTo, g)
  <2>1. /\ IsTraversal(alg) /\ FirstHop(alg) = PointsToSet /\ SecondHop(alg) = mid
        /\ IsTraversal(mid) /\ FirstHop(mid) = ReversePointsTo /\ SecondHop(mid) = g
        /\ alg \in Algorithms /\ mid \in Algorithms
    BY NamedHops DEF Algorithms
  <2> HIDE DEF alg, mid
  <2>2. T[<<alg, v>>] = UNION {T[<<mid, r>>] : r \in T[<<PointsToSet, v>>]}
    BY <2>1, ExtendedTraversals
  <2>3. \A r \in VIs : T[<<mid, r>>] = UNION {T[<<g, q>>] : q \in T[<<ReversePointsTo, r>>]}
    BY <2>1, ExtendedTraversals
  <2> HIDE DEF T
  <2>4. ASSUME NEW x \in T[<<alg, v>>]
        PROVE  \E r \in P[v] : \E q \in R[r] : x \in T[<<g, q>>]
    <3>1. PICK r \in T[<<PointsToSet, v>>] : x \in T[<<mid, r>>]
      BY <2>2
    <3>2. r \in P[v] /\ r \in VIs
      BY <1>2, <1>3
    <3>3. PICK q \in T[<<ReversePointsTo, r>>] : x \in T[<<g, q>>]
      BY <2>3, <3>1, <3>2
    <3>4. q \in R[r]
      BY <1>2, <3>2
    <3> QED  BY <3>2, <3>3, <3>4
  <2> QED  BY <2>4 DEF alg
<1>6. \A M, t, v : \A x : x \in Gathered(M, rels, t, v) <=> \E Z \in rels : Z.type = t /\ Z.Dst = v /\ x \in M[Z.Src]
  BY DEF Gathered
<1> HIDE DEF T
<1>7. CASE Q.type = "DEPENDS_ON"
  <2>1. Inclusions(Q) = {<<<<PointsToSet, Q.Src>>, <<PointsToSet, Q.Dst>>>>, <<<<ReversePointsTo, Q.Dst>>, <<ReversePointsTo, Q.Src>>>>}
    BY <1>7 DEF Inclusions
  <2>2. P[Q.Dst] \subseteq P[Q.Src] /\ R[Q.Src] \subseteq R[Q.Dst]
    BY <1>7 DEF Flows
  <2>3. CASE a = <<PointsToSet, Q.Src>> /\ s = <<PointsToSet, Q.Dst>>
    BY <1>1, <1>2, <2>2, <2>3 DEF T
  <2>4. CASE a = <<ReversePointsTo, Q.Dst>> /\ s = <<ReversePointsTo, Q.Src>>
    BY <1>1, <1>2, <2>2, <2>4 DEF T
  <2> QED  BY <2>1, <2>3, <2>4 DEF T
<1>8. CASE Q.type = "LOADED_FROM"
  <2>1. Inclusions(Q) = {<<<<LoadedValuesRev, Q.Dst>>, <<ReversePointsTo, Q.Src>>>>, <<<<PointsToSet, Q.Src>>, <<ThreeHopTraversal(PointsToSet, ReversePointsTo, StoredValues), Q.Dst>>>>}
    BY <1>8 DEF Inclusions
  <2>2. CASE a = <<LoadedValuesRev, Q.Dst>> /\ s = <<ReversePointsTo, Q.Src>>
    <3>1. T[a] = Gathered(R, rels, "LOADED_FROM", Q.Dst) /\ T[s] = R[Q.Src]
      BY <1>1, <1>2, <2>2
    <3> QED  BY <1>6, <1>8, <3>1 DEF T
  <2>3. CASE a = <<PointsToSet, Q.Src>> /\ s = <<ThreeHopTraversal(PointsToSet, ReversePointsTo, StoredValues), Q.Dst>>
    <3> SUFFICES ASSUME NEW x \in T[s]
                 PROVE  x \in P[Q.Src]
      BY <1>1, <1>2, <2>3 DEF T
    <3>0. PICK r \in P[Q.Dst] : \E q \in R[r] : x \in T[<<StoredValues, q>>]
      BY <1>1, <1>5, <2>3
    <3>1. PICK q \in R[r] : x \in T[<<StoredValues, q>>]
      BY <3>0
    <3>2. r \in VIs /\ q \in VIs
      BY <1>1, <1>3
    <3>21. x \in Gathered(P, rels, "STORED_TO", q)
      BY <1>2, <3>1, <3>2
    <3>3. PICK Z \in rels : Z.type = "STORED_TO" /\ Z.Dst = q /\ x \in P[Z.Src]
      BY <1>6, <3>21
    <3> QED  BY <1>8, <3>1, <3>3 DEF Flows
  <2> QED  BY <2>1, <2>2, <2>3 DEF T
<1>9. CASE Q.type = "STORED_TO"
  <2>1. Inclusions(Q) = {<<<<StoredValues, Q.Dst>>, <<PointsToSet, Q.Src>>>>, <<<<ReversePointsTo, Q.Src>>, <<ThreeHopTraversal(PointsToSet, ReversePointsTo, LoadedValuesRev), Q.Dst>>>>}
    BY <1>9 DEF Inclusions
  <2>2. CASE a = <<StoredValues, Q.Dst>> /\ s = <<PointsToSet, Q.Src>>
    <3>1. T[a] = Gathered(P, rels, "STORED_TO", Q.Dst) /\ T[s] = P[Q.Src]
      BY <1>1, <1>2, <2>2
    <3> QED  BY <1>6, <1>9, <3>1 DEF T
  <2>3. CASE a = <<ReversePointsTo, Q.Src>> /\ s = <<ThreeHopTraversal(PointsToSet, ReversePointsTo, LoadedValuesRev), Q.Dst>>
    <3> SUFFICES ASSUME NEW x \in T[s]
                 PROVE  x \in R[Q.Src]
      BY <1>1, <1>2, <2>3 DEF T
    <3>0. PICK r \in P[Q.Dst] : \E q \in R[r] : x \in T[<<LoadedValuesRev, q>>]
      BY <1>1, <1>5, <2>3
    <3>1. PICK q \in R[r] : x \in T[<<LoadedValuesRev, q>>]
      BY <3>0
    <3>2. r \in VIs /\ q \in VIs
      BY <1>1, <1>3
    <3>21. x \in Gathered(R, rels, "LOADED_FROM", q)
      BY <1>2, <3>1, <3>2
    <3>3. PICK Z \in rels : Z.type = "LOADED_FROM" /\ Z.Dst = q /\ x \in R[Z.Src]
      BY <1>6, <3>21
    <3> QED  BY <1>9, <3>1, <3>3 DEF Flows
  <2> QED  BY <2>1, <2>2, <2>3 DEF T
<1>10. CASE Q.type = "ARGUMENT_TO_CALLEE"
  <2>1. Inclusions(Q) = {<<<<ActualParameters, Q.Dst>>, <<PointsToSet, Q.Src>>>>, <<<<ReversePointsTo, Q.Src>>, <<TwoHopTraversal(PointsToSet, FormalParametersRev), Q.Dst>>>>}
    BY <1>10 DEF Inclusions
  <2>2. CASE a = <<ActualParameters, Q.Dst>> /\ s = <<PointsToSet, Q.Src>>
    <3>1. T[a] = Gathered(P, rels, "ARGUMENT_TO_CALLEE", Q.Dst) /\ T[s] = P[Q.Src]
      BY <1>1, <1>2, <2>2
    <3> QED  BY <1>6, <1>10, <3>1 DEF T
  <2>3. CASE a = <<ReversePointsTo, Q.Src>> /\ s = <<TwoHopTraversal(PointsToSet, FormalParametersRev), Q.Dst>>
    <3> SUFFICES ASSUME NEW x \in T[s]
                 PROVE  x \in R[Q.Src]
      BY <1>1, <1>2, <2>3 DEF T
    <3>0. TwoHopTraversal(PointsToSet, FormalParametersRev) \in RelationTraversals
      BY DEF RelationTraversals
    <3>1. PICK r \in T[<<PointsToSet, Q.Dst>>] : x \in T[<<FormalParametersRev, r>>]
      BY <1>1, <1>4, <2>3, <3>0, NamedHops
    <3>2. r \in VIs /\ r \in P[Q.Dst]
      BY <1>1, <1>2, <1>3
    <3>21. x \in Gathered(R, rels, "ARGUMENT_FROM_CALLER", r)
      BY <1>2, <3>1, <3>2
    <3>3. PICK Z \in rels : Z.type = "ARGUMENT_FROM_CALLER" /\ Z.Dst = r /\ x \in R[Z.Src]
      BY <1>6, <3>21
    <3> QED  BY <1>10, <3>2, <3>3 DEF Flows
  <2> QED  BY <2>1, <2>2, <2>3 DEF T
<1>11. CASE Q.type = "ARGUMENT_FROM_CALLER"
  <2>1. Inclusions(Q) = {<<<<FormalParametersRev, Q.Dst>>, <<ReversePointsTo, Q.Src>>>>, <<<<PointsToSet, Q.Src>>, <<TwoHopTraversal(ReversePointsTo, ActualParameters), Q.Dst>>>>}
    BY <1>11 DEF Inclusions
  <2>2. CASE a = <<FormalParametersRev, Q.Dst>> /\ s = <<ReversePointsTo, Q.Src>>
    <3>1. T[a] = Gathered(R, rels, "ARGUMENT_FROM_CALLER", Q.Dst) /\ T[s] = R[Q.Src]
      BY <1>1, <1>2, <2>2
    <3> QED  BY <1>6, <1>11, <3>1 DEF T
  <2>3. CASE a = <<PointsToSet, Q.Src>> /\ s = <<TwoHopTraversal(ReversePointsTo, ActualParameters), Q.Dst>>
    <3> SUFFICES ASSUME NEW x \in T[s]
                 PROVE  x \in P[Q.Src]
      BY <1>1, <1>2, <2>3 DEF T
    <3>0. TwoHopTraversal(ReversePointsTo, ActualParameters) \in RelationTraversals
      BY DEF RelationTraversals
    <3>1. PICK r \in T[<<ReversePointsTo, Q.Dst>>] : x \in T[<<ActualParameters, r>>]
      BY <1>1, <1>4, <2>3, <3>0, NamedHops
    <3>2. r \in VIs /\ r \in R[Q.Dst]
      BY <1>1, <1>2, <1>3
    <3>21. x \in Gathered(P, rels, "ARGUMENT_TO_CALLEE", r)
      BY <1>2, <3>1, <3>2
    <3>3. PICK Z \in rels : Z.type = "ARGUMENT_TO_CALLEE" /\ Z.Dst = r /\ x \in P[Z.Src]
      BY <1>6, <3>21
    <3> QED  BY <1>11, <3>2, <3>3 DEF Flows
  <2> QED  BY <2>1, <2>2, <2>3 DEF T
<1>12. CASE Q.type = "RETURNED_TO_CALLER"
  <2>1. Inclusions(Q) = {<<<<ActualReturnValue, Q.Dst>>, <<PointsToSet, Q.Src>>>>, <<<<ReversePointsTo, Q.Src>>, <<TwoHopTraversal(ReversePointsTo, FormalReturnValueRev), Q.Dst>>>>}
    BY <1>12 DEF Inclusions
  <2>2. CASE a = <<ActualReturnValue, Q.Dst>> /\ s = <<PointsToSet, Q.Src>>
    <3>1. T[a] = Gathered(P, rels, "RETURNED_TO_CALLER", Q.Dst) /\ T[s] = P[Q.Src]
      BY <1>1, <1>2, <2>2
    <3> QED  BY <1>6, <1>12, <3>1 DEF T
  <2>3. CASE a = <<ReversePointsTo, Q.Src>> /\ s = <<TwoHopTraversal(ReversePointsTo, FormalReturnValueRev), Q.Dst>>
    <3> SUFFICES ASSUME NEW x \in T[s]
                 PROVE  x \in R[Q.Src]
      BY <1>1, <1>2, <2>3 DEF T
    <3>0. TwoHopTraversal(ReversePointsTo, FormalReturnValueRev) \in RelationTraversals
      BY DEF RelationTraversals
    <3>1. PICK r \in T[<<ReversePointsTo, Q.Dst>>] : x \in T[<<FormalReturnValueRev, r>>]
      BY <1>1, <1>4, <2>3, <3>0, NamedHops
    <3>2. r \in VIs /\ r \in R[Q.Dst]
      BY <1>1, <1>2, <1>3
    <3>21. x \in Gathered(R, rels, "RETURNED_FROM_CALLEE", r)
      BY <1>2, <3>1, <3>2
    <3>3. PICK Z \in rels : Z.type = "RETURNED_FROM_CALLEE" /\ Z.Dst = r /\ x \in R[Z.Src]
      BY <1>6, <3>21
    <3> QED  BY <1>12, <3>2, <3>3 DEF Flows
  <2> QED  BY <2>1, <2>2, <2>3 DEF T
<1>13. CASE Q.type = "RETURNED_FROM_CALLEE"
  <2>1. Inclusions(Q) = {<<<<FormalReturnValueRev, Q.Dst>>, <<ReversePointsTo, Q.Src>>>>, <<<<PointsToSet, Q.Src>>, <<TwoHopTraversal(PointsToSet, ActualReturnValue), Q.Dst>>>>}
    BY <1>13 DEF Inclusions
  <2>2. CASE a = <<FormalReturnValueRev, Q.Dst>> /\ s = <<ReversePointsTo, Q.Src>>
    <3>1. T[a] = Gathered(R, rels, "RETURNED_FROM_CALLEE", Q.Dst) /\ T[s] = R[Q.Src]
      BY <1>1, <1>2, <2>2
    <3> QED  BY <1>6, <1>13, <3>1 DEF T
  <2>3. CASE a = <<PointsToSet, Q.Src>> /\ s = <<TwoHopTraversal(PointsToSet, ActualReturnValue), Q.Dst>>
    <3> SUFFICES ASSUME NEW x \in T[s]
                 PROVE  x \in P[Q.Src]
      BY <1>1, <1>2, <2>3 DEF T
    <3>0. TwoHopTraversal(PointsToSet, ActualReturnValue) \in RelationTraversals
      BY DEF RelationTraversals
    <3>1. PICK r \in T[<<PointsToSet, Q.Dst>>] : x \in T[<<ActualReturnValue, r>>]
      BY <1>1, <1>4, <2>3, <3>0, NamedHops
    <3>2. r \in VIs /\ r \in P[Q.Dst]
      BY <1>1, <1>2, <1>3
    <3>21. x \in Gathered(P, rels, "RETURNED_TO_CALLER", r)
      BY <1>2, <3>1, <3>2
    <3>3. PICK Z \in rels : Z.type = "RETURNED_TO_CALLER" /\ Z.Dst = r /\ x \in P[Z.Src]
      BY <1>6, <3>21
    <3> QED  BY <1>13, <3>2, <3>3 DEF Flows
  <2> QED  BY <2>1, <2>2, <2>3 DEF T
<1> QED  BY <1>1, <1>7, <1>8, <1>9, <1>10, <1>11, <1>12, <1>13 DEF RelationTypes

(* What flows can be extended to a solution. *)
LEMMA FlowsSolve ==
    ASSUME NEW h, NEW rels, rels \subseteq Relations, NEW P \in ValueSets, NEW R \in ValueSets, Flows(P, R, rels)
    PROVE  /\ Extended(P, R, rels) \in [AnalysisResults -> SUBSET VIs]
           /\ Solves(Extended(P, R, rels), h, AllInclusions(rels))
           /\ \A v \in VIs : /\ Extended(P, R, rels)[<<PointsToSet, v>>] = P[v]
                             /\ Extended(P, R, rels)[<<ReversePointsTo, v>>] = R[v]
<1> DEFINE T == Extended(P, R, rels)
<1>1. T \in [AnalysisResults -> SUBSET VIs]
  BY ExtendedType
<1>2. \A v \in VIs : T[<<PointsToSet, v>>] = P[v] /\ T[<<ReversePointsTo, v>>] = R[v]
  <2>1. PointsToSet \in Algorithms /\ ReversePointsTo \in Algorithms
    BY DEF Algorithms, InstructionAnalysisAlgorithms
  <2> QED  BY <2>1, LiteralsAreNot, ExtendedLiterals, HopsAre
<1>3. (\A v \in VIs : v \in T[<<ReversePointsTo, v>>]) /\ (\A r \in Regions : r \in T[<<PointsToSet, r>>])
  BY <1>2, RegionsAssumption DEF Flows
<1>4. ASSUME NEW a \in AnalysisResults, NEW s \in AnalysisResults, <<a, s>> \in AllInclusions(rels)
      PROVE  T[s] \subseteq T[a]
  <2>1. PICK Q \in rels : <<a, s>> \in Inclusions(Q)
    BY <1>4 DEF AllInclusions
  <2> QED  BY <2>1, ExtendedFits
<1>5. ASSUME NEW a \in GivenIn(h), IsTraversal(a[1]), NEW v \in T[FirstAR(a)]
      PROVE  T[<<SecondHop(a[1]), v>>] \subseteq T[a]
  <2>1. a \in AnalysisResults /\ a[1] \in Algorithms /\ a[2] \in VIs /\ a = <<a[1], a[2]>>
    BY ARType DEF GivenIn
  <2>2. T[<<a[1], a[2]>>] = UNION {T[<<SecondHop(a[1]), w>>] : w \in T[<<FirstHop(a[1]), a[2]>>]}
    BY <1>5, <2>1, ExtendedTraversals
  <2> HIDE DEF T
  <2> QED  BY <1>5, <2>1, <2>2 DEF FirstAR
<1> HIDE DEF T
<1>6. Solves(T, h, AllInclusions(rels))
  BY <1>3, <1>4, <1>5 DEF Solves
<1> QED  BY <1>1, <1>2, <1>6 DEF T

(* The points-to sets and reverse points-to sets are the least ones that flow. *)
LEMMA SolutionIsLeastFlow ==
    ASSUME NEW h, NEW rels, rels \subseteq Relations, Holds(h, AllInclusions(rels))
    PROVE  LET P == SetsOf(Solution(h), PointsToSet)
               R == SetsOf(Solution(h), ReversePointsTo)
           IN  /\ P \in ValueSets /\ R \in ValueSets
               /\ Flows(P, R, rels)
               /\ \A X, Y \in ValueSets : Flows(X, Y, rels) =>
                     \A v \in VIs : P[v] \subseteq X[v] /\ R[v] \subseteq Y[v]
<1> DEFINE S == Solution(h)
           I == AllInclusions(rels)
           P == SetsOf(S, PointsToSet)
           R == SetsOf(S, ReversePointsTo)
<1>1. /\ S \in [AnalysisResults -> SUBSET VIs]
      /\ Solves(S, h, I)
      /\ \A T \in [AnalysisResults -> SUBSET VIs] : Solves(T, h, I) =>
                 \A a \in AnalysisResults : S[a] \subseteq T[a]
  BY SolutionSolves
<1> HIDE DEF S
<1>2. \A Q \in rels : Fits(S, Q)
  BY <1>1, SolutionFits
<1>3. P \in ValueSets /\ R \in ValueSets /\ Flows(P, R, rels)
  BY <1>1, <1>2, SolutionFlows DEF Solves
<1>4. ASSUME NEW X \in ValueSets, NEW Y \in ValueSets, Flows(X, Y, rels), NEW v \in VIs
      PROVE  P[v] \subseteq X[v] /\ R[v] \subseteq Y[v]
  <2> DEFINE T == Extended(X, Y, rels)
  <2> HIDE DEF P, R
  <2>1. T \in [AnalysisResults -> SUBSET VIs]
    BY <1>4, ExtendedType
  <2>2. Solves(T, h, I) /\ T[<<PointsToSet, v>>] = X[v] /\ T[<<ReversePointsTo, v>>] = Y[v]
    <3>1. Solves(Extended(X, Y, rels), h, AllInclusions(rels))
      BY <1>4, FlowsSolve, Zenon
    <3>2. T[<<PointsToSet, v>>] = X[v] /\ T[<<ReversePointsTo, v>>] = Y[v]
      BY <1>4, FlowsSolve
    <3> QED  BY <3>1, <3>2
  <2> HIDE DEF T, I
  <2>3. <<PointsToSet, v>> \in AnalysisResults /\ <<ReversePointsTo, v>> \in AnalysisResults
    BY AlgorithmTypes
  <2>4. S[<<PointsToSet, v>>] \subseteq T[<<PointsToSet, v>>] /\ S[<<ReversePointsTo, v>>] \subseteq T[<<ReversePointsTo, v>>]
    BY <1>1, <2>1, <2>2, <2>3
  <2> QED  BY <2>2, <2>4 DEF P, R, SetsOf
<1> QED  BY <1>3, <1>4 DEF S

-----------------------------------------------------------------------------
(* They are Andersen's. *)

(* The least sets that flow. *)
IsLeastFlow(P, R, rels) ==
    /\ P \in ValueSets /\ R \in ValueSets
    /\ Flows(P, R, rels)
    /\ \A X, Y \in ValueSets : Flows(X, Y, rels) =>
          \A v \in VIs : P[v] \subseteq X[v] /\ R[v] \subseteq Y[v]

(* The types of a program's relations. *)
LEMMA RelationsType ==
    ASSUME NEW rels \in ProgramRelations
    PROVE  /\ rels \subseteq Relations
           /\ \A Q \in rels : /\ Q.Src \in VIs /\ Q.Dst \in VIs
                              /\ Q.type \in {"ARGUMENT_FROM_CALLER", "RETURNED_TO_CALLER"} => Q.Dst \in Regions
BY RelationType DEF ProgramRelations

(* Nothing flows that Andersen's sets do not have. *)
LEMMA FlowIsSound ==
    ASSUME NEW rels \in ProgramRelations, NEW P, NEW R, IsLeastFlow(P, R, rels), NEW v \in VIs
    PROVE  P[v] \subseteq pt(Andersen(rels), v)
<1> DEFINE A == Andersen(rels)
           X == [x \in VIs |-> pt(A, x)]
           Y == [x \in VIs |-> {w \in VIs : pt(A, x) \subseteq pt(A, w)}]
<1>1. A \in Space /\ Obeys(A, rels)
  BY AndersenIsLeast
<1> HIDE DEF A
<1>2. \A x \in VIs : pt(A, x) \subseteq Regions
  BY <1>1, SpaceType
<1>3. X \in ValueSets /\ Y \in ValueSets
  BY <1>2, RegionsAssumption DEF ValueSets
<1>4. /\ \A x \in VIs : X[x] = pt(A, x)
      /\ \A x, w \in VIs : w \in Y[x] <=> pt(A, x) \subseteq pt(A, w)
      /\ \A x \in VIs : Y[x] \subseteq VIs
  OBVIOUS
<1> HIDE DEF X, Y
<1>5. \A Q \in rels : Rule(A, Q)
  BY <1>1 DEF Obeys
<1>6. \A Q \in rels : /\ Q.Src \in VIs /\ Q.Dst \in VIs
                      /\ Q.type \in {"ARGUMENT_FROM_CALLER", "RETURNED_TO_CALLER"} => Q.Dst \in Regions
  BY RelationsType
<1>7. \A r \in Regions : r \in VIs /\ r \in pt(A, r)
  BY <1>1, RegionsAssumption DEF Obeys
<1>8. ASSUME NEW d \in rels, d.type = "DEPENDS_ON"
      PROVE  X[d.Dst] \subseteq X[d.Src] /\ Y[d.Src] \subseteq Y[d.Dst]
  <2>1. pt(A, d.Dst) \subseteq pt(A, d.Src)
    BY <1>5, <1>8 DEF Rule
  <2> QED  BY <1>4, <1>6, <2>1
<1>9. ASSUME NEW s \in rels, NEW l \in rels, s.type = "STORED_TO", l.type = "LOADED_FROM"
      PROVE  /\ \A r \in X[l.Dst] : s.Dst \in Y[r] => X[s.Src] \subseteq X[l.Src]
             /\ \A r \in X[s.Dst] : l.Dst \in Y[r] => Y[l.Src] \subseteq Y[s.Src]
  <2>0. s.Src \in VIs /\ s.Dst \in VIs /\ l.Src \in VIs /\ l.Dst \in VIs
    BY <1>6
  <2>1. ASSUME NEW r \in pt(A, l.Dst), r \in pt(A, s.Dst)
        PROVE  pt(A, s.Src) \subseteq pt(A, l.Src)
    <3>1. pt(A, s.Src) \subseteq A[<<"memory", r>>]
      BY <1>5, <1>9, <2>1 DEF Rule
    <3>2. A[<<"memory", r>>] \subseteq pt(A, l.Src)
      BY <1>5, <1>9, <2>1 DEF Rule
    <3> QED  BY <3>1, <3>2
  <2>2. ASSUME NEW r \in X[l.Dst], s.Dst \in Y[r]
        PROVE  X[s.Src] \subseteq X[l.Src]
    <3>1. r \in pt(A, l.Dst) /\ r \in Regions
      BY <1>2, <1>4, <2>0
    <3>2. r \in pt(A, s.Dst)
      BY <1>4, <1>7, <2>0, <2>2, <3>1
    <3> QED  BY <1>4, <2>0, <2>1, <3>1, <3>2
  <2>3. ASSUME NEW r \in X[s.Dst], l.Dst \in Y[r]
        PROVE  Y[l.Src] \subseteq Y[s.Src]
    <3>1. r \in pt(A, s.Dst) /\ r \in Regions
      BY <1>2, <1>4, <2>0
    <3>2. r \in pt(A, l.Dst)
      BY <1>4, <1>7, <2>0, <2>3, <3>1
    <3>3. pt(A, s.Src) \subseteq pt(A, l.Src)
      BY <2>1, <3>1, <3>2
    <3> QED  BY <1>4, <2>0, <3>3
  <2> QED  BY <2>2, <2>3
<1>10. ASSUME NEW c \in rels, NEW f \in rels, c.type = "ARGUMENT_TO_CALLEE", f.type = "ARGUMENT_FROM_CALLER"
      PROVE  /\ c.Dst \in Y[f.Dst] => X[c.Src] \subseteq X[f.Src]
             /\ f.Dst \in X[c.Dst] => Y[f.Src] \subseteq Y[c.Src]
  <2>0. c.Src \in VIs /\ c.Dst \in VIs /\ f.Src \in VIs /\ f.Dst \in VIs /\ f.Dst \in Regions
    BY <1>6, <1>10
  <2>1. ASSUME f.Dst \in pt(A, c.Dst)
        PROVE  pt(A, c.Src) \subseteq pt(A, f.Src)
    <3>1. pt(A, c.Src) \subseteq A[<<"parameters", f.Dst>>]
      BY <1>5, <1>10, <2>1 DEF Rule
    <3>2. A[<<"parameters", f.Dst>>] \subseteq pt(A, f.Src)
      BY <1>5, <1>10 DEF Rule
    <3> QED  BY <3>1, <3>2
  <2>2. c.Dst \in Y[f.Dst] => f.Dst \in pt(A, c.Dst)
    BY <1>4, <1>7, <2>0
  <2>3. f.Dst \in X[c.Dst] => f.Dst \in pt(A, c.Dst)
    BY <1>4, <2>0
  <2> QED  BY <1>4, <2>0, <2>1, <2>2, <2>3
<1>11. ASSUME NEW t \in rels, NEW u \in rels, t.type = "RETURNED_TO_CALLER", u.type = "RETURNED_FROM_CALLEE"
      PROVE  /\ t.Dst \in X[u.Dst] => X[t.Src] \subseteq X[u.Src]
             /\ u.Dst \in Y[t.Dst] => Y[u.Src] \subseteq Y[t.Src]
  <2>0. t.Src \in VIs /\ t.Dst \in VIs /\ u.Src \in VIs /\ u.Dst \in VIs /\ t.Dst \in Regions
    BY <1>6, <1>11
  <2>1. ASSUME t.Dst \in pt(A, u.Dst)
        PROVE  pt(A, t.Src) \subseteq pt(A, u.Src)
    <3>1. pt(A, t.Src) \subseteq A[<<"return", t.Dst>>]
      BY <1>5, <1>11 DEF Rule
    <3>2. A[<<"return", t.Dst>>] \subseteq pt(A, u.Src)
      BY <1>5, <1>11, <2>1 DEF Rule
    <3> QED  BY <3>1, <3>2
  <2>2. u.Dst \in Y[t.Dst] => t.Dst \in pt(A, u.Dst)
    BY <1>4, <1>7, <2>0
  <2>3. t.Dst \in X[u.Dst] => t.Dst \in pt(A, u.Dst)
    BY <1>4, <2>0
  <2> QED  BY <1>4, <2>0, <2>1, <2>2, <2>3
<1>12. Flows(X, Y, rels)
  <2>1. (\A x \in VIs : x \in Y[x]) /\ (\A r \in Regions : r \in X[r])
    BY <1>4, <1>7
  <2> QED  BY <2>1, <1>8, <1>9, <1>10, <1>11 DEF Flows
<1>13. P[v] \subseteq X[v]
  BY <1>3, <1>12 DEF IsLeastFlow
<1> QED  BY <1>4, <1>13 DEF A

(* Reverse points-to sets are transitive. *)
LEMMA ReverseIsTransitive ==
    ASSUME NEW rels \in ProgramRelations, NEW P, NEW R, IsLeastFlow(P, R, rels), NEW v \in VIs, NEW w \in R[v]
    PROVE  R[w] \subseteq R[v]
<1> DEFINE Y == [x \in VIs |-> {y \in R[x] : R[y] \subseteq R[x]}]
<1>1. P \in ValueSets /\ R \in ValueSets /\ Flows(P, R, rels)
  BY DEF IsLeastFlow
<1>2. Y \in ValueSets
  BY <1>1 DEF ValueSets
<1>3. \A x \in VIs : \A y : y \in Y[x] <=> y \in R[x] /\ R[y] \subseteq R[x]
  OBVIOUS
<1> HIDE DEF Y
<1>4. \A Q \in rels : Q.Src \in VIs /\ Q.Dst \in VIs
  BY RelationsType
<1>5. \A x, y \in VIs : R[x] \subseteq R[y] => Y[x] \subseteq Y[y]
  BY <1>3
<1>6. (\A x \in VIs : x \in Y[x]) /\ (\A r \in Regions : r \in P[r])
  BY <1>1, <1>3 DEF Flows
<1>7. \A d \in rels : d.type = "DEPENDS_ON" => P[d.Dst] \subseteq P[d.Src] /\ Y[d.Src] \subseteq Y[d.Dst]
  BY <1>1, <1>4, <1>5 DEF Flows
<1>8. \A x \in VIs : P[x] \subseteq VIs /\ R[x] \subseteq VIs
  BY <1>1 DEF ValueSets
<1>9. ASSUME NEW s \in rels, NEW l \in rels, s.type = "STORED_TO", l.type = "LOADED_FROM"
      PROVE  /\ \A r \in P[l.Dst] : s.Dst \in Y[r] => P[s.Src] \subseteq P[l.Src]
             /\ \A r \in P[s.Dst] : l.Dst \in Y[r] => Y[l.Src] \subseteq Y[s.Src]
  <2>1. ASSUME NEW r \in P[l.Dst], s.Dst \in Y[r]
        PROVE  P[s.Src] \subseteq P[l.Src]
    <3>1. s.Dst \in R[r]
      BY <1>3, <1>4, <1>8, <2>1
    <3> QED  BY <1>1, <1>9, <3>1 DEF Flows
  <2>2. ASSUME NEW r \in P[s.Dst], l.Dst \in Y[r]
        PROVE  Y[l.Src] \subseteq Y[s.Src]
    <3>1. l.Dst \in R[r]
      BY <1>3, <1>4, <1>8, <2>2
    <3>2. R[l.Src] \subseteq R[s.Src]
      BY <1>1, <1>9, <3>1 DEF Flows
    <3> QED  BY <1>4, <1>5, <3>2
  <2> QED  BY <2>1, <2>2
<1>10. ASSUME NEW c \in rels, NEW f \in rels, c.type = "ARGUMENT_TO_CALLEE", f.type = "ARGUMENT_FROM_CALLER"
       PROVE  /\ c.Dst \in Y[f.Dst] => P[c.Src] \subseteq P[f.Src]
              /\ f.Dst \in P[c.Dst] => Y[f.Src] \subseteq Y[c.Src]
  <2>0. c.Src \in VIs /\ c.Dst \in VIs /\ f.Src \in VIs /\ f.Dst \in VIs
    BY <1>4
  <2>1. /\ c.Dst \in R[f.Dst] => P[c.Src] \subseteq P[f.Src]
        /\ f.Dst \in P[c.Dst] => R[f.Src] \subseteq R[c.Src]
    BY <1>1, <1>10 DEF Flows
  <2>2. c.Dst \in Y[f.Dst] => c.Dst \in R[f.Dst]
    BY <1>3, <2>0
  <2>3. R[f.Src] \subseteq R[c.Src] => Y[f.Src] \subseteq Y[c.Src]
    BY <1>5, <2>0
  <2> QED  BY <2>1, <2>2, <2>3
<1>11. ASSUME NEW t \in rels, NEW u \in rels, t.type = "RETURNED_TO_CALLER", u.type = "RETURNED_FROM_CALLEE"
       PROVE  /\ t.Dst \in P[u.Dst] => P[t.Src] \subseteq P[u.Src]
              /\ u.Dst \in Y[t.Dst] => Y[u.Src] \subseteq Y[t.Src]
  <2>0. t.Src \in VIs /\ t.Dst \in VIs /\ u.Src \in VIs /\ u.Dst \in VIs
    BY <1>4
  <2>1. /\ t.Dst \in P[u.Dst] => P[t.Src] \subseteq P[u.Src]
        /\ u.Dst \in R[t.Dst] => R[u.Src] \subseteq R[t.Src]
    BY <1>1, <1>11 DEF Flows
  <2>2. u.Dst \in Y[t.Dst] => u.Dst \in R[t.Dst]
    BY <1>3, <2>0
  <2>3. R[u.Src] \subseteq R[t.Src] => Y[u.Src] \subseteq Y[t.Src]
    BY <1>5, <2>0
  <2> QED  BY <2>1, <2>2, <2>3
<1>12. Flows(P, Y, rels)
  BY <1>6, <1>7, <1>9, <1>10, <1>11 DEF Flows
<1>13. R[v] \subseteq Y[v]
  BY <1>1, <1>2, <1>12 DEF IsLeastFlow
<1> QED  BY <1>3, <1>13

(* Points-to sets and reverse points-to sets agree. *)
LEMMA FlowsAgree ==
    ASSUME NEW rels \in ProgramRelations, NEW P, NEW R, IsLeastFlow(P, R, rels), NEW v \in VIs
    PROVE  /\ \A r \in P[v] : v \in R[r]
           /\ \A w \in R[v] : P[v] \subseteq P[w]
<1> DEFINE X == [x \in VIs |-> {r \in P[x] : x \in R[r]}]
           Y == [x \in VIs |-> {w \in R[x] : P[x] \subseteq P[w]}]
<1>1. P \in ValueSets /\ R \in ValueSets /\ Flows(P, R, rels)
  BY DEF IsLeastFlow
<1>2. X \in ValueSets /\ Y \in ValueSets
  BY <1>1 DEF ValueSets
<1>3. /\ \A x \in VIs : \A r : r \in X[x] <=> r \in P[x] /\ x \in R[r]
      /\ \A x \in VIs : \A w : w \in Y[x] <=> w \in R[x] /\ P[x] \subseteq P[w]
  OBVIOUS
<1> HIDE DEF X, Y
<1>4. \A Q \in rels : /\ Q.Src \in VIs /\ Q.Dst \in VIs
                      /\ Q.type \in {"ARGUMENT_FROM_CALLER", "RETURNED_TO_CALLER"} => Q.Dst \in Regions
  BY RelationsType
<1>5. \A x \in VIs : P[x] \subseteq VIs /\ R[x] \subseteq VIs
  BY <1>1 DEF ValueSets
<1>6. \A x \in VIs : P[x] \subseteq Regions
  <2> SUFFICES ASSUME NEW x \in VIs
               PROVE  P[x] \subseteq Regions
    OBVIOUS
  <2>1. Andersen(rels) \in Space
    BY AndersenIsLeast
  <2>2. pt(Andersen(rels), x) \subseteq Regions
    BY <2>1, SpaceType
  <2> QED  BY <2>2, FlowIsSound
<1>7. \A x \in VIs : \A w \in R[x] : R[w] \subseteq R[x]
  BY ReverseIsTransitive
<1>8. (\A x \in VIs : x \in R[x]) /\ (\A r \in Regions : r \in P[r] /\ r \in VIs)
  BY <1>1, RegionsAssumption DEF Flows
<1>9. ASSUME NEW x \in VIs, NEW y \in VIs, P[x] \subseteq P[y], R[y] \subseteq R[x]
      PROVE  X[x] \subseteq X[y] /\ Y[y] \subseteq Y[x]
  <2>1. ASSUME NEW r \in X[x]
        PROVE  r \in X[y]
    <3>1. r \in P[x] /\ x \in R[r] /\ r \in VIs
      BY <1>3, <1>5
    <3>2. R[x] \subseteq R[r]
      BY <1>7, <3>1
    <3>3. y \in R[r]
      BY <1>8, <1>9, <3>2
    <3> QED  BY <1>3, <1>9, <3>1, <3>3
  <2>2. ASSUME NEW w \in Y[y]
        PROVE  w \in Y[x]
    BY <1>3, <1>9
  <2> QED  BY <2>1, <2>2
<1>10. ASSUME NEW d \in rels, d.type = "DEPENDS_ON"
       PROVE  X[d.Dst] \subseteq X[d.Src] /\ Y[d.Src] \subseteq Y[d.Dst]
  <2>1. P[d.Dst] \subseteq P[d.Src] /\ R[d.Src] \subseteq R[d.Dst]
    BY <1>1, <1>10 DEF Flows
  <2> QED  BY <1>4, <1>9, <2>1
<1>11. ASSUME NEW s \in rels, NEW l \in rels, s.type = "STORED_TO", l.type = "LOADED_FROM"
       PROVE  /\ \A r \in X[l.Dst] : s.Dst \in Y[r] => X[s.Src] \subseteq X[l.Src]
              /\ \A r \in X[s.Dst] : l.Dst \in Y[r] => Y[l.Src] \subseteq Y[s.Src]
  <2>0. s.Src \in VIs /\ s.Dst \in VIs /\ l.Src \in VIs /\ l.Dst \in VIs
    BY <1>4
  <2>1. ASSUME NEW r, r \in P[l.Dst], r \in P[s.Dst], s.Dst \in R[r], l.Dst \in R[r]
        PROVE  X[s.Src] \subseteq X[l.Src] /\ Y[l.Src] \subseteq Y[s.Src]
    <3>1. P[s.Src] \subseteq P[l.Src]
      BY <1>1, <1>11, <2>1 DEF Flows
    <3>2. R[l.Src] \subseteq R[s.Src]
      BY <1>1, <1>11, <2>1 DEF Flows
    <3> QED  BY <1>9, <2>0, <3>1, <3>2
  <2>2. ASSUME NEW r \in X[l.Dst], s.Dst \in Y[r]
        PROVE  X[s.Src] \subseteq X[l.Src]
    <3>1. r \in P[l.Dst] /\ l.Dst \in R[r] /\ r \in Regions /\ r \in VIs
      BY <1>3, <1>5, <1>6, <2>0
    <3>2. s.Dst \in R[r] /\ P[r] \subseteq P[s.Dst]
      BY <1>3, <2>2, <3>1
    <3>3. r \in P[s.Dst]
      BY <1>8, <3>1, <3>2
    <3> QED  BY <2>1, <3>1, <3>2, <3>3
  <2>3. ASSUME NEW r \in X[s.Dst], l.Dst \in Y[r]
        PROVE  Y[l.Src] \subseteq Y[s.Src]
    <3>1. r \in P[s.Dst] /\ s.Dst \in R[r] /\ r \in Regions /\ r \in VIs
      BY <1>3, <1>5, <1>6, <2>0
    <3>2. l.Dst \in R[r] /\ P[r] \subseteq P[l.Dst]
      BY <1>3, <2>3, <3>1
    <3>3. r \in P[l.Dst]
      BY <1>8, <3>1, <3>2
    <3> QED  BY <2>1, <3>1, <3>2, <3>3
  <2> QED  BY <2>2, <2>3
<1>12. ASSUME NEW c \in rels, NEW f \in rels, c.type = "ARGUMENT_TO_CALLEE", f.type = "ARGUMENT_FROM_CALLER"
       PROVE  /\ c.Dst \in Y[f.Dst] => X[c.Src] \subseteq X[f.Src]
              /\ f.Dst \in X[c.Dst] => Y[f.Src] \subseteq Y[c.Src]
  <2>0. c.Src \in VIs /\ c.Dst \in VIs /\ f.Src \in VIs /\ f.Dst \in VIs /\ f.Dst \in Regions
    BY <1>4, <1>12
  <2>1. ASSUME f.Dst \in P[c.Dst], c.Dst \in R[f.Dst]
        PROVE  X[c.Src] \subseteq X[f.Src] /\ Y[f.Src] \subseteq Y[c.Src]
    <3>1. P[c.Src] \subseteq P[f.Src] /\ R[f.Src] \subseteq R[c.Src]
      BY <1>1, <1>12, <2>1 DEF Flows
    <3> QED  BY <1>9, <2>0, <3>1
  <2>2. c.Dst \in Y[f.Dst] => c.Dst \in R[f.Dst] /\ f.Dst \in P[c.Dst]
    BY <1>3, <1>8, <2>0
  <2>3. f.Dst \in X[c.Dst] => c.Dst \in R[f.Dst] /\ f.Dst \in P[c.Dst]
    BY <1>3, <2>0
  <2> QED  BY <2>1, <2>2, <2>3
<1>13. ASSUME NEW t \in rels, NEW u \in rels, t.type = "RETURNED_TO_CALLER", u.type = "RETURNED_FROM_CALLEE"
       PROVE  /\ t.Dst \in X[u.Dst] => X[t.Src] \subseteq X[u.Src]
              /\ u.Dst \in Y[t.Dst] => Y[u.Src] \subseteq Y[t.Src]
  <2>0. t.Src \in VIs /\ t.Dst \in VIs /\ u.Src \in VIs /\ u.Dst \in VIs /\ t.Dst \in Regions
    BY <1>4, <1>13
  <2>1. ASSUME t.Dst \in P[u.Dst], u.Dst \in R[t.Dst]
        PROVE  X[t.Src] \subseteq X[u.Src] /\ Y[u.Src] \subseteq Y[t.Src]
    <3>1. P[t.Src] \subseteq P[u.Src] /\ R[u.Src] \subseteq R[t.Src]
      BY <1>1, <1>13, <2>1 DEF Flows
    <3> QED  BY <1>9, <2>0, <3>1
  <2>2. u.Dst \in Y[t.Dst] => u.Dst \in R[t.Dst] /\ t.Dst \in P[u.Dst]
    BY <1>3, <1>8, <2>0
  <2>3. t.Dst \in X[u.Dst] => u.Dst \in R[t.Dst] /\ t.Dst \in P[u.Dst]
    BY <1>3, <2>0
  <2> QED  BY <2>1, <2>2, <2>3
<1>14. Flows(X, Y, rels)
  <2>1. (\A x \in VIs : x \in Y[x]) /\ (\A r \in Regions : r \in X[r])
    BY <1>3, <1>8
  <2> QED  BY <2>1, <1>10, <1>11, <1>12, <1>13 DEF Flows
<1>15. P[v] \subseteq X[v] /\ R[v] \subseteq Y[v]
  BY <1>2, <1>14 DEF IsLeastFlow
<1> QED  BY <1>3, <1>15

(* What the sets P store into the region r, what they pass to it as *)
(* parameters and what it returns.                                  *)
Stored(rels, P, r)   == UNION {P[Q.Src] : Q \in {Z \in rels : Z.type = "STORED_TO" /\ r \in P[Z.Dst]}}
Passed(rels, P, r)   == UNION {P[Q.Src] : Q \in {Z \in rels : Z.type = "ARGUMENT_TO_CALLEE" /\ r \in P[Z.Dst]}}
Returned(rels, P, r) == UNION {P[Q.Src] : Q \in {Z \in rels : Z.type = "RETURNED_TO_CALLER" /\ Z.Dst = r}}

(* What they have comes from one relation. *)
LEMMA ContentsAre ==
    ASSUME NEW rels, NEW P, NEW r
    PROVE  /\ \A x : x \in Stored(rels, P, r) <=>
                 \E Z \in rels : Z.type = "STORED_TO" /\ r \in P[Z.Dst] /\ x \in P[Z.Src]
           /\ \A x : x \in Passed(rels, P, r) <=>
                 \E Z \in rels : Z.type = "ARGUMENT_TO_CALLEE" /\ r \in P[Z.Dst] /\ x \in P[Z.Src]
           /\ \A x : x \in Returned(rels, P, r) <=>
                 \E Z \in rels : Z.type = "RETURNED_TO_CALLER" /\ Z.Dst = r /\ x \in P[Z.Src]
BY DEF Stored, Passed, Returned

(* All that Andersen's sets have flows. *)
LEMMA FlowIsComplete ==
    ASSUME NEW rels \in ProgramRelations, NEW P, NEW R, IsLeastFlow(P, R, rels), NEW v \in VIs
    PROVE  pt(Andersen(rels), v) \subseteq P[v]
<1> DEFINE B == [u \in Unknowns |->
                    CASE u[1] = "points-to"  -> P[u[2]]
                      [] u[1] = "memory"     -> Stored(rels, P, u[2])
                      [] u[1] = "parameters" -> Passed(rels, P, u[2])
                      [] u[1] = "return"     -> Returned(rels, P, u[2])]
<1>1. P \in ValueSets /\ R \in ValueSets /\ Flows(P, R, rels)
  BY DEF IsLeastFlow
<1>2. \A Q \in rels : /\ Q.Src \in VIs /\ Q.Dst \in VIs
                      /\ Q.type \in {"ARGUMENT_FROM_CALLER", "RETURNED_TO_CALLER"} => Q.Dst \in Regions
  BY RelationsType
<1>3. \A x \in VIs : P[x] \subseteq Regions
  <2> SUFFICES ASSUME NEW x \in VIs
               PROVE  P[x] \subseteq Regions
    OBVIOUS
  <2>1. Andersen(rels) \in Space
    BY AndersenIsLeast
  <2>2. pt(Andersen(rels), x) \subseteq Regions
    BY <2>1, SpaceType
  <2> QED  BY <2>2, FlowIsSound
<1>4. ASSUME NEW r
      PROVE  Stored(rels, P, r) \subseteq Regions /\ Passed(rels, P, r) \subseteq Regions /\ Returned(rels, P, r) \subseteq Regions
  <2>1. \A Z \in rels : P[Z.Src] \subseteq Regions
    BY <1>2, <1>3
  <2> QED  BY <2>1, ContentsAre
<1>5. /\ \A x \in VIs : pt(B, x) = P[x]
      /\ \A r \in Regions : /\ B[<<"memory", r>>] = Stored(rels, P, r)
                            /\ B[<<"parameters", r>>] = Passed(rels, P, r)
                            /\ B[<<"return", r>>] = Returned(rels, P, r)
  BY AreUnknowns DEF pt
<1>6. B \in Space
  <2> SUFFICES ASSUME NEW u \in Unknowns
               PROVE  B[u] \subseteq Regions
    BY DEF Space
  <2> HIDE DEF B
  <2>1. CASE \E x \in VIs : u = <<"points-to", x>>
    BY <1>3, <1>5, <2>1 DEF pt
  <2>2. ASSUME NEW r \in Regions, u = <<"memory", r>>
        PROVE  B[u] \subseteq Regions
    BY <1>4, <1>5, <2>2
  <2>3. ASSUME NEW r \in Regions, u = <<"parameters", r>>
        PROVE  B[u] \subseteq Regions
    BY <1>4, <1>5, <2>3
  <2>4. ASSUME NEW r \in Regions, u = <<"return", r>>
        PROVE  B[u] \subseteq Regions
    BY <1>4, <1>5, <2>4
  <2> QED  BY <2>1, <2>2, <2>3, <2>4, UnknownsAre
<1>7. ASSUME NEW r \in Regions, NEW x
      PROVE  /\ x \in B[<<"memory", r>>] <=> \E Z \in rels : Z.type = "STORED_TO" /\ r \in P[Z.Dst] /\ x \in P[Z.Src]
             /\ x \in B[<<"parameters", r>>] <=>
                   \E Z \in rels : Z.type = "ARGUMENT_TO_CALLEE" /\ r \in P[Z.Dst] /\ x \in P[Z.Src]
             /\ x \in B[<<"return", r>>] <=>
                   \E Z \in rels : Z.type = "RETURNED_TO_CALLER" /\ Z.Dst = r /\ x \in P[Z.Src]
  <2>1. B[<<"memory", r>>] = Stored(rels, P, r)
    BY <1>5
  <2>2. B[<<"parameters", r>>] = Passed(rels, P, r)
    BY <1>5
  <2>3. B[<<"return", r>>] = Returned(rels, P, r)
    BY <1>5
  <2> HIDE DEF B
  <2>4. x \in Stored(rels, P, r) <=> \E Z \in rels : Z.type = "STORED_TO" /\ r \in P[Z.Dst] /\ x \in P[Z.Src]
    BY ContentsAre
  <2>5. x \in Passed(rels, P, r) <=> \E Z \in rels : Z.type = "ARGUMENT_TO_CALLEE" /\ r \in P[Z.Dst] /\ x \in P[Z.Src]
    BY ContentsAre
  <2>6. x \in Returned(rels, P, r) <=> \E Z \in rels : Z.type = "RETURNED_TO_CALLER" /\ Z.Dst = r /\ x \in P[Z.Src]
    BY ContentsAre
  <2> QED  BY <2>1, <2>2, <2>3, <2>4, <2>5, <2>6
<1> HIDE DEF B
<1>8. \A x \in VIs : \A r \in P[x] : x \in R[r]
  BY FlowsAgree
<1>9. ASSUME NEW Q \in rels
      PROVE  Rule(B, Q)
  <2>0. Q.Src \in VIs /\ Q.Dst \in VIs /\ pt(B, Q.Dst) = P[Q.Dst] /\ pt(B, Q.Src) = P[Q.Src] /\ P[Q.Dst] \subseteq Regions
    BY <1>2, <1>3, <1>5
  <2>1. CASE Q.type = "DEPENDS_ON"
    BY <1>1, <2>0, <2>1 DEF Rule, Flows
  <2>2. CASE Q.type = "LOADED_FROM"
    <3>1. ASSUME NEW r \in P[Q.Dst], NEW x \in B[<<"memory", r>>]
          PROVE  x \in P[Q.Src]
      <4>1. PICK Z \in rels : Z.type = "STORED_TO" /\ r \in P[Z.Dst] /\ x \in P[Z.Src]
        BY <1>7, <2>0, <3>1
      <4>2. Z.Dst \in R[r]
        BY <1>2, <1>8, <4>1
      <4>3. P[Z.Src] \subseteq P[Q.Src]
        BY <1>1, <2>2, <4>1, <4>2 DEF Flows
      <4> QED  BY <4>1, <4>3
    <3> QED  BY <2>0, <2>2, <3>1 DEF Rule
  <2>3. CASE Q.type = "STORED_TO"
    <3>1. ASSUME NEW r \in P[Q.Dst], NEW x \in P[Q.Src]
          PROVE  x \in B[<<"memory", r>>]
      BY <1>7, <2>0, <2>3
    <3> QED  BY <2>0, <2>3, <3>1 DEF Rule
  <2>4. CASE Q.type = "ARGUMENT_TO_CALLEE"
    <3>1. ASSUME NEW r \in P[Q.Dst], NEW x \in P[Q.Src]
          PROVE  x \in B[<<"parameters", r>>]
      BY <1>7, <2>0, <2>4
    <3> QED  BY <2>0, <2>4, <3>1 DEF Rule
  <2>5. CASE Q.type = "ARGUMENT_FROM_CALLER"
    <3>1. ASSUME NEW x \in B[<<"parameters", Q.Dst>>]
          PROVE  x \in P[Q.Src]
      <4>0. Q.Dst \in Regions
        BY <1>2, <2>5
      <4>1. PICK Z \in rels : Z.type = "ARGUMENT_TO_CALLEE" /\ Q.Dst \in P[Z.Dst] /\ x \in P[Z.Src]
        BY <1>7, <4>0, <3>1
      <4>2. Z.Dst \in R[Q.Dst]
        BY <1>2, <1>8, <4>1
      <4>3. P[Z.Src] \subseteq P[Q.Src]
        BY <1>1, <2>5, <4>1, <4>2 DEF Flows
      <4> QED  BY <4>1, <4>3
    <3> QED  BY <2>0, <2>5, <3>1 DEF Rule
  <2>6. CASE Q.type = "RETURNED_TO_CALLER"
    <3>0. Q.Dst \in Regions
      BY <1>2, <2>6
    <3>1. ASSUME NEW x \in P[Q.Src]
          PROVE  x \in B[<<"return", Q.Dst>>]
      BY <1>7, <2>6, <3>0
    <3> QED  BY <2>0, <2>6, <3>1 DEF Rule
  <2>7. CASE Q.type = "RETURNED_FROM_CALLEE"
    <3>1. ASSUME NEW r \in P[Q.Dst], NEW x \in B[<<"return", r>>]
          PROVE  x \in P[Q.Src]
      <4>0. r \in Regions
        BY <2>0
      <4>1. PICK Z \in rels : Z.type = "RETURNED_TO_CALLER" /\ Z.Dst = r /\ x \in P[Z.Src]
        BY <1>7, <3>1, <4>0
      <4>3. P[Z.Src] \subseteq P[Q.Src]
        BY <1>1, <2>7, <3>1, <4>1 DEF Flows
      <4> QED  BY <4>1, <4>3
    <3> QED  BY <2>0, <2>7, <3>1 DEF Rule
  <2>8. Q.type \in RelationTypes
    BY RelationsType DEF Relations
  <2> QED  BY <2>1, <2>2, <2>3, <2>4, <2>5, <2>6, <2>7, <2>8 DEF RelationTypes
<1>10. \A r \in Regions : r \in pt(B, r)
  BY <1>1, <1>5, RegionsAssumption DEF Flows
<1>11. Obeys(B, rels)
  BY <1>9, <1>10 DEF Obeys
<1>12. Below(Andersen(rels), B) /\ Andersen(rels) \in Space
  BY <1>6, <1>11, AndersenIsLeast
<1>13. Andersen(rels)[<<"points-to", v>>] \subseteq B[<<"points-to", v>>]
  BY <1>12, AreUnknowns DEF Below, Space
<1> QED  BY <1>5, <1>13 DEF pt

-----------------------------------------------------------------------------
(* The invariant and the theorems. *)

(* The inductive invariant: handled relations are relations of a program,  *)
(* those of createData are among them, and the heap is what they make.     *)
Arranged ==
    /\ relations \in ProgramRelations
    /\ ToSet(createData) \subseteq relations
    /\ Holds(heap, AllInclusions(relations))
    /\ phase \in {INSTRUCTION_ANALYSIS_PHASE, ENUMERATION_PHASE}

(* The relations of createData are relations of a program, among them those *)
(* that close the externally accessible regions.                            *)
LEMMA DataRelations ==
    /\ createData \in Seq(Relations)
    /\ ToSet(createData) \in ProgramRelations
    /\ {Relation("DEPENDS_ON", EA, EL), Relation("ARGUMENT_TO_CALLEE", EA, EA), Relation("LOADED_FROM", EA, EA),
        Relation("RETURNED_FROM_CALLEE", EA, EA), Relation("STORED_TO", EA, EA)} \subseteq ToSet(createData)
<1>1. EA \in VIs /\ EL \in Regions /\ EL \in VIs
  BY ExternalsAssumption, RegionsAssumption DEF EA, EL
<1>2. \A t \in RelationTypes : \A s, d \in VIs :
         /\ Relation(t, s, d) \in Relations
         /\ Relation(t, s, d).type = t /\ Relation(t, s, d).Src = s /\ Relation(t, s, d).Dst = d
  BY DEF Relation, Relations
<1> DEFINE r1 == Relation("DEPENDS_ON", EA, EL)
           r2 == Relation("ARGUMENT_TO_CALLEE", EA, EA)
           r3 == Relation("LOADED_FROM", EA, EA)
           r4 == Relation("RETURNED_FROM_CALLEE", EA, EA)
           r5 == Relation("STORED_TO", EA, EA)
           r6 == Relation("ARGUMENT_FROM_CALLER", EA, EL)
           r7 == Relation("RETURNED_TO_CALLER", EA, EL)
<1>3. createData = <<r1, r2, r3, r4, r5, r6, r7>>
  BY DEF createData
<1>4. {r1, r2, r3, r4, r5, r6, r7} \subseteq Relations
  BY <1>1, <1>2 DEF RelationTypes
<1>5. \A r \in {r1, r2, r3, r4, r5, r6, r7} :
         r.type \in {"ARGUMENT_FROM_CALLER", "RETURNED_TO_CALLER"} => r.Dst \in Regions
  BY <1>1 DEF Relation
<1> HIDE DEF r1, r2, r3, r4, r5, r6, r7
<1>6. createData \in Seq(Relations)
  BY <1>3, <1>4
<1>7. ToSet(createData) = {r1, r2, r3, r4, r5, r6, r7}
  <2>1. DOMAIN createData = 1 .. 7
    BY <1>3
  <2>2. ToSet(createData) = {createData[i] : i \in 1 .. 7}
    BY <2>1 DEF ToSet
  <2>3. /\ createData[1] = r1 /\ createData[2] = r2 /\ createData[3] = r3 /\ createData[4] = r4
        /\ createData[5] = r5 /\ createData[6] = r6 /\ createData[7] = r7
    BY <1>3
  <2>4. \A i \in 1 .. 7 : i \in {1, 2, 3, 4, 5, 6, 7}
    OBVIOUS
  <2> QED  BY <2>2, <2>3, <2>4
<1>8. ToSet(createData) \in ProgramRelations
  BY <1>4, <1>5, <1>7 DEF ProgramRelations
<1>9. {r1, r2, r3, r4, r5} \subseteq ToSet(createData)
  BY <1>7
<1> QED  BY <1>6, <1>8, <1>9 DEF r1, r2, r3, r4, r5

(* createData establishes the invariant. *)
LEMMA ArrangedInit == Init => Arranged
<1> SUFFICES ASSUME Init PROVE Arranged
  OBVIOUS
<1>1. Holds(heap, AllInclusions(relations))
  BY DataRelations, HandleRelationsHolds DEF Init
<1> QED  BY <1>1, DataRelations DEF Init, Arranged

(* Only the first work item of a traversal is a transform, of the AR of *)
(* its first hop; the others include ARs that are in the heap.           *)
LEMMA WorksInHeap ==
    ASSUME Arranged, NEW a \in DOMAIN heap, NEW j \in DOMAIN heap[a].work
    PROVE  /\ heap[a].work[j].AR \in DOMAIN heap
           /\ Eq!IsTransform(heap[a].work[j]) =>
                 /\ j = 1 /\ a \in AnalysisResults /\ IsTraversal(a[1])
                 /\ heap[a].work[j] = Traverse(a)
<1> DEFINE I == AllInclusions(relations)
           c == heap[a]
<1>1. a \in AnalysisResults /\ IsCell(a, c, I) /\ (IsTraversal(a[1]) => FirstAR(a) \in DOMAIN heap)
      /\ I \subseteq (DOMAIN heap) \X (DOMAIN heap)
  BY DEF Arranged, Holds
<1> HIDE DEF I, c
<1>2. CASE IsTraversal(a[1]) /\ j = 1
  <2>1. c.work[j] = Traverse(a)
    BY <1>1, <1>2 DEF IsCell
  <2>2. Traverse(a).AR = FirstAR(a)
    BY DEF Traverse, Eq!TransformWork
  <2> QED  BY <1>1, <1>2, <2>1, <2>2 DEF c
<1>3. CASE \E s \in c.subsets : c.work[j] = Eq!SubsetWork(s)
  <2>1. PICK s \in c.subsets : c.work[j] = Eq!SubsetWork(s)
    BY <1>3
  <2>2. <<a, s>> \in I
    BY <1>1, <2>1 DEF IsCell
  <2>3. s \in DOMAIN heap
    BY <1>1, <2>2
  <2>4. c.work[j].AR = s /\ c.work[j].kind = "subset"
    BY <2>1 DEF Eq!SubsetWork
  <2> QED  BY <2>3, <2>4 DEF Eq!IsTransform, c
<1> QED  BY <1>1, <1>2, <1>3 DEF IsCell, c

(* The types of the transforms in the heap. *)
LEMMA TransformInHeap ==
    ASSUME Arranged, NEW a \in DOMAIN heap, NEW w \in ToSet(heap[a].work), Eq!IsTransform(w)
    PROVE  w.alg \in Algorithms /\ w.AR \in AnalysisResults
<1>1. PICK j \in DOMAIN heap[a].work : w = heap[a].work[j]
  BY DEF ToSet
<1>2. a \in AnalysisResults /\ IsTraversal(a[1]) /\ w = Traverse(a)
  BY <1>1, WorksInHeap
<1>3. w.alg = SecondHop(a[1]) /\ w.AR = FirstAR(a)
  BY <1>2 DEF Traverse, Eq!TransformWork
<1>4. FirstAR(a) \in AnalysisResults /\ SecondHop(a[1]) \in Algorithms
  BY <1>2, FirstARType, ARType, TraversalHops
<1> QED  BY <1>3, <1>4

(* Every step keeps the invariant. *)
LEMMA ArrangedNext == Arranged /\ [Next]_vars => Arranged'
<1> SUFFICES ASSUME Arranged, [Next]_vars PROVE Arranged'
  OBVIOUS
<1>1. ASSUME NEW R \in Relations, HandleRelation(R)
      PROVE  Arranged'
  <2>1. R.type \in {"ARGUMENT_FROM_CALLER", "RETURNED_TO_CALLER"} => R.Dst \in Regions
    BY <1>1 DEF HandleRelation, Arises, OwnRegion
  <2>2. relations' \in ProgramRelations
    BY <1>1, <2>1 DEF HandleRelation, Arranged, ProgramRelations
  <2>3. AllInclusions(relations') = AllInclusions(relations) \cup Inclusions(R)
    BY <1>1 DEF HandleRelation, AllInclusions
  <2>4. Holds(heap', AllInclusions(relations'))
    <3>1. Holds(handleRelation(heap, R), AllInclusions(relations) \cup Inclusions(R))
      BY HandleHolds DEF Arranged
    <3>2. heap' = handleRelation(heap, R)
      BY <1>1 DEF HandleRelation
    <3> QED  BY <2>3, <3>1, <3>2
  <2> QED  BY <1>1, <2>2, <2>4 DEF HandleRelation, Arranged
<1>2. CASE EndInstructionAnalysis
  BY <1>2 DEF EndInstructionAnalysis, Arranged
<1>3. CASE AnalyzeValueInfo
  <2> DEFINE S == Solution(heap)
  <2>1. S \in [AnalysisResults -> SUBSET VIs]
    BY SolutionSolves DEF Arranged
  <2> HIDE DEF S
  <2>2. PICK a \in DOMAIN heap : \E w \in ToSet(heap[a].work) :
            /\ Eq!IsTransform(w)
            /\ \E v \in S[w.AR] : heap' = getAlgorithmResult(heap, <<w.alg, v>>, ENUMERATION_PHASE)
    BY <1>3 DEF AnalyzeValueInfo, S
  <2>3. PICK w \in ToSet(heap[a].work) :
            /\ Eq!IsTransform(w)
            /\ \E v \in S[w.AR] : heap' = getAlgorithmResult(heap, <<w.alg, v>>, ENUMERATION_PHASE)
    BY <2>2
  <2>4. PICK v \in S[w.AR] : heap' = getAlgorithmResult(heap, <<w.alg, v>>, ENUMERATION_PHASE)
    BY <2>3
  <2>5. w.alg \in Algorithms /\ w.AR \in AnalysisResults
    BY <2>3, TransformInHeap
  <2>6. <<w.alg, v>> \in AnalysisResults
    BY <2>1, <2>4, <2>5 DEF AnalysisResults
  <2>7. Holds(heap', AllInclusions(relations))
    <3>1. CASE IsEmptyIfMissing(w.alg, ENUMERATION_PHASE)
      BY <2>4, <3>1 DEF getAlgorithmResult, Arranged
    <3>2. CASE ~IsEmptyIfMissing(w.alg, ENUMERATION_PHASE)
      <4>1. heap' = getOrCreateAlgorithmResult(heap, <<w.alg, v>>)
        BY <2>4, <3>2 DEF getAlgorithmResult
      <4> QED  BY <2>6, <4>1, GetOrCreateHolds DEF Arranged
    <3> QED  BY <3>1, <3>2
  <2> QED  BY <1>3, <2>7 DEF AnalyzeValueInfo, Arranged
<1>4. CASE UNCHANGED vars
  BY <1>4 DEF vars, Arranged
<1> QED  BY <1>1, <1>2, <1>3, <1>4 DEF Next

(* The invariant always holds. *)
LEMMA AlwaysArranged == Spec => []Arranged
BY ArrangedInit, ArrangedNext, PTL DEF Spec

(* The heap is well formed and every work item refers to an AR in it: an   *)
(* AR that is included, or traversed first, has been created with it.      *)
THEOREM RelationHandlerTypes == Spec => []TypeOK
<1>1. Arranged => TypeOK
  <2> SUFFICES ASSUME Arranged PROVE TypeOK
    OBVIOUS
  <2>1. DOMAIN heap \subseteq AnalysisResults /\ \A a \in DOMAIN heap : heap[a] \in Cells
    BY DEF Arranged, Holds
  <2>2. ASSUME NEW a \in DOMAIN heap, NEW w \in ToSet(heap[a].work)
        PROVE  w.AR \in DOMAIN heap
    <3>1. PICK j \in DOMAIN heap[a].work : w = heap[a].work[j]
      BY DEF ToSet
    <3> QED  BY <3>1, WorksInHeap
  <2>3. relations \subseteq Relations
    BY DEF Arranged, ProgramRelations
  <2> QED  BY <2>1, <2>2, <2>3 DEF TypeOK, Cells, Arranged
<1> QED  BY <1>1, AlwaysArranged, PTL

(* The two hops of a traversal determine it. *)
LEMMA HopsDetermine ==
    ASSUME NEW f \in Traversals, NEW g \in Traversals, FirstHop(f) = FirstHop(g), SecondHop(f) = SecondHop(g)
    PROVE  f = g
<1>1. \A t \in TwoHops : \E x, y : t = <<x, y>>
  BY DEF TwoHops
<1>2. \A t \in ThreeHops : \E x, y, z : t = <<x, y, z>>
  BY DEF ThreeHops
<1>3. CASE f \in TwoHops /\ g \in TwoHops
  <2>1. PICK x, y : f = <<x, y>>
    BY <1>1, <1>3
  <2>2. PICK p, q : g = <<p, q>>
    BY <1>1, <1>3
  <2>3. FirstHop(f) = <<x>> /\ SecondHop(f) = <<y>> /\ FirstHop(g) = <<p>> /\ SecondHop(g) = <<q>>
    BY <2>1, <2>2, Hops
  <2> QED  BY <2>1, <2>2, <2>3
<1>4. CASE f \in ThreeHops /\ g \in ThreeHops
  <2>1. PICK x, y, z : f = <<x, y, z>>
    BY <1>2, <1>4
  <2>2. PICK p, q, r : g = <<p, q, r>>
    BY <1>2, <1>4
  <2>3. FirstHop(f) = <<x>> /\ SecondHop(f) = <<y, z>> /\ FirstHop(g) = <<p>> /\ SecondHop(g) = <<q, r>>
    BY <2>1, <2>2, Hops
  <2> QED  BY <2>1, <2>2, <2>3
<1>5. ASSUME NEW t \in TwoHops, NEW u \in ThreeHops
      PROVE  SecondHop(t) # SecondHop(u)
  <2>1. PICK x, y : t = <<x, y>>
    BY <1>1
  <2>2. PICK p, q, r : u = <<p, q, r>>
    BY <1>2
  <2>3. SecondHop(t) = <<y>> /\ SecondHop(u) = <<q, r>>
    BY <2>1, <2>2, Hops
  <2>4. Len(<<y>>) = 1 /\ Len(<<q, r>>) = 2
    OBVIOUS
  <2> QED  BY <2>3, <2>4
<1> QED  BY <1>3, <1>4, <1>5, TraversalsAre

(* TransformWorkBase.cpp:82-84 says that each distinct transform step is   *)
(* only ever created once; it relies on this.                              *)
THEOREM TransformsAreDistinct == Spec => []TransformsDistinct
<1>1. Arranged => TransformsDistinct
  <2> SUFFICES ASSUME Arranged,
                      NEW a \in DOMAIN heap, NEW b \in DOMAIN heap,
                      NEW j \in DOMAIN heap[a].work, NEW k \in DOMAIN heap[b].work,
                      Eq!IsTransform(heap[a].work[j]), Eq!IsTransform(heap[b].work[k]),
                      heap[a].work[j].alg = heap[b].work[k].alg, heap[a].work[j].AR = heap[b].work[k].AR
               PROVE  a = b /\ j = k
    BY DEF TransformsDistinct
  <2>1. /\ j = 1 /\ k = 1
        /\ a \in AnalysisResults /\ IsTraversal(a[1]) /\ heap[a].work[j] = Traverse(a)
        /\ b \in AnalysisResults /\ IsTraversal(b[1]) /\ heap[b].work[k] = Traverse(b)
    BY WorksInHeap
  <2>2. SecondHop(a[1]) = SecondHop(b[1]) /\ FirstAR(a) = FirstAR(b)
    BY <2>1 DEF Traverse, Eq!TransformWork
  <2>3. FirstHop(a[1]) = FirstHop(b[1]) /\ a[2] = b[2]
    BY <2>2 DEF FirstAR
  <2>4. a[1] \in Traversals /\ b[1] \in Traversals
    BY <2>1, ARType, TraversalHops
  <2>5. a[1] = b[1]
    BY <2>2, <2>3, <2>4, HopsDetermine
  <2>6. a = <<a[1], a[2]>> /\ b = <<b[1], b[2]>>
    BY <2>1, ARType
  <2> QED  BY <2>1, <2>3, <2>5, <2>6
<1> QED  BY <1>1, AlwaysArranged, PTL

(* What the least solution of the heap's equations is. *)
LEMMA SolutionIsFlow ==
    ASSUME Arranged
    PROVE  /\ IsLeastFlow(SetsOf(Solution(heap), PointsToSet), SetsOf(Solution(heap), ReversePointsTo), relations)
           /\ \A v \in VIs : /\ SetsOf(Solution(heap), PointsToSet)[v] = Solution(heap)[<<PointsToSet, v>>]
                             /\ SetsOf(Solution(heap), ReversePointsTo)[v] = Solution(heap)[<<ReversePointsTo, v>>]
<1>1. relations \subseteq Relations /\ Holds(heap, AllInclusions(relations))
  BY DEF Arranged, ProgramRelations
<1>2. IsLeastFlow(SetsOf(Solution(heap), PointsToSet), SetsOf(Solution(heap), ReversePointsTo), relations)
  BY <1>1, SolutionIsLeastFlow DEF IsLeastFlow
<1> QED  BY <1>2 DEF SetsOf

(* The least solution has Andersen's points-to sets. *)
LEMMA PointsToIs ==
    ASSUME Arranged, NEW v \in VIs
    PROVE  Solution(heap)[<<PointsToSet, v>>] = pt(Andersen(relations), v)
<1> DEFINE P == SetsOf(Solution(heap), PointsToSet)
           R == SetsOf(Solution(heap), ReversePointsTo)
<1>1. IsLeastFlow(P, R, relations) /\ P[v] = Solution(heap)[<<PointsToSet, v>>] /\ relations \in ProgramRelations
  BY SolutionIsFlow DEF Arranged
<1> HIDE DEF P, R
<1>2. P[v] \subseteq pt(Andersen(relations), v)
  BY <1>1, FlowIsSound
<1>3. pt(Andersen(relations), v) \subseteq P[v]
  BY <1>1, FlowIsComplete
<1> QED  BY <1>1, <1>2, <1>3

(* RelationHandler.cpp:213-233: whatever relations there are and in        *)
(* whatever order they are handled, the least solution of the equations is *)
(* Andersen's points-to sets.                                              *)
THEOREM EquationsAreAndersen == Spec => []PointsToIsAndersen
<1>1. Arranged => PointsToIsAndersen
  BY PointsToIs DEF PointsToIsAndersen
<1> QED  BY <1>1, AlwaysArranged, PTL

(* ReversePointsToAlgorithm.h:26: the rules for the points-to sets and     *)
(* those for the reverse points-to sets agree.                             *)
THEOREM ReverseSetsAgree == Spec => []ReverseIsInverse
<1>1. Arranged => ReverseIsInverse
  <2> SUFFICES ASSUME Arranged PROVE ReverseIsInverse
    OBVIOUS
  <2> DEFINE P == SetsOf(Solution(heap), PointsToSet)
             R == SetsOf(Solution(heap), ReversePointsTo)
  <2>1. /\ IsLeastFlow(P, R, relations)
        /\ \A v \in VIs : P[v] = Solution(heap)[<<PointsToSet, v>>] /\ R[v] = Solution(heap)[<<ReversePointsTo, v>>]
        /\ relations \in ProgramRelations
    BY SolutionIsFlow DEF Arranged
  <2> HIDE DEF P, R
  <2>2. \A v \in VIs : (\A r \in P[v] : v \in R[r]) /\ (\A w \in R[v] : P[v] \subseteq P[w])
    BY <2>1, FlowsAgree
  <2>3. /\ \A v \in VIs : R[v] \subseteq VIs
        /\ \A r \in Regions : r \in P[r] /\ r \in VIs
    BY <2>1, RegionsAssumption DEF IsLeastFlow, ValueSets, Flows
  <2>4. ASSUME NEW r \in Regions
        PROVE  R[r] = {v \in VIs : r \in P[v]}
    BY <2>2, <2>3
  <2>5. ASSUME NEW r \in Regions
        PROVE  Solution(heap)[<<ReversePointsTo, r>>] = {v \in VIs : r \in Solution(heap)[<<PointsToSet, v>>]}
    <3>1. R[r] = Solution(heap)[<<ReversePointsTo, r>>]
      BY <2>1, <2>3
    <3>2. \A v \in VIs : r \in P[v] <=> r \in Solution(heap)[<<PointsToSet, v>>]
      BY <2>1
    <3> QED  BY <2>4, <3>1, <3>2
  <2>6. ASSUME NEW v \in VIs, NEW w \in Solution(heap)[<<ReversePointsTo, v>>]
        PROVE  Solution(heap)[<<PointsToSet, v>>] \subseteq Solution(heap)[<<PointsToSet, w>>]
    BY <2>1, <2>2, <2>3
  <2> QED  BY <2>5, <2>6 DEF ReverseIsInverse
<1> QED  BY <1>1, AlwaysArranged, PTL

(* InstructionAnalyzer.cpp:247-274: the relations of createData close the  *)
(* externally accessible regions under all that external code can do.      *)
THEOREM EscapesAreClosed == Spec => []EscapeIsClosed
<1>1. Arranged => EscapeIsClosed
  <2> SUFFICES ASSUME Arranged PROVE EscapeIsClosed
    OBVIOUS
  <2> DEFINE S == Solution(heap)
             A == Andersen(relations)
             Accessible == S[<<PointsToSet, EA>>]
  <2>1. EA \in VIs /\ EL \in VIs
    BY ExternalsAssumption, RegionsAssumption DEF EA, EL
  <2>2. S[<<PointsToSet, EL>>] = pt(A, EL) /\ Accessible = pt(A, EA)
    BY <2>1, PointsToIs
  <2>3. relations \in ProgramRelations
    BY DEF Arranged
  <2>4. \A R \in relations : Rule(A, R)
    BY <2>3, AndersenIsLeast DEF Obeys
  <2> HIDE DEF S, A, Accessible
  <2>5. /\ Rule(A, Relation("DEPENDS_ON", EA, EL)) /\ Rule(A, Relation("ARGUMENT_TO_CALLEE", EA, EA))
        /\ Rule(A, Relation("LOADED_FROM", EA, EA)) /\ Rule(A, Relation("RETURNED_FROM_CALLEE", EA, EA))
        /\ Rule(A, Relation("STORED_TO", EA, EA))
    BY <2>4, DataRelations DEF Arranged
  <2>6. /\ pt(A, EL) \subseteq pt(A, EA)
        /\ \A r \in pt(A, EA) : /\ A[<<"memory", r>>] \subseteq pt(A, EA)
                                /\ pt(A, EA) \subseteq A[<<"memory", r>>]
                                /\ A[<<"return", r>>] \subseteq pt(A, EA)
                                /\ pt(A, EA) \subseteq A[<<"parameters", r>>]
    BY <2>5 DEF Rule, Relation
  <2>7. /\ S[<<PointsToSet, EL>>] \subseteq Accessible
        /\ \A r \in Accessible : /\ A[<<"memory", r>>] = Accessible
                                 /\ A[<<"return", r>>] \subseteq Accessible
                                 /\ Accessible \subseteq A[<<"parameters", r>>]
    BY <2>2, <2>6
  <2> QED  BY <2>7 DEF EscapeIsClosed, S, A, Accessible
<1> QED  BY <1>1, AlwaysArranged, PTL
=============================================================================
